------------------------------ MODULE Dftl_proofs ------------------------------
(***************************************************************************)
(* Proofs about Dftl, and after them about Bdftl, for every geometry,      *)
(* cache size and collection limit.  No proof about Dftl cites the         *)
(* assumption of Bdftl, WholeLogicalBlocks.                                *)
(***************************************************************************)
EXTENDS Bdftl, FtlLemmas

---------------------------------------------------------------------------
(* The stack of calls.                                                     *)

\* Who calls whom, by the names of the frames.
Calls(p, q) ==
  \/ p \in {"page", "take"} /\ q \in {"write", "copy"}
  \/ p \in {"insert", "erase"} /\ q \in {"page", "take"}
  \/ p \in {"cleanup", "copy"} /\ q = "erase"

\* Two points of one function.
SameFunction(p, q) ==
  \/ p \in {"page", "take"} /\ q \in {"page", "take"}
  \/ p \in {"insert", "erase"} /\ q \in {"insert", "erase"}
  \/ p \in {"cleanup", "copy"} /\ q \in {"cleanup", "copy"}

\* insert_events erases a block it counts, cleanup_block copies a page of the
\* block.
LiveFrames ==
  {f \in Frames : /\ f.proc = "erase" => f.num_to_erase # 0
                  /\ f.proc = "copy" => f.i < BLOCK_SIZE}

StackSound(st) ==
  /\ st \in Seq(LiveFrames)
  /\ st # << >> => st[Len(st)].proc = "write"
  /\ \A i \in 1 .. Len(st) - 1 : Calls(st[i].proc, st[i + 1].proc)

\* The frame of each function.
LEMMA FrameKinds ==
  ASSUME NEW f \in LiveFrames
  PROVE  /\ f.proc \in {"page", "take", "insert", "erase", "cleanup", "copy", "write"}
         /\ f.proc \in {"page", "take"} => f \in PageFrame
         /\ f.proc \in {"insert", "erase"} => f \in InsertFrame
         /\ f.proc \in {"cleanup", "copy"} => f \in CleanupFrame
         /\ f.proc = "write" => f \in WriteFrame
  BY DEF LiveFrames, Frames, PageFrame, InsertFrame, CleanupFrame, WriteFrame

LEMMA SoundFrames ==
  ASSUME NEW st, StackSound(st)
  PROVE  st \in Seq(Frames)
  <1>1. st \in Seq(LiveFrames) /\ LiveFrames \subseteq Frames
    BY DEF StackSound, LiveFrames
  <1>. QED
    BY <1>1

\* A return, a step within a function and a call, on any stack ...
LEMMA ReturnStack ==
  ASSUME NEW S, NEW st \in Seq(S), st # << >>
  PROVE  /\ Len(st) \in Nat /\ Len(st) >= 1
         /\ Head(st) = st[1] /\ st[1] \in S
         /\ Tail(st) \in Seq(S) /\ Len(Tail(st)) = Len(st) - 1
         /\ \A i \in 1 .. Len(st) - 1 : Tail(st)[i] = st[i + 1]
  OBVIOUS

LEMMA BecomeStack ==
  ASSUME NEW S, NEW st \in Seq(S), st # << >>, NEW f \in S
  PROVE  /\ <<f>> \o Tail(st) \in Seq(S)
         /\ Len(<<f>> \o Tail(st)) = Len(st)
         /\ (<<f>> \o Tail(st))[1] = f
         /\ \A i \in 2 .. Len(st) : (<<f>> \o Tail(st))[i] = st[i]
  <1>1. /\ Len(st) \in Nat /\ Len(st) >= 1
        /\ Tail(st) \in Seq(S) /\ Len(Tail(st)) = Len(st) - 1
        /\ \A i \in 1 .. Len(st) - 1 : Tail(st)[i] = st[i + 1]
    BY ReturnStack
  <1>2. <<f>> \in Seq(S) /\ Len(<<f>>) = 1 /\ <<f>>[1] = f
    OBVIOUS
  <1>3. \A i \in 2 .. Len(st) : (<<f>> \o Tail(st))[i] = Tail(st)[i - 1]
    BY <1>1, <1>2
  <1>4. \A i \in 2 .. Len(st) : Tail(st)[i - 1] = st[i]
    BY <1>1
  <1>. QED
    BY <1>1, <1>2, <1>3, <1>4

LEMMA CallStack ==
  ASSUME NEW S, NEW st \in Seq(S), st # << >>, NEW f \in S, NEW g \in S
  PROVE  /\ <<f, g>> \o Tail(st) \in Seq(S)
         /\ Len(<<f, g>> \o Tail(st)) = Len(st) + 1
         /\ (<<f, g>> \o Tail(st))[1] = f
         /\ (<<f, g>> \o Tail(st))[2] = g
         /\ \A i \in 2 .. Len(st) : (<<f, g>> \o Tail(st))[i + 1] = st[i]
  <1>1. /\ Len(st) \in Nat /\ Len(st) >= 1
        /\ Tail(st) \in Seq(S) /\ Len(Tail(st)) = Len(st) - 1
        /\ \A i \in 1 .. Len(st) - 1 : Tail(st)[i] = st[i + 1]
    BY ReturnStack
  <1>2. <<f, g>> \in Seq(S) /\ Len(<<f, g>>) = 2 /\ <<f, g>>[1] = f /\ <<f, g>>[2] = g
    OBVIOUS
  <1>3. \A i \in 2 .. Len(st) : (<<f, g>> \o Tail(st))[i + 1] = Tail(st)[i - 1]
    BY <1>1, <1>2
  <1>4. \A i \in 2 .. Len(st) : Tail(st)[i - 1] = st[i]
    BY <1>1
  <1>. QED
    BY <1>1, <1>2, <1>3, <1>4

\* ... keep it sound.
LEMMA SoundReturn ==
  ASSUME NEW st, StackSound(st), st # << >>
  PROVE  StackSound(Tail(st))
  <1>1. st \in Seq(LiveFrames)
    BY DEF StackSound
  <1>2. /\ Len(st) \in Nat /\ Len(st) >= 1
        /\ Tail(st) \in Seq(LiveFrames) /\ Len(Tail(st)) = Len(st) - 1
        /\ \A i \in 1 .. Len(st) - 1 : Tail(st)[i] = st[i + 1]
    BY <1>1, ReturnStack
  <1>3. Tail(st) # << >> => Len(Tail(st)) >= 1
    BY <1>2
  <1>4. Tail(st) # << >> => Tail(st)[Len(Tail(st))].proc = "write"
    BY <1>2, <1>3 DEF StackSound
  <1>5. \A i \in 1 .. Len(Tail(st)) - 1 : Calls(Tail(st)[i].proc, Tail(st)[i + 1].proc)
    BY <1>2 DEF StackSound
  <1>. QED
    BY <1>2, <1>4, <1>5 DEF StackSound

LEMMA SoundBecome ==
  ASSUME NEW st, StackSound(st), st # << >>,
         NEW f \in LiveFrames, SameFunction(f.proc, st[1].proc)
  PROVE  StackSound(<<f>> \o Tail(st))
  <1>. DEFINE u == <<f>> \o Tail(st)
  <1>1. st \in Seq(LiveFrames)
    BY DEF StackSound
  <1>2. Len(st) \in Nat /\ Len(st) >= 1
    BY <1>1, ReturnStack
  <1>3. /\ u \in Seq(LiveFrames) /\ Len(u) = Len(st) /\ u[1] = f
        /\ \A i \in 2 .. Len(st) : u[i] = st[i]
    BY <1>1, BecomeStack
  <1>. HIDE DEF u
  <1>4. Len(st) >= 2
    <2>1. Len(st) = 1 => FALSE
      BY DEF StackSound, SameFunction
    <2>2. \A n \in Nat : n >= 1 /\ n # 1 => n >= 2
      OBVIOUS
    <2>. QED
      BY <1>2, <2>1, <2>2, Zenon
  <1>5. u[Len(u)].proc = "write"
    BY <1>2, <1>3, <1>4 DEF StackSound
  <1>6. Calls(st[1].proc, st[2].proc)
    <2>1. 1 \in 1 .. Len(st) - 1 /\ 1 + 1 = 2
      BY <1>2, <1>4
    <2>. QED
      BY <2>1 DEF StackSound
  <1>7. Calls(u[1].proc, u[2].proc)
    BY <1>2, <1>3, <1>4, <1>6 DEF Calls, SameFunction
  <1>8. \A i \in 1 .. Len(u) - 1 : Calls(u[i].proc, u[i + 1].proc)
    <2>. SUFFICES ASSUME NEW i \in 1 .. Len(u) - 1, i # 1
                  PROVE  Calls(u[i].proc, u[i + 1].proc)
      BY <1>7
    <2>1. i \in 2 .. Len(st) /\ i + 1 \in 2 .. Len(st) /\ i \in 1 .. Len(st) - 1
      BY <1>2, <1>3
    <2>. QED
      BY <1>3, <2>1 DEF StackSound
  <1>. QED
    BY <1>3, <1>5, <1>8 DEF StackSound, u

LEMMA SoundCall ==
  ASSUME NEW st, StackSound(st), st # << >>,
         NEW f \in LiveFrames, NEW g \in LiveFrames,
         SameFunction(g.proc, st[1].proc), Calls(f.proc, g.proc)
  PROVE  StackSound(<<f, g>> \o Tail(st))
  <1>. DEFINE u == <<f, g>> \o Tail(st)
  <1>1. st \in Seq(LiveFrames)
    BY DEF StackSound
  <1>2. Len(st) \in Nat /\ Len(st) >= 1
    BY <1>1, ReturnStack
  <1>3. /\ u \in Seq(LiveFrames) /\ Len(u) = Len(st) + 1 /\ u[1] = f /\ u[2] = g
        /\ \A i \in 2 .. Len(st) : u[i + 1] = st[i]
    BY <1>1, CallStack
  <1>. HIDE DEF u
  <1>4. Len(st) >= 2
    <2>1. Len(st) = 1 => FALSE
      BY DEF StackSound, SameFunction
    <2>2. \A n \in Nat : n >= 1 /\ n # 1 => n >= 2
      OBVIOUS
    <2>. QED
      BY <1>2, <2>1, <2>2, Zenon
  <1>5. u[Len(u)].proc = "write"
    <2>1. Len(st) \in 2 .. Len(st)
      BY <1>2, <1>4
    <2>2. u[Len(u)] = st[Len(st)]
      BY <1>3, <2>1
    <2>. QED
      BY <2>2 DEF StackSound
  <1>6. Calls(st[1].proc, st[2].proc)
    <2>1. 1 \in 1 .. Len(st) - 1 /\ 1 + 1 = 2
      BY <1>2, <1>4
    <2>. QED
      BY <2>1 DEF StackSound
  <1>7. u[3] = st[2]
    <2>1. 2 \in 2 .. Len(st) /\ 2 + 1 = 3
      BY <1>2, <1>4
    <2>. QED
      BY <1>3, <2>1
  <1>8. Calls(u[1].proc, u[2].proc) /\ Calls(u[2].proc, u[3].proc)
    BY <1>3, <1>6, <1>7 DEF Calls, SameFunction
  <1>9. \A i \in 1 .. Len(u) - 1 : Calls(u[i].proc, u[i + 1].proc)
    <2>. SUFFICES ASSUME NEW i \in 1 .. Len(u) - 1, i # 1, i # 2
                  PROVE  Calls(u[i].proc, u[i + 1].proc)
      BY <1>8
    <2>1. /\ i - 1 \in 2 .. Len(st) /\ i \in 2 .. Len(st) /\ i - 1 \in 1 .. Len(st) - 1
          /\ (i - 1) + 1 = i
      BY <1>2, <1>3
    <2>2. u[i] = st[i - 1] /\ u[i + 1] = st[i]
      BY <1>3, <2>1
    <2>3. Calls(st[i - 1].proc, st[(i - 1) + 1].proc)
      BY <2>1 DEF StackSound
    <2>. QED
      BY <2>1, <2>2, <2>3
  <1>. QED
    BY <1>3, <1>5, <1>9 DEF StackSound, u


\* A function under way called one more.
LEMMA SoundPush ==
  ASSUME NEW st, StackSound(st), st # << >>,
         NEW f \in LiveFrames, Calls(f.proc, st[1].proc)
  PROVE  /\ StackSound(<<f>> \o st)
         /\ Len(<<f>> \o st) = Len(st) + 1
         /\ (<<f>> \o st)[1] = f
         /\ \A i \in 1 .. Len(st) : (<<f>> \o st)[i + 1] = st[i]
  <1>. DEFINE u == <<f>> \o st
  <1>1. st \in Seq(LiveFrames)
    BY DEF StackSound
  <1>2. Len(st) \in Nat /\ Len(st) >= 1
    BY <1>1, ReturnStack
  <1>3. <<f>> \in Seq(LiveFrames) /\ Len(<<f>>) = 1 /\ <<f>>[1] = f
    OBVIOUS
  <1>4. /\ u \in Seq(LiveFrames) /\ Len(u) = Len(st) + 1 /\ u[1] = f
        /\ \A i \in 1 .. Len(st) : u[i + 1] = st[i]
    BY <1>1, <1>2, <1>3
  <1>. HIDE DEF u
  <1>5. u[Len(u)].proc = "write"
    <2>1. Len(st) \in 1 .. Len(st)
      BY <1>2
    <2>2. u[Len(u)] = st[Len(st)]
      BY <1>4, <2>1
    <2>. QED
      BY <2>2 DEF StackSound
  <1>6. u[2] = st[1]
    <2>1. 1 \in 1 .. Len(st) /\ 1 + 1 = 2
      BY <1>2
    <2>. QED
      BY <1>4, <2>1
  <1>7. \A i \in 1 .. Len(u) - 1 : Calls(u[i].proc, u[i + 1].proc)
    <2>. SUFFICES ASSUME NEW i \in 1 .. Len(u) - 1, i # 1
                  PROVE  Calls(u[i].proc, u[i + 1].proc)
      BY <1>4, <1>6
    <2>1. /\ i - 1 \in 1 .. Len(st) /\ i \in 1 .. Len(st) /\ i - 1 \in 1 .. Len(st) - 1
          /\ (i - 1) + 1 = i
      BY <1>2, <1>4
    <2>2. u[i] = st[i - 1] /\ u[i + 1] = st[i]
      BY <1>4, <2>1
    <2>3. Calls(st[i - 1].proc, st[(i - 1) + 1].proc)
      BY <2>1 DEF StackSound
    <2>. QED
      BY <2>1, <2>2, <2>3
  <1>. QED
    BY <1>4, <1>5, <1>7 DEF StackSound, u

\* The stack a write begins with.
LEMMA SoundWrite ==
  ASSUME NEW l \in Lpns, NEW d \in Payloads,
         NEW st, st = <<[proc |-> "page"], [proc |-> "write", lpn |-> l, payload |-> d]>>
  PROVE  /\ StackSound(st) /\ Len(st) = 2
         /\ st[1] = [proc |-> "page"]
         /\ st[2] = [proc |-> "write", lpn |-> l, payload |-> d]
  <1>1. /\ [proc |-> "page"] \in LiveFrames
        /\ [proc |-> "write", lpn |-> l, payload |-> d] \in LiveFrames
    BY DEF LiveFrames, Frames, PageFrame, WriteFrame
  <1>2. st \in Seq(LiveFrames)
    BY <1>1
  <1>3. /\ Len(st) = 2 /\ st[1].proc = "page" /\ st[2].proc = "write"
        /\ st[1] = [proc |-> "page"]
        /\ st[2] = [proc |-> "write", lpn |-> l, payload |-> d]
    OBVIOUS
  <1>4. \A i \in 1 .. Len(st) - 1 : i = 1
    BY <1>3
  <1>. QED
    BY <1>2, <1>3, <1>4 DEF StackSound, Calls

---------------------------------------------------------------------------
(* Types.                                                                  *)

\* A page handed out is there to be written.
TypeInv ==
  /\ TypeOK
  /\ StackSound(stack)
  /\ stack # << >> /\ stack[1].proc \in {"write", "copy"} => currentDataPage \in Ppns

\* The top of the stack.
LEMMA TopFacts ==
  ASSUME TypeInv, NEW proc, At(proc)
  PROVE  /\ stack \in Seq(LiveFrames) /\ StackSound(stack) /\ stack # << >> /\ Running
         /\ top = stack[1] /\ top \in LiveFrames /\ top.proc = proc
         /\ proc \in {"write", "copy"} => currentDataPage \in Ppns
  <1>1. stack \in Seq(LiveFrames) /\ stack # << >>
    BY DEF TypeInv, StackSound, At
  <1>2. Head(stack) = stack[1] /\ stack[1] \in LiveFrames
    BY <1>1, ReturnStack
  <1>. QED
    BY <1>1, <1>2 DEF TypeInv, At, top

\* The types without those of the stack.
OtherTypes ==
  /\ flash \in FlashType
  /\ bm \in BlockManagerType
  /\ ppn \in [Lpns -> Ppns \cup {NoPpn}]
  /\ reverse_trans_map \in [Ppns -> Lpns \cup {NoLpn}]
  /\ cached \in SUBSET Lpns
  /\ cmt \in Int
  /\ currentDataPage \in Ppns \cup {NoPpn}
  /\ abort \in Aborts

\* The function on top returns, to one that awaits a page or to another one.
LEMMA ReturnKeeps ==
  ASSUME TypeInv, NEW proc, At(proc), Return, OtherTypes',
         proc \in {"page", "take"} => currentDataPage' \in Ppns
  PROVE  TypeInv'
  <1>1. /\ stack \in Seq(LiveFrames) /\ StackSound(stack) /\ stack # << >>
        /\ stack[1].proc = proc
    BY TopFacts
  <1>2. StackSound(stack')
    BY <1>1, SoundReturn DEF Return
  <1>3. stack' \in Seq(Frames)
    BY <1>2, SoundFrames
  <1>4. stack' # << >> /\ stack'[1].proc \in {"write", "copy"} => proc \in {"page", "take"}
    <2>. SUFFICES ASSUME stack' # << >>, stack'[1].proc \in {"write", "copy"}
                  PROVE  proc \in {"page", "take"}
      OBVIOUS
    <2>1. /\ Len(stack) \in Nat /\ Len(stack) >= 1
          /\ Len(stack') = Len(stack) - 1 /\ stack' \in Seq(LiveFrames)
          /\ \A i \in 1 .. Len(stack) - 1 : stack'[i] = stack[i + 1]
      BY <1>1, ReturnStack DEF Return
    <2>2. Len(stack') >= 1
      BY <2>1
    <2>3. 1 \in 1 .. Len(stack) - 1 /\ 1 + 1 = 2
      BY <2>1, <2>2
    <2>4. Calls(stack[1].proc, stack[2].proc) /\ stack'[1] = stack[2]
      BY <1>1, <2>1, <2>3 DEF StackSound
    <2>. QED
      BY <1>1, <2>4 DEF Calls
  <1>. QED
    BY <1>2, <1>3, <1>4 DEF TypeInv, TypeOK, OtherTypes

\* It goes on, ...
LEMMA BecomeKeeps ==
  ASSUME TypeInv, NEW proc, At(proc), NEW f \in LiveFrames, Become(f), OtherTypes',
         SameFunction(f.proc, proc), f.proc \notin {"write", "copy"}
  PROVE  TypeInv'
  <1>1. /\ stack \in Seq(LiveFrames) /\ StackSound(stack) /\ stack # << >>
        /\ stack[1].proc = proc
    BY TopFacts
  <1>2. StackSound(stack')
    BY <1>1, SoundBecome DEF Become
  <1>3. stack' \in Seq(Frames)
    BY <1>2, SoundFrames
  <1>4. stack'[1] = f
    BY <1>1, BecomeStack DEF Become
  <1>. QED
    BY <1>2, <1>3, <1>4 DEF TypeInv, TypeOK, OtherTypes

\* ... calls another one, ...
LEMMA CallKeeps ==
  ASSUME TypeInv, NEW proc, At(proc), NEW f \in LiveFrames, NEW g \in LiveFrames, Call(f, g),
         OtherTypes', SameFunction(g.proc, proc), Calls(f.proc, g.proc),
         f.proc \notin {"write", "copy"}
  PROVE  TypeInv'
  <1>1. /\ stack \in Seq(LiveFrames) /\ StackSound(stack) /\ stack # << >>
        /\ stack[1].proc = proc
    BY TopFacts
  <1>2. StackSound(stack')
    BY <1>1, SoundCall DEF Call
  <1>3. stack' \in Seq(Frames)
    BY <1>2, SoundFrames
  <1>4. stack'[1] = f
    BY <1>1, CallStack DEF Call
  <1>. QED
    BY <1>2, <1>3, <1>4 DEF TypeInv, TypeOK, OtherTypes

\* ... or calls insert_events, which may return at once.
LEMMA InsertKeeps ==
  ASSUME TypeInv, NEW rest, StackSound(rest), rest # << >>,
         rest[1].proc \in {"page", "take"}, InsertEventsThen(rest), OtherTypes'
  PROVE  TypeInv'
  <1>1. CASE stack' = rest
    <2>1. stack' \in Seq(Frames)
      BY <1>1, SoundFrames
    <2>. QED
      BY <1>1, <2>1 DEF TypeInv, TypeOK, OtherTypes
  <1>2. CASE stack' # rest
    <2>1. PICK b \in Costliest(flash, Blocks) :
             stack' = <<[proc |-> "insert", num_to_erase |-> NUM_TO_ERASE, it |-> b]>> \o rest
      BY <1>2 DEF InsertEventsThen
    <2>. DEFINE f == [proc |-> "insert", num_to_erase |-> NUM_TO_ERASE, it |-> b]
    <2>2. f \in LiveFrames
      BY BlockListsAssumption DEF LiveFrames, Frames, InsertFrame, Costliest
    <2>3. f.proc = "insert"
      OBVIOUS
    <2>4. stack' = <<f>> \o rest
      BY <2>1
    <2>. HIDE DEF f
    <2>5. Calls(f.proc, rest[1].proc)
      BY <2>3 DEF Calls
    <2>6. StackSound(stack') /\ stack'[1] = f
      BY <2>2, <2>4, <2>5, SoundPush
    <2>7. stack' \in Seq(Frames)
      BY <2>6, SoundFrames
    <2>. QED
      BY <2>3, <2>6, <2>7 DEF TypeInv, TypeOK, OtherTypes
  <1>. QED
    BY <1>1, <1>2

LEMMA NextVictimType ==
  ASSUME NEW f, NEW b \in NextVictims(f)
  PROVE  b \in Blocks
  BY DEF NextVictims, Costliest

\* What the host asks for.
LEMMA CacheType ==
  ASSUME TypeInv, NEW l \in Lpns, resolve_mapping(l)
  PROVE  cached' \in SUBSET Lpns /\ cmt' \in Int
  <1>1. cached \in SUBSET Lpns /\ cmt \in Int
    BY DEF TypeInv, TypeOK
  <1>2. Evictions \in Int
    BY <1>1, DftlAssumption DEF Evictions
  <1>. QED
    BY <1>1, <1>2 DEF resolve_mapping, cache

LEMMA ReadType ==
  ASSUME TypeInv, NEW l \in Lpns, Read(l)
  PROVE  TypeInv'
  <1>1. cached' \in SUBSET Lpns /\ cmt' \in Int
    BY CacheType DEF Read
  <1>. QED
    BY <1>1 DEF Read, TypeInv, TypeOK, maps

LEMMA WriteType ==
  ASSUME TypeInv, NEW l \in Lpns, NEW d \in Payloads, Write(l, d)
  PROVE  TypeInv'
  <1>. DEFINE rest == <<[proc |-> "page"], [proc |-> "write", lpn |-> l, payload |-> d]>>
  <1>1. cached' \in SUBSET Lpns /\ cmt' \in Int
    BY CacheType DEF Write
  <1>2. OtherTypes'
    BY <1>1 DEF Write, TypeInv, TypeOK, OtherTypes, maps
  <1>3. StackSound(rest) /\ Len(rest) = 2 /\ rest[1] = [proc |-> "page"]
    BY SoundWrite
  <1>4. InsertEventsThen(rest) \/ stack' = rest
    BY DEF Write
  <1>5. [proc |-> "page"].proc = "page"
    OBVIOUS
  <1>. HIDE DEF rest
  <1>6. rest # << >> /\ rest[1].proc = "page"
    BY <1>3, <1>5
  <1>7. CASE InsertEventsThen(rest)
    BY <1>2, <1>3, <1>6, <1>7, InsertKeeps
  <1>8. CASE stack' = rest
    <2>1. rest \in Seq(Frames)
      BY <1>3, SoundFrames
    <2>. QED
      BY <1>2, <1>3, <1>6, <1>8, <2>1 DEF TypeInv, TypeOK, OtherTypes
  <1>. QED
    BY <1>4, <1>7, <1>8

LEMMA TrimType ==
  ASSUME TypeInv, NEW l \in Lpns, Trim(l)
  PROVE  TypeInv'
  <1>1. ppn[l] \in Ppns \cup {NoPpn} /\ ppn[l] # NoPpn /\ flash \in FlashType
    BY DEF Trim, TypeInv, TypeOK
  <1>2. flash' = Replace(flash, ppn[l])
    BY <1>1 DEF Trim, Replace
  <1>3. flash' \in FlashType
    BY <1>1, <1>2, ReplaceEffect
  <1>4. ppn' \in [Lpns -> Ppns \cup {NoPpn}] /\ cmt' \in Int
    BY DEF Trim, TypeInv, TypeOK
  <1>. QED
    BY <1>3, <1>4 DEF Trim, TypeInv, TypeOK

\* A page for a write or a copy.
LEMMA NextPageType ==
  ASSUME TypeInv, NextPage
  PROVE  TypeInv'
  <1>1. currentDataPage \in Ppns /\ currentDataPage[2] # BLOCK_SIZE - 1
    BY DEF NextPage, AtEnd, TypeInv, TypeOK
  <1>2. currentDataPage' \in Ppns
    BY <1>1, GeometryAssumption DEF NextPage, Ppns, Offsets
  <1>3. OtherTypes'
    BY <1>2 DEF NextPage, TypeInv, TypeOK, OtherTypes, maps, cache
  <1>. QED
    BY <1>2, <1>3, ReturnKeeps DEF NextPage

LEMMA FirstPage ==
  ASSUME NEW b \in Blocks
  PROVE  <<b, 0>> \in Ppns /\ <<b, 0>>[1] = b /\ <<b, 0>>[2] = 0
  BY GeometryAssumption DEF Ppns, Offsets

LEMMA FreshBlockType ==
  ASSUME TypeInv, FreshBlock
  PROVE  TypeInv'
  <1>1. bm \in BlockManagerType /\ FreshBlockLeft(bm)
    BY DEF FreshBlock, TypeInv, TypeOK
  <1>2. bm.fresh \in Blocks
    BY <1>1, GeometryAssumption DEF FreshBlockLeft, Blocks, BlockManagerType
  <1>3. currentDataPage' \in Ppns
    BY <1>2, FirstPage DEF FreshBlock
  <1>4. GetPageBlock(bm) \in BlockManagerType
    BY <1>1, PageBlockType DEF OutOfBlocks
  <1>5. bm' \in BlockManagerType
    BY <1>4, CountActiveEffect DEF FreshBlock, GetFreeBlock, BlockTypes
  <1>6. OtherTypes'
    BY <1>3, <1>5 DEF FreshBlock, TypeInv, TypeOK, OtherTypes, maps, cache
  <1>. QED
    BY <1>3, <1>6, ReturnKeeps DEF FreshBlock

LEMMA CollectType ==
  ASSUME TypeInv, CollectForLastBlock
  PROVE  TypeInv'
  <1>1. At("page") /\ StackSound(stack) /\ stack # << >> /\ stack \in Seq(LiveFrames)
        /\ stack[1].proc = "page"
    BY TopFacts DEF CollectForLastBlock
  <1>2. bm' \in BlockManagerType
    BY DEF CollectForLastBlock, TypeInv, TypeOK, BlockManagerType
  <1>3. OtherTypes'
    BY <1>2 DEF CollectForLastBlock, TypeInv, TypeOK, OtherTypes, maps, cache
  <1>. DEFINE f == [proc |-> "take"]
              rest == <<f>> \o Tail(stack)
  <1>4. f \in LiveFrames /\ f.proc = "take"
    BY DEF LiveFrames, Frames, PageFrame
  <1>5. InsertEventsThen(rest)
    BY DEF CollectForLastBlock
  <1>. HIDE DEF f
  <1>6. SameFunction(f.proc, stack[1].proc)
    BY <1>1, <1>4 DEF SameFunction
  <1>7. StackSound(rest) /\ rest[1] = f
    BY <1>1, <1>4, <1>6, SoundBecome, BecomeStack
  <1>8. rest # << >>
    BY <1>1, <1>4, BecomeStack, ReturnStack
  <1>. HIDE DEF rest
  <1>. QED
    BY <1>3, <1>4, <1>5, <1>7, <1>8, InsertKeeps

LEMMA FreeBlockType ==
  ASSUME TypeInv, FreeBlock
  PROVE  TypeInv'
  <1>1. bm \in BlockManagerType /\ bm.free_list # << >> /\ bm.free_list \in Seq(Blocks)
    BY DEF FreeBlock, TypeInv, TypeOK, BlockManagerType
  <1>2. Head(bm.free_list) \in Blocks /\ Tail(bm.free_list) \in Seq(Blocks)
    BY <1>1
  <1>3. TakeFree(bm) \in BlockManagerType
    BY <1>1, <1>2 DEF TakeFree, BlockManagerType
  <1>4. bm' \in BlockManagerType /\ currentDataPage' \in Ppns
    BY <1>2, <1>3, CountActiveEffect, FirstPage DEF FreeBlock, BlockTypes
  <1>5. OtherTypes'
    BY <1>4 DEF FreeBlock, TypeInv, TypeOK, OtherTypes, maps, cache
  <1>6. At("take") \/ At("page")
    BY DEF FreeBlock, TakesFreeBlock
  <1>. QED
    BY <1>4, <1>5, <1>6, ReturnKeeps DEF FreeBlock

\* insert_events.
LEMMA SameOthers ==
  ASSUME TypeInv, UNCHANGED <<flash, bm, maps, cache, currentDataPage, abort>>
  PROVE  OtherTypes'
  BY DEF TypeInv, TypeOK, OtherTypes, maps, cache

LEMMA EndInsertType ==
  ASSUME TypeInv, EndInsert
  PROVE  TypeInv'
  <1>1. OtherTypes'
    BY SameOthers DEF EndInsert
  <1>. QED
    BY <1>1, ReturnKeeps DEF EndInsert

LEMMA InsertTop ==
  ASSUME TypeInv, At("insert") \/ At("erase")
  PROVE  top \in InsertFrame
  <1>1. top \in LiveFrames /\ top.proc \in {"insert", "erase"}
    BY TopFacts
  <1>. QED
    BY <1>1, FrameKinds

LEMMA SkipVictimType ==
  ASSUME TypeInv, SkipVictim
  PROVE  TypeInv'
  <1>1. OtherTypes'
    BY SameOthers DEF SkipVictim
  <1>2. At("insert") /\ top \in InsertFrame /\ top.num_to_erase # 0 /\ top.proc = "insert"
    BY InsertTop, TopFacts DEF SkipVictim, LoopOn
  <1>3. PICK b \in NextVictims(flash) : Become([top EXCEPT !.it = b, !.num_to_erase = @ - 1])
    BY DEF SkipVictim
  <1>. DEFINE f == [top EXCEPT !.it = b, !.num_to_erase = @ - 1]
  <1>4. f \in InsertFrame /\ f.proc = "insert"
    <2>1. b \in Blocks
      BY <1>3, NextVictimType
    <2>2. top.num_to_erase - 1 \in 0 .. NUM_TO_ERASE
      BY <1>2, BlockListsAssumption DEF InsertFrame
    <2>. QED
      BY <1>2, <2>1, <2>2 DEF InsertFrame
  <1>5. f \in LiveFrames
    BY <1>4 DEF LiveFrames, Frames
  <1>6. Become(f)
    BY <1>3
  <1>. HIDE DEF f
  <1>7. SameFunction(f.proc, "insert") /\ f.proc \notin {"write", "copy"}
    BY <1>4 DEF SameFunction
  <1>. QED
    BY <1>1, <1>2, <1>5, <1>6, <1>7, BecomeKeeps

LEMMA StartCleanupType ==
  ASSUME TypeInv, StartCleanup
  PROVE  TypeInv'
  <1>1. OtherTypes'
    BY SameOthers DEF StartCleanup
  <1>2. At("insert") /\ top \in InsertFrame /\ top.proc = "insert"
    BY InsertTop, TopFacts DEF StartCleanup
  <1>. DEFINE f == [proc |-> "cleanup", block |-> top.it, i |-> 0,
                    invalidated_translation |-> << >>]
              g == [top EXCEPT !.proc = "erase"]
  <1>3. g \in InsertFrame /\ g.proc = "erase" /\ g.num_to_erase # 0 /\ top.it \in Blocks
    BY <1>2 DEF InsertFrame, StartCleanup, LoopOn
  <1>4. << >> \in [{} -> Ppns] /\ {} \in SUBSET Lpns /\ 0 \in 0 .. BLOCK_SIZE
    BY GeometryAssumption
  <1>5. << >> \in UNION {[L -> Ppns] : L \in SUBSET Lpns}
    BY <1>4
  <1>6. f \in CleanupFrame /\ f.proc = "cleanup"
    BY <1>3, <1>4, <1>5 DEF CleanupFrame
  <1>7. f \in LiveFrames /\ g \in LiveFrames
    BY <1>3, <1>6 DEF LiveFrames, Frames
  <1>8. Call(f, g)
    BY DEF StartCleanup
  <1>. HIDE DEF f, g
  <1>9. SameFunction(g.proc, "insert") /\ Calls(f.proc, g.proc) /\ f.proc \notin {"write", "copy"}
    BY <1>3, <1>6 DEF SameFunction, Calls
  <1>. QED
    BY <1>1, <1>2, <1>7, <1>8, <1>9, CallKeeps

LEMMA EraseVictimType ==
  ASSUME TypeInv, EraseVictim
  PROVE  TypeInv'
  <1>1. At("erase") /\ top \in InsertFrame /\ top.proc = "erase" /\ top.it \in Blocks
    BY InsertTop, TopFacts DEF EraseVictim, InsertFrame
  <1>2. flash' \in FlashType
    <2>1. {top.it} \in SUBSET Blocks /\ \A x \in {top.it} : CanErase(flash, x)
      BY <1>1 DEF EraseVictim
    <2>2. flash \in FlashType
      BY DEF TypeInv, TypeOK
    <2>. QED
      BY <2>1, <2>2, EraseEffect DEF EraseVictim
  <1>3. bm' \in BlockManagerType
    <2>1. bm \in BlockManagerType /\ bm.free_list \in Seq(Blocks)
      BY DEF TypeInv, TypeOK, BlockManagerType
    <2>2. Append(bm.free_list, top.it) \in Seq(Blocks)
      BY <1>1, <2>1
    <2>. QED
      BY <2>1, <2>2 DEF EraseVictim, BlockManagerType
  <1>4. OtherTypes'
    BY <1>2, <1>3 DEF EraseVictim, TypeInv, TypeOK, OtherTypes, maps, cache
  <1>5. PICK b \in NextVictims(flash') :
           Become([top EXCEPT !.proc = "insert", !.it = b, !.num_to_erase = @ - 1])
    BY DEF EraseVictim
  <1>. DEFINE f == [top EXCEPT !.proc = "insert", !.it = b, !.num_to_erase = @ - 1]
  <1>6. top.num_to_erase # 0
    BY <1>1, TopFacts DEF LiveFrames
  <1>7. TypeInv'
    <2>1. f \in InsertFrame /\ f.proc = "insert"
      <3>1. b \in Blocks
        BY <1>5, NextVictimType
      <3>2. top.num_to_erase - 1 \in 0 .. NUM_TO_ERASE
        BY <1>1, <1>6, BlockListsAssumption DEF InsertFrame
      <3>. QED
        BY <1>1, <3>1, <3>2 DEF InsertFrame
    <2>2. f \in LiveFrames
      BY <2>1 DEF LiveFrames, Frames
    <2>3. Become(f)
      BY <1>5
    <2>. HIDE DEF f
    <2>4. SameFunction(f.proc, "erase") /\ f.proc \notin {"write", "copy"}
      BY <2>1 DEF SameFunction
    <2>. QED
      BY <1>1, <1>4, <2>2, <2>3, <2>4, BecomeKeeps
  <1>. QED
    BY <1>7

\* cleanup_block.
LEMMA CleanupTop ==
  ASSUME TypeInv, NEW proc \in {"cleanup", "copy"}, At(proc)
  PROVE  /\ top \in CleanupFrame /\ top \in LiveFrames /\ top.proc = proc
         /\ top.block \in Blocks /\ top.i \in 0 .. BLOCK_SIZE
         /\ DOMAIN top.invalidated_translation \in SUBSET Lpns
         /\ top.invalidated_translation \in [DOMAIN top.invalidated_translation -> Ppns]
  <1>1. top \in LiveFrames /\ top.proc = proc
    BY TopFacts
  <1>2. top \in CleanupFrame
    BY <1>1, FrameKinds
  <1>. QED
    BY <1>1, <1>2 DEF CleanupFrame

LEMMA OldPpnType ==
  ASSUME TypeInv, NEW proc \in {"cleanup", "copy"}, At(proc), top.i < BLOCK_SIZE
  PROVE  /\ OldPpn \in Ppns /\ OldPpn[1] = top.block /\ OldPpn[2] = top.i
         /\ top.i \in Offsets
  BY CleanupTop, GeometryAssumption DEF OldPpn, Ppns, Offsets

\* A frame of cleanup_block one page on.
Advanced(f, m) ==
  [f EXCEPT !.proc = "cleanup", !.i = @ + 1, !.invalidated_translation = m]

LEMMA NextFrame ==
  ASSUME NEW f \in CleanupFrame, f.i < BLOCK_SIZE,
         NEW m, DOMAIN m \in SUBSET Lpns, m \in [DOMAIN m -> Ppns],
         NEW g, g = Advanced(f, m)
  PROVE  /\ g \in LiveFrames /\ g.proc = "cleanup" /\ g.block = f.block /\ g.i = f.i + 1
         /\ g.invalidated_translation = m
  <1>1. f.i + 1 \in 0 .. BLOCK_SIZE
    BY GeometryAssumption DEF CleanupFrame
  <1>2. m \in UNION {[L -> Ppns] : L \in SUBSET Lpns}
    OBVIOUS
  <1>3. g \in CleanupFrame /\ g.proc = "cleanup"
    BY <1>1, <1>2 DEF CleanupFrame, Advanced
  <1>. QED
    BY <1>3 DEF LiveFrames, Frames, CleanupFrame, Advanced

\* One entry more in a map of moved pages.
Entry(l, p) == [k \in {l} |-> p]

LEMMA OneMore ==
  ASSUME NEW m, DOMAIN m \in SUBSET Lpns, m \in [DOMAIN m -> Ppns],
         NEW l \in Lpns, NEW p \in Ppns, NEW n, n = Updated(Entry(l, p), m)
  PROVE  /\ DOMAIN n = DOMAIN m \cup {l}
         /\ DOMAIN n \in SUBSET Lpns
         /\ n \in [DOMAIN n -> Ppns]
         /\ n[l] = p
         /\ \A k \in DOMAIN m : k # l => n[k] = m[k]
  BY DEF Updated, Entry

LEMMA SkipPageType ==
  ASSUME TypeInv, SkipPage
  PROVE  TypeInv'
  <1>1. OtherTypes'
    BY SameOthers DEF SkipPage
  <1>2. At("cleanup") /\ top.i < BLOCK_SIZE
    BY DEF SkipPage, InLoop
  <1>3. /\ top \in CleanupFrame /\ top.proc = "cleanup"
        /\ DOMAIN top.invalidated_translation \in SUBSET Lpns
        /\ top.invalidated_translation \in [DOMAIN top.invalidated_translation -> Ppns]
    BY <1>2, CleanupTop
  <1>. DEFINE f == [top EXCEPT !.i = @ + 1]
              m == top.invalidated_translation
  <1>4. Become(f)
    BY DEF SkipPage
  <1>5. f = Advanced(top, m)
    BY <1>3 DEF CleanupFrame, Advanced
  <1>. HIDE DEF f, m
  <1>6. f \in LiveFrames /\ f.proc = "cleanup"
    BY <1>2, <1>3, <1>5, NextFrame DEF m
  <1>7. SameFunction(f.proc, "cleanup") /\ f.proc \notin {"write", "copy"}
    BY <1>6 DEF SameFunction
  <1>. QED
    BY <1>1, <1>2, <1>4, <1>6, <1>7, BecomeKeeps

LEMMA StartCopyType ==
  ASSUME TypeInv, StartCopy
  PROVE  TypeInv'
  <1>1. OtherTypes'
    BY SameOthers DEF StartCopy
  <1>2. At("cleanup") /\ top.i < BLOCK_SIZE
    BY DEF StartCopy, InLoop
  <1>3. top \in CleanupFrame
    BY <1>2, CleanupTop
  <1>. DEFINE f == [proc |-> "page"]
              g == [top EXCEPT !.proc = "copy"]
  <1>4. f \in LiveFrames /\ f.proc = "page"
    BY DEF LiveFrames, Frames, PageFrame
  <1>5. g \in CleanupFrame /\ g.proc = "copy" /\ g.i < BLOCK_SIZE
    BY <1>2, <1>3 DEF CleanupFrame
  <1>6. g \in LiveFrames
    BY <1>5 DEF LiveFrames, Frames
  <1>7. Call(f, g)
    BY DEF StartCopy
  <1>. HIDE DEF f, g
  <1>8. SameFunction(g.proc, "cleanup") /\ Calls(f.proc, g.proc) /\ f.proc \notin {"write", "copy"}
    BY <1>4, <1>5 DEF SameFunction, Calls
  <1>. QED
    BY <1>1, <1>2, <1>4, <1>6, <1>7, <1>8, CallKeeps

LEMMA OwnerType ==
  ASSUME TypeInv, NEW p \in Ppns, NEW l \in OwnerOf(p)
  PROVE  l \in Lpns
  BY DEF TypeInv, TypeOK, OwnerOf

LEMMA FinishCopyType ==
  ASSUME TypeInv, FinishCopy
  PROVE  TypeInv'
  <1>1. At("copy") /\ currentDataPage \in Ppns /\ top.i < BLOCK_SIZE /\ top \in CleanupFrame
    BY TopFacts, CleanupTop DEF FinishCopy, LiveFrames
  <1>2. /\ OldPpn \in Ppns
        /\ DOMAIN top.invalidated_translation \in SUBSET Lpns
        /\ top.invalidated_translation \in [DOMAIN top.invalidated_translation -> Ppns]
    BY <1>1, OldPpnType, CleanupTop
  <1>3. flash' \in FlashType
    <2>1. flash \in FlashType /\ flash.data[OldPpn] \in Contents
      BY <1>2 DEF TypeInv, TypeOK, FlashType
    <2>2. Program(flash, currentDataPage, flash.data[OldPpn]) \in FlashType
      BY <1>1, <2>1, ProgramEffect
    <2>3. OldPpn \in Ppns \cup {NoPpn}
      BY <1>2
    <2>. QED
      BY <2>2, <2>3, ReplaceEffect DEF FinishCopy
  <1>4. OtherTypes'
    BY <1>3 DEF FinishCopy, TypeInv, TypeOK, OtherTypes, maps, cache
  <1>5. PICK l \in OwnerOf(OldPpn) :
           Become([top EXCEPT !.proc = "cleanup", !.i = @ + 1,
                              !.invalidated_translation = Updated([k \in {l} |-> currentDataPage], @)])
    BY DEF FinishCopy
  <1>6. l \in Lpns
    BY <1>2, <1>5, OwnerType
  <1>. DEFINE m == Updated([k \in {l} |-> currentDataPage], top.invalidated_translation)
              f == [top EXCEPT !.proc = "cleanup", !.i = @ + 1, !.invalidated_translation = m]
  <1>7. DOMAIN m \in SUBSET Lpns /\ m \in [DOMAIN m -> Ppns]
    <2>1. m = Updated(Entry(l, currentDataPage), top.invalidated_translation)
      BY DEF Entry
    <2>. HIDE DEF m
    <2>. QED
      BY <1>1, <1>2, <1>6, <2>1, OneMore
  <1>8. Become(f)
    BY <1>5
  <1>. HIDE DEF m
  <1>9. f \in LiveFrames /\ f.proc = "cleanup"
    <2>1. f = Advanced(top, m)
      BY DEF Advanced
    <2>. HIDE DEF f
    <2>. QED
      BY <1>1, <1>7, <2>1, NextFrame
  <1>. HIDE DEF f
  <1>10. SameFunction(f.proc, "copy") /\ f.proc \notin {"write", "copy"}
    BY <1>9 DEF SameFunction
  <1>. QED
    BY <1>1, <1>4, <1>8, <1>9, <1>10, BecomeKeeps

\* The moved pages enter both maps.
LEMMA MovedMaps ==
  ASSUME NEW m, DOMAIN m \in SUBSET Lpns, m \in [DOMAIN m -> Ppns],
         NEW t \in [Lpns -> Ppns \cup {NoPpn}], NEW r \in [Ppns -> Lpns \cup {NoLpn}]
  PROVE  /\ Updated(m, t) \in [Lpns -> Ppns \cup {NoPpn}]
         /\ \A l \in Lpns : Updated(m, t)[l] = IF l \in DOMAIN m THEN m[l] ELSE t[l]
         /\ Updated(AntiFunction(m), r) \in [Ppns -> Lpns \cup {NoLpn}]
         /\ \A p \in Ppns : IF \E l \in DOMAIN m : m[l] = p
                              THEN /\ Updated(AntiFunction(m), r)[p] \in DOMAIN m
                                   /\ m[Updated(AntiFunction(m), r)[p]] = p
                              ELSE Updated(AntiFunction(m), r)[p] = r[p]
  <1>1. Updated(m, t) = [l \in Lpns |-> IF l \in DOMAIN m THEN m[l] ELSE t[l]]
    BY DEF Updated
  <1>2. Range(m) \subseteq Ppns /\ \A p : p \in Range(m) <=> \E l \in DOMAIN m : m[l] = p
    BY DEF Range
  <1>3. AntiFunction(m) = [p \in Range(m) |-> CHOOSE l \in DOMAIN m : p \in Range(m) => m[l] = p]
    BY DEF AntiFunction, Inverse
  <1>4. \A p \in Range(m) : /\ AntiFunction(m)[p] \in DOMAIN m
                            /\ m[AntiFunction(m)[p]] = p
    BY <1>2, <1>3
  <1>5. DOMAIN AntiFunction(m) = Range(m)
    BY <1>3
  <1>. DEFINE a == AntiFunction(m)
  <1>. HIDE DEF a
  <1>6. Updated(a, r) = [p \in Ppns |-> IF p \in Range(m) THEN a[p] ELSE r[p]]
    <2>1. DOMAIN a = Range(m)
      BY <1>5 DEF a
    <2>2. DOMAIN a \cup DOMAIN r = Ppns
      BY <1>2, <2>1
    <2>. QED
      BY <2>1, <2>2 DEF Updated
  <1>7. Updated(a, r) \in [Ppns -> Lpns \cup {NoLpn}]
    BY <1>4, <1>6 DEF a
  <1>8. \A p \in Ppns : Updated(a, r)[p] = IF p \in Range(m) THEN a[p] ELSE r[p]
    BY <1>6
  <1>9. \A p \in Range(m) : a[p] \in DOMAIN m /\ m[a[p]] = p
    BY <1>4 DEF a
  <1>10. \A p \in Ppns : IF \E l \in DOMAIN m : m[l] = p
                              THEN Updated(a, r)[p] \in DOMAIN m /\ m[Updated(a, r)[p]] = p
                              ELSE Updated(a, r)[p] = r[p]
    BY <1>2, <1>8, <1>9
  <1>. QED
    BY <1>1, <1>7, <1>10 DEF a

LEMMA FinishCleanupType ==
  ASSUME TypeInv, FinishCleanup
  PROVE  TypeInv'
  <1>. DEFINE m == top.invalidated_translation
  <1>1. At("cleanup") /\ DOMAIN m \in SUBSET Lpns /\ m \in [DOMAIN m -> Ppns]
    BY CleanupTop DEF FinishCleanup
  <1>2. /\ ppn' = Updated(m, ppn)
        /\ reverse_trans_map' = Updated(AntiFunction(m), reverse_trans_map)
        /\ cached' = cached \cup DOMAIN m
        /\ cmt' = cmt + Cardinality(DOMAIN m \ cached)
    BY DEF FinishCleanup
  <1>. HIDE DEF m
  <1>3. Cardinality(DOMAIN m \ cached) \in Nat
    <2>1. IsFiniteSet(Lpns)
      <3>1. 0 \in Int /\ NumLpns - 1 \in Int
        BY DftlAssumption
      <3>. QED
        BY <3>1, FS_Interval DEF Lpns
    <2>. QED
      BY <1>1, <2>1, FS_Subset, FS_CardinalityType
  <1>4. /\ ppn' \in [Lpns -> Ppns \cup {NoPpn}]
        /\ reverse_trans_map' \in [Ppns -> Lpns \cup {NoLpn}]
        /\ cached' \in SUBSET Lpns /\ cmt' \in Int
    BY <1>1, <1>2, <1>3, MovedMaps DEF TypeInv, TypeOK
  <1>5. OtherTypes'
    BY <1>4 DEF FinishCleanup, TypeInv, TypeOK, OtherTypes
  <1>. QED
    BY <1>1, <1>5, ReturnKeeps DEF FinishCleanup

LEMMA FinishWriteType ==
  ASSUME TypeInv, FinishWrite
  PROVE  TypeInv'
  <1>1. At("write") /\ currentDataPage \in Ppns /\ top \in LiveFrames /\ top.proc = "write"
    BY TopFacts DEF FinishWrite
  <1>2. top.lpn \in Lpns /\ top.payload \in Contents
    <2>1. top \in WriteFrame
      BY <1>1, FrameKinds
    <2>. QED
      BY <2>1 DEF WriteFrame, Contents
  <1>3. flash' \in FlashType
    <2>1. flash \in FlashType /\ ppn[top.lpn] \in Ppns \cup {NoPpn}
      BY <1>2 DEF TypeInv, TypeOK
    <2>2. Program(flash, currentDataPage, top.payload) \in FlashType
      BY <1>1, <1>2, <2>1, ProgramEffect
    <2>. QED
      BY <2>1, <2>2, ReplaceEffect DEF FinishWrite
  <1>4. /\ ppn' \in [Lpns -> Ppns \cup {NoPpn}]
        /\ reverse_trans_map' \in [Ppns -> Lpns \cup {NoLpn}]
    BY <1>1, <1>2 DEF FinishWrite, TypeInv, TypeOK
  <1>5. OtherTypes'
    BY <1>3, <1>4 DEF FinishWrite, TypeInv, TypeOK, OtherTypes, cache
  <1>. QED
    BY <1>1, <1>5, ReturnKeeps DEF FinishWrite

LEMMA AssertType ==
  ASSUME TypeInv, AssertFails
  PROVE  TypeInv'
  <1>1. FailedAssert \in Aborts
    BY DEF FailedAssert, Aborts
  <1>. QED
    BY <1>1 DEF AssertFails, TypeInv, TypeOK, maps, cache

LEMMA InitType ==
  ASSUME Init
  PROVE  TypeInv
  <1>1. FlashInit \in FlashType
    BY GeometryAssumption DEF FlashInit, FlashType, PageStates, Contents
  <1>2. BlockManagerInit \in BlockManagerType
    BY GeometryAssumption DEF BlockManagerInit, BlockManagerType
  <1>3. << >> \in Seq(Frames) /\ << >> \in Seq(LiveFrames) /\ Len(<< >>) = 0
    OBVIOUS
  <1>4. TypeOK
    BY <1>1, <1>2, <1>3 DEF Init, TypeOK, Aborts
  <1>5. StackSound(stack)
    BY <1>3 DEF Init, StackSound
  <1>. QED
    BY <1>4, <1>5 DEF Init, TypeInv

THEOREM TypeInvariance == Spec => []TypeInv
  <1>1. Init => TypeInv
    BY InitType
  <1>2. TypeInv /\ [Next]_vars => TypeInv'
    <2>. SUFFICES ASSUME TypeInv, [Next]_vars PROVE TypeInv'
      OBVIOUS
    <2>1. ASSUME NEW l \in Lpns, Read(l) \/ (\E d \in Payloads : Write(l, d)) \/ Trim(l)
          PROVE  TypeInv'
      BY <2>1, ReadType, WriteType, TrimType
    <2>2. CASE NextPage \/ FreshBlock \/ CollectForLastBlock \/ FreeBlock
      BY <2>2, NextPageType, FreshBlockType, CollectType, FreeBlockType
    <2>3. CASE EndInsert \/ SkipVictim \/ StartCleanup \/ EraseVictim
      BY <2>3, EndInsertType, SkipVictimType, StartCleanupType, EraseVictimType
    <2>4. CASE SkipPage \/ StartCopy \/ FinishCopy \/ FinishCleanup
      BY <2>4, SkipPageType, StartCopyType, FinishCopyType, FinishCleanupType
    <2>5. CASE FinishWrite \/ AssertFails
      BY <2>5, FinishWriteType, AssertType
    <2>6. CASE UNCHANGED vars
      BY <2>6 DEF vars, maps, cache, TypeInv, TypeOK
    <2>. QED
      BY <2>1, <2>2, <2>3, <2>4, <2>5, <2>6 DEF Next, Request, Step
  <1>. QED
    BY <1>1, <1>2, PTL DEF Spec

\* Every variable keeps to its type, and so does every frame, however deep
\* collections nest: no loop of insert_events or cleanup_block runs past its end
\* and no page number leaves the device.
THEOREM TypeCorrect == Spec => []TypeOK
  <1>1. TypeInv => TypeOK
    BY DEF TypeInv
  <1>. QED
    BY <1>1, TypeInvariance, PTL

---------------------------------------------------------------------------
(* The cache.                                                              *)

LEMMA CacheFinite ==
  ASSUME NEW S \in SUBSET Lpns
  PROVE  IsFiniteSet(S) /\ Cardinality(S) \in Nat
  <1>1. 0 \in Int /\ NumLpns - 1 \in Int
    BY DftlAssumption
  <1>2. IsFiniteSet(Lpns)
    BY <1>1, FS_Interval DEF Lpns
  <1>. QED
    BY <1>2, FS_Subset, FS_CardinalityType

\* What resolve_mapping evicts it counts out, and what it loads it counts in.
LEMMA ResolveKeeps ==
  ASSUME TypeInv, EvictionFindsEntry, NEW l \in Lpns, resolve_mapping(l)
  PROVE  EvictionFindsEntry'
  <1>1. cached \in SUBSET Lpns /\ cmt \in Int /\ Evictions \in Int
    BY DftlAssumption DEF TypeInv, TypeOK, Evictions
  <1>2. CASE l \in cached
    BY <1>2 DEF resolve_mapping, cache, EvictionFindsEntry
  <1>3. CASE l \notin cached
    <2>1. PICK E \in kSubset(Evictions, cached) :
             cached' = (cached \ E) \cup {l} /\ cmt' = cmt - Evictions + 1
      BY <1>3 DEF resolve_mapping
    <2>2. E \in SUBSET cached /\ Cardinality(E) = Evictions
      BY <2>1 DEF kSubset
    <2>3. IsFiniteSet(cached) /\ Cardinality(cached) \in Nat
      BY <1>1, CacheFinite
    <2>4. IsFiniteSet(E) /\ Cardinality(E) \in Nat
      BY <1>1, <2>2, CacheFinite
    <2>5. IsFiniteSet(cached \ E) /\ Cardinality(cached \ E) = Cardinality(cached) - Cardinality(E)
      <3>1. Cardinality(cached \ E) = Cardinality(cached) - Cardinality(cached \cap E)
            /\ IsFiniteSet(cached \ E)
        BY <2>3, FS_Difference
      <3>2. cached \cap E = E
        BY <2>2
      <3>. QED
        BY <3>1, <3>2
    <2>6. Cardinality((cached \ E) \cup {l}) = Cardinality(cached \ E) + 1
      <3>1. l \notin cached \ E
        BY <1>3
      <3>. QED
        BY <2>5, <3>1, FS_AddElement
    <2>. QED
      BY <1>1, <2>1, <2>2, <2>3, <2>4, <2>5, <2>6 DEF EvictionFindsEntry
  <1>. QED
    BY <1>2, <1>3

\* The counter of cached entries never exceeds what is cached, however deep
\* collections nest, so that as many entries as evict_page_from_cache asks for
\* are there.
THEOREM EvictionsFindEntries == Spec => []EvictionFindsEntry
  <1>1. Init => EvictionFindsEntry
    BY FS_EmptySet DEF Init, EvictionFindsEntry
  <1>2. TypeInv /\ EvictionFindsEntry /\ [Next]_vars => EvictionFindsEntry'
    <2>. SUFFICES ASSUME TypeInv, EvictionFindsEntry, [Next]_vars PROVE EvictionFindsEntry'
      OBVIOUS
    <2>1. cached \in SUBSET Lpns /\ cmt \in Int /\ Cardinality(cached) \in Nat
      BY CacheFinite DEF TypeInv, TypeOK
    <2>2. ASSUME NEW l \in Lpns, Read(l) \/ (\E d \in Payloads : Write(l, d))
          PROVE  EvictionFindsEntry'
      BY <2>2, ResolveKeeps DEF Read, Write
    <2>3. ASSUME NEW l \in Lpns, Trim(l)
          PROVE  EvictionFindsEntry'
      BY <2>1, <2>3 DEF Trim, EvictionFindsEntry
    <2>4. CASE FinishCleanup
      <3>. DEFINE D == DOMAIN top.invalidated_translation
      <3>1. D \in SUBSET Lpns
        BY <2>4, CleanupTop DEF FinishCleanup
      <3>2. cached' = cached \cup D /\ cmt' = cmt + Cardinality(D \ cached)
        BY <2>4 DEF FinishCleanup
      <3>. HIDE DEF D
      <3>3. IsFiniteSet(cached) /\ IsFiniteSet(D \ cached)
        BY <2>1, <3>1, CacheFinite
      <3>4. Cardinality(cached \cup (D \ cached)) = Cardinality(cached) + Cardinality(D \ cached)
        BY <3>3, DisjointUnion
      <3>5. cached \cup (D \ cached) = cached \cup D /\ Cardinality(D \ cached) \in Nat
        BY <3>1, CacheFinite
      <3>6. Cardinality(cached') = Cardinality(cached) + Cardinality(D \ cached)
        BY <3>2, <3>4, <3>5, Zenon
      <3>7. cmt <= Cardinality(cached)
        BY DEF EvictionFindsEntry
      <3>8. cmt' <= Cardinality(cached')
        BY <2>1, <3>2, <3>5, <3>6, <3>7
      <3>. QED
        BY <3>8 DEF EvictionFindsEntry
    <2>5. CASE UNCHANGED cache
      BY <2>5 DEF cache, EvictionFindsEntry
    <2>6. CASE NextPage \/ FreshBlock \/ CollectForLastBlock \/ FreeBlock
      BY <2>5, <2>6 DEF NextPage, FreshBlock, CollectForLastBlock, FreeBlock
    <2>7. CASE EndInsert \/ SkipVictim \/ StartCleanup \/ EraseVictim
      BY <2>5, <2>7 DEF EndInsert, SkipVictim, StartCleanup, EraseVictim
    <2>8. CASE SkipPage \/ StartCopy \/ FinishCopy \/ FinishWrite \/ AssertFails
      BY <2>5, <2>8 DEF SkipPage, StartCopy, FinishCopy, FinishWrite, AssertFails
    <2>9. CASE UNCHANGED vars
      BY <2>5, <2>9 DEF vars
    <2>. QED
      BY <2>2, <2>3, <2>4, <2>6, <2>7, <2>8, <2>9 DEF Next, Request, Step
  <1>. QED
    BY <1>1, <1>2, TypeInvariance, PTL DEF Spec

---------------------------------------------------------------------------
(* While no collection starts inside another one.                          *)

\* At most one insert_events is under way.
UnnestedIn(st) ==
  \A i, j \in 1 .. Len(st) :
    /\ st[i].proc \in {"insert", "erase"}
    /\ st[j].proc \in {"insert", "erase"}
    => i = j
Unnested == UnnestedIn(stack)

\* The block being collected, ...
VictimIn(st) ==
  IF Len(st) >= 3 /\ st[Len(st) - 2].proc = "erase" THEN st[Len(st) - 2].it ELSE NoBlock

\* ... the pages moved out of it whose mappings wait, ...
MovedIn(st) ==
  IF Len(st) >= 4 THEN st[Len(st) - 3].invalidated_translation ELSE << >>

\* ... how many of its pages were looked at, and whether the next one is about
\* to be copied.
DoneIn(st) == IF Len(st) >= 4 THEN st[Len(st) - 3].i ELSE BLOCK_SIZE
CopyingIn(st) == Len(st) >= 4 /\ st[Len(st) - 3].proc = "copy"

\* A page was handed out and is not written yet.
Handed(st) == st # << >> /\ st[1].proc \in {"write", "copy"}

\* What a stack of each height looks like.
LEMMA Shape ==
  ASSUME NEW st, StackSound(st), UnnestedIn(st)
  PROVE  /\ Len(st) \in 0 .. 5
         /\ Len(st) = 0 => st = << >>
         /\ Len(st) = 1 => st[1].proc = "write"
         /\ Len(st) = 2 => st[1].proc \in {"page", "take"}
         /\ Len(st) = 3 => st[1].proc \in {"insert", "erase"}
         /\ Len(st) = 4 => st[1].proc \in {"cleanup", "copy"} /\ st[2].proc = "erase"
         /\ Len(st) = 5 => /\ st[1].proc \in {"page", "take"}
                           /\ st[2].proc = "copy" /\ st[3].proc = "erase"
  <1>. DEFINE n == Len(st)
  <1>1. st \in Seq(LiveFrames) /\ n \in Nat
    BY DEF StackSound
  <1>2. n = 0 => st = << >>
    BY <1>1
  <1>3. n >= 1 => st[n].proc = "write"
    BY <1>1, <1>2 DEF StackSound
  <1>4. \A i \in 1 .. n - 1 : Calls(st[i].proc, st[i + 1].proc)
    BY DEF StackSound
  <1>5. \A i, j \in 1 .. n : st[i].proc \in {"insert", "erase"} /\ st[j].proc \in {"insert", "erase"} => i = j
    BY DEF UnnestedIn
  <1>. HIDE DEF n
  <1>6. n >= 2 => st[n - 1].proc \in {"page", "take"}
    <2>. SUFFICES ASSUME n >= 2 PROVE st[n - 1].proc \in {"page", "take"}
      OBVIOUS
    <2>1. n - 1 \in 1 .. n - 1 /\ (n - 1) + 1 = n
      BY <1>1
    <2>. QED
      BY <1>3, <1>4, <2>1 DEF Calls
  <1>7. n >= 3 => st[n - 2].proc \in {"insert", "erase"}
    <2>. SUFFICES ASSUME n >= 3 PROVE st[n - 2].proc \in {"insert", "erase"}
      OBVIOUS
    <2>1. n - 2 \in 1 .. n - 1 /\ (n - 2) + 1 = n - 1 /\ n >= 2
      BY <1>1
    <2>2. Calls(st[n - 2].proc, st[(n - 2) + 1].proc)
      BY <1>4, <2>1
    <2>3. Calls(st[n - 2].proc, st[n - 1].proc)
      BY <2>1, <2>2, Zenon
    <2>. QED
      BY <1>6, <2>1, <2>3 DEF Calls
  <1>8. n >= 4 => st[n - 3].proc \in {"cleanup", "copy"} /\ st[n - 2].proc = "erase"
    <2>. SUFFICES ASSUME n >= 4
                  PROVE  st[n - 3].proc \in {"cleanup", "copy"} /\ st[n - 2].proc = "erase"
      OBVIOUS
    <2>1. n - 3 \in 1 .. n - 1 /\ (n - 3) + 1 = n - 2 /\ n >= 3
      BY <1>1
    <2>2. Calls(st[n - 3].proc, st[(n - 3) + 1].proc)
      BY <1>4, <2>1
    <2>3. Calls(st[n - 3].proc, st[n - 2].proc)
      BY <2>1, <2>2, Zenon
    <2>. QED
      BY <1>7, <2>1, <2>3 DEF Calls
  <1>9. n >= 5 => st[n - 4].proc \in {"page", "take"} /\ st[n - 3].proc = "copy"
    <2>. SUFFICES ASSUME n >= 5
                  PROVE  st[n - 4].proc \in {"page", "take"} /\ st[n - 3].proc = "copy"
      OBVIOUS
    <2>1. n - 4 \in 1 .. n - 1 /\ (n - 4) + 1 = n - 3 /\ n >= 4
      BY <1>1
    <2>2. Calls(st[n - 4].proc, st[(n - 4) + 1].proc)
      BY <1>4, <2>1
    <2>3. Calls(st[n - 4].proc, st[n - 3].proc)
      BY <2>1, <2>2, Zenon
    <2>. QED
      BY <1>8, <2>1, <2>3 DEF Calls
  <1>10. n <= 5
    <2>. SUFFICES ASSUME n > 5 PROVE FALSE
      BY <1>1
    <2>1. /\ n - 5 \in 1 .. n - 1 /\ (n - 5) + 1 = n - 4
          /\ n - 5 \in 1 .. n /\ n - 2 \in 1 .. n /\ n - 5 # n - 2
      BY <1>1
    <2>2. Calls(st[n - 5].proc, st[(n - 5) + 1].proc)
      BY <1>4, <2>1
    <2>3. Calls(st[n - 5].proc, st[n - 4].proc)
      BY <2>1, <2>2, Zenon
    <2>4. n >= 3 /\ n >= 5
      BY <1>1
    <2>5. st[n - 5].proc \in {"insert", "erase"} /\ st[n - 2].proc \in {"insert", "erase"}
      BY <1>7, <1>9, <2>3, <2>4 DEF Calls
    <2>. QED
      BY <1>5, <2>1, <2>5
  <1>11. n \in 0 .. 5
    BY <1>1, <1>10
  <1>12. n = 1 => st[1].proc = "write"
    BY <1>3
  <1>13. n = 2 => st[1].proc \in {"page", "take"}
    BY <1>6
  <1>14. n = 3 => st[1].proc \in {"insert", "erase"}
    BY <1>7
  <1>15. n = 4 => st[1].proc \in {"cleanup", "copy"} /\ st[2].proc = "erase"
    BY <1>8
  <1>16. n = 5 => st[1].proc \in {"page", "take"} /\ st[2].proc = "copy" /\ st[3].proc = "erase"
    BY <1>8, <1>9
  <1>. QED
    BY <1>2, <1>11, <1>12, <1>13, <1>14, <1>15, <1>16 DEF n

\* What the views read of a stack of each height.
LEMMA ViewsLow ==
  ASSUME NEW st, Len(st) \in {0, 1, 2}
  PROVE  /\ VictimIn(st) = NoBlock /\ MovedIn(st) = << >>
         /\ DoneIn(st) = BLOCK_SIZE /\ ~CopyingIn(st)
  <1>1. ~(Len(st) >= 3) /\ ~(Len(st) >= 4)
    OBVIOUS
  <1>. QED
    BY <1>1 DEF VictimIn, MovedIn, DoneIn, CopyingIn

LEMMA ViewsInsert ==
  ASSUME NEW st, Len(st) = 3
  PROVE  /\ VictimIn(st) = IF st[1].proc = "erase" THEN st[1].it ELSE NoBlock
         /\ MovedIn(st) = << >>
         /\ DoneIn(st) = BLOCK_SIZE /\ ~CopyingIn(st)
  <1>1. Len(st) >= 3 /\ ~(Len(st) >= 4) /\ Len(st) - 2 = 1
    OBVIOUS
  <1>. QED
    BY <1>1 DEF VictimIn, MovedIn, DoneIn, CopyingIn

LEMMA ViewsCleanup ==
  ASSUME NEW st, Len(st) = 4, st[2].proc = "erase"
  PROVE  /\ VictimIn(st) = st[2].it /\ MovedIn(st) = st[1].invalidated_translation
         /\ DoneIn(st) = st[1].i /\ CopyingIn(st) = (st[1].proc = "copy")
  <1>1. Len(st) >= 3 /\ Len(st) >= 4 /\ Len(st) - 2 = 2 /\ Len(st) - 3 = 1
    OBVIOUS
  <1>. QED
    BY <1>1 DEF VictimIn, MovedIn, DoneIn, CopyingIn

LEMMA ViewsPage ==
  ASSUME NEW st, Len(st) = 5, st[3].proc = "erase"
  PROVE  /\ VictimIn(st) = st[3].it /\ MovedIn(st) = st[2].invalidated_translation
         /\ DoneIn(st) = st[2].i /\ CopyingIn(st) = (st[2].proc = "copy")
  <1>1. Len(st) >= 3 /\ Len(st) >= 4 /\ Len(st) - 2 = 3 /\ Len(st) - 3 = 2
    OBVIOUS
  <1>. QED
    BY <1>1 DEF VictimIn, MovedIn, DoneIn, CopyingIn

\* cleanup_block and insert_events are about the same block.
OneVictim(st) == Len(st) >= 4 => st[Len(st) - 3].block = st[Len(st) - 2].it


\* The functions the top of the stack can be in, by height.
LEMMA Heights ==
  ASSUME NEW st, StackSound(st), UnnestedIn(st), st # << >>
  PROVE  /\ Len(st) \in 1 .. 5
         /\ st[1].proc = "write" => Len(st) = 1
         /\ st[1].proc \in {"page", "take"} => Len(st) \in {2, 5}
         /\ st[1].proc \in {"insert", "erase"} => Len(st) = 3
         /\ st[1].proc \in {"cleanup", "copy"} => Len(st) = 4 /\ st[2].proc = "erase"
         /\ Len(st) = 5 => st[2].proc = "copy" /\ st[3].proc = "erase"
  <1>1. /\ Len(st) \in 0 .. 5
        /\ Len(st) = 0 => st = << >>
        /\ Len(st) = 1 => st[1].proc = "write"
        /\ Len(st) = 2 => st[1].proc \in {"page", "take"}
        /\ Len(st) = 3 => st[1].proc \in {"insert", "erase"}
        /\ Len(st) = 4 => st[1].proc \in {"cleanup", "copy"} /\ st[2].proc = "erase"
        /\ Len(st) = 5 => /\ st[1].proc \in {"page", "take"}
                          /\ st[2].proc = "copy" /\ st[3].proc = "erase"
    BY Shape
  <1>2. \/ Len(st) = 1 \/ Len(st) = 2 \/ Len(st) = 3 \/ Len(st) = 4 \/ Len(st) = 5
    BY <1>1
  <1>. QED
    BY <1>1, <1>2

\* Two stacks say the same about the collection under way.
SameViews(s, t) ==
  /\ VictimIn(t) = VictimIn(s)
  /\ MovedIn(t) = MovedIn(s)
  /\ DoneIn(t) = DoneIn(s)
  /\ CopyingIn(t) = CopyingIn(s)
  /\ OneVictim(s) => OneVictim(t)

\* No collection is under way.
NoViews(st) ==
  /\ VictimIn(st) = NoBlock /\ MovedIn(st) = << >>
  /\ DoneIn(st) = BLOCK_SIZE /\ CopyingIn(st) = FALSE
  /\ OneVictim(st)

LEMMA NoneUnder ==
  ASSUME NEW st, Len(st) \in {0, 1, 2}
  PROVE  NoViews(st)
  <1>1. ~(Len(st) >= 3) /\ ~(Len(st) >= 4)
    OBVIOUS
  <1>2. OneVictim(st) /\ CopyingIn(st) = FALSE
    BY <1>1 DEF OneVictim, CopyingIn
  <1>. QED
    BY <1>2, ViewsLow DEF NoViews

LEMMA NoneBegun ==
  ASSUME NEW st, Len(st) = 3, st[1].proc = "insert"
  PROVE  NoViews(st)
  <1>1. ~(Len(st) >= 4)
    OBVIOUS
  <1>2. OneVictim(st) /\ CopyingIn(st) = FALSE
    BY <1>1 DEF OneVictim, CopyingIn
  <1>. QED
    BY <1>2, ViewsInsert DEF NoViews

LEMMA NoneAndNone ==
  ASSUME NEW s, NEW t, NoViews(s), NoViews(t)
  PROVE  SameViews(s, t)
  BY DEF NoViews, SameViews

\* A return that ends neither a collection nor an erase, and a step from one
\* point of such a function to another.
LEMMA ReturnViews ==
  ASSUME NEW st, StackSound(st), UnnestedIn(st), st # << >>,
         st[1].proc \in {"page", "take", "insert", "write"}
  PROVE  SameViews(st, Tail(st))
  <1>. DEFINE u == Tail(st)
  <1>1. /\ Len(st) \in 1 .. 5
        /\ Len(st) \in {1, 2, 5} \/ (Len(st) = 3 /\ st[1].proc = "insert")
        /\ Len(st) = 5 => st[2].proc = "copy" /\ st[3].proc = "erase"
    BY Heights
  <1>2. /\ st \in Seq(LiveFrames) /\ Len(st) \in Nat /\ Len(u) = Len(st) - 1
        /\ \A i \in 1 .. Len(st) - 1 : u[i] = st[i + 1]
    BY ReturnStack DEF StackSound
  <1>. HIDE DEF u
  <1>3. CASE Len(st) = 5
    <2>1. Len(u) = 4
      BY <1>2, <1>3
    <2>2. 1 \in 1 .. Len(st) - 1 /\ 2 \in 1 .. Len(st) - 1 /\ 1 + 1 = 2 /\ 2 + 1 = 3
      BY <1>3
    <2>3. u[1] = st[2] /\ u[2] = st[3]
      BY <1>2, <2>2
    <2>4. st[3].proc = "erase"
      BY <1>1, <1>3
    <2>5. OneVictim(st) => OneVictim(u)
      <3>1. Len(st) >= 4 /\ Len(st) - 3 = 2 /\ Len(st) - 2 = 3 /\ Len(u) - 3 = 1 /\ Len(u) - 2 = 2
        BY <1>3, <2>1
      <3>. QED
        BY <2>3, <3>1 DEF OneVictim
    <2>6. /\ VictimIn(st) = st[3].it /\ MovedIn(st) = st[2].invalidated_translation
          /\ DoneIn(st) = st[2].i /\ CopyingIn(st) = (st[2].proc = "copy")
      BY <1>3, <2>4, ViewsPage
    <2>7. /\ VictimIn(u) = u[2].it /\ MovedIn(u) = u[1].invalidated_translation
          /\ DoneIn(u) = u[1].i /\ CopyingIn(u) = (u[1].proc = "copy")
      BY <2>1, <2>3, <2>4, ViewsCleanup
    <2>. QED
      BY <2>3, <2>5, <2>6, <2>7 DEF SameViews, u
  <1>4. CASE Len(st) # 5
    <2>1. NoViews(st)
      BY <1>1, <1>4, NoneUnder, NoneBegun
    <2>2. Len(u) \in {0, 1, 2}
      BY <1>1, <1>2, <1>4, SMTT(30)
    <2>3. NoViews(u)
      BY <2>2, NoneUnder, NoneBegun
    <2>. QED
      BY <2>1, <2>3, NoneAndNone DEF u
  <1>. QED
    BY <1>3, <1>4

LEMMA BecomeViews ==
  ASSUME NEW st, StackSound(st), UnnestedIn(st), st # << >>,
         NEW f \in LiveFrames, SameFunction(f.proc, st[1].proc),
         \/ st[1].proc \in {"page", "take"}
         \/ st[1].proc = "insert" /\ f.proc = "insert"
  PROVE  SameViews(st, <<f>> \o Tail(st))
  <1>. DEFINE u == <<f>> \o Tail(st)
  <1>1. /\ Len(st) \in {2, 5} \/ (Len(st) = 3 /\ st[1].proc = "insert" /\ f.proc = "insert")
        /\ Len(st) = 5 => st[2].proc = "copy" /\ st[3].proc = "erase"
    BY Heights
  <1>2. /\ st \in Seq(LiveFrames) /\ Len(u) = Len(st) /\ u[1] = f
        /\ \A i \in 2 .. Len(st) : u[i] = st[i]
    BY BecomeStack DEF StackSound
  <1>. HIDE DEF u
  <1>3. CASE Len(st) = 5
    <2>2. 2 \in 2 .. Len(st) /\ 3 \in 2 .. Len(st)
      BY <1>3
    <2>3. u[2] = st[2] /\ u[3] = st[3] /\ Len(u) = 5
      BY <1>2, <1>3, <2>2
    <2>4. st[3].proc = "erase"
      BY <1>1, <1>3
    <2>5. OneVictim(st) => OneVictim(u)
      <3>1. Len(st) >= 4 /\ Len(st) - 3 = 2 /\ Len(st) - 2 = 3 /\ Len(u) - 3 = 2 /\ Len(u) - 2 = 3
        BY <1>3, <2>3
      <3>. QED
        BY <2>3, <3>1 DEF OneVictim
    <2>6. /\ VictimIn(st) = st[3].it /\ MovedIn(st) = st[2].invalidated_translation
          /\ DoneIn(st) = st[2].i /\ CopyingIn(st) = (st[2].proc = "copy")
      BY <1>3, <2>4, ViewsPage
    <2>7. /\ VictimIn(u) = u[3].it /\ MovedIn(u) = u[2].invalidated_translation
          /\ DoneIn(u) = u[2].i /\ CopyingIn(u) = (u[2].proc = "copy")
      BY <2>3, <2>4, ViewsPage
    <2>. QED
      BY <2>3, <2>5, <2>6, <2>7 DEF SameViews, u
  <1>4. CASE Len(st) # 5
    <2>1. NoViews(st)
      BY <1>1, <1>4, NoneUnder, NoneBegun
    <2>2. Len(u) = 2 \/ (Len(u) = 3 /\ u[1].proc = "insert")
      BY <1>1, <1>2, <1>4
    <2>3. NoViews(u)
      BY <2>2, NoneUnder, NoneBegun
    <2>. QED
      BY <2>1, <2>3, NoneAndNone DEF u
  <1>. QED
    BY <1>3, <1>4

\* A collection that starts where none is under way.
LEMMA PushViews ==
  ASSUME NEW st, StackSound(st), st # << >>, st[1].proc \in {"page", "take"},
         NEW f \in LiveFrames, f.proc = "insert", UnnestedIn(<<f>> \o st)
  PROVE  NoViews(st) /\ NoViews(<<f>> \o st)
  <1>. DEFINE u == <<f>> \o st
  <1>1. Calls(f.proc, st[1].proc)
    BY DEF Calls
  <1>2. StackSound(u) /\ Len(u) = Len(st) + 1 /\ u[1] = f
    BY <1>1, SoundPush
  <1>3. st \in Seq(LiveFrames)
    BY DEF StackSound
  <1>4. Len(st) \in Nat
    BY <1>3
  <1>5. u # << >>
    <2>1. <<f>> \in Seq(LiveFrames)
      OBVIOUS
    <2>. QED
      BY <1>3, <2>1
  <1>. HIDE DEF u
  <1>6. Len(u) = 3
    BY <1>2, <1>5, Heights DEF u
  <1>7. Len(st) = 2
    <2>1. Len(st) + 1 = 3
      BY <1>2, <1>6
    <2>2. \A n \in Nat : n + 1 = 3 => n = 2
      OBVIOUS
    <2>. QED
      BY <1>4, <2>1, <2>2, Zenon
  <1>8. NoViews(st)
    <2>1. Len(st) \in {0, 1, 2}
      BY <1>7
    <2>. QED
      BY <2>1, NoneUnder
  <1>9. NoViews(u)
    BY <1>2, <1>6, NoneBegun
  <1>. QED
    BY <1>8, <1>9 DEF u


---------------------------------------------------------------------------
(* What holds of the array, the lists and the maps while collections do not *)
(* nest: `v' is the block being collected, `mv' the pages moved out of it,  *)
(* `d' how many of its pages were looked at, `c' whether page d is being    *)
(* copied, and `h' whether the page handed out last is still to be written. *)

\* Blocks are programmed in order, and pages_valid counts the pages.
FillInv(f) ==
  \A b \in Blocks :
    /\ f.pages_valid[b] <= BLOCK_SIZE
    /\ \A o \in Offsets : f.page[<<b, o>>] = "EMPTY" <=> o >= f.pages_valid[b]

\* What can be handed out is erased, and is not the block being written.
ListInv(f, m, cur) ==
  /\ NoRepeat(m.free_list)
  /\ \A b \in Members(m.free_list) : b < m.fresh /\ f.pages_valid[b] = 0
  /\ \A b \in Blocks : b >= m.fresh => f.pages_valid[b] = 0
  /\ m.current_writing_block = cur[1]
  /\ cur[1] < m.fresh /\ cur[1] \notin Members(m.free_list)

CurInv(f, cur, h) ==
  cur # NoPpn => f.pages_valid[cur[1]] = IF h THEN cur[2] ELSE cur[2] + 1

\* The victim stays full and is nobody's to write; its pages are emptied in
\* order, to other blocks.
VictimInv(f, m, cur, v, mv, d, c) ==
  v # NoBlock =>
    /\ v \in Blocks /\ v < m.fresh /\ v \notin Members(m.free_list) /\ v # cur[1]
    /\ f.pages_valid[v] = BLOCK_SIZE
    /\ \A o \in Offsets : o < d => f.page[<<v, o>>] # "VALID"
    /\ \A l \in DOMAIN mv : mv[l][1] # v
    /\ c => d \in Offsets /\ f.page[<<v, d>>] = "VALID"

\* Where logical page l is.
PlaceIn(t, mv, l) == IF l \in DOMAIN mv THEN mv[l] ELSE t[l]

\* The VALID pages are the places of the logical pages, one each; the reverse
\* map and the entries that wait for the end of a collection agree.
PlacesInv(f, t, mv) ==
  /\ \A l \in Lpns : PlaceIn(t, mv, l) # NoPpn => f.page[PlaceIn(t, mv, l)] = "VALID"
  /\ \A p \in Ppns : f.page[p] = "VALID" => \E l \in Lpns : PlaceIn(t, mv, l) = p
  /\ \A l, k \in Lpns : PlaceIn(t, mv, l) = PlaceIn(t, mv, k) /\ PlaceIn(t, mv, l) # NoPpn => l = k
ReverseInv(t, r, mv) == \A l \in Lpns \ DOMAIN mv : t[l] # NoPpn => r[t[l]] = l
WaitInv(f, t, mv) ==
  \A l \in DOMAIN mv : t[l] # NoPpn /\ f.page[t[l]] = "INVALID" /\ f.data[mv[l]] = f.data[t[l]]

\* A page programmed, and the page it replaces.
Placed(f, g, p, d, q) ==
  /\ \A x \in Ppns : g.page[x] = IF x = q THEN "INVALID" ELSE IF x = p THEN "VALID" ELSE f.page[x]
  /\ \A x \in Ppns : g.data[x] = IF x = p THEN d ELSE f.data[x]
  /\ \A b \in Blocks : g.pages_valid[b] = IF b = p[1] THEN f.pages_valid[b] + 1 ELSE f.pages_valid[b]

LEMMA PlacedEffect ==
  ASSUME NEW f \in FlashType, NEW p \in Ppns, NEW d \in Contents, NEW q \in Ppns \cup {NoPpn},
         NEW g, g = Replace(Program(f, p, d), q)
  PROVE  Placed(f, g, p, d, q)
  <1>. DEFINE e == Program(f, p, d)
  <1>1. /\ e \in FlashType
        /\ e.page = [f.page EXCEPT ![p] = "VALID"]
        /\ e.data = [f.data EXCEPT ![p] = d]
        /\ e.pages_valid = [f.pages_valid EXCEPT ![p[1]] = f.pages_valid[p[1]] + 1]
    BY ProgramEffect
  <1>. HIDE DEF e
  <1>2. f.page \in [Ppns -> PageStates] /\ f.data \in [Ppns -> Contents] /\ f.pages_valid \in [Blocks -> Nat]
    BY DEF FlashType
  <1>3. /\ g.data = e.data
        /\ g.pages_valid = e.pages_valid
        /\ q \in Ppns => g.page = [e.page EXCEPT ![q] = "INVALID"]
        /\ q = NoPpn => g = e
    BY <1>1, ReplaceEffect DEF e
  <1>4. p[1] \in Blocks
    BY DEF Ppns
  <1>5. \A x \in Ppns : e.page[x] = IF x = p THEN "VALID" ELSE f.page[x]
    BY <1>1, <1>2
  <1>6. e.page \in [Ppns -> PageStates]
    BY <1>1 DEF FlashType
  <1>7. \A x \in Ppns : g.page[x] = IF x = q THEN "INVALID" ELSE IF x = p THEN "VALID" ELSE f.page[x]
    BY <1>3, <1>5, <1>6, NoPpnNotPage
  <1>8. \A x \in Ppns : g.data[x] = IF x = p THEN d ELSE f.data[x]
    BY <1>1, <1>2, <1>3
  <1>9. \A b \in Blocks : g.pages_valid[b] = IF b = p[1] THEN f.pages_valid[b] + 1 ELSE f.pages_valid[b]
    BY <1>1, <1>2, <1>3, <1>4
  <1>. QED
    BY <1>7, <1>8, <1>9 DEF Placed

\* The page programmed is the next one of its block.
LEMMA FillPlaced ==
  ASSUME NEW f \in FlashType, NEW g, NEW p \in Ppns, NEW d, NEW q \in Ppns \cup {NoPpn},
         Placed(f, g, p, d, q), FillInv(f), f.page[p] = "EMPTY", f.pages_valid[p[1]] = p[2],
         q # NoPpn => f.page[q] = "VALID"
  PROVE  FillInv(g)
  <1>1. p[1] \in Blocks /\ p[2] \in Offsets /\ p = <<p[1], p[2]>>
    BY DEF Ppns
  <1>2. \A x \in Ppns : g.page[x] = "EMPTY" <=> f.page[x] = "EMPTY" /\ x # p
    <2>. SUFFICES ASSUME NEW x \in Ppns
                  PROVE  g.page[x] = "EMPTY" <=> f.page[x] = "EMPTY" /\ x # p
      OBVIOUS
    <2>1. g.page[x] = IF x = q THEN "INVALID" ELSE IF x = p THEN "VALID" ELSE f.page[x]
      BY DEF Placed
    <2>2. x = q => f.page[x] = "VALID"
      BY NoPpnNotPage
    <2>. QED
      BY <2>1, <2>2
  <1>3. SUFFICES ASSUME NEW b \in Blocks
                 PROVE  /\ g.pages_valid[b] <= BLOCK_SIZE
                        /\ \A o \in Offsets : g.page[<<b, o>>] = "EMPTY" <=> o >= g.pages_valid[b]
    BY DEF FillInv
  <1>4. /\ f.pages_valid[b] <= BLOCK_SIZE /\ f.pages_valid[b] \in Nat
        /\ \A o \in Offsets : f.page[<<b, o>>] = "EMPTY" <=> o >= f.pages_valid[b]
    BY DEF FillInv, FlashType
  <1>5. \A o \in Offsets : <<b, o>> \in Ppns /\ (<<b, o>> = p <=> b = p[1] /\ o = p[2])
    BY <1>1 DEF Ppns
  <1>6. CASE b = p[1]
    <2>1. g.pages_valid[b] = p[2] + 1 /\ f.pages_valid[b] = p[2]
      BY <1>6 DEF Placed
    <2>2. \A o \in Offsets : g.page[<<b, o>>] = "EMPTY" <=> (o >= p[2] /\ o # p[2])
      BY <1>2, <1>4, <1>5, <1>6, <2>1
    <2>. QED
      BY <1>1, <2>1, <2>2, GeometryAssumption DEF Offsets
  <1>7. CASE b # p[1]
    <2>1. g.pages_valid[b] = f.pages_valid[b]
      BY <1>7 DEF Placed
    <2>. QED
      BY <1>2, <1>4, <1>5, <1>7, <2>1
  <1>. QED
    BY <1>6, <1>7

LEMMA ListPlaced ==
  ASSUME NEW f, NEW g, NEW m \in BlockManagerType, NEW p \in Ppns, NEW d, NEW q,
         Placed(f, g, p, d, q), ListInv(f, m, p)
  PROVE  ListInv(g, m, p)
  <1>1. \A b \in Members(m.free_list) : b \in Blocks /\ b # p[1]
    BY ListMembers DEF ListInv, BlockManagerType
  <1>2. p[1] \in Int /\ m.fresh \in Int
    BY DEF Ppns, Blocks, BlockManagerType
  <1>3. \A b \in Blocks : b >= m.fresh => b # p[1]
    BY <1>2 DEF ListInv, Blocks
  <1>. QED
    BY <1>1, <1>3 DEF ListInv, Placed

LEMMA CurPlaced ==
  ASSUME NEW f, NEW g, NEW p \in Ppns, NEW d, NEW q,
         Placed(f, g, p, d, q), CurInv(f, p, TRUE)
  PROVE  CurInv(g, p, FALSE)
  <1>1. p[1] \in Blocks /\ p # NoPpn
    BY NoPpnNotPage DEF Ppns
  <1>. QED
    BY <1>1 DEF CurInv, Placed


LEMMA VictimPlaced ==
  ASSUME NEW f, NEW g, NEW m, NEW p \in Ppns, NEW d, NEW v, NEW mv, NEW i, NEW l \in Lpns,
         Placed(f, g, p, d, <<v, i>>), VictimInv(f, m, p, v, mv, i, TRUE), v # NoBlock,
         NEW n, n = Updated(Entry(l, p), mv)
  PROVE  VictimInv(g, m, p, v, n, i + 1, FALSE)
  <1>1. /\ v \in Blocks /\ v < m.fresh /\ v \notin Members(m.free_list) /\ v # p[1]
        /\ f.pages_valid[v] = BLOCK_SIZE
        /\ \A o \in Offsets : o < i => f.page[<<v, o>>] # "VALID"
        /\ \A k \in DOMAIN mv : mv[k][1] # v
        /\ i \in Offsets
    BY DEF VictimInv
  <1>2. g.pages_valid[v] = BLOCK_SIZE
    BY <1>1 DEF Placed
  <1>3. \A o \in Offsets : o < i + 1 => g.page[<<v, o>>] # "VALID"
    <2>. SUFFICES ASSUME NEW o \in Offsets, o < i + 1 PROVE g.page[<<v, o>>] # "VALID"
      OBVIOUS
    <2>1. o < i \/ o = i
      BY <1>1 DEF Offsets
    <2>2. <<v, o>> \in Ppns /\ <<v, o>> # p
      BY <1>1 DEF Ppns
    <2>3. g.page[<<v, o>>] = IF <<v, o>> = <<v, i>> THEN "INVALID" ELSE f.page[<<v, o>>]
      BY <2>2 DEF Placed
    <2>. QED
      BY <1>1, <2>1, <2>3
  <1>4. \A k \in DOMAIN n : n[k] = p \/ (k \in DOMAIN mv /\ n[k] = mv[k])
    BY DEF Updated, Entry
  <1>5. \A k \in DOMAIN n : n[k][1] # v
    BY <1>1, <1>4
  <1>. QED
    BY <1>1, <1>2, <1>3, <1>5 DEF VictimInv

\* A map with another entry for l, and an array with one page more INVALID.
Mapped(t, l, p) == [t EXCEPT ![l] = p]
PageGone(f, g, p) == \A x \in Ppns : g.page[x] = IF x = p THEN "INVALID" ELSE f.page[x]

\* The maps after a write of the host, ...
LEMMA PlacesWritten ==
  ASSUME NEW f, NEW g, NEW t \in [Lpns -> Ppns \cup {NoPpn}], NEW r \in [Ppns -> Lpns \cup {NoLpn}],
         NEW l \in Lpns, NEW p \in Ppns, NEW d, Placed(f, g, p, d, t[l]), f.page[p] = "EMPTY",
         PlacesInv(f, t, << >>), ReverseInv(t, r, << >>),
         NEW u, u = Mapped(t, l, p), NEW s, s = Mapped(r, p, l)
  PROVE  PlacesInv(g, u, << >>) /\ ReverseInv(u, s, << >>) /\ WaitInv(g, u, << >>)
  <1>1. DOMAIN << >> = {}
    OBVIOUS
  <1>2. /\ \A k \in Lpns : PlaceIn(t, << >>, k) = t[k]
        /\ \A k \in Lpns : PlaceIn(u, << >>, k) = u[k]
    BY <1>1 DEF PlaceIn
  <1>3. /\ \A k \in Lpns : t[k] # NoPpn => t[k] \in Ppns /\ f.page[t[k]] = "VALID"
        /\ \A x \in Ppns : f.page[x] = "VALID" => \E k \in Lpns : t[k] = x
        /\ \A j, k \in Lpns : t[j] = t[k] /\ t[j] # NoPpn => j = k
        /\ \A k \in Lpns : t[k] # NoPpn => r[t[k]] = k
    BY <1>1, <1>2 DEF PlacesInv, ReverseInv
  <1>4. \A k \in Lpns : u[k] = IF k = l THEN p ELSE t[k]
    BY DEF Mapped
  <1>5. \A x \in Ppns : s[x] = IF x = p THEN l ELSE r[x]
    BY DEF Mapped
  <1>6. p # t[l] /\ \A k \in Lpns : t[k] # p
    <2>1. "EMPTY" # "VALID" /\ p # NoPpn
      BY NoPpnNotPage
    <2>. QED
      BY <1>3, <2>1
  <1>7. \A x \in Ppns : g.page[x] = IF x = t[l] THEN "INVALID" ELSE IF x = p THEN "VALID" ELSE f.page[x]
    BY DEF Placed
  <1>8. \A k \in Lpns : u[k] # NoPpn => g.page[u[k]] = "VALID"
    BY <1>3, <1>4, <1>6, <1>7
  <1>9. \A x \in Ppns : g.page[x] = "VALID" => \E k \in Lpns : u[k] = x
    <2>. SUFFICES ASSUME NEW x \in Ppns, g.page[x] = "VALID", x # p
                  PROVE  \E k \in Lpns : u[k] = x
      BY <1>4
    <2>1. x # t[l] /\ f.page[x] = "VALID"
      BY <1>7
    <2>2. PICK k \in Lpns : t[k] = x
      BY <1>3, <2>1
    <2>. QED
      BY <1>4, <2>1, <2>2
  <1>10. \A j, k \in Lpns : u[j] = u[k] /\ u[j] # NoPpn => j = k
    BY <1>3, <1>4, <1>6
  <1>11. \A k \in Lpns : u[k] # NoPpn => s[u[k]] = k
    BY <1>3, <1>4, <1>5, <1>6
  <1>12. PlacesInv(g, u, << >>)
    <2>1. \A k \in Lpns : PlaceIn(u, << >>, k) # NoPpn => g.page[PlaceIn(u, << >>, k)] = "VALID"
      BY <1>2, <1>8
    <2>2. \A x \in Ppns : g.page[x] = "VALID" => \E k \in Lpns : PlaceIn(u, << >>, k) = x
      <3>. SUFFICES ASSUME NEW x \in Ppns, g.page[x] = "VALID"
                    PROVE  \E k \in Lpns : PlaceIn(u, << >>, k) = x
        OBVIOUS
      <3>1. PICK k \in Lpns : u[k] = x
        BY <1>9
      <3>2. PlaceIn(u, << >>, k) = x
        BY <1>2, <3>1
      <3>. QED
        BY <3>2, Zenon
    <2>3. \A j, k \in Lpns :
            PlaceIn(u, << >>, j) = PlaceIn(u, << >>, k) /\ PlaceIn(u, << >>, j) # NoPpn => j = k
      BY <1>2, <1>10
    <2>. QED
      BY <2>1, <2>2, <2>3, Zenon DEF PlacesInv
  <1>13. ReverseInv(u, s, << >>)
    BY <1>1, <1>11 DEF ReverseInv
  <1>14. WaitInv(g, u, << >>)
    BY <1>1 DEF WaitInv
  <1>. QED
    BY <1>12, <1>13, <1>14

\* ... after a trim, ...
LEMMA PlacesTrimmed ==
  ASSUME NEW f \in FlashType, NEW t \in [Lpns -> Ppns \cup {NoPpn}],
         NEW r \in [Ppns -> Lpns \cup {NoLpn}], NEW l \in Lpns, t[l] # NoPpn,
         NEW g, g = Invalidate(f, t[l]),
         PlacesInv(f, t, << >>), ReverseInv(t, r, << >>),
         NEW u, u = Mapped(t, l, NoPpn)
  PROVE  /\ PlacesInv(g, u, << >>) /\ ReverseInv(u, r, << >>) /\ WaitInv(g, u, << >>)
         /\ g.pages_valid = f.pages_valid
         /\ PageGone(f, g, t[l])
         /\ g.data = f.data
  <1>1. DOMAIN << >> = {}
    OBVIOUS
  <1>2. /\ \A k \in Lpns : PlaceIn(t, << >>, k) = t[k]
        /\ \A k \in Lpns : PlaceIn(u, << >>, k) = u[k]
    BY <1>1 DEF PlaceIn
  <1>3. /\ \A k \in Lpns : t[k] # NoPpn => t[k] \in Ppns /\ f.page[t[k]] = "VALID"
        /\ \A x \in Ppns : f.page[x] = "VALID" => \E k \in Lpns : t[k] = x
        /\ \A j, k \in Lpns : t[j] = t[k] /\ t[j] # NoPpn => j = k
        /\ \A k \in Lpns : t[k] # NoPpn => r[t[k]] = k
    BY <1>1, <1>2 DEF PlacesInv, ReverseInv
  <1>4. \A k \in Lpns : u[k] = IF k = l THEN NoPpn ELSE t[k]
    BY DEF Mapped
  <1>5. t[l] \in Ppns \cup {NoPpn} /\ t[l] \in Ppns
    BY <1>3
  <1>6. g = Replace(f, t[l])
    BY DEF Replace
  <1>7. /\ g.data = f.data /\ g.pages_valid = f.pages_valid
        /\ g.page = [f.page EXCEPT ![t[l]] = "INVALID"]
    BY <1>5, <1>6, ReplaceEffect
  <1>8. \A x \in Ppns : g.page[x] = IF x = t[l] THEN "INVALID" ELSE f.page[x]
    BY <1>5, <1>7 DEF FlashType
  <1>9. \A k \in Lpns : u[k] # NoPpn => g.page[u[k]] = "VALID"
    BY <1>3, <1>4, <1>8
  <1>10. \A x \in Ppns : g.page[x] = "VALID" => \E k \in Lpns : u[k] = x
    <2>. SUFFICES ASSUME NEW x \in Ppns, g.page[x] = "VALID"
                  PROVE  \E k \in Lpns : u[k] = x
      OBVIOUS
    <2>1. x # t[l] /\ f.page[x] = "VALID"
      BY <1>8
    <2>2. PICK k \in Lpns : t[k] = x
      BY <1>3, <2>1
    <2>. QED
      BY <1>4, <2>1, <2>2
  <1>11. \A j, k \in Lpns : u[j] = u[k] /\ u[j] # NoPpn => j = k
    BY <1>3, <1>4
  <1>12. PlacesInv(g, u, << >>)
    <2>1. \A k \in Lpns : PlaceIn(u, << >>, k) # NoPpn => g.page[PlaceIn(u, << >>, k)] = "VALID"
      BY <1>2, <1>9
    <2>2. \A x \in Ppns : g.page[x] = "VALID" => \E k \in Lpns : PlaceIn(u, << >>, k) = x
      <3>. SUFFICES ASSUME NEW x \in Ppns, g.page[x] = "VALID"
                    PROVE  \E k \in Lpns : PlaceIn(u, << >>, k) = x
        OBVIOUS
      <3>1. PICK k \in Lpns : u[k] = x
        BY <1>10
      <3>2. PlaceIn(u, << >>, k) = x
        BY <1>2, <3>1
      <3>. QED
        BY <3>2, Zenon
    <2>3. \A j, k \in Lpns :
            PlaceIn(u, << >>, j) = PlaceIn(u, << >>, k) /\ PlaceIn(u, << >>, j) # NoPpn => j = k
      BY <1>2, <1>11
    <2>. QED
      BY <2>1, <2>2, <2>3, Zenon DEF PlacesInv
  <1>13. ReverseInv(u, r, << >>)
    BY <1>1, <1>3, <1>4 DEF ReverseInv
  <1>14. WaitInv(g, u, << >>)
    BY <1>1 DEF WaitInv
  <1>. QED
    BY <1>7, <1>8, <1>12, <1>13, <1>14 DEF PageGone

\* ... after a page was copied out of the victim, by whom the reverse map says
\* it belongs to, ...
LEMMA PlacesCopied ==
  ASSUME NEW f, NEW g, NEW t \in [Lpns -> Ppns \cup {NoPpn}], NEW r \in [Ppns -> Lpns \cup {NoLpn}],
         NEW mv, DOMAIN mv \in SUBSET Lpns, mv \in [DOMAIN mv -> Ppns],
         NEW p \in Ppns, NEW q \in Ppns, f.page[p] = "EMPTY", f.page[q] = "VALID",
         Placed(f, g, p, f.data[q], q), \A k \in DOMAIN mv : mv[k] # q,
         PlacesInv(f, t, mv), ReverseInv(t, r, mv), WaitInv(f, t, mv),
         NEW l \in Lpns, r[q] # NoLpn => l = r[q],
         NEW n, n = Updated(Entry(l, p), mv)
  PROVE  /\ PlacesInv(g, t, n) /\ ReverseInv(t, r, n) /\ WaitInv(g, t, n)
         /\ t[l] = q
  <1>1. /\ \A k \in Lpns : PlaceIn(t, mv, k) # NoPpn => f.page[PlaceIn(t, mv, k)] = "VALID"
        /\ \A x \in Ppns : f.page[x] = "VALID" => \E k \in Lpns : PlaceIn(t, mv, k) = x
        /\ \A j, k \in Lpns : PlaceIn(t, mv, j) = PlaceIn(t, mv, k) /\ PlaceIn(t, mv, j) # NoPpn => j = k
    BY DEF PlacesInv
  <1>2. p # q /\ q # NoPpn /\ p # NoPpn
    BY NoPpnNotPage
  <1>3. t[l] = q /\ l \notin DOMAIN mv /\ r[q] = l
    <2>1. PICK k \in Lpns : PlaceIn(t, mv, k) = q
      BY <1>1
    <2>2. k \notin DOMAIN mv /\ t[k] = q
      BY <2>1 DEF PlaceIn
    <2>3. r[q] = k
      BY <1>2, <2>2 DEF ReverseInv
    <2>4. r[q] # NoLpn
      BY <2>3 DEF Lpns, NoLpn
    <2>. QED
      BY <2>2, <2>3, <2>4
  <1>4. /\ DOMAIN n = DOMAIN mv \cup {l}
        /\ n[l] = p
        /\ \A k \in DOMAIN mv : k # l => n[k] = mv[k]
    BY DEF Updated, Entry
  <1>5. \A k \in Lpns : PlaceIn(t, n, k) = IF k = l THEN p ELSE PlaceIn(t, mv, k)
    BY <1>4 DEF PlaceIn
  <1>6. PlaceIn(t, mv, l) = q
    BY <1>3 DEF PlaceIn
  <1>7. \A k \in Lpns : PlaceIn(t, mv, k) \in Ppns \cup {NoPpn}
    BY DEF PlaceIn
  <1>8. \A k \in Lpns : PlaceIn(t, mv, k) # p /\ (k # l => PlaceIn(t, mv, k) # q)
    BY <1>1, <1>2, <1>6
  <1>9. /\ \A x \in Ppns : g.page[x] = IF x = q THEN "INVALID" ELSE IF x = p THEN "VALID" ELSE f.page[x]
        /\ \A x \in Ppns : g.data[x] = IF x = p THEN f.data[q] ELSE f.data[x]
    BY DEF Placed
  <1>10. \A k \in Lpns : PlaceIn(t, n, k) # NoPpn => g.page[PlaceIn(t, n, k)] = "VALID"
    <2>. SUFFICES ASSUME NEW k \in Lpns, PlaceIn(t, n, k) # NoPpn
                  PROVE  g.page[PlaceIn(t, n, k)] = "VALID"
      OBVIOUS
    <2>1. CASE k = l
      BY <1>2, <1>5, <1>9, <2>1
    <2>2. CASE k # l
      <3>1. PlaceIn(t, n, k) = PlaceIn(t, mv, k)
        BY <1>5, <2>2
      <3>2. PlaceIn(t, mv, k) \in Ppns /\ PlaceIn(t, mv, k) # q /\ PlaceIn(t, mv, k) # p
        BY <1>7, <1>8, <2>2, <3>1
      <3>. QED
        BY <1>1, <1>9, <3>1, <3>2
    <2>. QED
      BY <2>1, <2>2
  <1>11. \A x \in Ppns : g.page[x] = "VALID" => \E k \in Lpns : PlaceIn(t, n, k) = x
    <2>. SUFFICES ASSUME NEW x \in Ppns, g.page[x] = "VALID", x # p
                  PROVE  \E k \in Lpns : PlaceIn(t, n, k) = x
      BY <1>5
    <2>1. x # q /\ f.page[x] = "VALID"
      BY <1>9
    <2>2. PICK k \in Lpns : PlaceIn(t, mv, k) = x
      BY <1>1, <2>1
    <2>. QED
      BY <1>5, <1>6, <2>1, <2>2
  <1>12. \A j, k \in Lpns : PlaceIn(t, n, j) = PlaceIn(t, n, k) /\ PlaceIn(t, n, j) # NoPpn => j = k
    BY <1>1, <1>5, <1>8
  <1>13. PlacesInv(g, t, n)
    BY <1>10, <1>11, <1>12 DEF PlacesInv
  <1>14. ReverseInv(t, r, n)
    BY <1>4 DEF ReverseInv
  <1>15. WaitInv(g, t, n)
    <2>. SUFFICES ASSUME NEW k \in DOMAIN n
                  PROVE  t[k] # NoPpn /\ g.page[t[k]] = "INVALID" /\ g.data[n[k]] = g.data[t[k]]
      BY DEF WaitInv
    <2>1. CASE k = l
      BY <1>2, <1>3, <1>4, <1>9, <2>1
    <2>2. CASE k # l
      <3>1. k \in DOMAIN mv /\ n[k] = mv[k] /\ k \in Lpns
        BY <1>4, <2>2
      <3>2. t[k] # NoPpn /\ f.page[t[k]] = "INVALID" /\ f.data[mv[k]] = f.data[t[k]]
        BY <3>1 DEF WaitInv
      <3>3. t[k] \in Ppns /\ t[k] # p /\ mv[k] \in Ppns
        BY <3>1, <3>2
      <3>4. mv[k] # p
        BY <1>8, <3>1 DEF PlaceIn
      <3>. QED
        BY <1>9, <3>1, <3>2, <3>3, <3>4
    <2>. QED
      BY <2>1, <2>2
  <1>. QED
    BY <1>3, <1>13, <1>14, <1>15

\* ... and when their entries are written.
LEMMA PlacesEntered ==
  ASSUME NEW f, NEW t \in [Lpns -> Ppns \cup {NoPpn}], NEW r \in [Ppns -> Lpns \cup {NoLpn}],
         NEW mv, DOMAIN mv \in SUBSET Lpns, mv \in [DOMAIN mv -> Ppns],
         PlacesInv(f, t, mv), ReverseInv(t, r, mv), WaitInv(f, t, mv),
         NEW u, u = Updated(mv, t), NEW s, s = Updated(AntiFunction(mv), r)
  PROVE  /\ PlacesInv(f, u, << >>) /\ ReverseInv(u, s, << >>) /\ WaitInv(f, u, << >>)
         /\ \A l \in Lpns : u[l] = PlaceIn(t, mv, l)
  <1>1. DOMAIN << >> = {}
    OBVIOUS
  <1>2. /\ u \in [Lpns -> Ppns \cup {NoPpn}]
        /\ \A l \in Lpns : u[l] = IF l \in DOMAIN mv THEN mv[l] ELSE t[l]
        /\ \A p \in Ppns : IF \E l \in DOMAIN mv : mv[l] = p
                             THEN s[p] \in DOMAIN mv /\ mv[s[p]] = p
                             ELSE s[p] = r[p]
    BY MovedMaps
  <1>3. \A l \in Lpns : u[l] = PlaceIn(t, mv, l)
    BY <1>2 DEF PlaceIn
  <1>4. \A l \in Lpns : PlaceIn(u, << >>, l) = PlaceIn(t, mv, l)
    BY <1>1, <1>3 DEF PlaceIn
  <1>5. PlacesInv(f, u, << >>)
    BY <1>4 DEF PlacesInv
  <1>6. ReverseInv(u, s, << >>)
    <2>. SUFFICES ASSUME NEW l \in Lpns, u[l] # NoPpn PROVE s[u[l]] = l
      BY DEF ReverseInv
    <2>1. u[l] \in Ppns
      BY <1>2
    <2>2. CASE \E k \in DOMAIN mv : mv[k] = u[l]
      <3>1. s[u[l]] \in DOMAIN mv /\ mv[s[u[l]]] = u[l]
        BY <1>2, <2>1, <2>2
      <3>2. PlaceIn(t, mv, s[u[l]]) = PlaceIn(t, mv, l) /\ PlaceIn(t, mv, l) # NoPpn
        BY <1>3, <3>1 DEF PlaceIn
      <3>. QED
        BY <3>1, <3>2 DEF PlacesInv
    <2>3. CASE ~\E k \in DOMAIN mv : mv[k] = u[l]
      <3>1. l \notin DOMAIN mv /\ u[l] = t[l]
        BY <1>2, <2>3
      <3>2. s[u[l]] = r[u[l]]
        BY <1>2, <2>1, <2>3
      <3>. QED
        BY <3>1, <3>2 DEF ReverseInv
    <2>. QED
      BY <2>2, <2>3
  <1>7. WaitInv(f, u, << >>)
    BY <1>1 DEF WaitInv
  <1>. QED
    BY <1>3, <1>5, <1>6, <1>7

\* The victim is erased, when no VALID page is left in it, and freed.
LEMMA VictimErased ==
  ASSUME NEW f \in FlashType, NEW v \in Blocks, CanErase(f, v), NEW g, g = Erase(f, {v}),
         NEW t \in [Lpns -> Ppns \cup {NoPpn}],
         \A o \in Offsets : f.page[<<v, o>>] # "VALID",
         FillInv(f), PlacesInv(f, t, << >>)
  PROVE  /\ FillInv(g) /\ PlacesInv(g, t, << >>) /\ WaitInv(g, t, << >>)
         /\ g.data = f.data
         /\ \A b \in Blocks : g.pages_valid[b] = IF b = v THEN 0 ELSE f.pages_valid[b]
  <1>1. {v} \in SUBSET Blocks /\ \A b \in {v} : CanErase(f, b)
    OBVIOUS
  <1>2. /\ g.data = f.data
        /\ \A p \in Ppns : g.page[p] = IF p[1] \in {v} THEN "EMPTY" ELSE f.page[p]
        /\ \A b \in Blocks : g.pages_valid[b] = IF b \in {v} THEN 0 ELSE f.pages_valid[b]
    BY <1>1, EraseEffect
  <1>3. FillInv(g)
    <2>. SUFFICES ASSUME NEW b \in Blocks
                  PROVE  /\ g.pages_valid[b] <= BLOCK_SIZE
                         /\ \A o \in Offsets : g.page[<<b, o>>] = "EMPTY" <=> o >= g.pages_valid[b]
      BY DEF FillInv
    <2>1. \A o \in Offsets : /\ <<b, o>> \in Ppns
                             /\ g.page[<<b, o>>] = IF b = v THEN "EMPTY" ELSE f.page[<<b, o>>]
      BY <1>2 DEF Ppns
    <2>2. CASE b = v
      <3>1. g.pages_valid[b] = 0
        BY <1>2, <2>2
      <3>2. 0 <= BLOCK_SIZE /\ \A o \in Offsets : o >= 0
        BY GeometryAssumption DEF Offsets
      <3>. QED
        BY <2>1, <2>2, <3>1, <3>2
    <2>3. CASE b # v
      <3>1. g.pages_valid[b] = f.pages_valid[b]
        BY <1>2, <2>3
      <3>2. /\ f.pages_valid[b] <= BLOCK_SIZE
            /\ \A o \in Offsets : f.page[<<b, o>>] = "EMPTY" <=> o >= f.pages_valid[b]
        BY DEF FillInv
      <3>. QED
        BY <2>1, <2>3, <3>1, <3>2
    <2>. QED
      BY <2>2, <2>3
  <1>4. \A p \in Ppns : f.page[p] = "VALID" => p[1] # v
    BY DEF Ppns
  <1>5. \A p \in Ppns : g.page[p] = "VALID" <=> f.page[p] = "VALID"
    BY <1>2, <1>4
  <1>6. \A l \in Lpns : PlaceIn(t, << >>, l) \in Ppns \cup {NoPpn}
    BY DEF PlaceIn
  <1>7. PlacesInv(g, t, << >>)
    BY <1>5, <1>6 DEF PlacesInv
  <1>8. WaitInv(g, t, << >>)
    BY DEF WaitInv
  <1>. QED
    BY <1>2, <1>3, <1>7, <1>8

Freed(m, v) == [m EXCEPT !.free_list = Append(m.free_list, v)]

LEMMA VictimFreed ==
  ASSUME NEW f, NEW g, NEW v \in Blocks, NEW m \in BlockManagerType, NEW cur \in Ppns \cup {NoPpn}, NEW h,
         \A b \in Blocks : g.pages_valid[b] = IF b = v THEN 0 ELSE f.pages_valid[b],
         v < m.fresh, v \notin Members(m.free_list), v # cur[1],
         ListInv(f, m, cur), CurInv(f, cur, h),
         NEW n, n = Freed(m, v)
  PROVE  ListInv(g, n, cur) /\ CurInv(g, cur, h)
  <1>1. /\ n.free_list = Append(m.free_list, v) /\ n.fresh = m.fresh
        /\ n.current_writing_block = m.current_writing_block
    BY DEF Freed, BlockManagerType
  <1>2. m.free_list \in Seq(Blocks)
    BY DEF BlockManagerType
  <1>3. /\ Members(n.free_list) = Members(m.free_list) \cup {v}
        /\ NoRepeat(n.free_list)
    BY <1>1, <1>2, AppendedList DEF ListInv
  <1>4. Members(m.free_list) \subseteq Blocks
    BY <1>2, ListMembers
  <1>5. \A b \in Members(n.free_list) : b < n.fresh /\ g.pages_valid[b] = 0
    BY <1>1, <1>3, <1>4 DEF ListInv
  <1>6. \A b \in Blocks : b >= n.fresh => g.pages_valid[b] = 0
    BY <1>1 DEF ListInv
  <1>7. /\ n.current_writing_block = cur[1]
        /\ cur[1] < n.fresh /\ cur[1] \notin Members(n.free_list)
    BY <1>1, <1>3 DEF ListInv
  <1>8. ListInv(g, n, cur)
    BY <1>3, <1>5, <1>6, <1>7 DEF ListInv
  <1>9. cur # NoPpn => cur[1] \in Blocks
    BY DEF Ppns
  <1>10. CurInv(g, cur, h)
    BY <1>9 DEF CurInv
  <1>. QED
    BY <1>8, <1>10

\* The first page of a block.
FirstOf(b) == <<b, 0>>

\* A block is handed out, fresh ...
LEMMA FreshTaken ==
  ASSUME NEW f, NEW m \in BlockManagerType, NEW cur, FreshBlockLeft(m),
         NEW n, n = GetFreeBlock(m, "DATA"), NEW p, p = FirstOf(m.fresh),
         NEW v, NEW mv, NEW d, NEW c,
         ListInv(f, m, cur), VictimInv(f, m, cur, v, mv, d, c)
  PROVE  ListInv(f, n, p) /\ CurInv(f, p, TRUE) /\ VictimInv(f, n, p, v, mv, d, c)
  <1>1. /\ n.free_list = m.free_list /\ n.fresh = m.fresh + 1
        /\ n.current_writing_block = m.fresh
    BY DEF GetFreeBlock, GetPageBlock, CountActive, BlockManagerType
  <1>2. m.fresh \in Blocks /\ m.fresh \in Nat
    BY GeometryAssumption DEF FreshBlockLeft, BlockManagerType, Blocks
  <1>3. \A b \in Members(m.free_list) : b \in Blocks /\ b < m.fresh
    BY ListMembers DEF ListInv, BlockManagerType
  <1>4. p[1] = m.fresh /\ p[2] = 0
    BY DEF FirstOf
  <1>5. f.pages_valid[m.fresh] = 0
    BY <1>2 DEF ListInv
  <1>6. /\ NoRepeat(n.free_list)
        /\ \A b \in Members(n.free_list) : b < n.fresh /\ f.pages_valid[b] = 0
    BY <1>1, <1>2, <1>3 DEF ListInv, Blocks
  <1>7. \A b \in Blocks : b >= n.fresh => f.pages_valid[b] = 0
    BY <1>1, <1>2 DEF ListInv, Blocks
  <1>8. p[1] < n.fresh /\ p[1] \notin Members(n.free_list)
    BY <1>1, <1>2, <1>3, <1>4
  <1>9. ListInv(f, n, p)
    BY <1>1, <1>4, <1>6, <1>7, <1>8 DEF ListInv
  <1>10. CurInv(f, p, TRUE)
    BY <1>4, <1>5 DEF CurInv
  <1>11. VictimInv(f, n, p, v, mv, d, c)
    <2>. SUFFICES ASSUME v # NoBlock PROVE VictimInv(f, n, p, v, mv, d, c)
      BY DEF VictimInv
    <2>1. v \in Blocks /\ v < m.fresh
      BY DEF VictimInv
    <2>2. v < n.fresh /\ v # p[1] /\ n.free_list = m.free_list
      BY <1>1, <1>2, <1>4, <2>1 DEF Blocks
    <2>. QED
      BY <2>2 DEF VictimInv
  <1>. QED
    BY <1>9, <1>10, <1>11

\* ... or from the free list.
NonEmpty(s) == s # << >>
FirstFree(m) == FirstOf(Head(m.free_list))
Beheaded(m) == CountActive(TakeFree(m), "DATA", 1)

LEMMA FreeTaken ==
  ASSUME NEW f, NEW m \in BlockManagerType, NEW cur, NonEmpty(m.free_list),
         NEW n, n = Beheaded(m), NEW p, p = FirstFree(m),
         NEW v, NEW mv, NEW d, NEW c,
         ListInv(f, m, cur), VictimInv(f, m, cur, v, mv, d, c)
  PROVE  ListInv(f, n, p) /\ CurInv(f, p, TRUE) /\ VictimInv(f, n, p, v, mv, d, c)
  <1>1. /\ n.free_list = Tail(m.free_list) /\ n.fresh = m.fresh
        /\ n.current_writing_block = Head(m.free_list)
    BY DEF Beheaded, TakeFree, CountActive, BlockManagerType
  <1>2. m.free_list \in Seq(Blocks)
    BY DEF BlockManagerType
  <1>3. /\ Head(m.free_list) \in Members(m.free_list)
        /\ Members(n.free_list) = Members(m.free_list) \ {Head(m.free_list)}
        /\ NoRepeat(n.free_list)
    BY <1>1, <1>2, BeheadedList DEF ListInv, NonEmpty
  <1>4. p[1] = Head(m.free_list) /\ p[2] = 0
    BY DEF FirstOf, FirstFree
  <1>5. f.pages_valid[p[1]] = 0 /\ p[1] < n.fresh /\ p[1] \notin Members(n.free_list)
    BY <1>1, <1>3, <1>4 DEF ListInv
  <1>6. \A b \in Members(n.free_list) : b < n.fresh /\ f.pages_valid[b] = 0
    BY <1>1, <1>3 DEF ListInv
  <1>7. \A b \in Blocks : b >= n.fresh => f.pages_valid[b] = 0
    BY <1>1 DEF ListInv
  <1>8. ListInv(f, n, p)
    BY <1>1, <1>3, <1>4, <1>5, <1>6, <1>7 DEF ListInv
  <1>9. CurInv(f, p, TRUE)
    BY <1>4, <1>5 DEF CurInv
  <1>10. VictimInv(f, n, p, v, mv, d, c)
    <2>. SUFFICES ASSUME v # NoBlock PROVE VictimInv(f, n, p, v, mv, d, c)
      BY DEF VictimInv
    <2>1. v \notin Members(m.free_list)
      BY DEF VictimInv
    <2>2. v \notin Members(n.free_list) /\ v # p[1] /\ n.fresh = m.fresh
      BY <1>1, <1>3, <1>4, <2>1
    <2>. QED
      BY <2>2 DEF VictimInv
  <1>. QED
    BY <1>8, <1>9, <1>10

\* The next page of the block.
LEMMA PageTaken ==
  ASSUME NEW f, NEW m \in BlockManagerType, NEW cur \in Ppns,
         NEW p, p = <<cur[1], cur[2] + 1>>, NEW v, NEW mv, NEW d, NEW c,
         ListInv(f, m, cur), CurInv(f, cur, FALSE), VictimInv(f, m, cur, v, mv, d, c)
  PROVE  ListInv(f, m, p) /\ CurInv(f, p, TRUE) /\ VictimInv(f, m, p, v, mv, d, c)
  <1>1. p[1] = cur[1] /\ p[2] = cur[2] + 1 /\ cur # NoPpn
    BY NoPpnNotPage
  <1>. QED
    BY <1>1 DEF ListInv, CurInv, VictimInv

\* All of it, of the present state.
LiveInv ==
  /\ FillInv(flash)
  /\ ListInv(flash, bm, currentDataPage)
  /\ CurInv(flash, currentDataPage, Handed(stack))
  /\ OneVictim(stack)
  /\ VictimInv(flash, bm, currentDataPage, VictimIn(stack), MovedIn(stack), DoneIn(stack), CopyingIn(stack))
  /\ PlacesInv(flash, ppn, MovedIn(stack))
  /\ ReverseInv(ppn, reverse_trans_map, MovedIn(stack))
  /\ WaitInv(flash, ppn, MovedIn(stack))

\* What a read of each logical page returns.
DiskIn(f, t) == [l \in Lpns |-> IF t[l] = NoPpn THEN NoData ELSE f.data[t[l]]]

LEMMA DiskHere == disk = DiskIn(flash, ppn)
  BY DEF disk, DiskIn

\* A step that changes nothing but what the stack says of its own functions.
LEMMA ViewsKept ==
  ASSUME LiveInv, SameViews(stack, stack'), Handed(stack') = Handed(stack),
         flash' = flash, ppn' = ppn, reverse_trans_map' = reverse_trans_map,
         currentDataPage' = currentDataPage,
         bm'.free_list = bm.free_list, bm'.fresh = bm.fresh,
         bm'.current_writing_block = bm.current_writing_block
  PROVE  LiveInv' /\ disk' = disk
  <1>1. ListInv(flash, bm', currentDataPage)
    BY DEF LiveInv, ListInv
  <1>2. VictimInv(flash, bm', currentDataPage, VictimIn(stack), MovedIn(stack), DoneIn(stack), CopyingIn(stack))
    BY DEF LiveInv, VictimInv
  <1>3. LiveInv'
    BY <1>1, <1>2 DEF LiveInv, SameViews
  <1>4. disk' = disk
    BY DEF disk
  <1>. QED
    BY <1>3, <1>4

LEMMA StillLive ==
  ASSUME LiveInv, stack' = stack, flash' = flash, ppn' = ppn, bm' = bm,
         reverse_trans_map' = reverse_trans_map, currentDataPage' = currentDataPage
  PROVE  LiveInv' /\ disk' = disk
  <1>1. SameViews(stack, stack')
    BY DEF SameViews
  <1>. QED
    BY <1>1, ViewsKept

LEMMA ReadLive ==
  ASSUME LiveInv, NEW l \in Lpns, Read(l)
  PROVE  LiveInv' /\ disk' = disk
  BY StillLive DEF Read, maps

LEMMA AssertLive ==
  ASSUME LiveInv, AssertFails
  PROVE  LiveInv' /\ disk' = disk
  BY StillLive DEF AssertFails, maps

LEMMA EndInsertLive ==
  ASSUME TypeInv, Unnested, LiveInv, EndInsert
  PROVE  LiveInv' /\ disk' = disk
  <1>1. At("insert") /\ stack' = Tail(stack)
    BY DEF EndInsert, Return
  <1>2. StackSound(stack) /\ stack # << >> /\ stack[1].proc = "insert"
    BY <1>1, TopFacts
  <1>3. SameViews(stack, stack')
    BY <1>1, <1>2, ReturnViews DEF Unnested
  <1>4. Len(stack) = 3
    BY <1>2, Heights DEF Unnested
  <1>5. Len(stack') = 2 /\ stack'[1] = stack[2]
    <2>1. /\ Len(stack') = Len(stack) - 1
          /\ \A i \in 1 .. Len(stack) - 1 : stack'[i] = stack[i + 1]
      BY <1>1, <1>2, ReturnStack DEF StackSound
    <2>2. 1 \in 1 .. Len(stack) - 1 /\ 1 + 1 = 2
      BY <1>4
    <2>. QED
      BY <1>4, <2>1, <2>2
  <1>6. stack[2].proc \in {"page", "take"}
    <2>1. 1 \in 1 .. Len(stack) - 1 /\ 1 + 1 = 2
      BY <1>4
    <2>2. Calls(stack[1].proc, stack[2].proc)
      BY <1>2, <2>1 DEF StackSound
    <2>. QED
      BY <1>2, <2>2 DEF Calls
  <1>7. Handed(stack') = FALSE /\ Handed(stack) = FALSE
    BY <1>2, <1>5, <1>6 DEF Handed
  <1>. QED
    BY <1>3, <1>7, ViewsKept DEF EndInsert, maps

LEMMA SkipVictimLive ==
  ASSUME TypeInv, Unnested, LiveInv, SkipVictim
  PROVE  LiveInv' /\ disk' = disk
  <1>1. At("insert") /\ LoopOn
    BY DEF SkipVictim
  <1>2. StackSound(stack) /\ stack # << >> /\ stack[1].proc = "insert"
    BY <1>1, TopFacts
  <1>3. PICK b \in NextVictims(flash) : Become([top EXCEPT !.it = b, !.num_to_erase = @ - 1])
    BY DEF SkipVictim
  <1>. DEFINE f == [top EXCEPT !.it = b, !.num_to_erase = @ - 1]
  <1>4. f \in LiveFrames /\ f.proc = "insert"
    <2>1. top \in InsertFrame /\ top.proc = "insert" /\ top.num_to_erase # 0
      BY <1>1, InsertTop, TopFacts DEF LoopOn
    <2>2. top.num_to_erase - 1 \in 0 .. NUM_TO_ERASE
      BY <2>1, BlockListsAssumption DEF InsertFrame
    <2>3. b \in Blocks
      BY <1>3, NextVictimType
    <2>4. f \in InsertFrame /\ f.proc = "insert"
      BY <2>1, <2>2, <2>3 DEF InsertFrame
    <2>. QED
      BY <2>4 DEF LiveFrames, Frames
  <1>5. stack' = <<f>> \o Tail(stack)
    BY <1>3 DEF Become
  <1>. HIDE DEF f
  <1>6. SameFunction(f.proc, stack[1].proc)
    BY <1>2, <1>4 DEF SameFunction
  <1>7. SameViews(stack, stack')
    BY <1>2, <1>4, <1>5, <1>6, BecomeViews DEF Unnested
  <1>8. stack'[1] = f
    BY <1>2, <1>4, <1>5, BecomeStack DEF StackSound
  <1>9. Handed(stack') = FALSE /\ Handed(stack) = FALSE
    BY <1>2, <1>4, <1>8 DEF Handed
  <1>. QED
    BY <1>7, <1>9, ViewsKept DEF SkipVictim, maps

\* insert_events is called, or returns at once.
LEMMA InsertLive ==
  ASSUME Unnested', LiveInv, NEW rest, StackSound(rest), rest # << >>,
         rest[1].proc \in {"page", "take"}, InsertEventsThen(rest), SameViews(stack, rest),
         Handed(stack) = FALSE,
         flash' = flash, ppn' = ppn, reverse_trans_map' = reverse_trans_map,
         currentDataPage' = currentDataPage,
         bm'.free_list = bm.free_list, bm'.fresh = bm.fresh,
         bm'.current_writing_block = bm.current_writing_block
  PROVE  LiveInv' /\ disk' = disk
  <1>1. CASE stack' = rest
    <2>1. Handed(stack') = FALSE
      BY <1>1 DEF Handed
    <2>. QED
      BY <1>1, <2>1, ViewsKept
  <1>2. CASE stack' # rest
    <2>1. PICK b \in Costliest(flash, Blocks) :
             stack' = <<[proc |-> "insert", num_to_erase |-> NUM_TO_ERASE, it |-> b]>> \o rest
      BY <1>2 DEF InsertEventsThen
    <2>. DEFINE f == [proc |-> "insert", num_to_erase |-> NUM_TO_ERASE, it |-> b]
    <2>2. f \in LiveFrames /\ f.proc = "insert"
      BY BlockListsAssumption DEF LiveFrames, Frames, InsertFrame, Costliest
    <2>3. stack' = <<f>> \o rest
      BY <2>1
    <2>. HIDE DEF f
    <2>4. UnnestedIn(<<f>> \o rest)
      BY <2>3 DEF Unnested
    <2>5. NoViews(rest) /\ NoViews(stack')
      BY <2>2, <2>3, <2>4, PushViews
    <2>6. SameViews(stack, stack')
      BY <2>5 DEF SameViews, NoViews
    <2>7. Calls(f.proc, rest[1].proc)
      BY <2>2 DEF Calls
    <2>8. stack'[1] = f
      BY <2>2, <2>3, <2>7, SoundPush
    <2>9. Handed(stack') = FALSE
      BY <2>2, <2>8 DEF Handed
    <2>. QED
      BY <2>6, <2>9, ViewsKept
  <1>. QED
    BY <1>1, <1>2

LEMMA WriteLive ==
  ASSUME Unnested', LiveInv, NEW l \in Lpns, NEW d \in Payloads, Write(l, d)
  PROVE  LiveInv' /\ disk' = disk
  <1>. DEFINE rest == <<[proc |-> "page"], [proc |-> "write", lpn |-> l, payload |-> d]>>
  <1>1. StackSound(rest) /\ Len(rest) = 2 /\ rest[1] = [proc |-> "page"]
    BY SoundWrite
  <1>2. InsertEventsThen(rest) \/ stack' = rest
    BY DEF Write
  <1>3. [proc |-> "page"].proc = "page"
    OBVIOUS
  <1>. HIDE DEF rest
  <1>4. rest # << >> /\ rest[1].proc = "page"
    BY <1>1, <1>3
  <1>5. stack = << >> /\ Len(stack) = 0
    BY DEF Write, Idle
  <1>6. SameViews(stack, rest) /\ Handed(stack) = FALSE
    <2>1. NoViews(stack) /\ NoViews(rest)
      BY <1>1, <1>5, NoneUnder
    <2>. QED
      BY <1>5, <2>1, NoneAndNone DEF Handed
  <1>7. CASE InsertEventsThen(rest)
    BY <1>1, <1>4, <1>6, <1>7, InsertLive DEF Write, maps
  <1>8. CASE stack' = rest
    <2>1. Handed(stack') = FALSE
      BY <1>4, <1>8 DEF Handed
    <2>. QED
      BY <1>6, <1>8, <2>1, ViewsKept DEF Write, maps
  <1>. QED
    BY <1>2, <1>7, <1>8

LEMMA CollectLive ==
  ASSUME TypeInv, Unnested, Unnested', LiveInv, CollectForLastBlock
  PROVE  LiveInv' /\ disk' = disk
  <1>1. At("page") /\ StackSound(stack) /\ stack # << >> /\ stack \in Seq(LiveFrames)
        /\ stack[1].proc = "page"
    BY TopFacts DEF CollectForLastBlock
  <1>2. /\ bm'.free_list = bm.free_list /\ bm'.fresh = bm.fresh
        /\ bm'.current_writing_block = bm.current_writing_block
    BY DEF CollectForLastBlock, TypeInv, TypeOK, BlockManagerType
  <1>. DEFINE f == [proc |-> "take"]
              rest == <<f>> \o Tail(stack)
  <1>4. f \in LiveFrames /\ f.proc = "take"
    BY DEF LiveFrames, Frames, PageFrame
  <1>5. InsertEventsThen(rest)
    BY DEF CollectForLastBlock
  <1>. HIDE DEF f
  <1>6. SameFunction(f.proc, stack[1].proc)
    BY <1>1, <1>4 DEF SameFunction
  <1>7. StackSound(rest) /\ rest[1] = f
    BY <1>1, <1>4, <1>6, SoundBecome, BecomeStack
  <1>8. rest # << >>
    BY <1>1, <1>4, BecomeStack, ReturnStack
  <1>9. SameViews(stack, rest)
    BY <1>1, <1>4, <1>6, BecomeViews DEF Unnested
  <1>10. Handed(stack) = FALSE
    BY <1>1 DEF Handed
  <1>. HIDE DEF rest
  <1>. QED
    BY <1>2, <1>4, <1>5, <1>7, <1>8, <1>9, <1>10, InsertLive DEF CollectForLastBlock, maps

\* A page was found for who asked for one.
LEMMA PageLive ==
  ASSUME TypeInv, Unnested, LiveInv, NEW proc \in {"page", "take"}, At(proc), Return,
         flash' = flash, ppn' = ppn, reverse_trans_map' = reverse_trans_map,
         ListInv(flash, bm', currentDataPage'), CurInv(flash, currentDataPage', TRUE),
         VictimInv(flash, bm', currentDataPage', VictimIn(stack), MovedIn(stack), DoneIn(stack),
                   CopyingIn(stack))
  PROVE  LiveInv' /\ disk' = disk
  <1>1. StackSound(stack) /\ stack # << >> /\ stack[1].proc = proc
    BY TopFacts
  <1>2. SameViews(stack, stack')
    BY <1>1, ReturnViews DEF Unnested, Return
  <1>3. Handed(stack') = TRUE
    <2>1. Len(stack) \in {2, 5}
      BY <1>1, Heights DEF Unnested
    <2>2. /\ Len(stack') = Len(stack) - 1 /\ stack' \in Seq(LiveFrames)
          /\ \A i \in 1 .. Len(stack) - 1 : stack'[i] = stack[i + 1]
      BY <1>1, ReturnStack DEF Return, StackSound
    <2>3. 1 \in 1 .. Len(stack) - 1 /\ 1 + 1 = 2
      BY <2>1
    <2>4. Calls(stack[1].proc, stack[2].proc) /\ stack'[1] = stack[2]
      BY <1>1, <2>2, <2>3 DEF StackSound
    <2>5. stack' # << >>
      BY <2>1, <2>2
    <2>. QED
      BY <1>1, <2>4, <2>5 DEF Calls, Handed
  <1>4. LiveInv'
    BY <1>2, <1>3 DEF LiveInv, SameViews
  <1>5. disk' = disk
    BY DEF disk
  <1>. QED
    BY <1>4, <1>5

LEMMA NotHanded ==
  ASSUME TypeInv, NEW proc, At(proc), proc \notin {"write", "copy"}
  PROVE  Handed(stack) = FALSE
  BY TopFacts DEF Handed

LEMMA NextPageLive ==
  ASSUME TypeInv, Unnested, LiveInv, NextPage
  PROVE  LiveInv' /\ disk' = disk
  <1>1. At("page") /\ currentDataPage \in Ppns /\ Return
    BY DEF NextPage, AtEnd, TypeInv, TypeOK
  <1>2. Handed(stack) = FALSE
    BY <1>1, NotHanded
  <1>. DEFINE p == <<currentDataPage[1], currentDataPage[2] + 1>>
  <1>3. currentDataPage' = p /\ bm' = bm
    BY DEF NextPage
  <1>4. bm \in BlockManagerType
    BY DEF TypeInv, TypeOK
  <1>5. /\ ListInv(flash, bm, currentDataPage)
        /\ CurInv(flash, currentDataPage, FALSE)
        /\ VictimInv(flash, bm, currentDataPage, VictimIn(stack), MovedIn(stack), DoneIn(stack),
                     CopyingIn(stack))
    BY <1>2 DEF LiveInv
  <1>6. /\ ListInv(flash, bm, p) /\ CurInv(flash, p, TRUE)
        /\ VictimInv(flash, bm, p, VictimIn(stack), MovedIn(stack), DoneIn(stack), CopyingIn(stack))
    BY <1>1, <1>4, <1>5, PageTaken
  <1>. HIDE DEF p
  <1>. QED
    BY <1>1, <1>3, <1>6, PageLive DEF NextPage, maps

LEMMA FreshBlockLive ==
  ASSUME TypeInv, Unnested, LiveInv, FreshBlock
  PROVE  LiveInv' /\ disk' = disk
  <1>1. At("page") /\ FreshBlockLeft(bm) /\ Return
    BY DEF FreshBlock
  <1>. DEFINE p == <<bm.fresh, 0>>
              n == GetFreeBlock(bm, "DATA")
  <1>2. currentDataPage' = p /\ bm' = n
    BY DEF FreshBlock
  <1>3. bm \in BlockManagerType /\ currentDataPage \in Ppns \cup {NoPpn}
    BY DEF TypeInv, TypeOK
  <1>4. /\ ListInv(flash, bm, currentDataPage)
        /\ VictimInv(flash, bm, currentDataPage, VictimIn(stack), MovedIn(stack), DoneIn(stack),
                     CopyingIn(stack))
    BY DEF LiveInv
  <1>5. p = FirstOf(bm.fresh) /\ n = GetFreeBlock(bm, "DATA")
    BY DEF FirstOf
  <1>. HIDE DEF p, n
  <1>6. /\ ListInv(flash, n, p) /\ CurInv(flash, p, TRUE)
        /\ VictimInv(flash, n, p, VictimIn(stack), MovedIn(stack), DoneIn(stack), CopyingIn(stack))
    BY <1>1, <1>3, <1>4, <1>5, FreshTaken
  <1>. QED
    BY <1>1, <1>2, <1>6, PageLive DEF FreshBlock, maps

LEMMA FreeBlockLive ==
  ASSUME TypeInv, Unnested, LiveInv, FreeBlock
  PROVE  LiveInv' /\ disk' = disk
  <1>1. (At("page") \/ At("take")) /\ bm.free_list # << >> /\ Return
    BY DEF FreeBlock, TakesFreeBlock
  <1>. DEFINE p == <<Head(bm.free_list), 0>>
              n == CountActive(TakeFree(bm), "DATA", 1)
  <1>2. currentDataPage' = p /\ bm' = n
    BY DEF FreeBlock
  <1>3. bm \in BlockManagerType /\ currentDataPage \in Ppns \cup {NoPpn}
    BY DEF TypeInv, TypeOK
  <1>4. /\ ListInv(flash, bm, currentDataPage)
        /\ VictimInv(flash, bm, currentDataPage, VictimIn(stack), MovedIn(stack), DoneIn(stack),
                     CopyingIn(stack))
    BY DEF LiveInv
  <1>5. p = FirstFree(bm) /\ n = Beheaded(bm) /\ NonEmpty(bm.free_list)
    BY <1>1 DEF FirstOf, FirstFree, NonEmpty, Beheaded
  <1>. HIDE DEF p, n
  <1>6. /\ ListInv(flash, n, p) /\ CurInv(flash, p, TRUE)
        /\ VictimInv(flash, n, p, VictimIn(stack), MovedIn(stack), DoneIn(stack), CopyingIn(stack))
    BY <1>3, <1>4, <1>5, FreeTaken
  <1>. QED
    BY <1>1, <1>2, <1>6, PageLive DEF FreeBlock, maps

LEMMA TrimLive ==
  ASSUME TypeInv, LiveInv, NEW l \in Lpns, Trim(l)
  PROVE  LiveInv' /\ disk' = [disk EXCEPT ![l] = NoData]
  <1>1. stack = << >> /\ Len(stack) = 0
    BY DEF Trim, Idle
  <1>2. NoViews(stack)
    BY <1>1, NoneUnder
  <1>3. MovedIn(stack) = << >> /\ VictimIn(stack) = NoBlock
    BY <1>2 DEF NoViews
  <1>4. /\ flash \in FlashType /\ ppn \in [Lpns -> Ppns \cup {NoPpn}]
        /\ reverse_trans_map \in [Ppns -> Lpns \cup {NoLpn}]
    BY DEF TypeInv, TypeOK
  <1>5. /\ ppn[l] # NoPpn
        /\ flash' = Invalidate(flash, ppn[l])
        /\ ppn' = [ppn EXCEPT ![l] = NoPpn]
        /\ bm' = bm /\ reverse_trans_map' = reverse_trans_map
        /\ currentDataPage' = currentDataPage /\ stack' = stack
    BY DEF Trim
  <1>6. PlacesInv(flash, ppn, << >>) /\ ReverseInv(ppn, reverse_trans_map, << >>)
    BY <1>3 DEF LiveInv
  <1>7. /\ PlacesInv(flash', ppn', << >>) /\ ReverseInv(ppn', reverse_trans_map, << >>)
        /\ WaitInv(flash', ppn', << >>)
        /\ flash'.pages_valid = flash.pages_valid
        /\ PageGone(flash, flash', ppn[l])
        /\ flash'.data = flash.data
    <2>. DEFINE g == flash'
                u == ppn'
    <2>1. g = Invalidate(flash, ppn[l]) /\ u = Mapped(ppn, l, NoPpn) /\ ppn[l] # NoPpn
      BY <1>5 DEF Mapped
    <2>. HIDE DEF g, u
    <2>2. /\ PlacesInv(g, u, << >>) /\ ReverseInv(u, reverse_trans_map, << >>)
          /\ WaitInv(g, u, << >>)
          /\ g.pages_valid = flash.pages_valid
          /\ PageGone(flash, g, ppn[l])
          /\ g.data = flash.data
      BY <1>4, <1>6, <2>1, PlacesTrimmed
    <2>. QED
      BY <2>2 DEF g, u
  <1>8. flash.page[ppn[l]] = "VALID" /\ ppn[l] \in Ppns
    <2>1. PlaceIn(ppn, << >>, l) = ppn[l]
      BY DEF PlaceIn
    <2>2. PlaceIn(ppn, << >>, l) # NoPpn => flash.page[PlaceIn(ppn, << >>, l)] = "VALID"
      BY <1>6 DEF PlacesInv
    <2>. QED
      BY <1>4, <1>5, <2>1, <2>2
  <1>9. FillInv(flash')
    <2>1. \A x \in Ppns : flash'.page[x] = "EMPTY" <=> flash.page[x] = "EMPTY"
      BY <1>7, <1>8 DEF PageGone
    <2>2. \A b \in Blocks, o \in Offsets : <<b, o>> \in Ppns
      BY DEF Ppns
    <2>3. FillInv(flash)
      BY DEF LiveInv
    <2>. QED
      BY <1>7, <2>1, <2>2, <2>3 DEF FillInv
  <1>10. ListInv(flash', bm, currentDataPage) /\ CurInv(flash', currentDataPage, Handed(stack))
    BY <1>7 DEF LiveInv, ListInv, CurInv
  <1>11. VictimInv(flash', bm, currentDataPage, NoBlock, << >>, DoneIn(stack), CopyingIn(stack))
    BY DEF VictimInv
  <1>12. OneVictim(stack)
    BY DEF LiveInv
  <1>13. LiveInv'
    BY <1>3, <1>5, <1>7, <1>9, <1>10, <1>11, <1>12 DEF LiveInv
  <1>14. disk' = [disk EXCEPT ![l] = NoData]
    <2>1. \A k \in Lpns : ppn'[k] = IF k = l THEN NoPpn ELSE ppn[k]
      BY <1>4, <1>5
    <2>. QED
      BY <1>7, <2>1 DEF disk
  <1>. QED
    BY <1>13, <1>14

\* cleanup_block is on top: what the views say of the victim.
LEMMA CleanupViews ==
  ASSUME TypeInv, Unnested, LiveInv, NEW proc \in {"cleanup", "copy"}, At(proc)
  PROVE  /\ StackSound(stack) /\ stack # << >> /\ stack \in Seq(LiveFrames)
         /\ Len(stack) = 4 /\ stack[2].proc = "erase" /\ stack[2].it = top.block
         /\ stack[1] = top /\ stack[1].proc = proc
         /\ VictimIn(stack) = top.block /\ MovedIn(stack) = top.invalidated_translation
         /\ DoneIn(stack) = top.i /\ CopyingIn(stack) = (proc = "copy")
         /\ Handed(stack) = (proc = "copy")
         /\ top.block # NoBlock
  <1>1. /\ StackSound(stack) /\ stack # << >> /\ stack \in Seq(LiveFrames)
        /\ stack[1] = top /\ stack[1].proc = proc
    BY TopFacts
  <1>2. Len(stack) = 4 /\ stack[2].proc = "erase"
    BY <1>1, Heights DEF Unnested
  <1>3. stack[2].it = top.block
    <2>1. Len(stack) >= 4 /\ Len(stack) - 3 = 1 /\ Len(stack) - 2 = 2
      BY <1>2
    <2>2. OneVictim(stack)
      BY DEF LiveInv
    <2>. QED
      BY <1>1, <2>1, <2>2 DEF OneVictim
  <1>4. /\ VictimIn(stack) = stack[2].it /\ MovedIn(stack) = stack[1].invalidated_translation
        /\ DoneIn(stack) = stack[1].i /\ CopyingIn(stack) = (stack[1].proc = "copy")
    BY <1>2, ViewsCleanup
  <1>5. Handed(stack) = (proc = "copy")
    BY <1>1 DEF Handed
  <1>6. top.block # NoBlock
    <2>1. top.block \in Blocks
      BY CleanupTop
    <2>. QED
      BY <2>1 DEF Blocks, NoBlock
  <1>. QED
    BY <1>1, <1>2, <1>3, <1>4, <1>5, <1>6

\* It goes on to the next page.
LEMMA AdvanceViews ==
  ASSUME TypeInv, Unnested, LiveInv, NEW proc \in {"cleanup", "copy"}, At(proc),
         NEW f \in LiveFrames, f.proc = "cleanup", f.block = top.block, Become(f)
  PROVE  /\ VictimIn(stack') = top.block /\ MovedIn(stack') = f.invalidated_translation
         /\ DoneIn(stack') = f.i /\ CopyingIn(stack') = FALSE
         /\ OneVictim(stack') /\ Handed(stack') = FALSE
  <1>1. /\ StackSound(stack) /\ stack # << >> /\ stack \in Seq(LiveFrames)
        /\ Len(stack) = 4 /\ stack[2].proc = "erase" /\ stack[2].it = top.block
    BY CleanupViews
  <1>2. /\ stack' \in Seq(LiveFrames) /\ Len(stack') = Len(stack) /\ stack'[1] = f
        /\ \A i \in 2 .. Len(stack) : stack'[i] = stack[i]
    <2>1. stack' = <<f>> \o Tail(stack)
      BY DEF Become
    <2>2. stack \in Seq(LiveFrames) /\ stack # << >>
      BY <1>1
    <2>. QED
      BY <2>1, <2>2, BecomeStack
  <1>3. 2 \in 2 .. Len(stack)
    BY <1>1
  <1>4. Len(stack') = 4 /\ stack'[2] = stack[2] /\ stack'[1] = f
    BY <1>1, <1>2, <1>3
  <1>5. /\ VictimIn(stack') = stack'[2].it /\ MovedIn(stack') = stack'[1].invalidated_translation
        /\ DoneIn(stack') = stack'[1].i /\ CopyingIn(stack') = (stack'[1].proc = "copy")
    BY <1>1, <1>4, ViewsCleanup
  <1>6. OneVictim(stack')
    <2>1. Len(stack') >= 4 /\ Len(stack') - 3 = 1 /\ Len(stack') - 2 = 2
      BY <1>4
    <2>. QED
      BY <1>1, <1>4, <2>1 DEF OneVictim
  <1>7. Handed(stack') = FALSE
    BY <1>4 DEF Handed
  <1>. QED
    BY <1>1, <1>4, <1>5, <1>6, <1>7

LEMMA SkipPageLive ==
  ASSUME TypeInv, Unnested, LiveInv, SkipPage
  PROVE  LiveInv' /\ disk' = disk
  <1>1. At("cleanup") /\ top.i < BLOCK_SIZE /\ flash.page[OldPpn] = "INVALID"
    BY DEF SkipPage, InLoop
  <1>2. /\ top \in CleanupFrame /\ top.proc = "cleanup"
        /\ DOMAIN top.invalidated_translation \in SUBSET Lpns
        /\ top.invalidated_translation \in [DOMAIN top.invalidated_translation -> Ppns]
    BY <1>1, CleanupTop
  <1>. DEFINE f == [top EXCEPT !.i = @ + 1]
              m == top.invalidated_translation
  <1>3. Become(f)
    BY DEF SkipPage
  <1>4. f = Advanced(top, m)
    BY <1>2 DEF CleanupFrame, Advanced
  <1>. HIDE DEF f, m
  <1>5. /\ f \in LiveFrames /\ f.proc = "cleanup" /\ f.block = top.block /\ f.i = top.i + 1
        /\ f.invalidated_translation = m
    BY <1>1, <1>2, <1>4, NextFrame DEF m
  <1>6. /\ VictimIn(stack) = top.block /\ MovedIn(stack) = m
        /\ DoneIn(stack) = top.i /\ CopyingIn(stack) = FALSE
        /\ Handed(stack) = FALSE /\ top.block # NoBlock
    BY <1>1, CleanupViews DEF m
  <1>7. /\ VictimIn(stack') = top.block /\ MovedIn(stack') = m
        /\ DoneIn(stack') = top.i + 1 /\ CopyingIn(stack') = FALSE
        /\ OneVictim(stack') /\ Handed(stack') = FALSE
    BY <1>1, <1>3, <1>5, AdvanceViews
  <1>8. VictimInv(flash, bm, currentDataPage, top.block, m, top.i, FALSE)
    BY <1>6 DEF LiveInv
  <1>9. top.i \in Offsets /\ OldPpn = <<top.block, top.i>>
    BY <1>1, OldPpnType DEF OldPpn
  <1>10. VictimInv(flash, bm, currentDataPage, top.block, m, top.i + 1, FALSE)
    <2>1. \A o \in Offsets : o < top.i + 1 => o < top.i \/ o = top.i
      BY <1>9 DEF Offsets
    <2>2. \A o \in Offsets : o < top.i + 1 => flash.page[<<top.block, o>>] # "VALID"
      BY <1>1, <1>6, <1>8, <1>9, <2>1 DEF VictimInv
    <2>. QED
      BY <1>8, <2>2 DEF VictimInv
  <1>11. /\ flash' = flash /\ bm' = bm /\ ppn' = ppn /\ reverse_trans_map' = reverse_trans_map
         /\ currentDataPage' = currentDataPage
    BY DEF SkipPage, maps
  <1>12. LiveInv'
    BY <1>6, <1>7, <1>10, <1>11 DEF LiveInv
  <1>13. disk' = disk
    BY <1>11 DEF disk
  <1>. QED
    BY <1>12, <1>13

LEMMA StartCleanupLive ==
  ASSUME TypeInv, Unnested, LiveInv, StartCleanup
  PROVE  LiveInv' /\ disk' = disk
  <1>1. /\ At("insert") /\ top \in InsertFrame /\ top.proc = "insert"
        /\ StackSound(stack) /\ stack # << >> /\ stack \in Seq(LiveFrames) /\ stack[1].proc = "insert"
    BY InsertTop, TopFacts DEF StartCleanup
  <1>. DEFINE f == [proc |-> "cleanup", block |-> top.it, i |-> 0,
                    invalidated_translation |-> << >>]
              g == [top EXCEPT !.proc = "erase"]
  <1>2. g \in InsertFrame /\ g.proc = "erase" /\ g.num_to_erase # 0 /\ top.it \in Blocks /\ g.it = top.it
    BY <1>1 DEF InsertFrame, StartCleanup, LoopOn
  <1>3. << >> \in [{} -> Ppns] /\ {} \in SUBSET Lpns /\ 0 \in 0 .. BLOCK_SIZE
    BY GeometryAssumption
  <1>4. << >> \in UNION {[L -> Ppns] : L \in SUBSET Lpns}
    BY <1>3
  <1>5. /\ f \in CleanupFrame /\ f.proc = "cleanup" /\ f.block = top.it /\ f.i = 0
        /\ f.invalidated_translation = << >>
    BY <1>2, <1>3, <1>4 DEF CleanupFrame
  <1>6. f \in LiveFrames /\ g \in LiveFrames
    BY <1>2, <1>5 DEF LiveFrames, Frames
  <1>7. Call(f, g)
    BY DEF StartCleanup
  <1>. HIDE DEF f, g
  <1>8. Len(stack) = 3
    BY <1>1, Heights DEF Unnested
  <1>9. Len(stack') = Len(stack) + 1 /\ stack'[1] = f /\ stack'[2] = g /\ stack' \in Seq(LiveFrames)
    BY <1>1, <1>6, <1>7, CallStack DEF Call
  <1>10. Len(stack') = 4
    BY <1>8, <1>9
  <1>11. /\ VictimIn(stack') = top.it /\ MovedIn(stack') = << >>
         /\ DoneIn(stack') = 0 /\ CopyingIn(stack') = FALSE
    BY <1>2, <1>5, <1>9, <1>10, ViewsCleanup
  <1>12. OneVictim(stack')
    <2>1. Len(stack') >= 4 /\ Len(stack') - 3 = 1 /\ Len(stack') - 2 = 2
      BY <1>10
    <2>. QED
      BY <1>2, <1>5, <1>9, <2>1 DEF OneVictim
  <1>13. Handed(stack') = FALSE
    BY <1>5, <1>9 DEF Handed
  <1>14. MovedIn(stack) = << >> /\ Handed(stack) = FALSE
    <2>1. NoViews(stack)
      BY <1>1, <1>8, NoneBegun
    <2>. QED
      BY <1>1, <2>1 DEF NoViews, Handed
  <1>15. flash.pages_valid[top.it] = BLOCK_SIZE /\ top.it # bm.current_writing_block
    BY DEF StartCleanup, LoopOn, Collectable
  <1>16. VictimInv(flash, bm, currentDataPage, top.it, << >>, 0, FALSE)
    <2>1. ListInv(flash, bm, currentDataPage)
      BY DEF LiveInv
    <2>2. BLOCK_SIZE # 0
      BY GeometryAssumption
    <2>3. top.it < bm.fresh
      <3>1. top.it >= bm.fresh => flash.pages_valid[top.it] = 0
        BY <1>2, <2>1 DEF ListInv
      <3>2. top.it \in Int /\ bm.fresh \in Int
        BY <1>2 DEF Blocks, TypeInv, TypeOK, BlockManagerType
      <3>3. ~(top.it >= bm.fresh)
        BY <1>15, <2>2, <3>1
      <3>. QED
        BY <3>2, <3>3
    <2>4. top.it \notin Members(bm.free_list) /\ top.it # currentDataPage[1]
      BY <1>15, <2>1, <2>2 DEF ListInv
    <2>5. \A o \in Offsets : ~(o < 0)
      BY DEF Offsets
    <2>6. \A l \in DOMAIN << >> : FALSE
      OBVIOUS
    <2>. QED
      BY <1>2, <1>15, <2>3, <2>4, <2>5, <2>6 DEF VictimInv
  <1>17. /\ flash' = flash /\ bm' = bm /\ ppn' = ppn /\ reverse_trans_map' = reverse_trans_map
         /\ currentDataPage' = currentDataPage
    BY DEF StartCleanup, maps
  <1>18. LiveInv'
    BY <1>11, <1>12, <1>13, <1>14, <1>16, <1>17 DEF LiveInv
  <1>19. disk' = disk
    BY <1>17 DEF disk
  <1>. QED
    BY <1>18, <1>19

LEMMA StartCopyLive ==
  ASSUME TypeInv, Unnested, LiveInv, StartCopy
  PROVE  LiveInv' /\ disk' = disk
  <1>1. At("cleanup") /\ top.i < BLOCK_SIZE /\ flash.page[OldPpn] = "VALID"
    BY DEF StartCopy, InLoop
  <1>2. top \in CleanupFrame
    BY <1>1, CleanupTop
  <1>. DEFINE f == [proc |-> "page"]
              g == [top EXCEPT !.proc = "copy"]
  <1>3. f \in LiveFrames /\ f.proc = "page"
    BY DEF LiveFrames, Frames, PageFrame
  <1>4. /\ g \in CleanupFrame /\ g.proc = "copy" /\ g.i = top.i /\ g.block = top.block
        /\ g.invalidated_translation = top.invalidated_translation
    BY <1>1, <1>2 DEF CleanupFrame
  <1>5. g \in LiveFrames
    BY <1>1, <1>4 DEF LiveFrames, Frames
  <1>6. Call(f, g)
    BY DEF StartCopy
  <1>. HIDE DEF f, g
  <1>7. /\ StackSound(stack) /\ stack # << >> /\ stack \in Seq(LiveFrames)
        /\ Len(stack) = 4 /\ stack[2].proc = "erase" /\ stack[2].it = top.block
        /\ VictimIn(stack) = top.block /\ MovedIn(stack) = top.invalidated_translation
        /\ DoneIn(stack) = top.i /\ CopyingIn(stack) = FALSE
        /\ Handed(stack) = FALSE /\ top.block # NoBlock
    BY <1>1, CleanupViews
  <1>8. /\ stack' \in Seq(LiveFrames) /\ Len(stack') = Len(stack) + 1 /\ stack'[1] = f /\ stack'[2] = g
        /\ \A i \in 2 .. Len(stack) : stack'[i + 1] = stack[i]
    BY <1>3, <1>5, <1>6, <1>7, CallStack DEF Call
  <1>9. 2 \in 2 .. Len(stack) /\ 2 + 1 = 3
    BY <1>7
  <1>10. Len(stack') = 5 /\ stack'[2] = g /\ stack'[3] = stack[2]
    BY <1>7, <1>8, <1>9
  <1>11. /\ VictimIn(stack') = top.block /\ MovedIn(stack') = top.invalidated_translation
         /\ DoneIn(stack') = top.i /\ CopyingIn(stack') = TRUE
    BY <1>4, <1>7, <1>10, ViewsPage
  <1>12. OneVictim(stack')
    <2>1. Len(stack') >= 4 /\ Len(stack') - 3 = 2 /\ Len(stack') - 2 = 3
      BY <1>10
    <2>. QED
      BY <1>4, <1>7, <1>10, <2>1 DEF OneVictim
  <1>13. Handed(stack') = FALSE
    BY <1>3, <1>8 DEF Handed
  <1>14. top.i \in Offsets /\ OldPpn = <<top.block, top.i>>
    BY <1>1, OldPpnType DEF OldPpn
  <1>15. VictimInv(flash, bm, currentDataPage, top.block, top.invalidated_translation, top.i, FALSE)
    BY <1>7 DEF LiveInv
  <1>16. VictimInv(flash, bm, currentDataPage, top.block, top.invalidated_translation, top.i, TRUE)
    BY <1>1, <1>14, <1>15 DEF VictimInv
  <1>17. /\ flash' = flash /\ bm' = bm /\ ppn' = ppn /\ reverse_trans_map' = reverse_trans_map
         /\ currentDataPage' = currentDataPage
    BY DEF StartCopy, maps
  <1>18. LiveInv'
    BY <1>7, <1>11, <1>12, <1>13, <1>16, <1>17 DEF LiveInv
  <1>19. disk' = disk
    BY <1>17 DEF disk
  <1>. QED
    BY <1>18, <1>19

LEMMA EraseVictimLive ==
  ASSUME TypeInv, Unnested, LiveInv, EraseVictim
  PROVE  LiveInv' /\ disk' = disk
  <1>1. /\ At("erase") /\ top \in InsertFrame /\ top.proc = "erase" /\ top.it \in Blocks
        /\ StackSound(stack) /\ stack # << >> /\ stack \in Seq(LiveFrames)
        /\ stack[1] = top /\ stack[1].proc = "erase"
    BY InsertTop, TopFacts DEF EraseVictim, InsertFrame
  <1>2. Len(stack) = 3
    BY <1>1, Heights DEF Unnested
  <1>3. /\ VictimIn(stack) = top.it /\ MovedIn(stack) = << >> /\ DoneIn(stack) = BLOCK_SIZE
        /\ Handed(stack) = FALSE
    BY <1>1, <1>2, ViewsInsert DEF Handed
  <1>4. PICK b \in NextVictims(flash') :
           Become([top EXCEPT !.proc = "insert", !.it = b, !.num_to_erase = @ - 1])
    BY DEF EraseVictim
  <1>. DEFINE f == [top EXCEPT !.proc = "insert", !.it = b, !.num_to_erase = @ - 1]
  <1>5. f \in LiveFrames /\ f.proc = "insert"
    <2>1. top.num_to_erase # 0
      BY <1>1, TopFacts DEF LiveFrames
    <2>2. top.num_to_erase - 1 \in 0 .. NUM_TO_ERASE
      BY <1>1, <2>1, BlockListsAssumption DEF InsertFrame
    <2>3. b \in Blocks
      BY <1>4, NextVictimType
    <2>4. f \in InsertFrame /\ f.proc = "insert"
      BY <1>1, <2>2, <2>3 DEF InsertFrame
    <2>. QED
      BY <2>4 DEF LiveFrames, Frames
  <1>6. stack' = <<f>> \o Tail(stack)
    BY <1>4 DEF Become
  <1>. HIDE DEF f
  <1>7. Len(stack') = 3 /\ stack'[1] = f
    BY <1>1, <1>2, <1>5, <1>6, BecomeStack
  <1>8. NoViews(stack')
    BY <1>5, <1>7, NoneBegun
  <1>9. Handed(stack') = FALSE
    BY <1>5, <1>7 DEF Handed
  <1>. DEFINE g == flash'
              m == bm'
              v == top.it
  <1>10. /\ g = Erase(flash, {v}) /\ CanErase(flash, v)
         /\ m = Freed(bm, v)
         /\ ppn' = ppn /\ reverse_trans_map' = reverse_trans_map /\ currentDataPage' = currentDataPage
    BY DEF EraseVictim, maps, Freed
  <1>11. /\ flash \in FlashType /\ bm \in BlockManagerType /\ ppn \in [Lpns -> Ppns \cup {NoPpn}]
         /\ currentDataPage \in Ppns \cup {NoPpn} /\ v \in Blocks
    BY <1>1 DEF TypeInv, TypeOK
  <1>12. /\ FillInv(flash) /\ ListInv(flash, bm, currentDataPage)
         /\ CurInv(flash, currentDataPage, FALSE)
         /\ PlacesInv(flash, ppn, << >>) /\ ReverseInv(ppn, reverse_trans_map, << >>)
         /\ VictimInv(flash, bm, currentDataPage, v, << >>, BLOCK_SIZE, CopyingIn(stack))
    BY <1>3 DEF LiveInv
  <1>. HIDE DEF g, m, v
  <1>13. /\ \A o \in Offsets : flash.page[<<v, o>>] # "VALID"
         /\ v < bm.fresh /\ v \notin Members(bm.free_list) /\ v # currentDataPage[1]
    <2>1. v # NoBlock
      BY <1>11 DEF Blocks, NoBlock
    <2>2. \A o \in Offsets : o < BLOCK_SIZE
      BY GeometryAssumption DEF Offsets
    <2>. QED
      BY <1>12, <2>1, <2>2 DEF VictimInv
  <1>14. /\ FillInv(g) /\ PlacesInv(g, ppn, << >>) /\ WaitInv(g, ppn, << >>)
         /\ g.data = flash.data
         /\ \A x \in Blocks : g.pages_valid[x] = IF x = v THEN 0 ELSE flash.pages_valid[x]
    BY <1>10, <1>11, <1>12, <1>13, VictimErased
  <1>15. ListInv(g, m, currentDataPage) /\ CurInv(g, currentDataPage, FALSE)
    <2>1. m = Freed(bm, v) /\ ListInv(flash, bm, currentDataPage) /\ CurInv(flash, currentDataPage, FALSE)
      BY <1>10, <1>12
    <2>. QED
      BY <1>11, <1>13, <1>14, <2>1, VictimFreed
  <1>16. VictimInv(g, m, currentDataPage, NoBlock, << >>, BLOCK_SIZE, FALSE)
    BY DEF VictimInv
  <1>17. LiveInv'
    BY <1>8, <1>9, <1>10, <1>12, <1>14, <1>15, <1>16 DEF LiveInv, NoViews, g, m
  <1>18. disk' = disk
    BY <1>10, <1>14 DEF disk, g
  <1>. QED
    BY <1>17, <1>18

\* The page copied is one of those the victim still holds.
LEMMA FinishCopyLive ==
  ASSUME TypeInv, Unnested, LiveInv, FinishCopy
  PROVE  LiveInv' /\ disk' = disk
  <1>. DEFINE p == currentDataPage
              q == OldPpn
              v == top.block
              i == top.i
              mv == top.invalidated_translation
              g == flash'
              d == flash.data[q]
  <1>1. At("copy") /\ p \in Ppns /\ i < BLOCK_SIZE /\ top \in CleanupFrame
    BY TopFacts, CleanupTop DEF FinishCopy, LiveFrames
  <1>2. /\ q \in Ppns /\ q = <<v, i>> /\ i \in Offsets
        /\ DOMAIN mv \in SUBSET Lpns /\ mv \in [DOMAIN mv -> Ppns] /\ v \in Blocks
    <2>1. q \in Ppns /\ i \in Offsets
      BY <1>1, OldPpnType
    <2>2. q = <<v, i>>
      BY DEF OldPpn
    <2>3. DOMAIN mv \in SUBSET Lpns /\ mv \in [DOMAIN mv -> Ppns] /\ v \in Blocks
      BY <1>1, CleanupTop
    <2>. QED
      BY <2>1, <2>2, <2>3
  <1>3. PICK l \in OwnerOf(OldPpn) :
           Become([top EXCEPT !.proc = "cleanup", !.i = @ + 1,
                              !.invalidated_translation = Updated([k \in {l} |-> currentDataPage], @)])
    BY DEF FinishCopy
  <1>4. l \in Lpns /\ (reverse_trans_map[q] # NoLpn => l = reverse_trans_map[q])
    BY <1>2, <1>3, OwnerType DEF OwnerOf
  <1>. DEFINE n == Updated([k \in {l} |-> currentDataPage], mv)
              f == [top EXCEPT !.proc = "cleanup", !.i = @ + 1, !.invalidated_translation = n]
  <1>5. Become(f)
    BY <1>3
  <1>6. n = Updated(Entry(l, p), mv)
    BY DEF Entry
  <1>7. f = Advanced(top, n)
    BY DEF Advanced
  <1>. HIDE DEF n, f
  <1>8. DOMAIN n \in SUBSET Lpns /\ n \in [DOMAIN n -> Ppns]
    BY <1>1, <1>2, <1>4, <1>6, OneMore
  <1>9. /\ f \in LiveFrames /\ f.proc = "cleanup" /\ f.block = v /\ f.i = i + 1
        /\ f.invalidated_translation = n
    BY <1>1, <1>7, <1>8, NextFrame
  <1>10. /\ VictimIn(stack) = v /\ MovedIn(stack) = mv
         /\ DoneIn(stack) = i /\ CopyingIn(stack) = TRUE
         /\ Handed(stack) = TRUE /\ v # NoBlock
    BY <1>1, CleanupViews
  <1>11. /\ VictimIn(stack') = v /\ MovedIn(stack') = n
         /\ DoneIn(stack') = i + 1 /\ CopyingIn(stack') = FALSE
         /\ OneVictim(stack') /\ Handed(stack') = FALSE
    <2>1. "copy" \in {"cleanup", "copy"}
      OBVIOUS
    <2>2. /\ VictimIn(stack') = top.block /\ MovedIn(stack') = f.invalidated_translation
          /\ DoneIn(stack') = f.i /\ CopyingIn(stack') = FALSE
          /\ OneVictim(stack') /\ Handed(stack') = FALSE
      BY <1>1, <1>5, <1>9, <2>1, AdvanceViews
    <2>. QED
      BY <1>9, <2>2
  <1>12. /\ g = Replace(Program(flash, p, d), q) /\ flash.page[p] = "EMPTY"
         /\ bm' = bm /\ ppn' = ppn /\ reverse_trans_map' = reverse_trans_map /\ currentDataPage' = p
    BY DEF FinishCopy, maps, CanProgram
  <1>13. /\ flash \in FlashType /\ bm \in BlockManagerType /\ ppn \in [Lpns -> Ppns \cup {NoPpn}]
         /\ reverse_trans_map \in [Ppns -> Lpns \cup {NoLpn}] /\ d \in Contents
    BY <1>2 DEF TypeInv, TypeOK, FlashType
  <1>14. /\ FillInv(flash) /\ ListInv(flash, bm, p) /\ CurInv(flash, p, TRUE)
         /\ VictimInv(flash, bm, p, v, mv, i, TRUE)
         /\ PlacesInv(flash, ppn, mv) /\ ReverseInv(ppn, reverse_trans_map, mv)
         /\ WaitInv(flash, ppn, mv)
    BY <1>10 DEF LiveInv
  <1>15. d = flash.data[q] /\ q \in Ppns \cup {NoPpn} /\ q # NoPpn /\ p # NoPpn
    BY <1>1, <1>2, NoPpnNotPage
  <1>. HIDE DEF p, q, v, i, mv, g, d
  <1>16. Placed(flash, g, p, d, q)
    BY <1>1, <1>12, <1>13, <1>15, PlacedEffect
  <1>17. flash.page[q] = "VALID" /\ \A k \in DOMAIN mv : mv[k] # q
    <2>1. flash.page[<<v, i>>] = "VALID" /\ \A k \in DOMAIN mv : mv[k][1] # v
      BY <1>10, <1>14 DEF VictimInv
    <2>. QED
      BY <1>2, <2>1
  <1>18. flash.pages_valid[p[1]] = p[2]
    BY <1>14, <1>15 DEF CurInv
  <1>19. FillInv(g)
    BY <1>1, <1>12, <1>13, <1>14, <1>15, <1>16, <1>17, <1>18, FillPlaced
  <1>20. ListInv(g, bm, p) /\ CurInv(g, p, FALSE)
    BY <1>1, <1>13, <1>14, <1>16, ListPlaced, CurPlaced
  <1>21. VictimInv(g, bm, p, v, n, i + 1, FALSE)
    <2>1. Placed(flash, g, p, d, <<v, i>>)
      BY <1>2, <1>16
    <2>. QED
      BY <1>1, <1>4, <1>6, <1>10, <1>14, <2>1, VictimPlaced
  <1>22. PlacesInv(g, ppn, n) /\ ReverseInv(ppn, reverse_trans_map, n) /\ WaitInv(g, ppn, n)
    <2>1. Placed(flash, g, p, flash.data[q], q)
      BY <1>15, <1>16
    <2>2. /\ p \in Ppns /\ q \in Ppns /\ DOMAIN mv \in SUBSET Lpns /\ mv \in [DOMAIN mv -> Ppns]
          /\ flash.page[p] = "EMPTY" /\ n = Updated(Entry(l, p), mv)
          /\ ppn \in [Lpns -> Ppns \cup {NoPpn}] /\ reverse_trans_map \in [Ppns -> Lpns \cup {NoLpn}]
          /\ PlacesInv(flash, ppn, mv) /\ ReverseInv(ppn, reverse_trans_map, mv)
          /\ WaitInv(flash, ppn, mv)
      BY <1>1, <1>2, <1>6, <1>12, <1>13, <1>14
    <2>. QED
      BY <1>4, <1>17, <2>1, <2>2, PlacesCopied, SMTT(30)
  <1>23. LiveInv'
    BY <1>11, <1>12, <1>19, <1>20, <1>21, <1>22 DEF LiveInv, g, p
  <1>24. \A k \in Lpns : ppn[k] # NoPpn => ppn[k] # p
    <2>. SUFFICES ASSUME NEW k \in Lpns, ppn[k] # NoPpn PROVE flash.page[ppn[k]] # "EMPTY"
      BY <1>12
    <2>1. CASE k \in DOMAIN mv
      BY <1>14, <2>1 DEF WaitInv
    <2>2. CASE k \notin DOMAIN mv
      <3>1. PlaceIn(ppn, mv, k) = ppn[k]
        BY <2>2 DEF PlaceIn
      <3>. QED
        BY <1>14, <3>1 DEF PlacesInv
    <2>. QED
      BY <2>1, <2>2
  <1>25. disk' = disk
    <2>1. \A k \in Lpns : ppn[k] # NoPpn => g.data[ppn[k]] = flash.data[ppn[k]]
      BY <1>13, <1>16, <1>24 DEF Placed
    <2>. QED
      BY <1>12, <2>1 DEF disk, g
  <1>. QED
    BY <1>23, <1>25

LEMMA FinishCleanupLive ==
  ASSUME TypeInv, Unnested, LiveInv, FinishCleanup
  PROVE  LiveInv' /\ disk' = disk
  <1>. DEFINE mv == top.invalidated_translation
              v == top.block
              u == ppn'
              s == reverse_trans_map'
  <1>1. At("cleanup") /\ top.i = BLOCK_SIZE /\ Return
    BY DEF FinishCleanup
  <1>2. DOMAIN mv \in SUBSET Lpns /\ mv \in [DOMAIN mv -> Ppns]
    BY <1>1, CleanupTop
  <1>3. /\ StackSound(stack) /\ stack # << >> /\ stack \in Seq(LiveFrames)
        /\ Len(stack) = 4 /\ stack[2].proc = "erase" /\ stack[2].it = v
        /\ VictimIn(stack) = v /\ MovedIn(stack) = mv
        /\ DoneIn(stack) = top.i /\ CopyingIn(stack) = FALSE
        /\ Handed(stack) = FALSE
    BY <1>1, CleanupViews
  <1>4. Len(stack') = 3 /\ stack'[1] = stack[2]
    <2>1. /\ Len(stack') = Len(stack) - 1
          /\ \A i \in 1 .. Len(stack) - 1 : stack'[i] = stack[i + 1]
      BY <1>1, <1>3, ReturnStack DEF Return
    <2>2. 1 \in 1 .. Len(stack) - 1 /\ 1 + 1 = 2
      BY <1>3
    <2>. QED
      BY <1>3, <2>1, <2>2
  <1>5. /\ VictimIn(stack') = v /\ MovedIn(stack') = << >>
        /\ DoneIn(stack') = BLOCK_SIZE /\ CopyingIn(stack') = FALSE
    BY <1>3, <1>4, ViewsInsert
  <1>6. OneVictim(stack') /\ Handed(stack') = FALSE
    <2>1. ~(Len(stack') >= 4)
      BY <1>4
    <2>2. OneVictim(stack')
      BY <2>1 DEF OneVictim
    <2>. QED
      BY <1>3, <1>4, <2>2 DEF Handed
  <1>7. /\ u = Updated(mv, ppn) /\ s = Updated(AntiFunction(mv), reverse_trans_map)
        /\ flash' = flash /\ bm' = bm /\ currentDataPage' = currentDataPage
    BY DEF FinishCleanup
  <1>8. ppn \in [Lpns -> Ppns \cup {NoPpn}] /\ reverse_trans_map \in [Ppns -> Lpns \cup {NoLpn}]
    BY DEF TypeInv, TypeOK
  <1>9. /\ FillInv(flash) /\ ListInv(flash, bm, currentDataPage)
        /\ CurInv(flash, currentDataPage, FALSE)
        /\ VictimInv(flash, bm, currentDataPage, v, mv, BLOCK_SIZE, FALSE)
        /\ PlacesInv(flash, ppn, mv) /\ ReverseInv(ppn, reverse_trans_map, mv)
        /\ WaitInv(flash, ppn, mv)
    BY <1>1, <1>3 DEF LiveInv
  <1>. HIDE DEF mv, v, u, s
  <1>10. /\ PlacesInv(flash, u, << >>) /\ ReverseInv(u, s, << >>) /\ WaitInv(flash, u, << >>)
         /\ \A l \in Lpns : u[l] = PlaceIn(ppn, mv, l)
    BY <1>2, <1>7, <1>8, <1>9, PlacesEntered
  <1>11. VictimInv(flash, bm, currentDataPage, v, << >>, BLOCK_SIZE, FALSE)
    <2>1. \A l \in DOMAIN << >> : FALSE
      OBVIOUS
    <2>. QED
      BY <1>9, <2>1 DEF VictimInv
  <1>12. LiveInv'
    BY <1>5, <1>6, <1>7, <1>9, <1>10, <1>11 DEF LiveInv, u, s
  <1>13. \A l \in Lpns : /\ u[l] = NoPpn <=> ppn[l] = NoPpn
                         /\ flash.data[u[l]] = flash.data[ppn[l]]
    <2>. SUFFICES ASSUME NEW l \in Lpns
                  PROVE  /\ u[l] = NoPpn <=> ppn[l] = NoPpn
                         /\ flash.data[u[l]] = flash.data[ppn[l]]
      OBVIOUS
    <2>1. CASE l \in DOMAIN mv
      <3>1. u[l] = mv[l] /\ mv[l] # NoPpn
        BY <1>2, <1>10, <2>1, NoPpnNotPage DEF PlaceIn
      <3>. QED
        BY <1>9, <2>1, <3>1 DEF WaitInv
    <2>2. CASE l \notin DOMAIN mv
      BY <1>10, <2>2 DEF PlaceIn
    <2>. QED
      BY <2>1, <2>2
  <1>14. disk' = disk
    BY <1>7, <1>13 DEF disk, u
  <1>. QED
    BY <1>12, <1>14

LEMMA FinishWriteLive ==
  ASSUME TypeInv, Unnested, LiveInv, FinishWrite
  PROVE  LiveInv' /\ disk' = [disk EXCEPT ![top.lpn] = top.payload]
  <1>. DEFINE p == currentDataPage
              l == top.lpn
              d == top.payload
              q == ppn[l]
              g == flash'
              u == ppn'
              s == reverse_trans_map'
  <1>1. /\ At("write") /\ Return /\ p \in Ppns /\ top \in LiveFrames /\ top.proc = "write"
        /\ StackSound(stack) /\ stack # << >> /\ stack \in Seq(LiveFrames) /\ stack[1].proc = "write"
    BY TopFacts DEF FinishWrite
  <1>2. l \in Lpns /\ d \in Contents
    <2>1. top \in WriteFrame
      BY <1>1, FrameKinds
    <2>. QED
      BY <2>1 DEF WriteFrame, Contents
  <1>3. Len(stack) = 1
    BY <1>1, Heights DEF Unnested
  <1>4. NoViews(stack) /\ Handed(stack) = TRUE
    BY <1>1, <1>3, NoneUnder DEF Handed
  <1>5. Len(stack') = 0 /\ stack' = << >>
    BY <1>1, <1>3, ReturnStack DEF Return
  <1>6. NoViews(stack') /\ Handed(stack') = FALSE
    BY <1>5, NoneUnder DEF Handed
  <1>7. /\ g = Replace(Program(flash, p, d), q) /\ flash.page[p] = "EMPTY"
        /\ u = Mapped(ppn, l, p) /\ s = Mapped(reverse_trans_map, p, l)
        /\ bm' = bm /\ currentDataPage' = p
    BY DEF FinishWrite, CanProgram, Mapped
  <1>8. /\ flash \in FlashType /\ bm \in BlockManagerType /\ ppn \in [Lpns -> Ppns \cup {NoPpn}]
        /\ reverse_trans_map \in [Ppns -> Lpns \cup {NoLpn}]
        /\ q \in Ppns \cup {NoPpn} /\ q = ppn[l] /\ p # NoPpn
    BY <1>1, <1>2, NoPpnNotPage DEF TypeInv, TypeOK
  <1>9. /\ FillInv(flash) /\ ListInv(flash, bm, p) /\ CurInv(flash, p, TRUE)
        /\ PlacesInv(flash, ppn, << >>) /\ ReverseInv(ppn, reverse_trans_map, << >>)
    BY <1>4 DEF LiveInv, NoViews
  <1>. HIDE DEF p, l, d, q, g, u, s
  <1>10. Placed(flash, g, p, d, q)
    BY <1>1, <1>2, <1>7, <1>8, PlacedEffect
  <1>11. \A k \in Lpns : ppn[k] # NoPpn => flash.page[ppn[k]] = "VALID"
    <2>1. \A k \in Lpns : PlaceIn(ppn, << >>, k) = ppn[k]
      BY DEF PlaceIn
    <2>. QED
      BY <1>9, <2>1 DEF PlacesInv
  <1>12. flash.pages_valid[p[1]] = p[2] /\ (q # NoPpn => flash.page[q] = "VALID")
    BY <1>2, <1>8, <1>9, <1>11 DEF CurInv
  <1>13. FillInv(g)
    BY <1>1, <1>7, <1>8, <1>9, <1>10, <1>12, FillPlaced
  <1>14. ListInv(g, bm, p) /\ CurInv(g, p, FALSE)
    BY <1>1, <1>8, <1>9, <1>10, ListPlaced, CurPlaced
  <1>15. PlacesInv(g, u, << >>) /\ ReverseInv(u, s, << >>) /\ WaitInv(g, u, << >>)
    <2>1. Placed(flash, g, p, d, ppn[l])
      BY <1>8, <1>10
    <2>2. /\ l \in Lpns /\ p \in Ppns /\ flash.page[p] = "EMPTY"
          /\ ppn \in [Lpns -> Ppns \cup {NoPpn}]
          /\ reverse_trans_map \in [Ppns -> Lpns \cup {NoLpn}]
          /\ PlacesInv(flash, ppn, << >>) /\ ReverseInv(ppn, reverse_trans_map, << >>)
          /\ u = Mapped(ppn, l, p) /\ s = Mapped(reverse_trans_map, p, l)
      BY <1>1, <1>2, <1>7, <1>8, <1>9
    <2>. QED
      BY <2>1, <2>2, PlacesWritten, ZenonT(60)
  <1>16. VictimInv(g, bm, p, NoBlock, << >>, BLOCK_SIZE, FALSE)
    BY DEF VictimInv
  <1>17. LiveInv'
    BY <1>6, <1>7, <1>13, <1>14, <1>15, <1>16 DEF LiveInv, NoViews, g, u, s
  <1>18. disk' = [disk EXCEPT ![l] = d]
    <2>1. \A k \in Lpns : u[k] = IF k = l THEN p ELSE ppn[k]
      BY <1>7, <1>8 DEF Mapped
    <2>2. \A k \in Lpns : ppn[k] # NoPpn => ppn[k] # p /\ g.data[ppn[k]] = flash.data[ppn[k]]
      <3>1. \A k \in Lpns : ppn[k] # NoPpn => ppn[k] # p
        <4>1. "EMPTY" # "VALID"
          OBVIOUS
        <4>. QED
          BY <1>7, <1>11, <4>1
      <3>. QED
        BY <1>8, <1>10, <3>1 DEF Placed
    <2>3. g.data[p] = d
      BY <1>1, <1>10 DEF Placed
    <2>4. \A k \in Lpns : disk'[k] = IF k = l THEN d ELSE disk[k]
      BY <1>8, <2>1, <2>2, <2>3 DEF disk, g, u
    <2>. QED
      BY <2>4 DEF disk
  <1>. QED
    BY <1>17, <1>18 DEF l, d

LEMMA InitLive ==
  ASSUME Init
  PROVE  LiveInv
  <1>1. /\ flash = FlashInit /\ bm = BlockManagerInit /\ stack = << >> /\ Len(stack) = 0
        /\ currentDataPage = NoPpn
        /\ ppn = [l \in Lpns |-> NoPpn] /\ reverse_trans_map = [p \in Ppns |-> NoLpn]
    BY DEF Init
  <1>2. NoViews(stack) /\ Handed(stack) = FALSE
    BY <1>1, NoneUnder DEF Handed
  <1>3. FillInv(flash)
    <2>1. \A b \in Blocks : flash.pages_valid[b] = 0
      BY <1>1 DEF FlashInit
    <2>2. \A b \in Blocks, o \in Offsets : flash.page[<<b, o>>] = "EMPTY"
      BY <1>1 DEF FlashInit, Ppns
    <2>3. 0 <= BLOCK_SIZE /\ \A o \in Offsets : o >= 0
      BY GeometryAssumption DEF Offsets
    <2>. QED
      BY <2>1, <2>2, <2>3 DEF FillInv
  <1>4. ListInv(flash, bm, currentDataPage)
    <2>1. bm.free_list = << >> /\ bm.fresh = 0 /\ bm.current_writing_block = NoBlock
      BY <1>1 DEF BlockManagerInit
    <2>2. Members(bm.free_list) = {} /\ NoRepeat(bm.free_list)
      BY <2>1 DEF Members, NoRepeat
    <2>3. currentDataPage[1] = NoBlock /\ NoBlock < 0
      BY <1>1 DEF NoPpn, NoBlock
    <2>4. \A b \in Blocks : flash.pages_valid[b] = 0
      BY <1>1 DEF FlashInit
    <2>. QED
      BY <2>1, <2>2, <2>3, <2>4 DEF ListInv
  <1>5. CurInv(flash, currentDataPage, FALSE)
    BY <1>1 DEF CurInv
  <1>6. VictimInv(flash, bm, currentDataPage, NoBlock, << >>, BLOCK_SIZE, FALSE)
    BY DEF VictimInv
  <1>7. \A l \in Lpns : ppn[l] = NoPpn /\ PlaceIn(ppn, << >>, l) = NoPpn
    BY <1>1 DEF PlaceIn
  <1>8. PlacesInv(flash, ppn, << >>)
    <2>1. \A p \in Ppns : flash.page[p] # "VALID"
      BY <1>1 DEF FlashInit
    <2>2. NumLpns \in Nat
      BY DftlAssumption
    <2>3. \A l \in Lpns : PlaceIn(ppn, << >>, l) # NoPpn => flash.page[PlaceIn(ppn, << >>, l)] = "VALID"
      BY <1>7
    <2>4. \A l, k \in Lpns : PlaceIn(ppn, << >>, l) = PlaceIn(ppn, << >>, k) /\ PlaceIn(ppn, << >>, l) # NoPpn => l = k
      BY <1>7
    <2>5. \A p \in Ppns : flash.page[p] = "VALID" => \E l \in Lpns : PlaceIn(ppn, << >>, l) = p
      BY <2>1
    <2>. QED
      BY <2>3, <2>4, <2>5, Zenon DEF PlacesInv
  <1>9. ReverseInv(ppn, reverse_trans_map, << >>)
    BY <1>7 DEF ReverseInv
  <1>10. WaitInv(flash, ppn, << >>)
    BY DEF WaitInv
  <1>. QED
    BY <1>2, <1>3, <1>4, <1>5, <1>6, <1>8, <1>9, <1>10 DEF LiveInv, NoViews

\* Every step of a behaviour in which no collection has another one in it.
LEMMA StepLive ==
  ASSUME TypeInv, Unnested, Unnested', LiveInv, [Next]_vars
  PROVE  LiveInv'
  <1>1. ASSUME NEW l \in Lpns, Read(l) \/ (\E d \in Payloads : Write(l, d)) \/ Trim(l)
        PROVE  LiveInv'
    BY <1>1, ReadLive, WriteLive, TrimLive
  <1>2. CASE NextPage \/ FreshBlock \/ CollectForLastBlock \/ FreeBlock
    BY <1>2, NextPageLive, FreshBlockLive, CollectLive, FreeBlockLive
  <1>3. CASE EndInsert \/ SkipVictim \/ StartCleanup \/ EraseVictim
    BY <1>3, EndInsertLive, SkipVictimLive, StartCleanupLive, EraseVictimLive
  <1>4. CASE SkipPage \/ StartCopy \/ FinishCopy \/ FinishCleanup
    BY <1>4, SkipPageLive, StartCopyLive, FinishCopyLive, FinishCleanupLive
  <1>5. CASE FinishWrite \/ AssertFails
    BY <1>5, FinishWriteLive, AssertLive
  <1>6. CASE UNCHANGED vars
    BY <1>6, StillLive DEF vars, maps
  <1>. QED
    BY <1>1, <1>2, <1>3, <1>4, <1>5, <1>6 DEF Next, Request, Step

\* What holds of the array, the lists and the maps between any two steps, as
\* long as no cleanup_block starts a collection.
THEOREM LiveInvariance == Spec /\ []Unnested => []LiveInv
  <1>1. Init => LiveInv
    BY InitLive
  <1>2. TypeInv /\ Unnested /\ Unnested' /\ LiveInv /\ [Next]_vars => LiveInv'
    BY StepLive
  <1>. QED
    BY <1>1, <1>2, TypeInvariance, PTL DEF Spec

---------------------------------------------------------------------------
(* The properties.                                                         *)

\* Where a frame of cleanup_block is on the stack.
LEMMA MoveHeight ==
  ASSUME NEW st, StackSound(st), UnnestedIn(st),
         NEW i \in 1 .. Len(st), st[i].proc \in {"cleanup", "copy"}
  PROVE  Len(st) >= 4 /\ i = Len(st) - 3
  <1>1. st \in Seq(LiveFrames) /\ Len(st) \in Nat /\ i \in Nat /\ i >= 1 /\ i <= Len(st)
    BY DEF StackSound
  <1>2. /\ st[Len(st)].proc = "write"
        /\ \A j \in 1 .. Len(st) - 1 : Calls(st[j].proc, st[j + 1].proc)
    <2>1. st # << >>
      BY <1>1
    <2>. QED
      BY <2>1 DEF StackSound
  <1>3. i # Len(st)
    BY <1>2
  <1>4. i \in 1 .. Len(st) - 1 /\ i + 1 \in Nat /\ i + 1 >= 1 /\ i + 1 <= Len(st)
    BY <1>1, <1>3
  <1>5. st[i + 1].proc = "erase"
    BY <1>2, <1>4 DEF Calls
  <1>6. i + 1 # Len(st)
    BY <1>2, <1>5
  <1>7. i + 1 \in 1 .. Len(st) - 1 /\ (i + 1) + 1 = i + 2 /\ i + 2 <= Len(st)
    BY <1>1, <1>4, <1>6
  <1>8. Calls(st[i + 1].proc, st[(i + 1) + 1].proc)
    BY <1>2, <1>7
  <1>9. Calls(st[i + 1].proc, st[i + 2].proc)
    BY <1>7, <1>8, Zenon
  <1>10. st[i + 2].proc \in {"page", "take"}
    BY <1>5, <1>9 DEF Calls
  <1>11. i + 2 # Len(st)
    BY <1>2, <1>10
  <1>12. i + 3 <= Len(st)
    BY <1>1, <1>7, <1>11
  <1>13. Len(st) >= 4
    BY <1>1, <1>12
  <1>14. Len(st) \in 0 .. 5 /\ (Len(st) = 5 => st[1].proc \in {"page", "take"})
    BY Shape
  <1>15. i + 3 # Len(st) => Len(st) = 5 /\ i = 1
    <2>1. \A k \in Nat, n \in 0 .. 5 : k >= 1 /\ k + 3 <= n /\ k + 3 # n => n = 5 /\ k = 1
      OBVIOUS
    <2>. QED
      BY <1>1, <1>12, <1>14, <2>1, Zenon
  <1>16. i + 3 = Len(st)
    BY <1>14, <1>15
  <1>. QED
    BY <1>1, <1>13, <1>16

LEMMA MoveFrame ==
  ASSUME NEW st, StackSound(st), UnnestedIn(st), Len(st) >= 4
  PROVE  /\ Len(st) - 3 \in 1 .. Len(st)
         /\ st[Len(st) - 3].proc \in {"cleanup", "copy"}
         /\ st[Len(st) - 3] \in CleanupFrame
  <1>1. st \in Seq(LiveFrames)
    BY DEF StackSound
  <1>2. Len(st) = 4 \/ Len(st) = 5
    <2>1. Len(st) \in 0 .. 5
      BY Shape
    <2>2. \A n \in 0 .. 5 : n >= 4 => n = 4 \/ n = 5
      OBVIOUS
    <2>. QED
      BY <2>1, <2>2, Zenon
  <1>3. st[Len(st) - 3].proc \in {"cleanup", "copy"} /\ Len(st) - 3 \in 1 .. Len(st)
    <2>1. CASE Len(st) = 4
      <3>1. Len(st) - 3 = 1 /\ st[1].proc \in {"cleanup", "copy"}
        BY <2>1, Shape
      <3>. QED
        BY <2>1, <3>1
    <2>2. CASE Len(st) = 5
      <3>1. Len(st) - 3 = 2 /\ st[2].proc = "copy"
        BY <2>2, Shape
      <3>. QED
        BY <2>2, <3>1
    <2>. QED
      BY <1>2, <2>1, <2>2
  <1>4. st[Len(st) - 3] \in LiveFrames
    BY <1>1, <1>3
  <1>. QED
    BY <1>3, <1>4, FrameKinds

\* The place of a page that MappingExact is about.
LEMMA PageHere ==
  ASSUME TypeInv, Unnested, NEW l
  PROVE  PageOf(l) = PlaceIn(ppn, MovedIn(stack), l)
  <1>1. StackSound(stack) /\ stack \in Seq(LiveFrames) /\ UnnestedIn(stack) /\ Len(stack) \in Nat
    BY DEF TypeInv, StackSound, Unnested
  <1>2. \A f : f \in Moves <=> \E i \in 1 .. Len(stack) : f = stack[i] /\ f.proc \in {"cleanup", "copy"}
    <2>1. DOMAIN stack = 1 .. Len(stack)
      BY <1>1
    <2>. QED
      BY <2>1 DEF Moves, Range
  <1>3. CASE ~(Len(stack) >= 4)
    <2>1. Moves = {}
      BY <1>1, <1>2, <1>3, MoveHeight
    <2>2. MovedIn(stack) = << >>
      BY <1>3 DEF MovedIn
    <2>. QED
      BY <2>1, <2>2 DEF PageOf, PlaceIn
  <1>4. CASE Len(stack) >= 4
    <2>. DEFINE c == stack[Len(stack) - 3]
    <2>1. Len(stack) - 3 \in 1 .. Len(stack) /\ c.proc \in {"cleanup", "copy"}
      BY <1>1, <1>4, MoveFrame
    <2>3. \A f : f \in Moves <=> f = c
      BY <1>1, <1>2, <2>1, MoveHeight
    <2>4. Moves = {c}
      BY <2>3
    <2>5. MovedIn(stack) = c.invalidated_translation
      BY <1>4 DEF MovedIn
    <2>. HIDE DEF c
    <2>6. (\E f \in Moves : l \in DOMAIN f.invalidated_translation) <=> l \in DOMAIN c.invalidated_translation
      BY <2>3
    <2>7. l \in DOMAIN c.invalidated_translation
            => (CHOOSE f \in Moves : l \in DOMAIN f.invalidated_translation) = c
      BY <2>4
    <2>. QED
      BY <2>5, <2>6, <2>7 DEF PageOf, PlaceIn
  <1>. QED
    BY <1>3, <1>4

\* As long as no cleanup_block starts a collection, the VALID pages are those
\* the logical pages are on, one each, between any two steps of
\* get_free_data_page, insert_events and cleanup_block, and the reverse map
\* names the owner of each page that is not about to be moved.
THEOREM MappingsExact == Spec /\ []Unnested => []MappingExact
  <1>1. TypeInv /\ Unnested /\ LiveInv => MappingExact
    <2>. SUFFICES ASSUME TypeInv, Unnested, LiveInv PROVE MappingExact
      OBVIOUS
    <2>. DEFINE mv == MovedIn(stack)
    <2>1. /\ \A l \in Lpns : PlaceIn(ppn, mv, l) # NoPpn => flash.page[PlaceIn(ppn, mv, l)] = "VALID"
          /\ \A p \in Ppns : flash.page[p] = "VALID" => \E l \in Lpns : PlaceIn(ppn, mv, l) = p
          /\ \A l \in Lpns \ DOMAIN mv : ppn[l] # NoPpn => reverse_trans_map[ppn[l]] = l
          /\ \A l \in DOMAIN mv : ppn[l] # NoPpn /\ flash.page[ppn[l]] = "INVALID"
      BY DEF LiveInv, PlacesInv, ReverseInv, WaitInv
    <2>2. ppn \in [Lpns -> Ppns \cup {NoPpn}]
      BY DEF TypeInv, TypeOK
    <2>3. mv \in [DOMAIN mv -> Ppns]
      <3>1. CASE ~(Len(stack) >= 4)
        BY <3>1 DEF MovedIn
      <3>2. CASE Len(stack) >= 4
        <4>1. StackSound(stack) /\ UnnestedIn(stack)
          BY DEF TypeInv, Unnested
        <4>2. stack[Len(stack) - 3] \in CleanupFrame
          BY <3>2, <4>1, MoveFrame
        <4>. QED
          BY <3>2, <4>2 DEF MovedIn, CleanupFrame
      <3>. QED
        BY <3>1, <3>2
    <2>4. \A l \in Lpns : PageOf(l) = PlaceIn(ppn, mv, l)
      BY PageHere
    <2>. HIDE DEF mv
    <2>5. \A l \in Lpns : PlaceIn(ppn, mv, l) \in Ppns \cup {NoPpn}
      BY <2>2, <2>3 DEF PlaceIn
    <2>6. {PageOf(l) : l \in Lpns} \ {NoPpn} = {p \in Ppns : flash.page[p] = "VALID"}
      <3>1. \A p : p \in {PageOf(l) : l \in Lpns} \ {NoPpn} => p \in Ppns /\ flash.page[p] = "VALID"
        BY <2>1, <2>4, <2>5
      <3>2. ASSUME NEW p \in Ppns, flash.page[p] = "VALID"
            PROVE  p \in {PageOf(l) : l \in Lpns} \ {NoPpn}
        <4>1. PICK l \in Lpns : PlaceIn(ppn, mv, l) = p
          BY <2>1, <3>2
        <4>. QED
          BY <2>4, <4>1, NoPpnNotPage
      <3>. QED
        BY <3>1, <3>2
    <2>7. \A l \in Lpns : PageOf(l) = ppn[l] /\ ppn[l] # NoPpn => reverse_trans_map[ppn[l]] = l
      <3>. SUFFICES ASSUME NEW l \in Lpns, PlaceIn(ppn, mv, l) = ppn[l], ppn[l] # NoPpn
                    PROVE  l \notin DOMAIN mv
        BY <2>1, <2>4
      <3>1. flash.page[ppn[l]] = "VALID"
        BY <2>1
      <3>. QED
        BY <2>1, <3>1
    <2>. QED
      BY <2>6, <2>7 DEF MappingExact
  <1>. QED
    BY <1>1, TypeInvariance, LiveInvariance, PTL

\* As long as no cleanup_block starts a collection, a write stores its payload,
\* a trim drops the page, and no step of a read or of a collection changes what
\* a read of any logical page would return.
THEOREM RequestsDoAsAsked == Spec /\ []Unnested => RequestsMeetDisk
  <1>. DEFINE A == /\ At("write") /\ Running' => disk' = [disk EXCEPT ![top.lpn] = top.payload]
                   /\ stack # << >> /\ ~At("write") => disk' = disk
                   /\ \A l \in Lpns :
                        /\ Trim(l) => disk' = [disk EXCEPT ![l] = NoData]
                        /\ Read(l) => disk' = disk
  <1>1. TypeInv /\ Unnested /\ Unnested' /\ LiveInv /\ [Next]_vars => [A]_vars
    <2>. SUFFICES ASSUME TypeInv, Unnested, Unnested', LiveInv, Next PROVE A
      OBVIOUS
    <2>1. ASSUME NEW l \in Lpns
          PROVE  /\ Trim(l) => disk' = [disk EXCEPT ![l] = NoData]
                 /\ Read(l) => disk' = disk
      BY TrimLive, ReadLive
    <2>2. ASSUME stack # << >> PROVE Step
      BY <2>2 DEF Next, Request, Read, Write, Trim, Idle
    <2>3. ASSUME At("write"), Running', Step PROVE FinishWrite
      <3>1. stack # << >> /\ Head(stack).proc = "write"
        BY <2>3 DEF At
      <3>2. /\ ~At("page") /\ ~At("take") /\ ~At("insert") /\ ~At("erase")
            /\ ~At("cleanup") /\ ~At("copy")
        BY <3>1 DEF At
      <3>3. ~NextPage /\ ~FreshBlock /\ ~CollectForLastBlock /\ ~FreeBlock
        BY <3>2 DEF NextPage, FreshBlock, CollectForLastBlock, FreeBlock, TakesFreeBlock
      <3>4. ~EndInsert /\ ~SkipVictim /\ ~StartCleanup /\ ~EraseVictim
        BY <3>2 DEF EndInsert, SkipVictim, StartCleanup, EraseVictim
      <3>5. ~SkipPage /\ ~StartCopy /\ ~FinishCopy /\ ~FinishCleanup
        BY <3>2 DEF SkipPage, StartCopy, FinishCopy, FinishCleanup, InLoop
      <3>6. ~AssertFails
        BY <2>3 DEF AssertFails, Running
      <3>. QED
        BY <2>3, <3>3, <3>4, <3>5, <3>6 DEF Step
    <2>4. At("write") /\ Running' => disk' = [disk EXCEPT ![top.lpn] = top.payload]
      <3>. SUFFICES ASSUME At("write"), Running'
                    PROVE  disk' = [disk EXCEPT ![top.lpn] = top.payload]
        OBVIOUS
      <3>1. FinishWrite
        BY <2>2, <2>3 DEF At
      <3>. QED
        BY <3>1, FinishWriteLive
    <2>5. stack # << >> /\ ~At("write") => disk' = disk
      <3>. SUFFICES ASSUME stack # << >>, ~At("write") PROVE disk' = disk
        OBVIOUS
      <3>1. Step /\ ~FinishWrite
        BY <2>2 DEF FinishWrite
      <3>2. CASE NextPage \/ FreshBlock \/ CollectForLastBlock \/ FreeBlock
        BY <3>2, NextPageLive, FreshBlockLive, CollectLive, FreeBlockLive
      <3>3. CASE EndInsert \/ SkipVictim \/ StartCleanup \/ EraseVictim
        BY <3>3, EndInsertLive, SkipVictimLive, StartCleanupLive, EraseVictimLive
      <3>4. CASE SkipPage \/ StartCopy \/ FinishCopy \/ FinishCleanup
        BY <3>4, SkipPageLive, StartCopyLive, FinishCopyLive, FinishCleanupLive
      <3>5. CASE AssertFails
        BY <3>5, AssertLive
      <3>. QED
        BY <3>1, <3>2, <3>3, <3>4, <3>5 DEF Step
    <2>. QED
      BY <2>1, <2>4, <2>5
  <1>. QED
    BY <1>1, TypeInvariance, LiveInvariance, PTL DEF Spec, RequestsMeetDisk

---------------------------------------------------------------------------
(* BDFTL, until it is spoiled.  A cleanup_block then never starts inside   *)
(* another one, so that the stack has at most six frames.                  *)

\* The frame at height k.
Up(st, k) == st[Len(st) + 1 - k]

BFrames ==
  {f \in LiveFrames : f.proc # "write"} \cup BlockFrame \cup FirstFrame \cup BWriteFrame

BStackSound(st) ==
  /\ st \in Seq(BFrames)
  /\ Len(st) <= 6
  /\ Len(st) >= 1 => Up(st, 1).proc \in {"bwrite", "first"}
  /\ Len(st) >= 2 /\ Up(st, 1).proc = "bwrite" =>
       Up(st, 1).page = NoPpn /\ Up(st, 2).proc \in {"page", "take"}
  /\ Len(st) >= 2 /\ Up(st, 1).proc = "first" =>
       Up(st, 2).proc \in {"block", "btake"} /\ Up(st, 2).lbn = Lbn(Up(st, 1).lpn)
  /\ Len(st) >= 3 => Up(st, 2).proc # "block" /\ Up(st, 3).proc \in {"insert", "erase"}
  /\ Len(st) >= 4 => /\ Up(st, 3).proc = "erase" /\ Up(st, 4).proc \in {"cleanup", "copy"}
                     /\ Up(st, 4).block = Up(st, 3).it
  /\ Len(st) >= 5 => Up(st, 4).proc = "copy" /\ Up(st, 5).proc \in {"page", "take"}
  /\ Len(st) >= 6 => Up(st, 6).proc = "insert"

\* A page was handed out and is not written yet.
BHanded(st) ==
  st # << >> /\ (st[1].proc = "copy" \/ (st[1].proc = "bwrite" /\ st[1].page = NoPpn))

\* The blocks of a block map.
MapBlocks(k) == {k[j].pbn : j \in {i \in Lbns : k[i].optimal}} \ {NoBlock}

BMapType ==
  [Lbns -> [pbn : Blocks \cup {NoBlock}, nextPage : 0 .. BLOCK_SIZE, optimal : BOOLEAN]]

AllEmpty(f, b) == \A o \in Offsets : f.page[<<b, o>>] = "EMPTY"
UsedPages(f, b) == {o \in Offsets : f.page[<<b, o>>] # "EMPTY"}

\* The counter of programmed pages counts no page that is EMPTY.
CountInv(f) == \A b \in Blocks : f.pages_valid[b] <= Cardinality(UsedPages(f, b))

\* What can be handed out is erased.
BListInv(f, m) ==
  /\ NoRepeat(m.free_list)
  /\ \A b \in Members(m.free_list) : b < m.fresh /\ AllEmpty(f, b)
  /\ \A b \in Blocks : b >= m.fresh => AllEmpty(f, b)

\* The page handed out last; `w' are the blocks of the block map.
CanFill(c) == c # NoPpn /\ c[2] # BLOCK_SIZE - 1
BCurInv(f, m, c, h, w) ==
  /\ c # NoPpn => c[1] < m.fresh
  /\ h => c # NoPpn /\ f.page[c] = "EMPTY"
  /\ h \/ CanFill(c) =>
       /\ c[1] \notin Members(m.free_list) /\ c[1] \notin w
       /\ \A o \in Offsets : o > c[2] => f.page[<<c[1], o>>] = "EMPTY"

\* The blocks of the block map are in use and not shared.
BMapInv(f, m, k) ==
  /\ \A b \in MapBlocks(k) : /\ b < m.fresh /\ b \notin Members(m.free_list)
                             /\ \E o \in Offsets : f.page[<<b, o>>] # "INVALID"
  /\ \A i, j \in Lbns :
       k[i].optimal /\ k[j].optimal /\ k[i].pbn = k[j].pbn => i = j \/ k[i].pbn = NoBlock

BPoolInv(m, b, q) ==
  /\ b # NoBlock => b < m.fresh
  /\ \A x \in Members(q) : x < m.fresh

\* The place of each logical page in the page map.
PlacesOf(u, mv) == [l \in Lpns |-> PlaceIn(u, mv, l)]

\* Each logical page of the page map has a VALID page of its own, outside the
\* block map; `P' are the places.
BPlacesInv(f, P, w) ==
  /\ \A l \in Lpns : P[l] # NoPpn => f.page[P[l]] = "VALID" /\ P[l][1] \notin w
  /\ \A l, n \in Lpns : P[l] = P[n] /\ P[l] # NoPpn => l = n

BVictimInv(f, m, u, v, mv, d, c) ==
  v # NoBlock =>
    /\ v \in Blocks /\ v < m.fresh /\ v \notin Members(m.free_list)
    /\ \A o \in Offsets : f.page[<<v, o>>] # "EMPTY" /\ (o < d => f.page[<<v, o>>] = "INVALID")
    /\ \A l \in DOMAIN mv : mv[l][1] # v
    /\ c => /\ d \in Offsets /\ f.page[<<v, d>>] = "VALID"
            /\ \E l \in Lpns \ DOMAIN mv : u[l] = <<v, d>>

\* A logical block has its pages in one map, and a trimmed page is in none.
OneMapInv(P, k, t, g) ==
  \A l \in Lpns : /\ k[Lbn(l)].optimal => P[l] = NoPpn
                  /\ t[l] => P[l] = NoPpn /\ g[l] = NoData

\* Where page l is looked for.
Where(P, k, l) ==
  IF ~k[Lbn(l)].optimal THEN P[l]
  ELSE IF k[Lbn(l)].pbn # NoBlock THEN <<k[Lbn(l)].pbn, Off(l)>> ELSE NoPpn

\* Page p holds d.
Holds(f, p, d) == p # NoPpn /\ f.page[p] = "VALID" /\ f.data[p] = d

ContentInv(f, P, k, g, lo) ==
  \A l \in Lpns \ lo : g[l] # NoData => Holds(f, Where(P, k, l), g[l])

\* A logical block without a block has no page.
NextInv(k) == \A j \in Lbns : k[j].optimal /\ k[j].pbn = NoBlock => k[j].nextPage = 0

\* The write under way.
RequestInv(st, m, k, t) ==
  st # << >> =>
    LET f == Up(st, 1)
        b == k[Lbn(f.lpn)]
    IN  /\ f.proc = "bwrite" => /\ ~b.optimal /\ ~t[f.lpn]
                                /\ f.page # NoPpn => f.page[1] < m.fresh
        /\ f.proc = "first" => /\ b.optimal /\ b.nextPage = 0 /\ Off(f.lpn) = 0 /\ ~t[f.lpn]
                               /\ (Len(st) >= 2 <=> b.pbn = NoBlock)

BTypes ==
  /\ bm \in BlockManagerType
  /\ ppn \in [Lpns -> Ppns \cup {NoPpn}]
  /\ reverse_trans_map \in [Ppns -> Lpns \cup {NoLpn}]
  /\ currentDataPage \in Ppns \cup {NoPpn}
  /\ block_map \in BMapType
  /\ trim_map \in [Lpns -> BOOLEAN]
  /\ inuseBlock \in Blocks \cup {NoBlock}
  /\ blockQueue \in Seq(Blocks)
  /\ stored \in [Lpns -> Contents]
  /\ cached \in SUBSET Lpns

SoundInv ==
  /\ BTypes
  /\ BStackSound(stack)
  /\ FlashSound(flash) /\ CountInv(flash)
  /\ BListInv(flash, bm)
  /\ BCurInv(flash, bm, currentDataPage, BHanded(stack), MapBlocks(block_map))
  /\ BMapInv(flash, bm, block_map)
  /\ NextInv(block_map)
  /\ BPoolInv(bm, inuseBlock, blockQueue)
  /\ BPlacesInv(flash, PlacesOf(ppn, MovedIn(stack)), MapBlocks(block_map))
  /\ ReverseInv(ppn, reverse_trans_map, MovedIn(stack))
  /\ BVictimInv(flash, bm, ppn, VictimIn(stack), MovedIn(stack), DoneIn(stack), CopyingIn(stack))
  /\ OneMapInv(PlacesOf(ppn, MovedIn(stack)), block_map, trim_map, stored)
  /\ ContentInv(flash, PlacesOf(ppn, MovedIn(stack)), block_map, stored, lost)
  /\ RequestInv(stack, bm, block_map, trim_map)

BInv == ~spoiled => SoundInv
---------------------------------------------------------------------------
(* The stack by its heights.                                               *)

Becoming(f, st) == <<f>> \o Tail(st)
Pushed(f, st) == <<f>> \o st

LEMMA UpTop ==
  ASSUME NEW S, NEW st \in Seq(S), st # << >>
  PROVE  /\ Len(st) \in Nat /\ Len(st) >= 1
         /\ Up(st, Len(st)) = st[1] /\ Head(st) = st[1] /\ st[1] \in S
         /\ \A k \in 1 .. Len(st) : Up(st, k) \in S
  <1>1. Len(st) \in Nat /\ Len(st) >= 1 /\ Head(st) = st[1] /\ st[1] \in S
    BY ReturnStack
  <1>2. Len(st) + 1 - Len(st) = 1
    BY <1>1
  <1>3. \A k \in 1 .. Len(st) : Up(st, k) \in S
    <2>. SUFFICES ASSUME NEW k \in 1 .. Len(st) PROVE Up(st, k) \in S
      OBVIOUS
    <2>1. Len(st) + 1 - k \in 1 .. Len(st)
      BY <1>1
    <2>. QED
      BY <2>1 DEF Up
  <1>. QED
    BY <1>1, <1>2, <1>3 DEF Up

LEMMA UpTail ==
  ASSUME NEW S, NEW st \in Seq(S), st # << >>
  PROVE  /\ Tail(st) \in Seq(S) /\ Len(Tail(st)) = Len(st) - 1
         /\ \A k \in 1 .. Len(st) - 1 : Up(Tail(st), k) = Up(st, k)
  <1>1. /\ Len(st) \in Nat /\ Len(st) >= 1
        /\ Tail(st) \in Seq(S) /\ Len(Tail(st)) = Len(st) - 1
        /\ \A i \in 1 .. Len(st) - 1 : Tail(st)[i] = st[i + 1]
    BY ReturnStack
  <1>2. \A k \in 1 .. Len(st) - 1 : Up(Tail(st), k) = Up(st, k)
    <2>. SUFFICES ASSUME NEW k \in 1 .. Len(st) - 1 PROVE Up(Tail(st), k) = Up(st, k)
      OBVIOUS
    <2>1. /\ Len(Tail(st)) + 1 - k \in 1 .. Len(st) - 1
          /\ (Len(Tail(st)) + 1 - k) + 1 = Len(st) + 1 - k
      BY <1>1
    <2>. QED
      BY <1>1, <2>1 DEF Up
  <1>. QED
    BY <1>1, <1>2

LEMMA UpBecome ==
  ASSUME NEW S, NEW st \in Seq(S), st # << >>, NEW f \in S, NEW u, u = Becoming(f, st)
  PROVE  /\ u \in Seq(S) /\ Len(u) = Len(st) /\ u # << >> /\ u[1] = f
         /\ Up(u, Len(st)) = f
         /\ \A k \in 1 .. Len(st) - 1 : Up(u, k) = Up(st, k)
  <1>1. Len(st) \in Nat /\ Len(st) >= 1
    BY ReturnStack
  <1>2. /\ u \in Seq(S) /\ Len(u) = Len(st) /\ u[1] = f
        /\ \A i \in 2 .. Len(st) : u[i] = st[i]
    BY BecomeStack DEF Becoming
  <1>3. \A k \in 1 .. Len(st) - 1 : Up(u, k) = Up(st, k)
    <2>. SUFFICES ASSUME NEW k \in 1 .. Len(st) - 1 PROVE Up(u, k) = Up(st, k)
      OBVIOUS
    <2>1. Len(st) + 1 - k \in 2 .. Len(st)
      BY <1>1
    <2>. QED
      BY <1>2, <2>1 DEF Up
  <1>4. Len(st) + 1 - Len(st) = 1 /\ u # << >>
    BY <1>1, <1>2
  <1>. QED
    BY <1>2, <1>3, <1>4 DEF Up

LEMMA UpPush ==
  ASSUME NEW S, NEW st \in Seq(S), NEW f \in S, NEW u, u = Pushed(f, st)
  PROVE  /\ u \in Seq(S) /\ Len(u) = Len(st) + 1 /\ u # << >> /\ u[1] = f
         /\ Up(u, Len(st) + 1) = f
         /\ \A k \in 1 .. Len(st) : Up(u, k) = Up(st, k)
  <1>1. Len(st) \in Nat /\ <<f>> \in Seq(S) /\ Len(<<f>>) = 1 /\ <<f>>[1] = f
    OBVIOUS
  <1>2. /\ u \in Seq(S) /\ Len(u) = Len(st) + 1 /\ u[1] = f
        /\ \A i \in 1 .. Len(st) : u[i + 1] = st[i]
    BY <1>1 DEF Pushed
  <1>3. \A k \in 1 .. Len(st) : Up(u, k) = Up(st, k)
    <2>. SUFFICES ASSUME NEW k \in 1 .. Len(st) PROVE Up(u, k) = Up(st, k)
      OBVIOUS
    <2>1. Len(st) + 1 - k \in 1 .. Len(st) /\ (Len(st) + 1 - k) + 1 = Len(u) + 1 - k
      BY <1>1, <1>2
    <2>. QED
      BY <1>2, <2>1 DEF Up
  <1>4. Len(u) + 1 - (Len(st) + 1) = 1 /\ u # << >>
    BY <1>1, <1>2
  <1>. QED
    BY <1>2, <1>3, <1>4 DEF Up

Calling(f, g, st) == <<f, g>> \o Tail(st)

LEMMA UpCall ==
  ASSUME NEW S, NEW st \in Seq(S), st # << >>, NEW f \in S, NEW g \in S, NEW u, u = Calling(f, g, st)
  PROVE  /\ u \in Seq(S) /\ Len(u) = Len(st) + 1 /\ u # << >> /\ u[1] = f
         /\ Up(u, Len(st) + 1) = f /\ Up(u, Len(st)) = g
         /\ \A k \in 1 .. Len(st) - 1 : Up(u, k) = Up(st, k)
  <1>1. Len(st) \in Nat /\ Len(st) >= 1
    BY ReturnStack
  <1>2. /\ u \in Seq(S) /\ Len(u) = Len(st) + 1 /\ u[1] = f /\ u[2] = g
        /\ \A i \in 2 .. Len(st) : u[i + 1] = st[i]
    BY CallStack DEF Calling
  <1>3. \A k \in 1 .. Len(st) - 1 : Up(u, k) = Up(st, k)
    <2>. SUFFICES ASSUME NEW k \in 1 .. Len(st) - 1 PROVE Up(u, k) = Up(st, k)
      OBVIOUS
    <2>1. Len(st) + 1 - k \in 2 .. Len(st) /\ (Len(st) + 1 - k) + 1 = Len(u) + 1 - k
      BY <1>1, <1>2
    <2>. QED
      BY <1>2, <2>1 DEF Up
  <1>4. Len(u) + 1 - (Len(st) + 1) = 1 /\ Len(u) + 1 - Len(st) = 2 /\ u # << >>
    BY <1>1, <1>2
  <1>. QED
    BY <1>2, <1>3, <1>4 DEF Up

\* The frame of each function.
LEMMA BFrameKinds ==
  ASSUME NEW f \in BFrames
  PROVE  /\ f.proc \in {"page", "take", "insert", "erase", "cleanup", "copy",
                        "block", "btake", "first", "bwrite"}
         /\ f.proc \in {"page", "take"} => f \in PageFrame
         /\ f.proc \in {"insert", "erase"} => f \in InsertFrame
         /\ f.proc \in {"cleanup", "copy"} => f \in CleanupFrame
         /\ f.proc \in {"block", "btake"} => f \in BlockFrame
         /\ f.proc = "first" => f \in FirstFrame
         /\ f.proc = "bwrite" => f \in BWriteFrame
         /\ f.proc = "erase" => f.num_to_erase # 0
         /\ f.proc = "copy" => f.i < BLOCK_SIZE
  <1>1. (f \in LiveFrames /\ f.proc # "write") \/ f \in BlockFrame \/ f \in FirstFrame \/ f \in BWriteFrame
    BY DEF BFrames
  <1>2. CASE f \in LiveFrames /\ f.proc # "write"
    BY <1>2, FrameKinds DEF LiveFrames
  <1>3. CASE f \in BlockFrame
    BY <1>3 DEF BlockFrame
  <1>4. CASE f \in FirstFrame
    BY <1>4 DEF FirstFrame
  <1>5. CASE f \in BWriteFrame
    BY <1>5 DEF BWriteFrame
  <1>. QED
    BY <1>1, <1>2, <1>3, <1>4, <1>5

\* The heights at which each function can be on top.
LEMMA BHeights ==
  ASSUME NEW st, BStackSound(st), st # << >>
  PROVE  /\ st \in Seq(BFrames) /\ Len(st) \in 1 .. 6
         /\ Up(st, Len(st)) = st[1] /\ st[1] \in BFrames
         /\ st[1].proc \in {"bwrite", "first"} => Len(st) = 1
         /\ st[1].proc \in {"block", "btake"} => Len(st) = 2 /\ Up(st, 1).proc = "first"
         /\ st[1].proc \in {"page", "take"} =>
              \/ Len(st) = 2 /\ Up(st, 1).proc = "bwrite"
              \/ Len(st) = 5 /\ Up(st, 4).proc = "copy"
         /\ st[1].proc = "insert" => Len(st) \in {3, 6}
         /\ st[1].proc = "erase" => Len(st) = 3
         /\ st[1].proc \in {"cleanup", "copy"} => Len(st) = 4 /\ Up(st, 3).proc = "erase"
  <1>1. st \in Seq(BFrames) /\ Len(st) <= 6
    BY DEF BStackSound
  <1>2. Len(st) \in Nat /\ Len(st) >= 1 /\ Up(st, Len(st)) = st[1] /\ st[1] \in BFrames
    BY <1>1, UpTop
  <1>3. Len(st) \in 1 .. 6
    <2>1. \A n \in Nat : n >= 1 /\ n <= 6 => n \in 1 .. 6
      OBVIOUS
    <2>. QED
      BY <1>1, <1>2, <2>1, Zenon
  <1>4. CASE Len(st) = 1
    BY <1>1, <1>2, <1>3, <1>4 DEF BStackSound
  <1>5. CASE Len(st) = 2
    BY <1>1, <1>2, <1>3, <1>5 DEF BStackSound
  <1>6. CASE Len(st) = 3
    BY <1>1, <1>2, <1>3, <1>6 DEF BStackSound
  <1>7. CASE Len(st) = 4
    BY <1>1, <1>2, <1>3, <1>7 DEF BStackSound
  <1>8. CASE Len(st) = 5
    BY <1>1, <1>2, <1>3, <1>8 DEF BStackSound
  <1>9. CASE Len(st) = 6
    BY <1>1, <1>2, <1>3, <1>9 DEF BStackSound
  <1>10. \/ Len(st) = 1 \/ Len(st) = 2 \/ Len(st) = 3 \/ Len(st) = 4 \/ Len(st) = 5 \/ Len(st) = 6
    BY <1>3
  <1>. QED
    BY <1>4, <1>5, <1>6, <1>7, <1>8, <1>9, <1>10


\* A stack one frame lower.
LEMMA BReturnSound ==
  ASSUME NEW st, BStackSound(st), st # << >>
  PROVE  BStackSound(Tail(st))
  <1>. DEFINE u == Tail(st)
  <1>1. st \in Seq(BFrames) /\ Len(st) \in 1 .. 6
    BY BHeights
  <1>2. /\ u \in Seq(BFrames) /\ Len(u) = Len(st) - 1
        /\ \A k \in 1 .. Len(st) - 1 : Up(u, k) = Up(st, k)
    BY <1>1, UpTail
  <1>. HIDE DEF u
  <1>3. /\ Len(u) >= 1 => Up(u, 1) = Up(st, 1)
        /\ Len(u) >= 2 => Up(u, 2) = Up(st, 2)
        /\ Len(u) >= 3 => Up(u, 3) = Up(st, 3)
        /\ Len(u) >= 4 => Up(u, 4) = Up(st, 4)
        /\ Len(u) >= 5 => Up(u, 5) = Up(st, 5)
    BY <1>1, <1>2
  <1>4. Len(u) <= 5 /\ \A n \in 1 .. 5 : Len(u) >= n => Len(st) >= n
    BY <1>1, <1>2
  <1>5. BStackSound(u)
    BY <1>2, <1>3, <1>4 DEF BStackSound
  <1>. QED
    BY <1>5 DEF u

\* Two points of one function.
SameStep(f, g) ==
  \/ f.proc \in {"page", "take"} /\ g.proc \in {"page", "take"}
  \/ f.proc \in {"block", "btake"} /\ g.proc \in {"block", "btake"} /\ f.lbn = g.lbn
  \/ f.proc = "insert" /\ g.proc \in {"insert", "erase"}
  \/ f.proc \in {"cleanup", "copy"} /\ g.proc \in {"cleanup", "copy"} /\ f.block = g.block

LEMMA BBecomeSound ==
  ASSUME NEW st, BStackSound(st), st # << >>, NEW f \in BFrames, SameStep(f, st[1])
  PROVE  BStackSound(Becoming(f, st))
  <1>. DEFINE u == Becoming(f, st)
  <1>. SUFFICES BStackSound(u)
    OBVIOUS
  <1>1. /\ st \in Seq(BFrames) /\ Len(st) \in 1 .. 6 /\ Up(st, Len(st)) = st[1]
        /\ st[1].proc \notin {"bwrite", "first"} \/ Len(st) = 1
        /\ st[1].proc \in {"block", "btake"} => Len(st) = 2 /\ Up(st, 1).proc = "first"
        /\ st[1].proc \in {"page", "take"} =>
              \/ Len(st) = 2 /\ Up(st, 1).proc = "bwrite"
              \/ Len(st) = 5 /\ Up(st, 4).proc = "copy"
        /\ st[1].proc = "insert" => Len(st) \in {3, 6}
        /\ st[1].proc = "erase" => Len(st) = 3
        /\ st[1].proc \in {"cleanup", "copy"} => Len(st) = 4 /\ Up(st, 3).proc = "erase"
    BY BHeights
  <1>2. /\ u \in Seq(BFrames) /\ Len(u) = Len(st)
        /\ Up(u, Len(st)) = f
        /\ \A k \in 1 .. Len(st) - 1 : Up(u, k) = Up(st, k)
    BY <1>1, UpBecome
  <1>. HIDE DEF u
  <1>3. CASE f.proc \in {"page", "take"}
    <2>1. st[1].proc \in {"page", "take"}
      BY <1>3 DEF SameStep
    <2>2. CASE Len(st) = 2
      <3>1. Up(u, 1) = Up(st, 1) /\ Up(u, 2) = f /\ Len(u) = 2
        BY <1>2, <2>2
      <3>. QED
        BY <1>1, <1>2, <1>3, <2>1, <2>2, <3>1 DEF BStackSound
    <2>3. CASE Len(st) = 5
      <3>1. /\ Up(u, 1) = Up(st, 1) /\ Up(u, 2) = Up(st, 2) /\ Up(u, 3) = Up(st, 3)
            /\ Up(u, 4) = Up(st, 4) /\ Up(u, 5) = f /\ Len(u) = 5
        BY <1>2, <2>3
      <3>. QED
        BY <1>1, <1>2, <1>3, <2>1, <2>3, <3>1 DEF BStackSound
    <2>. QED
      BY <1>1, <2>1, <2>2, <2>3
  <1>4. CASE f.proc \in {"block", "btake"}
    <2>1. st[1].proc \in {"block", "btake"} /\ f.lbn = st[1].lbn
      BY <1>4 DEF SameStep
    <2>2. Len(st) = 2 /\ Up(st, 1).proc = "first" /\ Up(st, 2) = st[1]
      BY <1>1, <2>1
    <2>3. Up(u, 1) = Up(st, 1) /\ Up(u, 2) = f /\ Len(u) = 2
      BY <1>2, <2>2
    <2>. QED
      BY <1>1, <1>2, <1>4, <2>1, <2>2, <2>3 DEF BStackSound
  <1>5. CASE f.proc = "insert"
    <2>1. st[1].proc \in {"insert", "erase"}
      BY <1>5 DEF SameStep
    <2>2. CASE Len(st) = 3
      <3>1. Up(u, 1) = Up(st, 1) /\ Up(u, 2) = Up(st, 2) /\ Up(u, 3) = f /\ Len(u) = 3
        BY <1>2, <2>2
      <3>. QED
        BY <1>1, <1>2, <1>5, <2>1, <2>2, <3>1 DEF BStackSound
    <2>3. CASE Len(st) = 6
      <3>1. /\ Up(u, 1) = Up(st, 1) /\ Up(u, 2) = Up(st, 2) /\ Up(u, 3) = Up(st, 3)
            /\ Up(u, 4) = Up(st, 4) /\ Up(u, 5) = Up(st, 5) /\ Up(u, 6) = f /\ Len(u) = 6
        BY <1>2, <2>3
      <3>. QED
        BY <1>1, <1>2, <1>5, <2>1, <2>3, <3>1 DEF BStackSound
    <2>. QED
      BY <1>1, <2>1, <2>2, <2>3
  <1>6. CASE f.proc \in {"cleanup", "copy"}
    <2>1. st[1].proc \in {"cleanup", "copy"} /\ f.block = st[1].block
      BY <1>6 DEF SameStep
    <2>2. Len(st) = 4 /\ Up(st, 4) = st[1]
      BY <1>1, <2>1
    <2>3. /\ Up(u, 1) = Up(st, 1) /\ Up(u, 2) = Up(st, 2) /\ Up(u, 3) = Up(st, 3)
          /\ Up(u, 4) = f /\ Len(u) = 4
      BY <1>2, <2>2
    <2>. QED
      BY <1>1, <1>2, <1>6, <2>1, <2>2, <2>3 DEF BStackSound
  <1>. QED
    BY <1>3, <1>4, <1>5, <1>6 DEF SameStep

\* insert_events, called by a function that wants a page or a block.
LEMMA BPushSound ==
  ASSUME NEW st, BStackSound(st), st # << >>, st[1].proc \in {"page", "take", "btake"},
         NEW f \in BFrames, f.proc = "insert"
  PROVE  BStackSound(Pushed(f, st))
  <1>. DEFINE u == Pushed(f, st)
  <1>. SUFFICES BStackSound(u)
    OBVIOUS
  <1>1. /\ st \in Seq(BFrames) /\ Len(st) \in 1 .. 6 /\ Up(st, Len(st)) = st[1]
        /\ Len(st) \in {2, 5}
    BY BHeights
  <1>2. /\ u \in Seq(BFrames) /\ Len(u) = Len(st) + 1
        /\ Up(u, Len(st) + 1) = f
        /\ \A k \in 1 .. Len(st) : Up(u, k) = Up(st, k)
    BY <1>1, UpPush
  <1>. HIDE DEF u
  <1>3. CASE Len(st) = 2
    <2>1. Up(u, 1) = Up(st, 1) /\ Up(u, 2) = Up(st, 2) /\ Up(u, 3) = f /\ Len(u) = 3
      BY <1>2, <1>3
    <2>2. Up(st, 2).proc # "block"
      BY <1>1, <1>3
    <2>. QED
      BY <1>1, <1>2, <1>3, <2>1, <2>2 DEF BStackSound
  <1>4. CASE Len(st) = 5
    <2>1. /\ Up(u, 1) = Up(st, 1) /\ Up(u, 2) = Up(st, 2) /\ Up(u, 3) = Up(st, 3)
          /\ Up(u, 4) = Up(st, 4) /\ Up(u, 5) = Up(st, 5) /\ Up(u, 6) = f /\ Len(u) = 6
      BY <1>2, <1>4
    <2>. QED
      BY <1>1, <1>2, <1>4, <2>1 DEF BStackSound
  <1>. QED
    BY <1>1, <1>3, <1>4

\* insert_events calls cleanup_block, which calls get_free_data_page.
LEMMA BCallSound ==
  ASSUME NEW st, BStackSound(st), st # << >>, NEW f \in BFrames, NEW g \in BFrames,
         \/ /\ st[1].proc = "insert" /\ Len(st) = 3
            /\ f.proc = "cleanup" /\ g.proc = "erase" /\ f.block = g.it
         \/ /\ st[1].proc = "cleanup"
            /\ f.proc = "page" /\ g.proc = "copy" /\ g.block = st[1].block
  PROVE  BStackSound(Calling(f, g, st))
  <1>. DEFINE u == Calling(f, g, st)
  <1>. SUFFICES BStackSound(u)
    OBVIOUS
  <1>1. /\ st \in Seq(BFrames) /\ Len(st) \in 1 .. 6 /\ Up(st, Len(st)) = st[1]
        /\ st[1].proc = "cleanup" => Len(st) = 4
    BY BHeights
  <1>2. /\ u \in Seq(BFrames) /\ Len(u) = Len(st) + 1
        /\ Up(u, Len(st) + 1) = f /\ Up(u, Len(st)) = g
        /\ \A k \in 1 .. Len(st) - 1 : Up(u, k) = Up(st, k)
    BY <1>1, UpCall
  <1>. HIDE DEF u
  <1>3. CASE Len(st) = 3 /\ st[1].proc = "insert"
    <2>1. /\ Up(u, 1) = Up(st, 1) /\ Up(u, 2) = Up(st, 2) /\ Up(u, 3) = g
          /\ Up(u, 4) = f /\ Len(u) = 4
      BY <1>2, <1>3
    <2>. QED
      BY <1>1, <1>2, <1>3, <2>1 DEF BStackSound
  <1>4. CASE st[1].proc = "cleanup"
    <2>1. Len(st) = 4
      BY <1>1, <1>4
    <2>2. /\ Up(u, 1) = Up(st, 1) /\ Up(u, 2) = Up(st, 2) /\ Up(u, 3) = Up(st, 3)
          /\ Up(u, 4) = g /\ Up(u, 5) = f /\ Len(u) = 5 /\ Up(st, 4) = st[1]
      BY <1>1, <1>2, <2>1
    <2>. QED
      BY <1>1, <1>2, <1>4, <2>1, <2>2 DEF BStackSound
  <1>. QED
    BY <1>3, <1>4

\* What the views read at each height.
NoneIn(st) ==
  /\ VictimIn(st) = NoBlock /\ MovedIn(st) = << >>
  /\ DoneIn(st) = BLOCK_SIZE /\ CopyingIn(st) = FALSE

LEMMA ViewsByHeight ==
  ASSUME NEW st, BStackSound(st)
  PROVE  /\ Len(st) <= 2 => NoneIn(st)
         /\ Len(st) = 3 /\ Up(st, 3).proc = "insert" => NoneIn(st)
         /\ Len(st) = 3 /\ Up(st, 3).proc = "erase" =>
              /\ VictimIn(st) = Up(st, 3).it /\ MovedIn(st) = << >>
              /\ DoneIn(st) = BLOCK_SIZE /\ CopyingIn(st) = FALSE
         /\ Len(st) >= 4 =>
              /\ VictimIn(st) = Up(st, 4).block
              /\ MovedIn(st) = Up(st, 4).invalidated_translation
              /\ DoneIn(st) = Up(st, 4).i
              /\ CopyingIn(st) = (Up(st, 4).proc = "copy")
  <1>1. Len(st) \in Nat
    BY DEF BStackSound
  <1>2. Len(st) + 1 - 3 = Len(st) - 2 /\ Len(st) + 1 - 4 = Len(st) - 3
    BY <1>1
  <1>3. Up(st, 3) = st[Len(st) - 2] /\ Up(st, 4) = st[Len(st) - 3]
    BY <1>2 DEF Up
  <1>4. Len(st) <= 2 => NoneIn(st)
    <2>1. Len(st) <= 2 => ~(Len(st) >= 3) /\ ~(Len(st) >= 4)
      BY <1>1
    <2>. QED
      BY <2>1 DEF NoneIn, VictimIn, MovedIn, DoneIn, CopyingIn
  <1>5. Len(st) = 3 => ~(Len(st) >= 4) /\ Len(st) >= 3
    OBVIOUS
  <1>6. Len(st) = 3 /\ Up(st, 3).proc = "insert" => NoneIn(st)
    BY <1>3, <1>5 DEF NoneIn, VictimIn, MovedIn, DoneIn, CopyingIn
  <1>7. Len(st) = 3 /\ Up(st, 3).proc = "erase" =>
          /\ VictimIn(st) = Up(st, 3).it /\ MovedIn(st) = << >>
          /\ DoneIn(st) = BLOCK_SIZE /\ CopyingIn(st) = FALSE
    BY <1>3, <1>5 DEF VictimIn, MovedIn, DoneIn, CopyingIn
  <1>8. Len(st) >= 4 => /\ Len(st) >= 3 /\ Up(st, 3).proc = "erase"
                        /\ Up(st, 4).block = Up(st, 3).it
    BY <1>1 DEF BStackSound
  <1>9. Len(st) >= 4 => /\ VictimIn(st) = Up(st, 4).block
                        /\ MovedIn(st) = Up(st, 4).invalidated_translation
                        /\ DoneIn(st) = Up(st, 4).i
                        /\ CopyingIn(st) = (Up(st, 4).proc = "copy")
    BY <1>3, <1>8 DEF VictimIn, MovedIn, DoneIn, CopyingIn
  <1>. QED
    BY <1>4, <1>6, <1>7, <1>9

\* Two stacks say the same about the collection under way.
BSameViews(s, t) ==
  /\ VictimIn(t) = VictimIn(s) /\ MovedIn(t) = MovedIn(s)
  /\ DoneIn(t) = DoneIn(s) /\ CopyingIn(t) = CopyingIn(s)

LEMMA SixHeights ==
  /\ \A n \in 1 .. 6 : n <= 3 => n <= 2 \/ n = 3
  /\ \A n : n > 3 => n \notin {1, 2, 3}
  OBVIOUS

LEMMA ViewsNone ==
  ASSUME NEW s, NEW t, NoneIn(s), NoneIn(t)
  PROVE  BSameViews(s, t)
  BY DEF NoneIn, BSameViews

LEMMA ViewsUnder ==
  ASSUME NEW s, NEW t, BStackSound(s), BStackSound(t), Len(s) >= 4, Len(t) >= 4,
         Up(t, 4) = Up(s, 4)
  PROVE  BSameViews(s, t)
  <1>1. /\ VictimIn(s) = Up(s, 4).block /\ MovedIn(s) = Up(s, 4).invalidated_translation
        /\ DoneIn(s) = Up(s, 4).i /\ CopyingIn(s) = (Up(s, 4).proc = "copy")
    BY ViewsByHeight
  <1>2. /\ VictimIn(t) = Up(t, 4).block /\ MovedIn(t) = Up(t, 4).invalidated_translation
        /\ DoneIn(t) = Up(t, 4).i /\ CopyingIn(t) = (Up(t, 4).proc = "copy")
    BY ViewsByHeight
  <1>. QED
    BY <1>1, <1>2, Zenon DEF BSameViews

\* A return that ends neither a collection nor an erase, ...
LEMMA BReturnViews ==
  ASSUME NEW st, BStackSound(st), st # << >>, st[1].proc \notin {"erase", "cleanup", "copy"}
  PROVE  BSameViews(st, Tail(st))
  <1>. DEFINE u == Tail(st)
  <1>. SUFFICES BSameViews(st, u)
    OBVIOUS
  <1>1. /\ st \in Seq(BFrames) /\ Len(st) \in 1 .. 6 /\ Up(st, Len(st)) = st[1]
        /\ st[1] \in BFrames
        /\ st[1].proc \in {"bwrite", "first"} => Len(st) = 1
        /\ st[1].proc \in {"block", "btake"} => Len(st) = 2
        /\ st[1].proc \in {"page", "take"} => Len(st) \in {2, 5}
        /\ st[1].proc = "insert" => Len(st) \in {3, 6}
    BY BHeights
  <1>2. /\ Len(u) = Len(st) - 1
        /\ \A k \in 1 .. Len(st) - 1 : Up(u, k) = Up(st, k)
    BY <1>1, UpTail
  <1>3. BStackSound(u)
    BY BReturnSound
  <1>. HIDE DEF u
  <1>4. st[1].proc \in {"page", "take", "insert", "block", "btake", "first", "bwrite"}
    BY <1>1, BFrameKinds
  <1>5. CASE Len(st) <= 3
    <2>1. Len(st) = 3 => Up(st, 3).proc = "insert"
      BY <1>1, <1>4
    <2>2. Len(st) <= 2 \/ Len(st) = 3
      BY <1>1, <1>5, SixHeights
    <2>3. NoneIn(st)
      BY <2>1, <2>2, ViewsByHeight
    <2>4. Len(u) <= 2
      BY <1>1, <1>2, <1>5
    <2>. QED
      BY <1>3, <2>3, <2>4, ViewsByHeight, ViewsNone
  <1>6. CASE Len(st) > 3
    <2>1. Len(st) \in {5, 6}
      <3>1. Len(st) \notin {1, 2, 3}
        BY <1>6, SixHeights
      <3>. QED
        BY <1>1, <1>4, <3>1, Zenon
    <2>2. Len(u) >= 4 /\ Len(st) >= 4 /\ 4 \in 1 .. Len(st) - 1
      BY <1>2, <2>1
    <2>3. Up(u, 4) = Up(st, 4)
      BY <1>2, <2>2
    <2>. QED
      BY <1>3, <2>2, <2>3, ViewsUnder
  <1>. QED
    BY <1>1, <1>5, <1>6

\* ... a step from one point of such a function to another, ...
LEMMA BBecomeViews ==
  ASSUME NEW st, BStackSound(st), st # << >>, NEW f \in BFrames, SameStep(f, st[1]),
         st[1].proc \notin {"erase", "cleanup", "copy"}
  PROVE  BSameViews(st, Becoming(f, st))
  <1>. DEFINE u == Becoming(f, st)
  <1>. SUFFICES BSameViews(st, u)
    OBVIOUS
  <1>1. /\ st \in Seq(BFrames) /\ Len(st) \in 1 .. 6 /\ Up(st, Len(st)) = st[1]
        /\ st[1] \in BFrames
        /\ st[1].proc \in {"bwrite", "first"} => Len(st) = 1
        /\ st[1].proc \in {"block", "btake"} => Len(st) = 2
        /\ st[1].proc \in {"page", "take"} => Len(st) \in {2, 5}
        /\ st[1].proc = "insert" => Len(st) \in {3, 6}
    BY BHeights
  <1>2. /\ Len(u) = Len(st) /\ Up(u, Len(st)) = f
        /\ \A k \in 1 .. Len(st) - 1 : Up(u, k) = Up(st, k)
    BY <1>1, UpBecome
  <1>3. BStackSound(u)
    BY BBecomeSound
  <1>. HIDE DEF u
  <1>4. st[1].proc \in {"page", "take", "insert", "block", "btake", "first", "bwrite"}
    BY <1>1, BFrameKinds
  <1>5. CASE Len(st) <= 3
    <2>1. Len(st) = 3 => Up(st, 3).proc = "insert" /\ Up(u, 3).proc = "insert"
      BY <1>1, <1>2, <1>4 DEF SameStep
    <2>2. Len(st) <= 2 \/ Len(st) = 3
      BY <1>1, <1>5, SixHeights
    <2>3. NoneIn(st)
      BY <2>1, <2>2, ViewsByHeight
    <2>4. NoneIn(u)
      BY <1>2, <1>3, <2>1, <2>2, ViewsByHeight
    <2>. QED
      BY <2>3, <2>4, ViewsNone
  <1>6. CASE Len(st) > 3
    <2>1. Len(st) \in {5, 6}
      <3>1. Len(st) \notin {1, 2, 3}
        BY <1>6, SixHeights
      <3>. QED
        BY <1>1, <1>4, <3>1, Zenon
    <2>2. Len(u) >= 4 /\ Len(st) >= 4 /\ 4 \in 1 .. Len(st) - 1
      BY <1>2, <2>1
    <2>3. Up(u, 4) = Up(st, 4)
      BY <1>2, <2>2
    <2>. QED
      BY <1>3, <2>2, <2>3, ViewsUnder
  <1>. QED
    BY <1>1, <1>5, <1>6

\* ... and the call of insert_events.
LEMMA BPushViews ==
  ASSUME NEW st, BStackSound(st), st # << >>, st[1].proc \in {"page", "take", "btake"},
         NEW f \in BFrames, f.proc = "insert"
  PROVE  BSameViews(st, Pushed(f, st))
  <1>. DEFINE u == Pushed(f, st)
  <1>. SUFFICES BSameViews(st, u)
    OBVIOUS
  <1>1. st \in Seq(BFrames) /\ Len(st) \in {2, 5}
    BY BHeights
  <1>2. /\ u \in Seq(BFrames) /\ Len(u) = Len(st) + 1
        /\ Up(u, Len(st) + 1) = f
        /\ \A k \in 1 .. Len(st) : Up(u, k) = Up(st, k)
    BY <1>1, UpPush
  <1>3. BStackSound(u)
    BY BPushSound
  <1>. HIDE DEF u
  <1>4. CASE Len(st) = 2
    <2>1. Len(u) = 3 /\ Up(u, 3).proc = "insert"
      BY <1>2, <1>4
    <2>2. NoneIn(u)
      BY <1>3, <2>1, ViewsByHeight
    <2>3. Len(st) <= 2
      BY <1>4
    <2>4. NoneIn(st)
      BY <2>3, ViewsByHeight
    <2>. QED
      BY <2>2, <2>4, ViewsNone
  <1>5. CASE Len(st) = 5
    <2>1. Len(u) >= 4 /\ Len(st) >= 4 /\ Up(u, 4) = Up(st, 4)
      BY <1>2, <1>5
    <2>. QED
      BY <1>3, <2>1, ViewsUnder
  <1>. QED
    BY <1>1, <1>4, <1>5, Zenon

---------------------------------------------------------------------------
(* What a step of BDFTL does to the array.                                 *)

LEMMA UsedFinite ==
  ASSUME NEW f, NEW b
  PROVE  IsFiniteSet(UsedPages(f, b)) /\ Cardinality(UsedPages(f, b)) \in Nat
         /\ Cardinality(UsedPages(f, b)) <= BLOCK_SIZE
         /\ (Cardinality(UsedPages(f, b)) = BLOCK_SIZE => UsedPages(f, b) = Offsets)
  <1>1. UsedPages(f, b) \in SUBSET Offsets
    BY DEF UsedPages
  <1>. QED
    BY <1>1, OffsetsFinite, FS_Subset, FS_CardinalityType

\* A wholly programmed block has no EMPTY page, ...
LEMMA FullBlock ==
  ASSUME NEW f \in FlashType, CountInv(f), NEW b \in Blocks, f.pages_valid[b] = BLOCK_SIZE
  PROVE  \A o \in Offsets : f.page[<<b, o>>] # "EMPTY"
  <1>1. f.pages_valid[b] <= Cardinality(UsedPages(f, b))
    BY DEF CountInv
  <1>2. /\ Cardinality(UsedPages(f, b)) \in Nat
        /\ Cardinality(UsedPages(f, b)) <= BLOCK_SIZE
        /\ Cardinality(UsedPages(f, b)) = BLOCK_SIZE => UsedPages(f, b) = Offsets
    BY UsedFinite
  <1>3. Cardinality(UsedPages(f, b)) = BLOCK_SIZE
    BY <1>1, <1>2, GeometryAssumption
  <1>4. UsedPages(f, b) = Offsets
    BY <1>2, <1>3
  <1>. QED
    BY <1>4 DEF UsedPages

\* ... and one with fewer INVALID pages than it has pages has another page.
LEMMA SomePageLeft ==
  ASSUME NEW f, FlashSound(f), NEW b \in Blocks, f.pages_invalid[b] < BLOCK_SIZE
  PROVE  \E o \in Offsets : f.page[<<b, o>>] # "INVALID"
  <1>. SUFFICES ASSUME \A o \in Offsets : f.page[<<b, o>>] = "INVALID" PROVE FALSE
    OBVIOUS
  <1>1. InvalidPages(f, b) = Offsets
    BY DEF InvalidPages
  <1>2. f.pages_invalid[b] = BLOCK_SIZE
    BY <1>1, OffsetsFinite DEF FlashSound
  <1>. QED
    BY <1>2, GeometryAssumption

\* More pages are used, and the counter of one block went up with them.
LEMMA MoreUsed ==
  ASSUME NEW f, NEW g, NEW b \in Blocks,
         \A o \in Offsets : f.page[<<b, o>>] # "EMPTY" => g.page[<<b, o>>] # "EMPTY"
  PROVE  /\ Cardinality(UsedPages(f, b)) <= Cardinality(UsedPages(g, b))
         /\ \A o \in Offsets : f.page[<<b, o>>] = "EMPTY" /\ g.page[<<b, o>>] # "EMPTY" =>
              Cardinality(UsedPages(f, b)) + 1 <= Cardinality(UsedPages(g, b))
  <1>1. UsedPages(f, b) \subseteq UsedPages(g, b)
    BY DEF UsedPages
  <1>2. /\ IsFiniteSet(UsedPages(f, b)) /\ Cardinality(UsedPages(f, b)) \in Nat
        /\ IsFiniteSet(UsedPages(g, b)) /\ Cardinality(UsedPages(g, b)) \in Nat
    BY UsedFinite
  <1>3. Cardinality(UsedPages(f, b)) <= Cardinality(UsedPages(g, b))
    BY <1>1, <1>2, FS_Subset
  <1>4. \A o \in Offsets : f.page[<<b, o>>] = "EMPTY" /\ g.page[<<b, o>>] # "EMPTY" =>
              Cardinality(UsedPages(f, b)) + 1 <= Cardinality(UsedPages(g, b))
    <2>. SUFFICES ASSUME NEW o \in Offsets, f.page[<<b, o>>] = "EMPTY", g.page[<<b, o>>] # "EMPTY"
                  PROVE  Cardinality(UsedPages(f, b)) + 1 <= Cardinality(UsedPages(g, b))
      OBVIOUS
    <2>1. o \in UsedPages(g, b) /\ o \notin UsedPages(f, b)
      BY DEF UsedPages
    <2>2. UsedPages(f, b) # UsedPages(g, b)
      BY <2>1
    <2>3. Cardinality(UsedPages(f, b)) # Cardinality(UsedPages(g, b))
      BY <1>1, <1>2, <2>2, FS_Subset
    <2>. QED
      BY <1>2, <1>3, <2>3
  <1>. QED
    BY <1>3, <1>4


\* A page is programmed, and the page it replaces goes.
LEMMA BProgrammed ==
  ASSUME NEW f, FlashSound(f), CountInv(f), NEW p \in Ppns, f.page[p] = "EMPTY",
         NEW d \in Payloads, NEW q \in Ppns \cup {NoPpn}, q # NoPpn => f.page[q] = "VALID",
         NEW g, g = Replace(Program(f, p, d), q)
  PROVE  FlashSound(g) /\ CountInv(g) /\ Placed(f, g, p, d, q) /\ p # q
  <1>1. f \in FlashType /\ d \in Contents /\ p # NoPpn
    BY NoPpnNotPage DEF FlashSound, Contents
  <1>2. p # q
    BY <1>1
  <1>3. FlashSound(g)
    BY <1>2, ProgramReplaceEffect
  <1>4. Placed(f, g, p, d, q)
    BY <1>1, PlacedEffect
  <1>5. ASSUME NEW b \in Blocks PROVE g.pages_valid[b] <= Cardinality(UsedPages(g, b))
    <2>1. \A o \in Offsets : <<b, o>> \in Ppns
      BY DEF Ppns
    <2>2. \A o \in Offsets : g.page[<<b, o>>] = IF <<b, o>> = q THEN "INVALID"
                                                ELSE IF <<b, o>> = p THEN "VALID" ELSE f.page[<<b, o>>]
      BY <1>4, <2>1 DEF Placed
    <2>3. \A o \in Offsets : f.page[<<b, o>>] # "EMPTY" => g.page[<<b, o>>] # "EMPTY"
      BY <2>2
    <2>4. /\ Cardinality(UsedPages(f, b)) <= Cardinality(UsedPages(g, b))
          /\ \A o \in Offsets : f.page[<<b, o>>] = "EMPTY" /\ g.page[<<b, o>>] # "EMPTY" =>
               Cardinality(UsedPages(f, b)) + 1 <= Cardinality(UsedPages(g, b))
      BY <2>3, MoreUsed
    <2>5. /\ Cardinality(UsedPages(f, b)) \in Nat /\ Cardinality(UsedPages(g, b)) \in Nat
          /\ f.pages_valid[b] \in Nat /\ f.pages_valid[b] <= Cardinality(UsedPages(f, b))
      BY <1>1, UsedFinite DEF CountInv, FlashType
    <2>6. CASE b = p[1]
      <3>1. p[2] \in Offsets /\ p = <<b, p[2]>>
        BY <2>6 DEF Ppns
      <3>2. g.page[<<b, p[2]>>] = "VALID" /\ f.page[<<b, p[2]>>] = "EMPTY"
        BY <1>2, <2>2, <3>1
      <3>3. Cardinality(UsedPages(f, b)) + 1 <= Cardinality(UsedPages(g, b))
        BY <2>4, <3>1, <3>2
      <3>4. g.pages_valid[b] = f.pages_valid[b] + 1
        BY <1>4, <2>6 DEF Placed
      <3>. QED
        BY <2>5, <3>3, <3>4
    <2>7. CASE b # p[1]
      <3>1. g.pages_valid[b] = f.pages_valid[b]
        BY <1>4, <2>7 DEF Placed
      <3>. QED
        BY <2>4, <2>5, <3>1
    <2>. QED
      BY <2>6, <2>7
  <1>. QED
    BY <1>2, <1>3, <1>4, <1>5 DEF CountInv

\* A page is invalidated.
LEMMA BInvalidated ==
  ASSUME NEW f, FlashSound(f), CountInv(f), NEW p \in Ppns, NEW g, g = Invalidate(f, p)
  PROVE  /\ FlashSound(g) /\ CountInv(g) /\ PageGone(f, g, p) /\ g.data = f.data
         /\ g.erases_remaining = f.erases_remaining
  <1>1. /\ FlashSound(g) /\ g.pages_valid = f.pages_valid
        /\ g.erases_remaining = f.erases_remaining
        /\ \A q \in Ppns : g.page[q] = IF q = p THEN "INVALID" ELSE f.page[q]
    BY InvalidateEffect
  <1>2. g = Replace(f, p) /\ f \in FlashType
    BY NoPpnNotPage DEF Replace, FlashSound
  <1>3. g.data = f.data
    <2>1. f \in FlashType /\ p \in Ppns \cup {NoPpn}
      BY <1>2
    <2>2. Replace(f, p).data = f.data
      BY <2>1, ReplaceEffect
    <2>. QED
      BY <1>2, <2>2
  <1>4. ASSUME NEW b \in Blocks PROVE g.pages_valid[b] <= Cardinality(UsedPages(g, b))
    <2>1. \A o \in Offsets : <<b, o>> \in Ppns
      BY DEF Ppns
    <2>2. \A o \in Offsets : f.page[<<b, o>>] # "EMPTY" => g.page[<<b, o>>] # "EMPTY"
      BY <1>1, <2>1
    <2>3. Cardinality(UsedPages(f, b)) <= Cardinality(UsedPages(g, b))
      BY <2>2, MoreUsed
    <2>4. /\ Cardinality(UsedPages(f, b)) \in Nat /\ Cardinality(UsedPages(g, b)) \in Nat
          /\ f.pages_valid[b] \in Nat /\ f.pages_valid[b] <= Cardinality(UsedPages(f, b))
      BY <1>2, UsedFinite DEF CountInv, FlashType
    <2>. QED
      BY <1>1, <2>3, <2>4
  <1>. QED
    BY <1>1, <1>3, <1>4 DEF CountInv, PageGone

\* A block is erased.
BlockGone(f, g, b) ==
  /\ \A x \in Ppns : g.page[x] = IF x[1] = b THEN "EMPTY" ELSE f.page[x]
  /\ g.data = f.data

LEMMA BErased ==
  ASSUME NEW f, FlashSound(f), CountInv(f), NEW b \in Blocks, CanErase(f, b),
         NEW g, g = Erase(f, {b})
  PROVE  FlashSound(g) /\ CountInv(g) /\ BlockGone(f, g, b) /\ AllEmpty(g, b)
  <1>1. f \in FlashType /\ \A x \in {b} : CanErase(f, x)
    BY DEF FlashSound
  <1>2. /\ g.data = f.data
        /\ \A p \in Ppns : g.page[p] = IF p[1] \in {b} THEN "EMPTY" ELSE f.page[p]
        /\ \A c \in Blocks : g.pages_valid[c] = IF c \in {b} THEN 0 ELSE f.pages_valid[c]
    BY <1>1, EraseEffect
  <1>3. FlashSound(g)
    BY EraseSound
  <1>4. BlockGone(f, g, b)
    BY <1>2 DEF BlockGone
  <1>5. AllEmpty(g, b)
    <2>1. \A o \in Offsets : <<b, o>> \in Ppns /\ <<b, o>>[1] = b
      BY DEF Ppns
    <2>. QED
      BY <1>4, <2>1 DEF AllEmpty, BlockGone
  <1>6. ASSUME NEW c \in Blocks PROVE g.pages_valid[c] <= Cardinality(UsedPages(g, c))
    <2>1. CASE c = b
      BY <1>2, <2>1, UsedFinite
    <2>2. CASE c # b
      <3>1. \A o \in Offsets : <<c, o>> \in Ppns /\ <<c, o>>[1] = c
        BY DEF Ppns
      <3>2. \A o \in Offsets : g.page[<<c, o>>] = f.page[<<c, o>>]
        BY <1>4, <2>2, <3>1 DEF BlockGone
      <3>3. UsedPages(g, c) = UsedPages(f, c)
        BY <3>2 DEF UsedPages
      <3>4. g.pages_valid[c] = f.pages_valid[c]
        BY <1>2, <2>2
      <3>. QED
        BY <3>3, <3>4 DEF CountInv
    <2>. QED
      BY <2>1, <2>2
  <1>. QED
    BY <1>3, <1>4, <1>5, <1>6 DEF CountInv

\* No page outside block b is used up, and none of the blocks w is lost.
StaysEmpty(f, g, b) == \A x \in Ppns : x[1] # b /\ f.page[x] = "EMPTY" => g.page[x] = "EMPTY"
NotGone(f, g, w) == \A x \in Ppns : x[1] \in w /\ g.page[x] = "INVALID" => f.page[x] = "INVALID"

LEMMA PlacedKeeps ==
  ASSUME NEW f, NEW g, NEW p \in Ppns, NEW d, NEW q \in Ppns \cup {NoPpn}, Placed(f, g, p, d, q),
         q # NoPpn => f.page[q] = "VALID", NEW w, q # NoPpn => q[1] \notin w
  PROVE  StaysEmpty(f, g, p[1]) /\ NotGone(f, g, w)
  <1>1. \A x \in Ppns : g.page[x] = IF x = q THEN "INVALID" ELSE IF x = p THEN "VALID" ELSE f.page[x]
    BY DEF Placed
  <1>2. \A x \in Ppns : x = q => f.page[x] = "VALID" /\ x[1] \notin w
    BY NoPpnNotPage
  <1>3. StaysEmpty(f, g, p[1])
    BY <1>1, <1>2 DEF StaysEmpty
  <1>4. NotGone(f, g, w)
    BY <1>1, <1>2 DEF NotGone
  <1>. QED
    BY <1>3, <1>4

LEMMA GoneKeeps ==
  ASSUME NEW f, NEW g, NEW p \in Ppns, PageGone(f, g, p), f.page[p] # "EMPTY",
         NEW w, p[1] \notin w
  PROVE  StaysEmpty(f, g, NoBlock) /\ NotGone(f, g, w)
  BY DEF PageGone, StaysEmpty, NotGone

LEMMA ErasedKeeps ==
  ASSUME NEW f, NEW g, NEW b, BlockGone(f, g, b), NEW w
  PROVE  StaysEmpty(f, g, NoBlock) /\ NotGone(f, g, w)
  BY DEF BlockGone, StaysEmpty, NotGone

LEMMA EmptyKept ==
  ASSUME NEW f, NEW g, NEW b, StaysEmpty(f, g, b), NEW c \in Blocks, c # b, AllEmpty(f, c)
  PROVE  AllEmpty(g, c)
  <1>1. \A o \in Offsets : <<c, o>> \in Ppns /\ <<c, o>>[1] = c
    BY DEF Ppns
  <1>. QED
    BY <1>1 DEF AllEmpty, StaysEmpty

\* What can be handed out stays so, ...
LEMMA BListKept ==
  ASSUME NEW f, NEW g, NEW m \in BlockManagerType, BListInv(f, m), NEW b \in Blocks \cup {NoBlock},
         StaysEmpty(f, g, b), b # NoBlock => b < m.fresh /\ b \notin Members(m.free_list)
  PROVE  BListInv(g, m)
  <1>1. Members(m.free_list) \subseteq Blocks
    BY ListMembers DEF BlockManagerType
  <1>2. \A c \in Members(m.free_list) : c \in Blocks /\ c # b
    BY <1>1 DEF Blocks, NoBlock
  <1>3. \A c \in Members(m.free_list) : c < m.fresh /\ AllEmpty(g, c)
    BY <1>2, EmptyKept DEF BListInv
  <1>4. \A c \in Blocks : c >= m.fresh => c # b
    BY DEF Blocks, NoBlock, BlockManagerType
  <1>5. \A c \in Blocks : c >= m.fresh => AllEmpty(g, c)
    BY <1>4, EmptyKept DEF BListInv
  <1>. QED
    BY <1>3, <1>5 DEF BListInv

\* ... an erased block joins it, ...
Joined(m, n, v) == n.fresh = m.fresh /\ n.free_list = Append(m.free_list, v)
LEMMA BListJoined ==
  ASSUME NEW f, NEW m \in BlockManagerType, BListInv(f, m), NEW v \in Blocks,
         v < m.fresh, v \notin Members(m.free_list), AllEmpty(f, v), NEW n, Joined(m, n, v)
  PROVE  /\ BListInv(f, n)
         /\ \A x : x \in Members(n.free_list) <=> x \in Members(m.free_list) \/ x = v
  <1>1. m.free_list \in Seq(Blocks) /\ n.fresh = m.fresh /\ n.free_list = Append(m.free_list, v)
    BY DEF BlockManagerType, Joined
  <1>2. /\ Members(n.free_list) = Members(m.free_list) \cup {v}
        /\ NoRepeat(n.free_list)
    BY <1>1, AppendedList DEF BListInv
  <1>. QED
    BY <1>1, <1>2 DEF BListInv

\* ... and a fresh block ...
LEMMA BListFresh ==
  ASSUME NEW f, NEW m \in BlockManagerType, BListInv(f, m), FreshBlockLeft(m),
         NEW n, n = GetFreeBlock(m, "DATA")
  PROVE  /\ n \in BlockManagerType /\ BListInv(f, n)
         /\ m.fresh \in Blocks /\ n.fresh = m.fresh + 1 /\ n.free_list = m.free_list
         /\ m.fresh \notin Members(n.free_list) /\ AllEmpty(f, m.fresh)
  <1>1. m.fresh \in Blocks /\ m.fresh \in Nat
    BY GeometryAssumption DEF FreshBlockLeft, Blocks, BlockManagerType
  <1>2. GetPageBlock(m) \in BlockManagerType
    BY PageBlockType DEF OutOfBlocks
  <1>3. /\ n \in BlockManagerType /\ n.fresh = GetPageBlock(m).fresh
        /\ n.free_list = GetPageBlock(m).free_list
    BY <1>2, CountActiveEffect DEF GetFreeBlock, BlockTypes
  <1>4. n.fresh = m.fresh + 1 /\ n.free_list = m.free_list
    BY <1>3 DEF GetPageBlock, BlockManagerType
  <1>5. \A c \in Members(m.free_list) : c < m.fresh /\ c \in Int
    BY ListMembers DEF BListInv, BlockManagerType, Blocks
  <1>6. m.fresh \notin Members(n.free_list)
    BY <1>1, <1>4, <1>5
  <1>7. AllEmpty(f, m.fresh)
    BY <1>1 DEF BListInv
  <1>8. \A c \in Members(n.free_list) : c < n.fresh /\ AllEmpty(f, c)
    BY <1>1, <1>4, <1>5 DEF BListInv
  <1>9. \A c \in Blocks : c >= n.fresh => AllEmpty(f, c)
    <2>1. \A c \in Blocks : c >= m.fresh + 1 => c >= m.fresh
      BY <1>1 DEF Blocks
    <2>. QED
      BY <1>4, <2>1 DEF BListInv
  <1>10. BListInv(f, n)
    BY <1>4, <1>8, <1>9 DEF BListInv
  <1>. QED
    BY <1>1, <1>3, <1>4, <1>6, <1>7, <1>10

\* ... or the first free one leaves it.
LEMMA BListTaken ==
  ASSUME NEW f, NEW m \in BlockManagerType, BListInv(f, m), NonEmpty(m.free_list),
         NEW n, n = Beheaded(m), NEW b, b = Head(m.free_list)
  PROVE  /\ n \in BlockManagerType /\ BListInv(f, n)
         /\ b \in Blocks /\ n.fresh = m.fresh /\ b < m.fresh /\ b \in Members(m.free_list)
         /\ Members(n.free_list) \subseteq Members(m.free_list)
         /\ b \notin Members(n.free_list) /\ AllEmpty(f, b)
  <1>1. m.free_list \in Seq(Blocks) /\ m.free_list # << >>
    BY DEF BlockManagerType, NonEmpty
  <1>2. /\ b \in Members(m.free_list) /\ NoRepeat(Tail(m.free_list))
        /\ Members(Tail(m.free_list)) = Members(m.free_list) \ {b}
        /\ Tail(m.free_list) \in Seq(Blocks)
    BY <1>1, BeheadedList DEF BListInv
  <1>3. b \in Blocks
    BY <1>1, <1>2, ListMembers
  <1>4. /\ TakeFree(m) \in BlockManagerType /\ TakeFree(m).free_list = Tail(m.free_list)
        /\ TakeFree(m).fresh = m.fresh
    BY <1>2, <1>3 DEF TakeFree, BlockManagerType
  <1>5. n \in BlockManagerType /\ n.fresh = m.fresh /\ n.free_list = Tail(m.free_list)
    BY <1>4, CountActiveEffect DEF Beheaded, BlockTypes
  <1>6. BListInv(f, n)
    BY <1>2, <1>5 DEF BListInv
  <1>. QED
    BY <1>2, <1>3, <1>5, <1>6 DEF BListInv

\* The page handed out last, after a step elsewhere, ...
LEMMA BCurKept ==
  ASSUME NEW f, NEW g, NEW m \in BlockManagerType, NEW n \in BlockManagerType,
         NEW c \in Ppns \cup {NoPpn}, NEW h \in BOOLEAN, NEW w, NEW h2 \in BOOLEAN, NEW w2, NEW b,
         BCurInv(f, m, c, h, w), h2 => h, StaysEmpty(f, g, b), m.fresh <= n.fresh,
         h \/ CanFill(c) => c[1] \notin Members(n.free_list) /\ c[1] \notin w2 /\ c[1] # b
  PROVE  BCurInv(g, n, c, h2, w2)
  <1>1. c # NoPpn => c[1] < n.fresh
    BY DEF BCurInv, Ppns, Blocks, BlockManagerType
  <1>2. h2 => c # NoPpn /\ g.page[c] = "EMPTY"
    BY DEF BCurInv, StaysEmpty
  <1>3. h2 \/ CanFill(c) => h \/ CanFill(c)
    OBVIOUS
  <1>4. h2 \/ CanFill(c) => \A o \in Offsets : o > c[2] => g.page[<<c[1], o>>] = "EMPTY"
    <2>. SUFFICES ASSUME h2 \/ CanFill(c), NEW o \in Offsets, o > c[2]
                  PROVE  g.page[<<c[1], o>>] = "EMPTY"
      OBVIOUS
    <2>1. c \in Ppns /\ f.page[<<c[1], o>>] = "EMPTY"
      BY <1>3 DEF BCurInv, CanFill
    <2>2. <<c[1], o>> \in Ppns /\ <<c[1], o>>[1] = c[1]
      BY <2>1 DEF Ppns
    <2>. QED
      BY <1>3, <2>1, <2>2 DEF StaysEmpty
  <1>. QED
    BY <1>1, <1>2, <1>3, <1>4 DEF BCurInv

\* ... after it was written, ...
LEMMA BCurWritten ==
  ASSUME NEW f, NEW g, NEW m, NEW c \in Ppns, NEW d, NEW q \in Ppns \cup {NoPpn}, NEW w,
         BCurInv(f, m, c, TRUE, w), Placed(f, g, c, d, q), q # NoPpn => f.page[q] = "VALID"
  PROVE  BCurInv(g, m, c, FALSE, w)
  <1>1. c[1] \in Blocks /\ c[2] \in Offsets
    BY DEF Ppns
  <1>2. \A o \in Offsets : o > c[2] => g.page[<<c[1], o>>] = "EMPTY"
    <2>. SUFFICES ASSUME NEW o \in Offsets, o > c[2] PROVE g.page[<<c[1], o>>] = "EMPTY"
      OBVIOUS
    <2>1. <<c[1], o>> \in Ppns /\ <<c[1], o>> # c
      BY <1>1 DEF Ppns, Offsets
    <2>2. f.page[<<c[1], o>>] = "EMPTY"
      BY DEF BCurInv
    <2>3. <<c[1], o>> # q
      BY <2>1, <2>2, NoPpnNotPage
    <2>. QED
      BY <2>1, <2>2, <2>3 DEF Placed
  <1>. QED
    BY <1>2 DEF BCurInv

\* ... the next one of its block, ...
LEMMA BCurNext ==
  ASSUME NEW f, NEW m, NEW c \in Ppns \cup {NoPpn}, NEW h, NEW w, BCurInv(f, m, c, h, w), CanFill(c),
         NEW p, p = <<c[1], c[2] + 1>>
  PROVE  p \in Ppns /\ BCurInv(f, m, p, TRUE, w)
  <1>1. c \in Ppns /\ c[1] \in Blocks /\ c[2] \in Offsets /\ c[2] # BLOCK_SIZE - 1 /\ c # NoPpn
    BY DEF CanFill, Ppns
  <1>2. c[2] + 1 \in Offsets /\ c[2] + 1 > c[2]
    BY <1>1, GeometryAssumption DEF Offsets
  <1>3. p \in Ppns /\ p[1] = c[1] /\ p[2] = c[2] + 1 /\ p # NoPpn
    BY <1>1, <1>2, NoPpnNotPage DEF Ppns
  <1>4. f.page[p] = "EMPTY" /\ \A o \in Offsets : o > c[2] => f.page[<<c[1], o>>] = "EMPTY"
    BY <1>2 DEF BCurInv
  <1>5. \A o \in Offsets : o > c[2] + 1 => o > c[2]
    BY <1>1 DEF Offsets
  <1>. QED
    BY <1>1, <1>3, <1>4, <1>5 DEF BCurInv

\* ... and the first one of another block.
LEMMA BCurFirst ==
  ASSUME NEW f, NEW m, NEW b \in Blocks, AllEmpty(f, b), b < m.fresh,
         b \notin Members(m.free_list), NEW w, b \notin w, NEW h, NEW p, p = FirstOf(b)
  PROVE  p \in Ppns /\ BCurInv(f, m, p, h, w)
  <1>1. p \in Ppns /\ p = <<b, 0>> /\ p[1] = b /\ p[2] = 0 /\ 0 \in Offsets
    BY FirstPage, GeometryAssumption DEF FirstOf, Offsets
  <1>2. p # NoPpn /\ f.page[p] = "EMPTY"
    BY <1>1, NoPpnNotPage DEF AllEmpty
  <1>. QED
    BY <1>1, <1>2 DEF BCurInv, AllEmpty

---------------------------------------------------------------------------
(* The block map.                                                          *)

LEMMA LbnOff ==
  ASSUME NEW l \in Lpns
  PROVE  /\ Lbn(l) \in Lbns /\ Off(l) \in Offsets /\ l = BLOCK_SIZE * Lbn(l) + Off(l)
  <1>1. l \in Nat /\ NumLpns \in Nat /\ l < NumLpns /\ BLOCK_SIZE \in Nat \ {0}
    BY DftlAssumption, GeometryAssumption DEF Lpns
  <1>2. /\ Lbn(l) \in Nat /\ Off(l) \in 0 .. BLOCK_SIZE - 1 /\ l = BLOCK_SIZE * Lbn(l) + Off(l)
    BY <1>1, DivMod DEF Lbn, Off
  <1>3. /\ NumLpns \div BLOCK_SIZE \in Nat
        /\ NumLpns = BLOCK_SIZE * (NumLpns \div BLOCK_SIZE) + (NumLpns % BLOCK_SIZE)
    BY <1>1, DivMod
  <1>4. NumLpns = BLOCK_SIZE * (NumLpns \div BLOCK_SIZE)
    BY <1>1, <1>3, WholeLogicalBlocks
  <1>5. l < BLOCK_SIZE * (NumLpns \div BLOCK_SIZE)
    BY <1>1, <1>4, Zenon
  <1>6. Lbn(l) < NumLpns \div BLOCK_SIZE
    BY <1>1, <1>3, <1>5, DivBound DEF Lbn
  <1>7. Lbn(l) \in Lbns
    BY <1>2, <1>3, <1>6 DEF Lbns
  <1>. QED
    BY <1>2, <1>7 DEF Offsets

LEMMA LbnOffOf ==
  ASSUME NEW j \in Lbns, NEW o \in Offsets
  PROVE  j * BLOCK_SIZE + o \in Lpns /\ Lbn(j * BLOCK_SIZE + o) = j /\ Off(j * BLOCK_SIZE + o) = o
  <1>1. NumLpns \in Nat /\ BLOCK_SIZE \in Nat \ {0}
    BY DftlAssumption, GeometryAssumption
  <1>2. /\ NumLpns \div BLOCK_SIZE \in Nat
        /\ NumLpns = BLOCK_SIZE * (NumLpns \div BLOCK_SIZE) + (NumLpns % BLOCK_SIZE)
    BY <1>1, DivMod
  <1>. DEFINE K == NumLpns \div BLOCK_SIZE
              x == j * BLOCK_SIZE + o
  <1>3. K \in Nat /\ NumLpns = BLOCK_SIZE * K
    BY <1>1, <1>2, WholeLogicalBlocks
  <1>4. j \in 0 .. K - 1 /\ o \in 0 .. BLOCK_SIZE - 1
    BY DEF Lbns, Offsets
  <1>. HIDE DEF K
  <1>5. x \in Nat
    BY <1>1, <1>3, <1>4
  <1>6. x < NumLpns
    <2>1. j + 1 <= K
      BY <1>3, <1>4
    <2>2. BLOCK_SIZE * (j + 1) <= BLOCK_SIZE * K
      BY <1>1, <1>3, <1>4, <2>1
    <2>3. x < BLOCK_SIZE * (j + 1)
      BY <1>1, <1>3, <1>4
    <2>. QED
      BY <1>1, <1>3, <1>4, <1>5, <2>2, <2>3
  <1>. HIDE DEF x
  <1>7. /\ x \div BLOCK_SIZE \in Nat /\ x % BLOCK_SIZE \in 0 .. BLOCK_SIZE - 1
        /\ x = BLOCK_SIZE * (x \div BLOCK_SIZE) + (x % BLOCK_SIZE)
    BY <1>1, <1>5, DivMod
  <1>8. \A i, k \in Nat : i < k => BLOCK_SIZE * i + BLOCK_SIZE <= BLOCK_SIZE * k
    <2>. SUFFICES ASSUME NEW i \in Nat, NEW k \in Nat, i < k
                  PROVE  BLOCK_SIZE * i + BLOCK_SIZE <= BLOCK_SIZE * k
      OBVIOUS
    <2>1. i + 1 <= k
      OBVIOUS
    <2>2. BLOCK_SIZE * (i + 1) <= BLOCK_SIZE * k
      BY <1>1, <2>1
    <2>. QED
      BY <1>1, <2>2
  <1>9. x \div BLOCK_SIZE = j
    <2>. DEFINE a == x \div BLOCK_SIZE
                r == x % BLOCK_SIZE
    <2>1. /\ a \in Nat /\ j \in Nat /\ r \in Nat /\ o \in Nat
          /\ r < BLOCK_SIZE /\ o < BLOCK_SIZE
      BY <1>1, <1>3, <1>4, <1>7
    <2>2. BLOCK_SIZE * a + r = BLOCK_SIZE * j + o
      <3>1. j * BLOCK_SIZE = BLOCK_SIZE * j
        BY <1>1, <2>1
      <3>. QED
        BY <1>7, <3>1 DEF x
    <2>. HIDE DEF a, r
    <2>3. BLOCK_SIZE * a \in Nat /\ BLOCK_SIZE * j \in Nat
      BY <1>1, <2>1
    <2>4. /\ a < j => BLOCK_SIZE * a + BLOCK_SIZE <= BLOCK_SIZE * j
          /\ j < a => BLOCK_SIZE * j + BLOCK_SIZE <= BLOCK_SIZE * a
      BY <1>8, <2>1
    <2>5. \A y, z, n, s, t \in Nat : y + s = z + t /\ s < n /\ t < n => ~(y + n <= z) /\ ~(z + n <= y)
      OBVIOUS
    <2>6. ~(a < j) /\ ~(j < a)
      BY <1>1, <2>1, <2>2, <2>3, <2>4, <2>5, Zenon
    <2>7. a = j
      BY <2>1, <2>6
    <2>. QED
      BY <2>7 DEF a
  <1>10. x % BLOCK_SIZE = o
    BY <1>1, <1>3, <1>4, <1>7, <1>9 DEF x
  <1>11. x \in Lpns
    BY <1>1, <1>5, <1>6 DEF Lpns
  <1>. QED
    BY <1>9, <1>10, <1>11 DEF x, Lbn, Off

\* The changes of the block map.
Given(k, j, b) == [k EXCEPT ![j].pbn = b]
OnePageOn(k, j) == [k EXCEPT ![j].nextPage = @ + 1]
Converted(k, j) == [k EXCEPT ![j].optimal = FALSE]
Forgotten(k, j) == [k EXCEPT ![j] = UnmappedBlock]

\* No logical block gets another block, or one back.
Fewer(k, k2) ==
  \A j \in Lbns : k2[j].optimal /\ k2[j].pbn # NoBlock => k[j].optimal /\ k[j].pbn = k2[j].pbn

LEMMA GivenMap ==
  ASSUME NEW k \in BMapType, NEW j \in Lbns, NEW b \in Blocks, NEW k2, k2 = Given(k, j, b)
  PROVE  /\ k2 \in BMapType
         /\ \A i \in Lbns : i # j => k2[i] = k[i]
         /\ k2[j].pbn = b /\ k2[j].optimal = k[j].optimal /\ k2[j].nextPage = k[j].nextPage
  BY DEF Given, BMapType

LEMMA OnePageOnMap ==
  ASSUME NEW k \in BMapType, NEW j \in Lbns, k[j].nextPage < BLOCK_SIZE, NEW k2, k2 = OnePageOn(k, j)
  PROVE  /\ k2 \in BMapType /\ Fewer(k, k2)
         /\ \A i \in Lbns : k2[i].pbn = k[i].pbn /\ k2[i].optimal = k[i].optimal
  <1>1. k[j].nextPage + 1 \in 0 .. BLOCK_SIZE
    BY GeometryAssumption DEF BMapType
  <1>2. /\ k2 \in BMapType /\ \A i \in Lbns : i # j => k2[i] = k[i]
        /\ k2[j].pbn = k[j].pbn /\ k2[j].optimal = k[j].optimal
    BY <1>1 DEF OnePageOn, BMapType
  <1>3. \A i \in Lbns : k2[i].pbn = k[i].pbn /\ k2[i].optimal = k[i].optimal
    BY <1>2
  <1>. QED
    BY <1>2, <1>3 DEF Fewer

LEMMA ConvertedMap ==
  ASSUME NEW k \in BMapType, NEW j \in Lbns, NEW k2, k2 = Converted(k, j)
  PROVE  /\ k2 \in BMapType /\ Fewer(k, k2)
         /\ \A i \in Lbns : i # j => k2[i] = k[i]
         /\ ~k2[j].optimal
  <1>1. /\ k2 \in BMapType /\ \A i \in Lbns : i # j => k2[i] = k[i]
        /\ ~k2[j].optimal
    BY DEF Converted, BMapType
  <1>. QED
    BY <1>1 DEF Fewer

LEMMA ForgottenMap ==
  ASSUME NEW k \in BMapType, NEW j \in Lbns, NEW k2, k2 = Forgotten(k, j)
  PROVE  /\ k2 \in BMapType /\ Fewer(k, k2)
         /\ \A i \in Lbns : i # j => k2[i] = k[i]
         /\ k2[j].optimal /\ k2[j].pbn = NoBlock /\ k2[j].nextPage = 0
  <1>1. UnmappedBlock \in [pbn : Blocks \cup {NoBlock}, nextPage : 0 .. BLOCK_SIZE, optimal : BOOLEAN]
    BY GeometryAssumption DEF UnmappedBlock
  <1>2. /\ k2 \in BMapType /\ \A i \in Lbns : i # j => k2[i] = k[i]
        /\ k2[j].optimal /\ k2[j].pbn = NoBlock /\ k2[j].nextPage = 0
    BY <1>1 DEF Forgotten, BMapType, UnmappedBlock
  <1>. QED
    BY <1>2 DEF Fewer

LEMMA MapBlocksOf ==
  ASSUME NEW k \in BMapType
  PROVE  /\ MapBlocks(k) \subseteq Blocks
         /\ \A b : b \in MapBlocks(k) <=> \E j \in Lbns : k[j].optimal /\ k[j].pbn = b /\ b # NoBlock
  BY DEF MapBlocks, BMapType

LEMMA BMapKept ==
  ASSUME NEW f, NEW g, NEW m \in BlockManagerType, NEW n \in BlockManagerType,
         NEW k \in BMapType, NEW k2 \in BMapType, BMapInv(f, m, k), Fewer(k, k2), m.fresh <= n.fresh,
         \A b \in MapBlocks(k2) : b \notin Members(n.free_list), NotGone(f, g, MapBlocks(k2))
  PROVE  BMapInv(g, n, k2) /\ MapBlocks(k2) \subseteq MapBlocks(k)
  <1>1. MapBlocks(k2) \subseteq MapBlocks(k)
    BY MapBlocksOf DEF Fewer
  <1>2. \A b \in MapBlocks(k2) : b \in Blocks
    BY MapBlocksOf
  <1>3. ASSUME NEW b \in MapBlocks(k2)
        PROVE  /\ b < n.fresh /\ b \notin Members(n.free_list)
               /\ \E o \in Offsets : g.page[<<b, o>>] # "INVALID"
    <2>1. b \in MapBlocks(k) /\ b \in Blocks
      BY <1>1, <1>2
    <2>2. b < n.fresh
      BY <2>1 DEF BMapInv, Blocks, BlockManagerType
    <2>3. PICK o \in Offsets : f.page[<<b, o>>] # "INVALID"
      BY <2>1 DEF BMapInv
    <2>4. <<b, o>> \in Ppns /\ <<b, o>>[1] = b
      BY <2>1 DEF Ppns
    <2>5. g.page[<<b, o>>] # "INVALID"
      BY <2>3, <2>4 DEF NotGone
    <2>. QED
      BY <2>2, <2>5
  <1>4. \A i, j \in Lbns :
          k2[i].optimal /\ k2[j].optimal /\ k2[i].pbn = k2[j].pbn => i = j \/ k2[i].pbn = NoBlock
    BY DEF Fewer, BMapInv
  <1>. QED
    BY <1>1, <1>3, <1>4 DEF BMapInv

LEMMA BMapGiven ==
  ASSUME NEW f, NEW m \in BlockManagerType, NEW n \in BlockManagerType, NEW k \in BMapType,
         BMapInv(f, m, k), m.fresh <= n.fresh,
         \A b \in MapBlocks(k) : b \notin Members(n.free_list),
         NEW j \in Lbns, NEW b \in Blocks, b \notin MapBlocks(k), AllEmpty(f, b), b < n.fresh,
         b \notin Members(n.free_list), NEW k2, k2 = Given(k, j, b)
  PROVE  BMapInv(f, n, k2) /\ MapBlocks(k2) \subseteq MapBlocks(k) \cup {b}
  <1>1. /\ k2 \in BMapType /\ \A i \in Lbns : i # j => k2[i] = k[i]
        /\ k2[j].pbn = b /\ k2[j].optimal = k[j].optimal
    BY GivenMap
  <1>2. MapBlocks(k2) \subseteq MapBlocks(k) \cup {b}
    BY <1>1, MapBlocksOf
  <1>3. 0 \in Offsets /\ b # NoBlock
    BY GeometryAssumption DEF Offsets, Blocks, NoBlock
  <1>4. f.page[<<b, 0>>] # "INVALID"
    BY <1>3 DEF AllEmpty
  <1>5. \A c \in MapBlocks(k) : c < n.fresh
    BY MapBlocksOf DEF BMapInv, Blocks, BlockManagerType
  <1>6. \A c \in MapBlocks(k2) : /\ c < n.fresh /\ c \notin Members(n.free_list)
                                 /\ \E o \in Offsets : f.page[<<c, o>>] # "INVALID"
    BY <1>2, <1>3, <1>4, <1>5 DEF BMapInv
  <1>7. \A i \in Lbns : i # j /\ k[i].optimal => k[i].pbn # b
    BY <1>3, MapBlocksOf
  <1>8. \A h, i \in Lbns :
          k2[h].optimal /\ k2[i].optimal /\ k2[h].pbn = k2[i].pbn => h = i \/ k2[h].pbn = NoBlock
    BY <1>1, <1>7 DEF BMapInv
  <1>. QED
    BY <1>2, <1>6, <1>8 DEF BMapInv

---------------------------------------------------------------------------
(* The places of the pages.                                                *)

LEMMA PlacesOfType ==
  ASSUME NEW u \in [Lpns -> Ppns \cup {NoPpn}], NEW mv, DOMAIN mv \in SUBSET Lpns,
         mv \in [DOMAIN mv -> Ppns]
  PROVE  /\ PlacesOf(u, mv) \in [Lpns -> Ppns \cup {NoPpn}]
         /\ \A l \in Lpns : PlacesOf(u, mv)[l] = PlaceIn(u, mv, l)
  BY DEF PlacesOf, PlaceIn

\* With no page moved they are those of the map.
LEMMA PlacesAtRest ==
  ASSUME NEW u \in [Lpns -> Ppns \cup {NoPpn}]
  PROVE  PlacesOf(u, << >>) = u
  <1>1. DOMAIN << >> = {}
    OBVIOUS
  <1>2. \A l \in Lpns : PlaceIn(u, << >>, l) = u[l]
    BY <1>1 DEF PlaceIn
  <1>. QED
    BY <1>2 DEF PlacesOf

\* A page gets another place, newly programmed, ...
LEMMA BPlacesMoved ==
  ASSUME NEW f, NEW g, NEW P \in [Lpns -> Ppns \cup {NoPpn}], NEW w, BPlacesInv(f, P, w),
         NEW l \in Lpns, NEW p \in Ppns, f.page[p] = "EMPTY", p[1] \notin w, NEW d,
         Placed(f, g, p, d, P[l]), NEW Q, Q = Mapped(P, l, p)
  PROVE  BPlacesInv(g, Q, w)
  <1>1. /\ \A n \in Lpns : Q[n] = IF n = l THEN p ELSE P[n]
        /\ p # NoPpn
    BY NoPpnNotPage DEF Mapped
  <1>2. \A n \in Lpns : P[n] # NoPpn => P[n] \in Ppns /\ f.page[P[n]] = "VALID" /\ P[n][1] \notin w
    BY DEF BPlacesInv
  <1>3. \A n \in Lpns : P[n] # p
    BY <1>1, <1>2
  <1>4. \A n \in Lpns : n # l /\ P[n] # NoPpn => P[n] # P[l]
    BY DEF BPlacesInv
  <1>5. \A x \in Ppns : g.page[x] = IF x = P[l] THEN "INVALID" ELSE IF x = p THEN "VALID" ELSE f.page[x]
    BY DEF Placed
  <1>6. g.page[p] = "VALID"
    BY <1>3, <1>5
  <1>7. \A n \in Lpns : Q[n] # NoPpn => g.page[Q[n]] = "VALID" /\ Q[n][1] \notin w
    <2>. SUFFICES ASSUME NEW n \in Lpns, Q[n] # NoPpn PROVE g.page[Q[n]] = "VALID" /\ Q[n][1] \notin w
      OBVIOUS
    <2>1. CASE n = l
      BY <1>1, <1>6, <2>1
    <2>2. CASE n # l
      <3>1. Q[n] = P[n] /\ P[n] \in Ppns /\ P[n] # P[l] /\ P[n] # p
        BY <1>1, <1>2, <1>3, <1>4, <2>2
      <3>. QED
        BY <1>2, <1>5, <3>1
    <2>. QED
      BY <2>1, <2>2
  <1>8. \A j, n \in Lpns : Q[j] = Q[n] /\ Q[j] # NoPpn => j = n
    BY <1>1, <1>3 DEF BPlacesInv
  <1>. QED
    BY <1>7, <1>8 DEF BPlacesInv

\* ... or none.
LEMMA BPlacesGone ==
  ASSUME NEW f, NEW g, NEW P \in [Lpns -> Ppns \cup {NoPpn}], NEW w, BPlacesInv(f, P, w),
         NEW l \in Lpns, PageGone(f, g, P[l]), NEW Q, Q = Mapped(P, l, NoPpn)
  PROVE  BPlacesInv(g, Q, w)
  <1>1. \A n \in Lpns : Q[n] = IF n = l THEN NoPpn ELSE P[n]
    BY DEF Mapped
  <1>2. \A n \in Lpns : P[n] # NoPpn => P[n] \in Ppns /\ f.page[P[n]] = "VALID" /\ P[n][1] \notin w
    BY DEF BPlacesInv
  <1>3. \A n \in Lpns : n # l /\ P[n] # NoPpn => P[n] # P[l]
    BY DEF BPlacesInv
  <1>4. \A x \in Ppns : g.page[x] = IF x = P[l] THEN "INVALID" ELSE f.page[x]
    BY DEF PageGone
  <1>5. \A n \in Lpns : Q[n] # NoPpn => g.page[Q[n]] = "VALID" /\ Q[n][1] \notin w
    BY <1>1, <1>2, <1>3, <1>4
  <1>6. \A j, n \in Lpns : Q[j] = Q[n] /\ Q[j] # NoPpn => j = n
    BY <1>1 DEF BPlacesInv
  <1>. QED
    BY <1>5, <1>6 DEF BPlacesInv

\* A page is as it was.
SameAt(f, g, x) == g.page[x] = f.page[x] /\ g.data[x] = f.data[x]

LEMMA BPlacesKept ==
  ASSUME NEW f, NEW g, NEW P, NEW w, BPlacesInv(f, P, w), NEW w2,
         \A l \in Lpns : P[l] # NoPpn => SameAt(f, g, P[l]) /\ P[l][1] \notin w2
  PROVE  BPlacesInv(g, P, w2)
  BY DEF BPlacesInv, SameAt

LEMMA PlacedSame ==
  ASSUME NEW f, NEW g, NEW p, NEW d, NEW q, Placed(f, g, p, d, q), NEW x \in Ppns, x # p, x # q
  PROVE  SameAt(f, g, x)
  BY DEF Placed, SameAt

LEMMA GoneSame ==
  ASSUME NEW f, NEW g, NEW p, PageGone(f, g, p), g.data = f.data, NEW x \in Ppns, x # p
  PROVE  SameAt(f, g, x)
  BY DEF PageGone, SameAt

LEMMA ErasedSame ==
  ASSUME NEW f, NEW g, NEW b, BlockGone(f, g, b), NEW x \in Ppns, x[1] # b
  PROVE  SameAt(f, g, x)
  BY DEF BlockGone, SameAt

\* Where the pages of both maps are looked for.
LEMMA WhereType ==
  ASSUME NEW P \in [Lpns -> Ppns \cup {NoPpn}], NEW k \in BMapType, NEW l \in Lpns
  PROVE  /\ Where(P, k, l) \in Ppns \cup {NoPpn}
         /\ k[Lbn(l)].optimal /\ k[Lbn(l)].pbn # NoBlock =>
              /\ Where(P, k, l) = <<k[Lbn(l)].pbn, Off(l)>> /\ Where(P, k, l) \in Ppns
              /\ Where(P, k, l)[1] = k[Lbn(l)].pbn /\ k[Lbn(l)].pbn \in MapBlocks(k)
         /\ k[Lbn(l)].optimal /\ k[Lbn(l)].pbn = NoBlock => Where(P, k, l) = NoPpn
         /\ ~k[Lbn(l)].optimal => Where(P, k, l) = P[l]
  <1>1. Lbn(l) \in Lbns /\ Off(l) \in Offsets /\ k[Lbn(l)].pbn \in Blocks \cup {NoBlock}
    BY LbnOff DEF BMapType
  <1>2. k[Lbn(l)].optimal /\ k[Lbn(l)].pbn # NoBlock => k[Lbn(l)].pbn \in MapBlocks(k)
    BY <1>1 DEF MapBlocks
  <1>3. k[Lbn(l)].optimal /\ k[Lbn(l)].pbn # NoBlock =>
              /\ Where(P, k, l) = <<k[Lbn(l)].pbn, Off(l)>> /\ Where(P, k, l) \in Ppns
              /\ Where(P, k, l)[1] = k[Lbn(l)].pbn
    BY <1>1 DEF Where, Ppns
  <1>. QED
    BY <1>2, <1>3 DEF Where

LEMMA WhereDistinct ==
  ASSUME NEW f, NEW m, NEW P \in [Lpns -> Ppns \cup {NoPpn}], NEW k \in BMapType,
         BMapInv(f, m, k), BPlacesInv(f, P, MapBlocks(k)),
         NEW l \in Lpns, NEW n \in Lpns, Where(P, k, l) = Where(P, k, n), Where(P, k, l) # NoPpn
  PROVE  l = n
  <1>1. /\ Lbn(l) \in Lbns /\ Off(l) \in Offsets /\ l = BLOCK_SIZE * Lbn(l) + Off(l)
        /\ Lbn(n) \in Lbns /\ Off(n) \in Offsets /\ n = BLOCK_SIZE * Lbn(n) + Off(n)
    BY LbnOff
  <1>2. /\ k[Lbn(l)].optimal => /\ k[Lbn(l)].pbn # NoBlock
                                /\ Where(P, k, l) = <<k[Lbn(l)].pbn, Off(l)>>
                                /\ Where(P, k, l)[1] \in MapBlocks(k)
        /\ ~k[Lbn(l)].optimal => Where(P, k, l) = P[l]
    BY WhereType
  <1>3. /\ k[Lbn(n)].optimal => /\ k[Lbn(n)].pbn # NoBlock
                                /\ Where(P, k, n) = <<k[Lbn(n)].pbn, Off(n)>>
                                /\ Where(P, k, n)[1] \in MapBlocks(k)
        /\ ~k[Lbn(n)].optimal => Where(P, k, n) = P[n]
    BY WhereType
  <1>4. CASE ~k[Lbn(l)].optimal /\ ~k[Lbn(n)].optimal
    BY <1>2, <1>3, <1>4 DEF BPlacesInv
  <1>5. CASE k[Lbn(l)].optimal /\ k[Lbn(n)].optimal
    <2>1. k[Lbn(l)].pbn = k[Lbn(n)].pbn /\ Off(l) = Off(n)
      BY <1>2, <1>3, <1>5
    <2>2. Lbn(l) = Lbn(n)
      BY <1>1, <1>2, <1>5, <2>1 DEF BMapInv
    <2>. QED
      BY <1>1, <2>1, <2>2, Zenon
  <1>6. CASE k[Lbn(l)].optimal /\ ~k[Lbn(n)].optimal
    BY <1>2, <1>3, <1>6 DEF BPlacesInv
  <1>7. CASE ~k[Lbn(l)].optimal /\ k[Lbn(n)].optimal
    BY <1>2, <1>3, <1>7 DEF BPlacesInv
  <1>. QED
    BY <1>4, <1>5, <1>6, <1>7

\* A page that is where it was, and is as it was, holds what it did.
SamePlace(f, g, P, Q, k, k2, e, e2, lo, l) ==
  /\ l \notin lo /\ e2[l] = e[l]
  /\ Where(Q, k2, l) = Where(P, k, l)
  /\ Where(P, k, l) # NoPpn /\ f.page[Where(P, k, l)] = "VALID" => SameAt(f, g, Where(P, k, l))

LEMMA ContentStep ==
  ASSUME NEW f, NEW g, NEW P, NEW Q, NEW k, NEW k2, NEW e, NEW e2, NEW lo, NEW lo2,
         ContentInv(f, P, k, e, lo),
         \A l \in Lpns \ lo2 : \/ e2[l] = NoData
                               \/ Holds(g, Where(Q, k2, l), e2[l])
                               \/ SamePlace(f, g, P, Q, k, k2, e, e2, lo, l)
  PROVE  ContentInv(g, Q, k2, e2, lo2)
  <1>. SUFFICES ASSUME NEW l \in Lpns \ lo2, e2[l] # NoData PROVE Holds(g, Where(Q, k2, l), e2[l])
    BY DEF ContentInv
  <1>1. CASE Holds(g, Where(Q, k2, l), e2[l])
    BY <1>1
  <1>2. CASE SamePlace(f, g, P, Q, k, k2, e, e2, lo, l)
    <2>1. Holds(f, Where(P, k, l), e[l])
      BY <1>2 DEF SamePlace, ContentInv
    <2>. QED
      BY <1>2, <2>1 DEF SamePlace, Holds, SameAt
  <1>. QED
    BY <1>1, <1>2

---------------------------------------------------------------------------
(* The reverse map and the victim.                                         *)

LEMMA BReverseWritten ==
  ASSUME NEW t \in [Lpns -> Ppns \cup {NoPpn}], NEW r \in [Ppns -> Lpns \cup {NoLpn}],
         ReverseInv(t, r, << >>), NEW l \in Lpns, NEW p \in Ppns, \A n \in Lpns : t[n] # p,
         NEW u, u = Mapped(t, l, p), NEW s, s = Mapped(r, p, l)
  PROVE  ReverseInv(u, s, << >>)
  <1>1. DOMAIN << >> = {}
    OBVIOUS
  <1>2. /\ \A n \in Lpns : u[n] = IF n = l THEN p ELSE t[n]
        /\ \A x \in Ppns : s[x] = IF x = p THEN l ELSE r[x]
    BY DEF Mapped
  <1>3. \A n \in Lpns : t[n] # NoPpn => t[n] \in Ppns /\ r[t[n]] = n
    BY <1>1 DEF ReverseInv
  <1>4. \A n \in Lpns : u[n] # NoPpn => s[u[n]] = n
    BY <1>2, <1>3
  <1>. QED
    BY <1>4 DEF ReverseInv

LEMMA BReverseTrimmed ==
  ASSUME NEW t \in [Lpns -> Ppns \cup {NoPpn}], NEW r, ReverseInv(t, r, << >>), NEW l \in Lpns,
         NEW u, u = Mapped(t, l, NoPpn)
  PROVE  ReverseInv(u, r, << >>)
  <1>1. \A n \in Lpns : u[n] = IF n = l THEN NoPpn ELSE t[n]
    BY DEF Mapped
  <1>. QED
    BY <1>1 DEF ReverseInv

MovedType(mv) == DOMAIN mv \in SUBSET Lpns /\ mv \in [DOMAIN mv -> Ppns]
MapTypes(t, r) == t \in [Lpns -> Ppns \cup {NoPpn}] /\ r \in [Ppns -> Lpns \cup {NoLpn}]
Batched(t, r, mv, u, s) == u = Updated(mv, t) /\ s = Updated(AntiFunction(mv), r)
AtRest(u, s, P) == ReverseInv(u, s, << >>) /\ PlacesOf(u, << >>) = P
LEMMA BEntered ==
  ASSUME NEW f, NEW t, NEW r, MapTypes(t, r), NEW mv, MovedType(mv), NEW w, NEW P, P = PlacesOf(t, mv),
         BPlacesInv(f, P, w), ReverseInv(t, r, mv), NEW u, NEW s, Batched(t, r, mv, u, s)
  PROVE  MapTypes(u, s) /\ AtRest(u, s, P)
  <1>0. /\ t \in [Lpns -> Ppns \cup {NoPpn}] /\ r \in [Ppns -> Lpns \cup {NoLpn}]
        /\ DOMAIN mv \in SUBSET Lpns /\ mv \in [DOMAIN mv -> Ppns]
        /\ u = Updated(mv, t) /\ s = Updated(AntiFunction(mv), r)
    BY DEF MapTypes, MovedType, Batched
  <1>1. DOMAIN << >> = {}
    OBVIOUS
  <1>2. /\ u \in [Lpns -> Ppns \cup {NoPpn}] /\ s \in [Ppns -> Lpns \cup {NoLpn}]
        /\ \A l \in Lpns : u[l] = IF l \in DOMAIN mv THEN mv[l] ELSE t[l]
        /\ \A p \in Ppns : IF \E l \in DOMAIN mv : mv[l] = p
                             THEN s[p] \in DOMAIN mv /\ mv[s[p]] = p
                             ELSE s[p] = r[p]
    BY <1>0, MovedMaps
  <1>3. \A l \in Lpns : u[l] = PlaceIn(t, mv, l)
    BY <1>2 DEF PlaceIn
  <1>4. \A l \in Lpns : PlaceIn(u, << >>, l) = PlaceIn(t, mv, l)
    BY <1>1, <1>3 DEF PlaceIn
  <1>5. PlacesOf(u, << >>) = PlacesOf(t, mv)
    BY <1>4 DEF PlacesOf
  <1>6. \A l, n \in Lpns : PlaceIn(t, mv, l) = PlaceIn(t, mv, n) /\ PlaceIn(t, mv, l) # NoPpn => l = n
    BY <1>0, PlacesOfType DEF BPlacesInv
  <1>7. ReverseInv(u, s, << >>)
    <2>. SUFFICES ASSUME NEW l \in Lpns, u[l] # NoPpn PROVE s[u[l]] = l
      BY DEF ReverseInv
    <2>1. u[l] \in Ppns
      BY <1>2
    <2>2. CASE \E k \in DOMAIN mv : mv[k] = u[l]
      <3>1. s[u[l]] \in DOMAIN mv /\ mv[s[u[l]]] = u[l]
        BY <1>2, <2>1, <2>2
      <3>2. PlaceIn(t, mv, s[u[l]]) = PlaceIn(t, mv, l) /\ PlaceIn(t, mv, l) # NoPpn
        BY <1>3, <3>1 DEF PlaceIn
      <3>. QED
        BY <1>0, <1>6, <3>1, <3>2
    <2>3. CASE ~\E k \in DOMAIN mv : mv[k] = u[l]
      <3>1. l \notin DOMAIN mv /\ u[l] = t[l]
        BY <1>2, <2>3
      <3>2. s[u[l]] = r[u[l]]
        BY <1>2, <2>1, <2>3
      <3>. QED
        BY <3>1, <3>2 DEF ReverseInv
    <2>. QED
      BY <2>2, <2>3
  <1>. QED
    BY <1>2, <1>5, <1>7 DEF MapTypes, AtRest

\* The next page of the victim was copied.
LEMMA BVictimCopied ==
  ASSUME NEW f, NEW g, NEW m, NEW u, NEW v, v # NoBlock, NEW mv, NEW i,
         BVictimInv(f, m, u, v, mv, i, TRUE),
         NEW p \in Ppns, f.page[p] = "EMPTY", NEW d, Placed(f, g, p, d, <<v, i>>),
         NEW l \in Lpns, NEW n, n = Updated(Entry(l, p), mv)
  PROVE  BVictimInv(g, m, u, v, n, i + 1, FALSE)
  <1>1. /\ v \in Blocks /\ v < m.fresh /\ v \notin Members(m.free_list)
        /\ \A o \in Offsets : f.page[<<v, o>>] # "EMPTY" /\ (o < i => f.page[<<v, o>>] = "INVALID")
        /\ \A k \in DOMAIN mv : mv[k][1] # v
        /\ i \in Offsets
    BY DEF BVictimInv
  <1>2. p[1] # v
    <2>1. p[2] \in Offsets /\ p = <<p[1], p[2]>>
      BY DEF Ppns
    <2>. QED
      BY <1>1, <2>1
  <1>3. \A o \in Offsets : /\ g.page[<<v, o>>] # "EMPTY"
                           /\ o < i + 1 => g.page[<<v, o>>] = "INVALID"
    <2>. SUFFICES ASSUME NEW o \in Offsets
                  PROVE  /\ g.page[<<v, o>>] # "EMPTY"
                         /\ o < i + 1 => g.page[<<v, o>>] = "INVALID"
      OBVIOUS
    <2>1. o < i + 1 => o < i \/ o = i
      BY <1>1 DEF Offsets
    <2>2. <<v, o>> \in Ppns /\ <<v, o>> # p
      BY <1>1, <1>2 DEF Ppns
    <2>3. g.page[<<v, o>>] = IF <<v, o>> = <<v, i>> THEN "INVALID" ELSE f.page[<<v, o>>]
      BY <2>2 DEF Placed
    <2>. QED
      BY <1>1, <2>1, <2>3
  <1>4. \A k \in DOMAIN n : n[k] = p \/ (k \in DOMAIN mv /\ n[k] = mv[k])
    BY DEF Updated, Entry
  <1>5. \A k \in DOMAIN n : n[k][1] # v
    BY <1>1, <1>2, <1>4
  <1>. QED
    BY <1>1, <1>3, <1>5 DEF BVictimInv

---------------------------------------------------------------------------
(* Steps that change neither the array nor the maps.                       *)

LEMMA RequestKept ==
  ASSUME NEW st, NEW st2, NEW m, NEW n, NEW k, NEW t, RequestInv(st, m, k, t), st # << >>,
         Up(st2, 1) = Up(st, 1), Up(st, 1).proc = "first" => (Len(st2) >= 2 <=> Len(st) >= 2),
         n = m \/ Up(st, 1).proc # "bwrite" \/ Up(st, 1).page = NoPpn
  PROVE  RequestInv(st2, n, k, t)
  BY DEF RequestInv

\* A stack, lists, a trim map and a pool that say the same of the array and maps.
LEMMA QuietKeeps ==
  ASSUME SoundInv, BStackSound(stack'), BSameViews(stack, stack'),
         BHanded(stack') => BHanded(stack),
         bm' \in BlockManagerType, bm'.fresh = bm.fresh, bm'.free_list = bm.free_list,
         UNCHANGED <<flash, maps, currentDataPage, block_map, stored, lost>>,
         cached' \in SUBSET Lpns,
         trim_map' \in [Lpns -> BOOLEAN], \A l \in Lpns : trim_map'[l] => trim_map[l],
         inuseBlock' \in Blocks \cup {NoBlock}, blockQueue' \in Seq(Blocks),
         BPoolInv(bm, inuseBlock', blockQueue'),
         RequestInv(stack', bm', block_map, trim_map')
  PROVE  SoundInv'
  <1>1. /\ flash' = flash /\ ppn' = ppn /\ reverse_trans_map' = reverse_trans_map
        /\ currentDataPage' = currentDataPage /\ block_map' = block_map /\ stored' = stored
        /\ lost' = lost
    BY DEF maps
  <1>2. /\ VictimIn(stack') = VictimIn(stack) /\ MovedIn(stack') = MovedIn(stack)
        /\ DoneIn(stack') = DoneIn(stack) /\ CopyingIn(stack') = CopyingIn(stack)
    BY DEF BSameViews
  <1>3. BTypes'
    BY <1>1 DEF SoundInv, BTypes
  <1>4. FlashSound(flash)' /\ CountInv(flash)'
    BY <1>1 DEF SoundInv
  <1>5. BListInv(flash, bm)'
    BY <1>1 DEF SoundInv, BListInv
  <1>6. BCurInv(flash, bm, currentDataPage, BHanded(stack), MapBlocks(block_map))'
    <2>1. BCurInv(flash, bm, currentDataPage, BHanded(stack), MapBlocks(block_map))
      BY DEF SoundInv
    <2>2. BCurInv(flash, bm', currentDataPage, BHanded(stack'), MapBlocks(block_map))
      BY <2>1 DEF BCurInv
    <2>. QED
      BY <1>1, <2>2
  <1>7. BMapInv(flash, bm, block_map)'
    <2>1. BMapInv(flash, bm, block_map)
      BY DEF SoundInv
    <2>2. BMapInv(flash, bm', block_map)
      BY <2>1 DEF BMapInv
    <2>. QED
      BY <1>1, <2>2
  <1>8. BPoolInv(bm, inuseBlock, blockQueue)'
    BY DEF BPoolInv
  <1>9. BPlacesInv(flash, PlacesOf(ppn, MovedIn(stack)), MapBlocks(block_map))'
    BY <1>1, <1>2 DEF SoundInv
  <1>10. ReverseInv(ppn, reverse_trans_map, MovedIn(stack))'
    BY <1>1, <1>2 DEF SoundInv
  <1>11. BVictimInv(flash, bm, ppn, VictimIn(stack), MovedIn(stack), DoneIn(stack), CopyingIn(stack))'
    <2>1. BVictimInv(flash, bm, ppn, VictimIn(stack), MovedIn(stack), DoneIn(stack), CopyingIn(stack))
      BY DEF SoundInv
    <2>2. BVictimInv(flash, bm', ppn, VictimIn(stack), MovedIn(stack), DoneIn(stack), CopyingIn(stack))
      BY <2>1 DEF BVictimInv
    <2>. QED
      BY <1>1, <1>2, <2>2
  <1>12. OneMapInv(PlacesOf(ppn, MovedIn(stack)), block_map, trim_map, stored)'
    <2>1. OneMapInv(PlacesOf(ppn, MovedIn(stack)), block_map, trim_map, stored)
      BY DEF SoundInv
    <2>2. OneMapInv(PlacesOf(ppn, MovedIn(stack)), block_map, trim_map', stored)
      BY <2>1 DEF OneMapInv
    <2>. QED
      BY <1>1, <1>2, <2>2
  <1>13. ContentInv(flash, PlacesOf(ppn, MovedIn(stack)), block_map, stored, lost)'
    BY <1>1, <1>2 DEF SoundInv
  <1>14. RequestInv(stack, bm, block_map, trim_map)' /\ NextInv(block_map)'
    BY <1>1 DEF SoundInv
  <1>. QED
    BY <1>3, <1>4, <1>5, <1>6, <1>7, <1>8, <1>9, <1>10, <1>11, <1>12, <1>13, <1>14 DEF SoundInv

---------------------------------------------------------------------------
(* The top of the stack and what is under it.                              *)

LEMMA BTop ==
  ASSUME SoundInv, NEW proc, At(proc)
  PROVE  /\ BStackSound(stack) /\ stack \in Seq(BFrames) /\ stack # << >> /\ Running
         /\ top = stack[1] /\ stack[1] \in BFrames /\ top.proc = proc /\ stack[1].proc = proc
         /\ Len(stack) \in 1 .. 6 /\ Up(stack, Len(stack)) = stack[1]
  <1>1. BStackSound(stack) /\ stack # << >>
    BY DEF SoundInv, At
  <1>2. /\ stack \in Seq(BFrames) /\ Len(stack) \in 1 .. 6 /\ Up(stack, Len(stack)) = stack[1]
        /\ stack[1] \in BFrames
    BY <1>1, BHeights
  <1>3. Head(stack) = stack[1]
    BY <1>1, <1>2, ReturnStack
  <1>. QED
    BY <1>1, <1>2, <1>3 DEF At, top

LEMMA BUnder ==
  ASSUME NEW st, BStackSound(st), st # << >>
  PROVE  /\ st[1].proc = "insert" => Len(st) >= 3 /\ Up(st, Len(st) - 1).proc \in {"page", "take", "btake"}
         /\ st[1].proc \in {"page", "take"} =>
              /\ Len(st) >= 2 /\ Up(st, Len(st) - 1).proc \in {"bwrite", "copy"}
              /\ Up(st, Len(st) - 1).proc = "bwrite" => Up(st, Len(st) - 1).page = NoPpn
         /\ st[1].proc \in {"block", "btake"} =>
              /\ Len(st) = 2 /\ Up(st, 1).proc = "first" /\ st[1].lbn = Lbn(Up(st, 1).lpn)
         /\ st[1].proc \in {"cleanup", "copy"} =>
              /\ Len(st) = 4 /\ Up(st, 3).proc = "erase" /\ Up(st, 3).it = st[1].block
         /\ st[1].proc = "erase" => Len(st) = 3
         /\ st[1].proc \in {"bwrite", "first"} => Len(st) = 1
  <1>1. /\ st \in Seq(BFrames) /\ Len(st) \in 1 .. 6
        /\ Up(st, Len(st)) = st[1] /\ st[1] \in BFrames
        /\ st[1].proc \in {"bwrite", "first"} => Len(st) = 1
        /\ st[1].proc \in {"block", "btake"} => Len(st) = 2 /\ Up(st, 1).proc = "first"
        /\ st[1].proc \in {"page", "take"} =>
             \/ Len(st) = 2 /\ Up(st, 1).proc = "bwrite"
             \/ Len(st) = 5 /\ Up(st, 4).proc = "copy"
        /\ st[1].proc = "insert" => Len(st) \in {3, 6}
        /\ st[1].proc = "erase" => Len(st) = 3
        /\ st[1].proc \in {"cleanup", "copy"} => Len(st) = 4 /\ Up(st, 3).proc = "erase"
    BY BHeights
  <1>2. ASSUME st[1].proc = "insert"
        PROVE  Len(st) >= 3 /\ Up(st, Len(st) - 1).proc \in {"page", "take", "btake"}
    <2>1. CASE Len(st) = 3
      <3>1. Len(st) - 1 = 2 /\ Len(st) >= 2 /\ Len(st) >= 3 /\ Len(st) >= 1
        BY <2>1
      <3>. QED
        BY <3>1 DEF BStackSound
    <2>2. CASE Len(st) = 6
      <3>1. Len(st) - 1 = 5 /\ Len(st) >= 5 /\ Len(st) >= 3
        BY <2>2
      <3>. QED
        BY <3>1 DEF BStackSound
    <2>. QED
      BY <1>1, <1>2, <2>1, <2>2
  <1>3. ASSUME st[1].proc \in {"page", "take"}
        PROVE  /\ Len(st) >= 2 /\ Up(st, Len(st) - 1).proc \in {"bwrite", "copy"}
               /\ Up(st, Len(st) - 1).proc = "bwrite" => Up(st, Len(st) - 1).page = NoPpn
    <2>1. CASE Len(st) = 2
      <3>1. Len(st) - 1 = 1 /\ Len(st) >= 2 /\ Up(st, 1).proc = "bwrite"
        BY <1>1, <1>3, <2>1
      <3>. QED
        BY <3>1 DEF BStackSound
    <2>2. CASE Len(st) = 5
      <3>1. Len(st) - 1 = 4 /\ Len(st) >= 2 /\ Up(st, 4).proc = "copy"
        BY <1>1, <1>3, <2>2
      <3>. QED
        BY <3>1
    <2>3. Len(st) = 2 \/ Len(st) = 5
      BY <1>1, <1>3
    <2>. QED
      BY <2>1, <2>2, <2>3, Zenon
  <1>4. ASSUME st[1].proc \in {"block", "btake"}
        PROVE  Len(st) = 2 /\ Up(st, 1).proc = "first" /\ st[1].lbn = Lbn(Up(st, 1).lpn)
    <2>0. Len(st) = 2 /\ Up(st, 1).proc = "first"
      BY <1>1, <1>4, Zenon
    <2>1. Len(st) = 2 /\ Up(st, 1).proc = "first" /\ Up(st, 2) = st[1] /\ Len(st) >= 2
      <3>1. Up(st, Len(st)) = st[1]
        BY <1>1
      <3>. QED
        BY <2>0, <3>1
    <2>. QED
      BY <2>1 DEF BStackSound
  <1>5. ASSUME st[1].proc \in {"cleanup", "copy"}
        PROVE  Len(st) = 4 /\ Up(st, 3).proc = "erase" /\ Up(st, 3).it = st[1].block
    <2>1. Len(st) = 4 /\ Up(st, 3).proc = "erase"
      BY <1>1, <1>5
    <2>2. Up(st, 4) = st[1] /\ Len(st) >= 4
      BY <1>1, <2>1
    <2>. QED
      BY <2>1, <2>2 DEF BStackSound
  <1>. QED
    BY <1>1, <1>2, <1>3, <1>4, <1>5

\* What a return leaves on top.
LEMMA BReturnTop ==
  ASSUME NEW st, BStackSound(st), st # << >>, NEW u, u = Tail(st)
  PROVE  /\ Len(u) = Len(st) - 1 /\ (u = << >> <=> Len(st) = 1)
         /\ Len(st) >= 2 => u # << >> /\ u[1] = Up(st, Len(st) - 1) /\ Up(u, 1) = Up(st, 1)
  <1>1. st \in Seq(BFrames) /\ Len(st) \in 1 .. 6
    BY BHeights
  <1>2. /\ u \in Seq(BFrames) /\ Len(u) = Len(st) - 1
        /\ \A k \in 1 .. Len(st) - 1 : Up(u, k) = Up(st, k)
    BY <1>1, UpTail
  <1>3. u = << >> <=> Len(u) = 0
    <2>1. \A w \in Seq(BFrames) : Len(w) = 0 => w = << >>
      OBVIOUS
    <2>2. Len(<< >>) = 0
      OBVIOUS
    <2>. QED
      BY <1>2, <2>1, <2>2
  <1>4. u = << >> <=> Len(st) = 1
    BY <1>1, <1>2, <1>3
  <1>5. ASSUME Len(st) >= 2 PROVE u # << >> /\ u[1] = Up(st, Len(st) - 1) /\ Up(u, 1) = Up(st, 1)
    <2>1. u # << >> /\ 1 \in 1 .. Len(st) - 1 /\ Len(st) - 1 \in 1 .. Len(st) - 1
      BY <1>1, <1>4, <1>5
    <2>2. Up(u, Len(u)) = u[1]
      BY <1>2, <2>1, UpTop
    <2>. QED
      BY <1>2, <2>1, <2>2
  <1>. QED
    BY <1>2, <1>4, <1>5

LEMMA ViewsTrans ==
  ASSUME NEW s, NEW t, NEW u, BSameViews(s, t), BSameViews(t, u)
  PROVE  BSameViews(s, u)
  BY DEF BSameViews

\* insert_events is called, or is not.
LEMMA InsertThen ==
  ASSUME NEW rest, BStackSound(rest), rest # << >>, rest[1].proc \in {"page", "take", "btake"},
         InsertEventsThen(rest)
  PROVE  /\ BStackSound(stack') /\ BSameViews(rest, stack') /\ ~BHanded(stack')
         /\ stack' # << >> /\ Up(stack', 1) = Up(rest, 1) /\ Len(stack') >= 2
  <1>1. rest \in Seq(BFrames) /\ Len(rest) \in 1 .. 6 /\ Len(rest) >= 2
    BY BHeights, BUnder
  <1>2. CASE stack' = rest
    BY <1>1, <1>2 DEF BHanded, BSameViews
  <1>3. CASE stack' # rest
    <2>1. PICK b \in Costliest(flash, Blocks) :
             stack' = <<[proc |-> "insert", num_to_erase |-> NUM_TO_ERASE, it |-> b]>> \o rest
      BY <1>3 DEF InsertEventsThen
    <2>. DEFINE f == [proc |-> "insert", num_to_erase |-> NUM_TO_ERASE, it |-> b]
    <2>2. f \in BFrames /\ f.proc = "insert"
      BY BlockListsAssumption DEF BFrames, LiveFrames, Frames, InsertFrame, Costliest
    <2>3. stack' = Pushed(f, rest)
      BY <2>1 DEF Pushed
    <2>. HIDE DEF f
    <2>4. BStackSound(stack')
      BY <2>2, <2>3, BPushSound
    <2>5. BSameViews(rest, stack')
      BY <2>2, <2>3, BPushViews
    <2>6. /\ Len(stack') = Len(rest) + 1 /\ stack' # << >> /\ stack'[1] = f
          /\ \A k \in 1 .. Len(rest) : Up(stack', k) = Up(rest, k)
      <3>1. f \in BFrames /\ rest \in Seq(BFrames)
        BY <1>1, <2>2
      <3>. DEFINE w == stack'
      <3>2. w = Pushed(f, rest)
        BY <2>3
      <3>. HIDE DEF w
      <3>3. Len(w) = Len(rest) + 1
        BY <3>1, <3>2, UpPush
      <3>4. w # << >>
        BY <3>1, <3>2, UpPush
      <3>5. w[1] = f
        <4>1. w \in Seq(BFrames) /\ Up(w, Len(rest) + 1) = f
          BY <3>1, <3>2, UpPush
        <4>2. Up(w, Len(w)) = w[1]
          BY <4>1, <3>4, UpTop
        <4>. QED
          BY <4>1, <4>2, <3>3
      <3>6. \A k \in 1 .. Len(rest) : Up(w, k) = Up(rest, k)
        BY <3>1, <3>2, UpPush
      <3>. QED
        BY <3>3, <3>4, <3>5, <3>6 DEF w
    <2>7. Up(stack', 1) = Up(rest, 1) /\ Len(stack') >= 2
      BY <1>1, <2>6
    <2>. QED
      BY <2>2, <2>4, <2>5, <2>6, <2>7 DEF BHanded
  <1>. QED
    BY <1>2, <1>3
\* What a step inside a function leaves.
LEMMA BBecomeTop ==
  ASSUME NEW st, BStackSound(st), st # << >>, NEW f \in BFrames, NEW u, u = Becoming(f, st)
  PROVE  /\ Len(u) = Len(st) /\ u # << >> /\ u[1] = f
         /\ Len(st) >= 2 => Up(u, 1) = Up(st, 1) /\ Up(u, Len(u) - 1) = Up(st, Len(st) - 1)
  <1>1. st \in Seq(BFrames) /\ Len(st) \in 1 .. 6
    BY BHeights
  <1>2. /\ Len(u) = Len(st) /\ u # << >> /\ u \in Seq(BFrames) /\ Up(u, Len(st)) = f
        /\ \A k \in 1 .. Len(st) - 1 : Up(u, k) = Up(st, k)
    BY <1>1, UpBecome
  <1>3. ASSUME Len(st) >= 2 PROVE 1 \in 1 .. Len(st) - 1 /\ Len(st) - 1 \in 1 .. Len(st) - 1
    BY <1>1, <1>3
  <1>4. u[1] = f
    <2>1. Up(u, Len(u)) = u[1]
      BY <1>2, UpTop
    <2>. QED
      BY <1>2, <2>1
  <1>. QED
    BY <1>2, <1>3, <1>4

\* A stack of two frames or more is not that of a write to a page given before.
LEMMA NoPageGiven ==
  ASSUME NEW st, BStackSound(st), Len(st) >= 2
  PROVE  Up(st, 1).proc # "bwrite" \/ Up(st, 1).page = NoPpn
  BY DEF BStackSound

LEMMA BStutter ==
  ASSUME SoundInv, UNCHANGED <<flash, bm, maps, cached, currentDataPage, stack, block_map,
                               trim_map, pool, stored, lost>>
  PROVE  SoundInv'
  <1>1. /\ flash' = flash /\ bm' = bm /\ ppn' = ppn /\ reverse_trans_map' = reverse_trans_map
        /\ cached' = cached /\ currentDataPage' = currentDataPage /\ stack' = stack
        /\ block_map' = block_map /\ trim_map' = trim_map /\ inuseBlock' = inuseBlock
        /\ blockQueue' = blockQueue /\ stored' = stored /\ lost' = lost
    BY DEF maps, pool
  <1>. QED
    BY <1>1 DEF SoundInv, BTypes

LEMMA SameStack ==
  ASSUME SoundInv, stack' = stack
  PROVE  BStackSound(stack') /\ BSameViews(stack, stack') /\ (BHanded(stack') => BHanded(stack))
  BY DEF SoundInv, BSameViews

LEMMA ResolveKeepsType ==
  ASSUME NEW l \in Lpns, cached \in SUBSET Lpns, resolve_mapping(l)
  PROVE  cached' \in SUBSET Lpns
  BY DEF resolve_mapping, cache

LEMMA BReadKeeps ==
  ASSUME SoundInv, NEW l \in Lpns, read(l)
  PROVE  SoundInv'
  <1>1. /\ BStackSound(stack') /\ BSameViews(stack, stack') /\ (BHanded(stack') => BHanded(stack))
        /\ stack' = stack
    BY SameStack DEF read, Read
  <1>2. BTypes /\ BPoolInv(bm, inuseBlock, blockQueue) /\ RequestInv(stack, bm, block_map, trim_map)
    BY DEF SoundInv
  <1>3. cached' \in SUBSET Lpns
    BY <1>2, ResolveKeepsType DEF BTypes, read, Read
  <1>4. /\ UNCHANGED <<flash, maps, currentDataPage, block_map, stored, lost>>
        /\ bm' = bm /\ trim_map' = trim_map /\ inuseBlock' = inuseBlock /\ blockQueue' = blockQueue
    BY DEF read, Read, bvars, pool, history
  <1>5. /\ bm' \in BlockManagerType /\ bm'.fresh = bm.fresh /\ bm'.free_list = bm.free_list
        /\ trim_map' \in [Lpns -> BOOLEAN] /\ \A n \in Lpns : trim_map'[n] => trim_map[n]
        /\ inuseBlock' \in Blocks \cup {NoBlock} /\ blockQueue' \in Seq(Blocks)
        /\ BPoolInv(bm, inuseBlock', blockQueue')
        /\ RequestInv(stack', bm', block_map, trim_map')
    BY <1>1, <1>2, <1>4 DEF BTypes
  <1>. QED
    BY <1>1, <1>3, <1>4, <1>5, QuietKeeps

LEMMA BAssertKeeps ==
  ASSUME SoundInv, AssertFailsHere
  PROVE  SoundInv'
  <1>1. UNCHANGED <<flash, bm, maps, cached, currentDataPage, stack, block_map,
                    trim_map, pool, stored, lost>>
    BY DEF AssertFailsHere, AssertFails, bvars, history, cache
  <1>. QED
    BY <1>1, BStutter
\* A step from one function to another, with the same write at the bottom.
LEMMA BStackStep ==
  ASSUME SoundInv, BStackSound(stack'), BSameViews(stack, stack'), BHanded(stack') => BHanded(stack),
         stack # << >>, Len(stack) >= 2, Len(stack') >= 2, Up(stack', 1) = Up(stack, 1),
         bm' \in BlockManagerType, bm'.fresh = bm.fresh, bm'.free_list = bm.free_list,
         UNCHANGED <<flash, maps, cached, currentDataPage, bvars>>
  PROVE  SoundInv'
  <1>1. /\ block_map' = block_map /\ trim_map' = trim_map /\ inuseBlock' = inuseBlock
        /\ blockQueue' = blockQueue /\ stored' = stored /\ lost' = lost /\ cached' = cached
    BY DEF bvars, pool, history
  <1>2. UNCHANGED <<flash, maps, currentDataPage, block_map, stored, lost>>
    BY <1>1
  <1>3. /\ BTypes /\ BStackSound(stack) /\ BPoolInv(bm, inuseBlock, blockQueue)
        /\ RequestInv(stack, bm, block_map, trim_map)
    BY DEF SoundInv
  <1>4. RequestInv(stack', bm', block_map, trim_map)
    <2>1. Up(stack, 1).proc # "bwrite" \/ Up(stack, 1).page = NoPpn
      BY <1>3, NoPageGiven
    <2>. QED
      BY <1>3, <2>1, RequestKept
  <1>5. /\ trim_map' \in [Lpns -> BOOLEAN] /\ \A n \in Lpns : trim_map'[n] => trim_map[n]
        /\ inuseBlock' \in Blocks \cup {NoBlock} /\ blockQueue' \in Seq(Blocks)
        /\ BPoolInv(bm, inuseBlock', blockQueue') /\ cached' \in SUBSET Lpns
        /\ RequestInv(stack', bm', block_map, trim_map')
    BY <1>1, <1>3, <1>4 DEF BTypes
  <1>. QED
    BY <1>2, <1>5, QuietKeeps

LEMMA BEndInsertKeeps ==
  ASSUME SoundInv, EndInsert, UNCHANGED bvars
  PROVE  SoundInv'
  <1>1. /\ BStackSound(stack) /\ stack # << >> /\ stack[1].proc = "insert"
    BY BTop DEF EndInsert
  <1>2. Len(stack) >= 3 /\ Up(stack, Len(stack) - 1).proc \in {"page", "take", "btake"}
        /\ Len(stack) \in 1 .. 6
    BY <1>1, BUnder, BHeights
  <1>3. stack' = Tail(stack)
    BY DEF EndInsert, Return
  <1>4. /\ Len(stack') = Len(stack) - 1 /\ stack'[1] = Up(stack, Len(stack) - 1)
        /\ Up(stack', 1) = Up(stack, 1)
    <2>1. Len(stack) >= 2
      BY <1>2
    <2>. QED
      BY <1>1, <1>3, <2>1, BReturnTop
  <1>5. BStackSound(stack') /\ BSameViews(stack, stack')
    BY <1>1, <1>3, BReturnSound, BReturnViews
  <1>6. ~BHanded(stack')
    BY <1>2, <1>4 DEF BHanded
  <1>7. Len(stack) >= 2 /\ Len(stack') >= 2
    BY <1>2, <1>4
  <1>8. bm' = bm /\ bm \in BlockManagerType /\ UNCHANGED <<flash, maps, cached, currentDataPage>>
    BY DEF EndInsert, SoundInv, BTypes, cache
  <1>. QED
    BY <1>1, <1>4, <1>5, <1>6, <1>7, <1>8, BStackStep

LEMMA BSkipVictimKeeps ==
  ASSUME SoundInv, SkipVictim, UNCHANGED bvars
  PROVE  SoundInv'
  <1>1. /\ BStackSound(stack) /\ stack # << >> /\ stack[1].proc = "insert" /\ top = stack[1]
        /\ stack[1] \in BFrames
    BY BTop DEF SkipVictim
  <1>2. Len(stack) >= 3 /\ Len(stack) \in 1 .. 6
    BY <1>1, BUnder, BHeights
  <1>3. PICK b \in NextVictims(flash) : Become([top EXCEPT !.it = b, !.num_to_erase = @ - 1])
    BY DEF SkipVictim
  <1>. DEFINE f == [top EXCEPT !.it = b, !.num_to_erase = @ - 1]
  <1>4. f \in BFrames /\ f.proc = "insert"
    <2>1. top \in InsertFrame /\ top.num_to_erase # 0 /\ b \in Blocks
      BY <1>1, <1>3, BFrameKinds, NextVictimType DEF SkipVictim, LoopOn
    <2>2. top.num_to_erase - 1 \in 0 .. NUM_TO_ERASE
      BY <2>1, BlockListsAssumption DEF InsertFrame
    <2>3. f \in InsertFrame /\ f.proc = "insert"
      BY <1>1, <2>1, <2>2 DEF InsertFrame
    <2>. QED
      BY <2>3 DEF BFrames, LiveFrames, Frames
  <1>5. stack' = Becoming(f, stack)
    BY <1>3 DEF Become, Becoming
  <1>. HIDE DEF f
  <1>6. SameStep(f, stack[1]) /\ stack[1].proc \notin {"erase", "cleanup", "copy"}
    BY <1>1, <1>4 DEF SameStep
  <1>7. BStackSound(stack') /\ BSameViews(stack, stack')
    BY <1>1, <1>4, <1>5, <1>6, BBecomeSound, BBecomeViews
  <1>8. Len(stack') = Len(stack) /\ stack'[1] = f /\ Up(stack', 1) = Up(stack, 1)
    <2>1. Len(stack) >= 2
      BY <1>2
    <2>. QED
      BY <1>1, <1>4, <1>5, <2>1, BBecomeTop
  <1>9. ~BHanded(stack') /\ Len(stack) >= 2 /\ Len(stack') >= 2
    BY <1>2, <1>4, <1>8 DEF BHanded
  <1>10. bm' = bm /\ bm \in BlockManagerType /\ UNCHANGED <<flash, maps, cached, currentDataPage>>
    BY DEF SkipVictim, SoundInv, BTypes, cache
  <1>. QED
    BY <1>1, <1>7, <1>8, <1>9, <1>10, BStackStep

\* insert_events is called for the last block, of Dftl ...
LEMMA BCollectKeeps ==
  ASSUME SoundInv, NEW g \in BFrames, g.proc \in {"take", "btake"}, stack # << >>, Len(stack) >= 2,
         SameStep(g, stack[1]), InsertEventsThen(Becoming(g, stack)),
         bm' = [bm EXCEPT !.out_of_blocks = TRUE],
         UNCHANGED <<flash, maps, cached, currentDataPage, bvars>>
  PROVE  SoundInv'
  <1>. DEFINE rest == Becoming(g, stack)
  <1>1. BStackSound(stack) /\ stack[1].proc \notin {"erase", "cleanup", "copy"}
    BY DEF SoundInv, SameStep
  <1>2. BStackSound(rest) /\ BSameViews(stack, rest)
    BY <1>1, BBecomeSound, BBecomeViews
  <1>3. rest # << >> /\ rest[1] = g /\ Up(rest, 1) = Up(stack, 1)
    BY <1>1, BBecomeTop
  <1>4. InsertEventsThen(rest)
    OBVIOUS
  <1>. HIDE DEF rest
  <1>5. /\ BStackSound(stack') /\ BSameViews(rest, stack') /\ ~BHanded(stack')
        /\ Up(stack', 1) = Up(rest, 1) /\ Len(stack') >= 2
    BY <1>2, <1>3, <1>4, InsertThen
  <1>6. BSameViews(stack, stack')
    BY <1>2, <1>5, ViewsTrans
  <1>7. bm' \in BlockManagerType /\ bm'.fresh = bm.fresh /\ bm'.free_list = bm.free_list
    BY DEF SoundInv, BTypes, BlockManagerType
  <1>. QED
    BY <1>3, <1>5, <1>6, <1>7, BStackStep

LEMMA BCollectForLastKeeps ==
  ASSUME SoundInv, CollectForLastBlock, UNCHANGED bvars
  PROVE  SoundInv'
  <1>1. /\ BStackSound(stack) /\ stack # << >> /\ stack[1].proc = "page"
    BY BTop DEF CollectForLastBlock
  <1>2. Len(stack) >= 2
    BY <1>1, BUnder
  <1>. DEFINE g == [proc |-> "take"]
  <1>3. g \in BFrames /\ g.proc = "take"
    BY DEF BFrames, LiveFrames, Frames, PageFrame
  <1>4. InsertEventsThen(Becoming(g, stack))
    BY DEF CollectForLastBlock, Becoming
  <1>5. UNCHANGED <<flash, maps, cached, currentDataPage>> /\ bm' = [bm EXCEPT !.out_of_blocks = TRUE]
    BY DEF CollectForLastBlock, cache
  <1>. HIDE DEF g
  <1>6. SameStep(g, stack[1])
    BY <1>1, <1>3 DEF SameStep
  <1>7. g.proc \in {"take", "btake"}
    BY <1>3
  <1>. QED
    BY <1>1, <1>2, <1>3, <1>4, <1>5, <1>6, <1>7, BCollectKeeps

\* ... or of the block map.
LEMMA BCollectForBlockKeeps ==
  ASSUME SoundInv, CollectForBlock
  PROVE  SoundInv'
  <1>1. /\ BStackSound(stack) /\ stack # << >> /\ stack[1].proc = "block" /\ stack[1] \in BFrames
        /\ top = stack[1]
    BY BTop DEF CollectForBlock
  <1>2. Len(stack) >= 2
    BY <1>1, BUnder
  <1>. DEFINE g == [top EXCEPT !.proc = "btake"]
  <1>3. g \in BFrames /\ g.proc = "btake" /\ g.lbn = stack[1].lbn
    <2>1. top \in BlockFrame
      BY <1>1, BFrameKinds
    <2>2. g \in BlockFrame /\ g.proc = "btake" /\ g.lbn = top.lbn
      BY <2>1 DEF BlockFrame
    <2>. QED
      BY <1>1, <2>2 DEF BFrames
  <1>4. InsertEventsThen(Becoming(g, stack))
    BY DEF CollectForBlock, Becoming
  <1>5. /\ UNCHANGED <<flash, maps, cached, currentDataPage, bvars>>
        /\ bm' = [bm EXCEPT !.out_of_blocks = TRUE]
    BY DEF CollectForBlock, cache
  <1>. HIDE DEF g
  <1>6. SameStep(g, stack[1]) /\ g.proc \in {"take", "btake"}
    BY <1>1, <1>3 DEF SameStep
  <1>. QED
    BY <1>1, <1>2, <1>3, <1>4, <1>5, <1>6, BCollectKeeps
---------------------------------------------------------------------------
(* A write begins.                                                         *)

Alone(f) == <<f>>
OnTop(g, f) == <<g, f>>

LEMMA BAlone ==
  ASSUME NEW f \in BFrames, f.proc \in {"bwrite", "first"}, NEW u, u = Alone(f)
  PROVE  /\ BStackSound(u) /\ BSameViews(<< >>, u) /\ Len(u) = 1 /\ u # << >>
         /\ Up(u, 1) = f /\ u[1] = f
  <1>1. u \in Seq(BFrames) /\ Len(u) = 1 /\ u[1] = f /\ u # << >>
    BY DEF Alone
  <1>2. Up(u, 1) = f
    <2>1. Len(u) + 1 - 1 = 1
      BY <1>1
    <2>. QED
      BY <1>1, <2>1 DEF Up
  <1>3. BStackSound(u)
    <2>1. ~(Len(u) >= 2) /\ ~(Len(u) >= 3) /\ ~(Len(u) >= 4) /\ ~(Len(u) >= 5) /\ ~(Len(u) >= 6)
          /\ Len(u) <= 6
      BY <1>1
    <2>. QED
      BY <1>1, <1>2, <2>1 DEF BStackSound
  <1>4. BStackSound(<< >>)
    BY DEF BStackSound
  <1>5. Len(<< >>) <= 2 /\ Len(u) <= 2
    BY <1>1
  <1>6. BSameViews(<< >>, u)
    <2>1. NoneIn(u)
      BY <1>3, <1>5, ViewsByHeight
    <2>2. NoneIn(<< >>)
      BY <1>4, <1>5, ViewsByHeight
    <2>. QED
      BY <2>1, <2>2, ViewsNone
  <1>. QED
    BY <1>1, <1>2, <1>3, <1>6

LEMMA BOnTop ==
  ASSUME NEW f \in BFrames, NEW g \in BFrames,
         \/ f.proc = "bwrite" /\ f.page = NoPpn /\ g.proc \in {"page", "take"}
         \/ f.proc = "first" /\ g.proc \in {"block", "btake"} /\ g.lbn = Lbn(f.lpn),
         NEW u, u = OnTop(g, f)
  PROVE  /\ BStackSound(u) /\ BSameViews(<< >>, u) /\ Len(u) = 2 /\ u # << >>
         /\ Up(u, 1) = f /\ u[1] = g
  <1>1. u \in Seq(BFrames) /\ Len(u) = 2 /\ u[1] = g /\ u[2] = f /\ u # << >>
    BY DEF OnTop
  <1>2. Up(u, 1) = f /\ Up(u, 2) = g
    <2>1. Len(u) + 1 - 1 = 2 /\ Len(u) + 1 - 2 = 1
      BY <1>1
    <2>. QED
      BY <1>1, <2>1 DEF Up
  <1>3. BStackSound(u)
    <2>1. ~(Len(u) >= 3) /\ ~(Len(u) >= 4) /\ ~(Len(u) >= 5) /\ ~(Len(u) >= 6) /\ Len(u) <= 6
      BY <1>1
    <2>. QED
      BY <1>1, <1>2, <2>1 DEF BStackSound
  <1>4. BStackSound(<< >>)
    BY DEF BStackSound
  <1>5. Len(<< >>) <= 2 /\ Len(u) <= 2
    BY <1>1
  <1>6. BSameViews(<< >>, u)
    <2>1. NoneIn(u)
      BY <1>3, <1>5, ViewsByHeight
    <2>2. NoneIn(<< >>)
      BY <1>4, <1>5, ViewsByHeight
    <2>. QED
      BY <2>1, <2>2, ViewsNone
  <1>. QED
    BY <1>1, <1>2, <1>3, <1>6

\* The pages trimmed, after one is written.
LEMMA TrimCleared ==
  ASSUME NEW t \in [Lpns -> BOOLEAN], NEW l \in Lpns, NEW u, u = [t EXCEPT ![l] = FALSE]
  PROVE  u \in [Lpns -> BOOLEAN] /\ ~u[l] /\ \A n \in Lpns : u[n] => t[n]
  OBVIOUS

LEMMA BWriteFirstKeeps ==
  ASSUME SoundInv, NEW l \in Lpns, NEW d \in Payloads, WriteFirst(l, d)
  PROVE  SoundInv'
  <1>. DEFINE f == [proc |-> "first", lpn |-> l, payload |-> d]
              g == [proc |-> "block", lbn |-> Lbn(l)]
  <1>1. /\ f \in BFrames /\ f.proc = "first" /\ f.lpn = l
        /\ g \in BFrames /\ g.proc = "block" /\ g.lbn = Lbn(l)
    <2>1. Lbn(l) \in Lbns
      BY LbnOff
    <2>2. f \in FirstFrame /\ g \in BlockFrame
      BY <2>1 DEF FirstFrame, BlockFrame
    <2>. QED
      BY <2>2 DEF BFrames
  <1>2. stack' = OnTop(g, f) /\ stack = << >>
    BY DEF WriteFirst, OnTop, Idle
  <1>. HIDE DEF f, g
  <1>3. /\ BStackSound(stack') /\ BSameViews(<< >>, stack') /\ Len(stack') = 2
        /\ Up(stack', 1) = f /\ stack'[1] = g
    <2>1. f.proc = "first" /\ g.proc \in {"block", "btake"} /\ g.lbn = Lbn(f.lpn)
      BY <1>1
    <2>. QED
      BY <1>1, <1>2, <2>1, BOnTop
  <1>4. BTypes /\ BPoolInv(bm, inuseBlock, blockQueue) /\ NextInv(block_map)
    BY DEF SoundInv
  <1>5. trim_map' \in [Lpns -> BOOLEAN] /\ ~trim_map'[l] /\ \A n \in Lpns : trim_map'[n] => trim_map[n]
    BY <1>4, TrimCleared DEF BTypes, WriteFirst
  <1>6. /\ block_map[Lbn(l)].optimal /\ block_map[Lbn(l)].pbn = NoBlock /\ Off(l) = 0
        /\ block_map[Lbn(l)].nextPage = 0
    <2>1. block_map[Lbn(l)].optimal /\ block_map[Lbn(l)].pbn = NoBlock /\ Off(l) = 0
      BY DEF WriteFirst, NeedsBlock
    <2>. QED
      BY <1>4, <2>1, LbnOff DEF NextInv
  <1>7. Len(stack') >= 2
    BY <1>3
  <1>8. RequestInv(stack', bm, block_map, trim_map')
    BY <1>1, <1>3, <1>5, <1>6, <1>7 DEF RequestInv
  <1>9. BSameViews(stack, stack') /\ ~BHanded(stack')
    BY <1>1, <1>2, <1>3 DEF BHanded
  <1>10. /\ bm' = bm /\ inuseBlock' = inuseBlock /\ blockQueue' = blockQueue /\ cached' = cached
         /\ UNCHANGED <<flash, maps, currentDataPage, block_map, stored, lost>>
    BY DEF WriteFirst, pool, history, cache
  <1>11. /\ bm' \in BlockManagerType /\ bm'.fresh = bm.fresh /\ bm'.free_list = bm.free_list
         /\ inuseBlock' \in Blocks \cup {NoBlock} /\ blockQueue' \in Seq(Blocks)
         /\ BPoolInv(bm, inuseBlock', blockQueue') /\ cached' \in SUBSET Lpns
         /\ RequestInv(stack', bm', block_map, trim_map')
    BY <1>4, <1>8, <1>10 DEF BTypes
  <1>. QED
    BY <1>3, <1>5, <1>9, <1>10, <1>11, QuietKeeps
---------------------------------------------------------------------------
(* A page or a block is handed out.                                        *)

\* Lists that give out more of the blocks.
LEMMA PoolKept ==
  ASSUME NEW m \in BlockManagerType, NEW n \in BlockManagerType, m.fresh <= n.fresh,
         NEW b \in Blocks \cup {NoBlock}, NEW q \in Seq(Blocks), BPoolInv(m, b, q)
  PROVE  BPoolInv(n, b, q)
  <1>1. \A x \in Blocks : x < m.fresh => x < n.fresh
    BY DEF Blocks, BlockManagerType
  <1>2. Members(q) \subseteq Blocks
    BY ListMembers
  <1>. QED
    BY <1>1, <1>2 DEF BPoolInv

LEMMA BVictimKept ==
  ASSUME NEW f, NEW m \in BlockManagerType, NEW n \in BlockManagerType, m.fresh <= n.fresh,
         NEW u, NEW v, NEW mv, NEW d, NEW c, BVictimInv(f, m, u, v, mv, d, c),
         v # NoBlock => v \notin Members(n.free_list)
  PROVE  BVictimInv(f, n, u, v, mv, d, c)
  <1>1. \A x \in Blocks : x < m.fresh => x < n.fresh
    BY DEF Blocks, BlockManagerType
  <1>. QED
    BY <1>1 DEF BVictimInv

LEMMA BGivenPage ==
  ASSUME SoundInv, stack # << >>, stack[1].proc \in {"page", "take"}, stack' = Tail(stack),
         bm' \in BlockManagerType, BListInv(flash, bm'), bm.fresh <= bm'.fresh,
         Members(bm'.free_list) \subseteq Members(bm.free_list),
         currentDataPage' \in Ppns,
         BCurInv(flash, bm', currentDataPage', TRUE, MapBlocks(block_map)),
         UNCHANGED <<flash, maps, cached, bvars>>
  PROVE  SoundInv'
  <1>1. /\ flash' = flash /\ ppn' = ppn /\ reverse_trans_map' = reverse_trans_map
        /\ block_map' = block_map /\ trim_map' = trim_map /\ inuseBlock' = inuseBlock
        /\ blockQueue' = blockQueue /\ stored' = stored /\ lost' = lost /\ cached' = cached
    BY DEF bvars, pool, history, maps
  <1>2. /\ BTypes /\ BStackSound(stack) /\ BPoolInv(bm, inuseBlock, blockQueue)
        /\ RequestInv(stack, bm, block_map, trim_map)
        /\ BMapInv(flash, bm, block_map)
        /\ BVictimInv(flash, bm, ppn, VictimIn(stack), MovedIn(stack), DoneIn(stack), CopyingIn(stack))
    BY DEF SoundInv
  <1>3. BStackSound(stack') /\ BSameViews(stack, stack')
    <2>1. stack[1].proc \notin {"erase", "cleanup", "copy"}
      OBVIOUS
    <2>. QED
      BY <1>2, <2>1, BReturnSound, BReturnViews
  <1>4. /\ VictimIn(stack') = VictimIn(stack) /\ MovedIn(stack') = MovedIn(stack)
        /\ DoneIn(stack') = DoneIn(stack) /\ CopyingIn(stack') = CopyingIn(stack)
    BY <1>3 DEF BSameViews
  <1>5. /\ (Len(stack) = 2 /\ Up(stack, 1).proc = "bwrite") \/ Len(stack) = 5
        /\ Len(stack) >= 2 /\ Len(stack') = Len(stack) - 1 /\ Up(stack', 1) = Up(stack, 1)
    <2>1. \/ Len(stack) = 2 /\ Up(stack, 1).proc = "bwrite"
          \/ Len(stack) = 5 /\ Up(stack, 4).proc = "copy"
      BY <1>2, BHeights
    <2>2. Len(stack) >= 2
      <3>1. \A n : n = 2 \/ n = 5 => n >= 2
        OBVIOUS
      <3>. QED
        BY <2>1, <3>1, Zenon
    <2>3. Len(stack') = Len(stack) - 1 /\ Up(stack', 1) = Up(stack, 1)
      BY <1>2, <2>2, BReturnTop
    <2>. QED
      BY <2>1, <2>2, <2>3
  <1>6. BTypes'
    BY <1>1, <1>2 DEF BTypes
  <1>7. FlashSound(flash)' /\ CountInv(flash)' /\ BListInv(flash, bm)'
    BY <1>1 DEF SoundInv
  <1>8. BCurInv(flash, bm, currentDataPage, BHanded(stack), MapBlocks(block_map))'
    <2>1. BCurInv(flash, bm', currentDataPage', BHanded(stack'), MapBlocks(block_map))
      BY DEF BCurInv
    <2>. QED
      BY <1>1, <2>1
  <1>9. BMapInv(flash, bm, block_map)' /\ NextInv(block_map)'
    <2>1. \A x \in Blocks : x < bm.fresh => x < bm'.fresh
      BY <1>2 DEF Blocks, BlockManagerType, BTypes
    <2>2. MapBlocks(block_map) \subseteq Blocks
      BY <1>2, MapBlocksOf DEF BTypes
    <2>3. BMapInv(flash, bm', block_map)
      BY <1>2, <2>1, <2>2 DEF BMapInv
    <2>. QED
      BY <1>1, <2>3 DEF SoundInv
  <1>10. BPoolInv(bm, inuseBlock, blockQueue)'
    <2>1. BPoolInv(bm', inuseBlock, blockQueue)
      BY <1>2, PoolKept DEF BTypes
    <2>. QED
      BY <1>1, <2>1
  <1>11. /\ BPlacesInv(flash, PlacesOf(ppn, MovedIn(stack)), MapBlocks(block_map))'
         /\ ReverseInv(ppn, reverse_trans_map, MovedIn(stack))'
         /\ OneMapInv(PlacesOf(ppn, MovedIn(stack)), block_map, trim_map, stored)'
         /\ ContentInv(flash, PlacesOf(ppn, MovedIn(stack)), block_map, stored, lost)'
    BY <1>1, <1>4 DEF SoundInv
  <1>12. BVictimInv(flash, bm, ppn, VictimIn(stack), MovedIn(stack), DoneIn(stack), CopyingIn(stack))'
    <2>1. bm \in BlockManagerType
      BY <1>2 DEF BTypes
    <2>2. VictimIn(stack) # NoBlock => VictimIn(stack) \notin Members(bm'.free_list)
      BY <1>2 DEF BVictimInv
    <2>3. BVictimInv(flash, bm', ppn, VictimIn(stack), MovedIn(stack), DoneIn(stack), CopyingIn(stack))
      BY <1>2, <2>1, <2>2, BVictimKept
    <2>. QED
      BY <1>1, <1>4, <2>3
  <1>13. RequestInv(stack, bm, block_map, trim_map)'
    <2>1. Up(stack, 1).proc # "bwrite" \/ Up(stack, 1).page = NoPpn
      BY <1>2, <1>5, NoPageGiven
    <2>2. Up(stack, 1).proc = "first" => (Len(stack') >= 2 <=> Len(stack) >= 2)
      BY <1>5
    <2>3. RequestInv(stack', bm', block_map, trim_map)
      BY <1>2, <1>5, <2>1, <2>2, RequestKept
    <2>. QED
      BY <1>1, <2>3
  <1>. QED
    BY <1>3, <1>6, <1>7, <1>8, <1>9, <1>10, <1>11, <1>12, <1>13 DEF SoundInv

LEMMA BNextPageKeeps ==
  ASSUME SoundInv, NextPage, UNCHANGED bvars
  PROVE  SoundInv'
  <1>1. BStackSound(stack) /\ stack # << >> /\ stack[1].proc \in {"page", "take"}
    BY BTop DEF NextPage
  <1>2. /\ stack' = Tail(stack) /\ bm' = bm /\ UNCHANGED <<flash, maps, cached>>
        /\ currentDataPage' = <<currentDataPage[1], currentDataPage[2] + 1>>
    BY DEF NextPage, Return, cache
  <1>3. /\ BTypes /\ BListInv(flash, bm)
        /\ BCurInv(flash, bm, currentDataPage, BHanded(stack), MapBlocks(block_map))
    BY DEF SoundInv
  <1>4. CanFill(currentDataPage)
    BY DEF NextPage, AtEnd, CanFill
  <1>5. currentDataPage' \in Ppns /\ BCurInv(flash, bm, currentDataPage', TRUE, MapBlocks(block_map))
    <2>. DEFINE p == <<currentDataPage[1], currentDataPage[2] + 1>>
    <2>1. p \in Ppns /\ BCurInv(flash, bm, p, TRUE, MapBlocks(block_map))
      <3>1. currentDataPage \in Ppns \cup {NoPpn}
        BY <1>3 DEF BTypes
      <3>. QED
        BY <1>3, <1>4, <3>1, BCurNext
    <2>2. currentDataPage' = p
      BY <1>2
    <2>. HIDE DEF p
    <2>. QED
      BY <2>1, <2>2
  <1>6. bm' \in BlockManagerType /\ bm.fresh <= bm'.fresh
    BY <1>2, <1>3 DEF BTypes, BlockManagerType
  <1>7. /\ BListInv(flash, bm') /\ Members(bm'.free_list) \subseteq Members(bm.free_list)
        /\ BCurInv(flash, bm', currentDataPage', TRUE, MapBlocks(block_map))
    BY <1>2, <1>3, <1>5
  <1>. QED
    BY <1>1, <1>2, <1>5, <1>6, <1>7, BGivenPage
LEMMA BFreshBlockKeeps ==
  ASSUME SoundInv, FreshBlock, UNCHANGED bvars
  PROVE  SoundInv'
  <1>1. BStackSound(stack) /\ stack # << >> /\ stack[1].proc \in {"page", "take"}
    BY BTop DEF FreshBlock
  <1>2. /\ stack' = Tail(stack) /\ bm' = GetFreeBlock(bm, "DATA") /\ UNCHANGED <<flash, maps, cached>>
        /\ currentDataPage' = FirstOf(bm.fresh) /\ FreshBlockLeft(bm)
    BY DEF FreshBlock, Return, cache, FirstOf
  <1>3. bm \in BlockManagerType /\ BListInv(flash, bm) /\ BMapInv(flash, bm, block_map)
    BY DEF SoundInv, BTypes
  <1>4. /\ bm' \in BlockManagerType /\ BListInv(flash, bm')
        /\ bm.fresh \in Blocks /\ bm'.fresh = bm.fresh + 1 /\ bm'.free_list = bm.free_list
        /\ bm.fresh \notin Members(bm'.free_list) /\ AllEmpty(flash, bm.fresh)
    BY <1>2, <1>3, BListFresh
  <1>5. bm.fresh <= bm'.fresh /\ bm.fresh < bm'.fresh
    BY <1>4 DEF Blocks
  <1>6. bm.fresh \notin MapBlocks(block_map)
    BY <1>3, <1>4 DEF BMapInv, Blocks
  <1>7. currentDataPage' \in Ppns /\ BCurInv(flash, bm', currentDataPage', TRUE, MapBlocks(block_map))
    BY <1>2, <1>4, <1>5, <1>6, BCurFirst
  <1>8. Members(bm'.free_list) \subseteq Members(bm.free_list)
    BY <1>4
  <1>. QED
    BY <1>1, <1>2, <1>4, <1>5, <1>7, <1>8, BGivenPage

LEMMA BFreeBlockKeeps ==
  ASSUME SoundInv, FreeBlock, UNCHANGED bvars
  PROVE  SoundInv'
  <1>1. BStackSound(stack) /\ stack # << >> /\ stack[1].proc \in {"page", "take"}
    <2>1. At("take") \/ At("page")
      BY DEF FreeBlock, TakesFreeBlock
    <2>. QED
      BY <2>1, BTop
  <1>2. /\ stack' = Tail(stack) /\ bm' = Beheaded(bm) /\ UNCHANGED <<flash, maps, cached>>
        /\ currentDataPage' = FirstOf(Head(bm.free_list)) /\ NonEmpty(bm.free_list)
    BY DEF FreeBlock, Return, cache, FirstOf, Beheaded, NonEmpty
  <1>3. bm \in BlockManagerType /\ BListInv(flash, bm) /\ BMapInv(flash, bm, block_map)
    BY DEF SoundInv, BTypes
  <1>. DEFINE b == Head(bm.free_list)
  <1>4. /\ bm' \in BlockManagerType /\ BListInv(flash, bm')
        /\ b \in Blocks /\ bm'.fresh = bm.fresh /\ b < bm.fresh /\ b \in Members(bm.free_list)
        /\ Members(bm'.free_list) \subseteq Members(bm.free_list)
        /\ b \notin Members(bm'.free_list) /\ AllEmpty(flash, b)
    BY <1>2, <1>3, BListTaken
  <1>5. currentDataPage' = FirstOf(b)
    BY <1>2
  <1>. HIDE DEF b
  <1>6. bm.fresh <= bm'.fresh /\ b < bm'.fresh
    BY <1>3, <1>4 DEF BlockManagerType
  <1>7. b \notin MapBlocks(block_map)
    BY <1>3, <1>4 DEF BMapInv
  <1>8. currentDataPage' \in Ppns /\ BCurInv(flash, bm', currentDataPage', TRUE, MapBlocks(block_map))
    BY <1>4, <1>5, <1>6, <1>7, BCurFirst
  <1>. QED
    BY <1>1, <1>2, <1>4, <1>6, <1>8, BGivenPage
\* A logical block gets a block.
LEMMA BGivenBlock ==
  ASSUME SoundInv, stack # << >>, stack[1].proc \in {"block", "btake"}, stack' = Tail(stack),
         bm' \in BlockManagerType, BListInv(flash, bm'), bm.fresh <= bm'.fresh,
         Members(bm'.free_list) \subseteq Members(bm.free_list),
         NEW b \in Blocks, AllEmpty(flash, b), b < bm'.fresh, b \notin Members(bm'.free_list),
         b \notin MapBlocks(block_map), CanFill(currentDataPage) => currentDataPage[1] # b,
         block_map' = Given(block_map, stack[1].lbn, b),
         UNCHANGED <<flash, maps, cached, currentDataPage, trim_map, pool, history>>
  PROVE  SoundInv'
  <1>1. /\ flash' = flash /\ ppn' = ppn /\ reverse_trans_map' = reverse_trans_map
        /\ currentDataPage' = currentDataPage /\ trim_map' = trim_map /\ inuseBlock' = inuseBlock
        /\ blockQueue' = blockQueue /\ stored' = stored /\ lost' = lost /\ cached' = cached
    BY DEF pool, history, maps
  <1>. DEFINE P == PlacesOf(ppn, MovedIn(stack))
              j == stack[1].lbn
              r == Up(stack, 1)
  <1>2. /\ BTypes /\ BStackSound(stack) /\ BPoolInv(bm, inuseBlock, blockQueue)
        /\ BCurInv(flash, bm, currentDataPage, BHanded(stack), MapBlocks(block_map))
        /\ RequestInv(stack, bm, block_map, trim_map)
        /\ BMapInv(flash, bm, block_map) /\ NextInv(block_map)
        /\ BPlacesInv(flash, P, MapBlocks(block_map))
        /\ OneMapInv(P, block_map, trim_map, stored)
        /\ ContentInv(flash, P, block_map, stored, lost)
        /\ BVictimInv(flash, bm, ppn, VictimIn(stack), MovedIn(stack), DoneIn(stack), CopyingIn(stack))
    BY DEF SoundInv
  <1>3. bm \in BlockManagerType /\ block_map \in BMapType
    BY <1>2 DEF BTypes
  <1>4. BStackSound(stack') /\ BSameViews(stack, stack')
    <2>1. stack[1].proc \notin {"erase", "cleanup", "copy"}
      OBVIOUS
    <2>. QED
      BY <1>2, <2>1, BReturnSound, BReturnViews
  <1>5. /\ VictimIn(stack') = VictimIn(stack) /\ MovedIn(stack') = MovedIn(stack)
        /\ DoneIn(stack') = DoneIn(stack) /\ CopyingIn(stack') = CopyingIn(stack)
    BY <1>4 DEF BSameViews
  <1>6. Len(stack) = 2 /\ r.proc = "first" /\ j = Lbn(r.lpn)
    BY <1>2, BUnder
  <1>7. Len(stack) >= 2
    BY <1>6
  <1>8. Len(stack') = Len(stack) - 1 /\ stack' # << >> /\ stack'[1] = Up(stack, Len(stack) - 1)
        /\ Up(stack', 1) = Up(stack, 1)
    BY <1>2, <1>7, BReturnTop
  <1>9. Len(stack') = 1 /\ stack'[1].proc = "first" /\ Up(stack', 1) = r
    BY <1>6, <1>8
  <1>10. j \in Lbns
    <2>1. stack[1] \in BFrames
      BY <1>2, BHeights
    <2>. QED
      BY <2>1, BFrameKinds DEF BlockFrame
  <1>11. /\ block_map[j].optimal /\ block_map[j].nextPage = 0 /\ Off(r.lpn) = 0 /\ ~trim_map[r.lpn]
         /\ block_map[j].pbn = NoBlock
    BY <1>2, <1>6, <1>7 DEF RequestInv
  <1>12. block_map' = Given(block_map, j, b)
    OBVIOUS
  <1>13. b \in Blocks /\ b # NoBlock
    BY DEF Blocks, NoBlock
  <1>. HIDE DEF P, j, r
  <1>14. /\ block_map' \in BMapType
         /\ \A i \in Lbns : i # j => block_map'[i] = block_map[i]
         /\ block_map'[j].pbn = b /\ block_map'[j].optimal = block_map[j].optimal
         /\ block_map'[j].nextPage = block_map[j].nextPage
    BY <1>3, <1>10, <1>12, GivenMap
  <1>15. BMapInv(flash, bm', block_map') /\ MapBlocks(block_map') \subseteq MapBlocks(block_map) \cup {b}
    <2>1. \A x \in MapBlocks(block_map) : x \notin Members(bm'.free_list)
      BY <1>2 DEF BMapInv
    <2>. QED
      BY <1>2, <1>3, <1>10, <1>12, <2>1, BMapGiven
  <1>16. NextInv(block_map')
    BY <1>2, <1>13, <1>14 DEF NextInv
  <1>17. BTypes'
    BY <1>1, <1>2, <1>14 DEF BTypes
  <1>18. FlashSound(flash)' /\ CountInv(flash)' /\ BListInv(flash, bm)'
    BY <1>1 DEF SoundInv
  <1>19. BCurInv(flash, bm, currentDataPage, BHanded(stack), MapBlocks(block_map))'
    <2>1. ~BHanded(stack')
      BY <1>9 DEF BHanded
    <2>2. currentDataPage # NoPpn => currentDataPage[1] \in Blocks
      BY <1>2 DEF BTypes, Ppns
    <2>3. \A x \in Blocks : x < bm.fresh => x < bm'.fresh
      BY <1>3 DEF Blocks, BlockManagerType
    <2>4. CanFill(currentDataPage) =>
            currentDataPage[1] \notin Members(bm'.free_list) /\ currentDataPage[1] \notin MapBlocks(block_map')
      BY <1>2, <1>15 DEF BCurInv
    <2>5. BCurInv(flash, bm', currentDataPage, BHanded(stack'), MapBlocks(block_map'))
      BY <1>2, <2>1, <2>2, <2>3, <2>4 DEF BCurInv
    <2>. QED
      BY <1>1, <2>5
  <1>20. BPoolInv(bm, inuseBlock, blockQueue)'
    <2>1. BPoolInv(bm', inuseBlock, blockQueue)
      BY <1>2, PoolKept DEF BTypes
    <2>. QED
      BY <1>1, <2>1
  <1>21. PlacesOf(ppn', MovedIn(stack')) = P
    BY <1>1, <1>5 DEF P
  <1>22. BPlacesInv(flash', P, MapBlocks(block_map'))
    <2>1. \A l \in Lpns : P[l] # NoPpn => P[l][1] # b
      <3>. SUFFICES ASSUME NEW l \in Lpns, P[l] # NoPpn, P[l][1] = b PROVE FALSE
        OBVIOUS
      <3>1. flash.page[P[l]] = "VALID"
        BY <1>2 DEF BPlacesInv
      <3>2. P[l] \in Ppns
        <4>1. PlacesOf(ppn, MovedIn(stack)) = ppn
          <5>1. Len(stack) <= 2
            BY <1>6
          <5>2. MovedIn(stack) = << >>
            BY <1>2, <5>1, ViewsByHeight DEF NoneIn
          <5>. QED
            BY <1>2, <5>2, PlacesAtRest DEF BTypes
        <4>. QED
          BY <1>2, <4>1 DEF P, BTypes
      <3>3. P[l] = <<b, P[l][2]>> /\ P[l][2] \in Offsets
        BY <3>2 DEF Ppns
      <3>. QED
        BY <3>1, <3>3 DEF AllEmpty
    <2>2. \A l \in Lpns : P[l] # NoPpn => SameAt(flash, flash', P[l]) /\ P[l][1] \notin MapBlocks(block_map')
      BY <1>1, <1>2, <1>15, <2>1 DEF SameAt, BPlacesInv
    <2>. QED
      BY <1>2, <2>2, BPlacesKept
  <1>23. ReverseInv(ppn, reverse_trans_map, MovedIn(stack))'
    BY <1>1, <1>5 DEF SoundInv
  <1>24. BVictimInv(flash, bm, ppn, VictimIn(stack), MovedIn(stack), DoneIn(stack), CopyingIn(stack))'
    <2>1. VictimIn(stack) # NoBlock => VictimIn(stack) \notin Members(bm'.free_list)
      BY <1>2 DEF BVictimInv
    <2>2. BVictimInv(flash, bm', ppn, VictimIn(stack), MovedIn(stack), DoneIn(stack), CopyingIn(stack))
      BY <1>2, <1>3, <2>1, BVictimKept
    <2>. QED
      BY <1>1, <1>5, <2>2
  <1>25. OneMapInv(P, block_map', trim_map', stored')
    <2>1. \A l \in Lpns : block_map'[Lbn(l)].optimal = block_map[Lbn(l)].optimal
      BY <1>14, LbnOff
    <2>. QED
      BY <1>1, <1>2, <2>1 DEF OneMapInv
  <1>26. ContentInv(flash', P, block_map', stored', lost')
    <2>. SUFFICES ASSUME NEW l \in Lpns \ lost, stored[l] # NoData
                  PROVE  SamePlace(flash, flash', P, P, block_map, block_map', stored, stored', lost, l)
      BY <1>1, <1>2, ContentStep
    <2>1. Lbn(l) \in Lbns
      BY LbnOff
    <2>2. Lbn(l) # j
      <3>. SUFFICES ASSUME Lbn(l) = j PROVE FALSE
        OBVIOUS
      <3>1. Where(P, block_map, l) = NoPpn
        BY <1>11 DEF Where
      <3>. QED
        BY <1>2, <3>1 DEF ContentInv, Holds
    <2>3. Where(P, block_map', l) = Where(P, block_map, l)
      BY <1>14, <2>1, <2>2 DEF Where
    <2>. QED
      BY <1>1, <2>3 DEF SamePlace, SameAt
  <1>27. RequestInv(stack', bm', block_map', trim_map')
    <2>1. ~(Len(stack') >= 2)
      <3>1. \A n : n = 1 => ~(n >= 2)
        OBVIOUS
      <3>. QED
        BY <1>9, <3>1, Zenon
    <2>2. block_map'[j].optimal /\ block_map'[j].nextPage = 0 /\ block_map'[j].pbn # NoBlock
      BY <1>11, <1>13, <1>14
    <2>. QED
      BY <1>1, <1>6, <1>9, <1>11, <2>1, <2>2 DEF RequestInv
  <1>. QED
    <2>1. /\ BStackSound(stack)' /\ BMapInv(flash, bm, block_map)' /\ NextInv(block_map)'
          /\ RequestInv(stack, bm, block_map, trim_map)'
          /\ BPlacesInv(flash, PlacesOf(ppn, MovedIn(stack)), MapBlocks(block_map))'
          /\ OneMapInv(PlacesOf(ppn, MovedIn(stack)), block_map, trim_map, stored)'
          /\ ContentInv(flash, PlacesOf(ppn, MovedIn(stack)), block_map, stored, lost)'
      BY <1>1, <1>4, <1>15, <1>16, <1>21, <1>22, <1>25, <1>26, <1>27
    <2>. QED
      BY <1>17, <1>18, <1>19, <1>20, <1>23, <1>24, <2>1 DEF SoundInv
LEMMA BFreshForBlockKeeps ==
  ASSUME SoundInv, FreshForBlock
  PROVE  SoundInv'
  <1>1. /\ BStackSound(stack) /\ stack # << >> /\ stack[1].proc \in {"block", "btake"}
        /\ top = stack[1]
    BY BTop DEF FreshForBlock
  <1>2. /\ stack' = Tail(stack) /\ bm' = GetFreeBlock(bm, "DATA") /\ FreshBlockLeft(bm)
        /\ block_map' = Given(block_map, stack[1].lbn, bm.fresh)
        /\ UNCHANGED <<flash, maps, cached, currentDataPage, trim_map, pool, history>>
    BY <1>1 DEF FreshForBlock, GiveBlock, Return, cache, Given
  <1>3. /\ bm \in BlockManagerType /\ BListInv(flash, bm) /\ BMapInv(flash, bm, block_map)
        /\ BCurInv(flash, bm, currentDataPage, BHanded(stack), MapBlocks(block_map))
    BY DEF SoundInv, BTypes
  <1>4. /\ bm' \in BlockManagerType /\ BListInv(flash, bm')
        /\ bm.fresh \in Blocks /\ bm'.fresh = bm.fresh + 1 /\ bm'.free_list = bm.free_list
        /\ bm.fresh \notin Members(bm'.free_list) /\ AllEmpty(flash, bm.fresh)
    BY <1>2, <1>3, BListFresh
  <1>5. bm.fresh <= bm'.fresh /\ bm.fresh < bm'.fresh /\ ~(bm.fresh < bm.fresh)
    BY <1>4 DEF Blocks
  <1>6. bm.fresh \notin MapBlocks(block_map)
    BY <1>3, <1>5 DEF BMapInv
  <1>7. CanFill(currentDataPage) => currentDataPage[1] # bm.fresh
    BY <1>3, <1>5 DEF BCurInv, CanFill
  <1>8. Members(bm'.free_list) \subseteq Members(bm.free_list)
    BY <1>4
  <1>. QED
    BY <1>1, <1>2, <1>4, <1>5, <1>6, <1>7, <1>8, BGivenBlock

LEMMA BFreeForBlockKeeps ==
  ASSUME SoundInv, FreeForBlock
  PROVE  SoundInv'
  <1>1. /\ BStackSound(stack) /\ stack # << >> /\ stack[1].proc \in {"block", "btake"}
        /\ top = stack[1]
    <2>1. At("btake") \/ At("block")
      BY DEF FreeForBlock, TakesFreeForBlock
    <2>. QED
      BY <2>1, BTop
  <1>. DEFINE b == Head(bm.free_list)
  <1>2. /\ stack' = Tail(stack) /\ bm' = Beheaded(bm) /\ NonEmpty(bm.free_list)
        /\ block_map' = Given(block_map, stack[1].lbn, b)
        /\ UNCHANGED <<flash, maps, cached, currentDataPage, trim_map, pool, history>>
    BY <1>1 DEF FreeForBlock, GiveBlock, Return, cache, Given, Beheaded, NonEmpty
  <1>3. /\ bm \in BlockManagerType /\ BListInv(flash, bm) /\ BMapInv(flash, bm, block_map)
        /\ BCurInv(flash, bm, currentDataPage, BHanded(stack), MapBlocks(block_map))
    BY DEF SoundInv, BTypes
  <1>4. /\ bm' \in BlockManagerType /\ BListInv(flash, bm')
        /\ b \in Blocks /\ bm'.fresh = bm.fresh /\ b < bm.fresh /\ b \in Members(bm.free_list)
        /\ Members(bm'.free_list) \subseteq Members(bm.free_list)
        /\ b \notin Members(bm'.free_list) /\ AllEmpty(flash, b)
    BY <1>2, <1>3, BListTaken
  <1>. HIDE DEF b
  <1>5. bm.fresh <= bm'.fresh /\ b < bm'.fresh
    BY <1>3, <1>4 DEF BlockManagerType
  <1>6. b \notin MapBlocks(block_map)
    BY <1>3, <1>4 DEF BMapInv
  <1>7. CanFill(currentDataPage) => currentDataPage[1] # b
    BY <1>3, <1>4 DEF BCurInv
  <1>. QED
    BY <1>1, <1>2, <1>4, <1>5, <1>6, <1>7, BGivenBlock
---------------------------------------------------------------------------
(* cleanup_block.                                                          *)

\* The place of a page, while its mapping may wait for the end of a cleanup.
LEMMA BPageHere ==
  ASSUME BStackSound(stack), NEW l
  PROVE  PageOf(l) = PlaceIn(ppn, MovedIn(stack), l)
  <1>1. stack \in Seq(BFrames) /\ Len(stack) \in 0 .. 6
    <2>1. stack \in Seq(BFrames) /\ Len(stack) <= 6
      BY DEF BStackSound
    <2>2. \A s \in Seq(BFrames) : Len(s) \in Nat
      OBVIOUS
    <2>3. \A n \in Nat : n <= 6 => n \in 0 .. 6
      OBVIOUS
    <2>. QED
      BY <2>1, <2>2, <2>3, Zenon
  <1>2. \A f : f \in Moves <=> \E h \in 1 .. Len(stack) : f = Up(stack, h) /\ f.proc \in {"cleanup", "copy"}
    <2>1. DOMAIN stack = 1 .. Len(stack)
      BY <1>1
    <2>2. \A h \in 1 .. Len(stack) : Len(stack) + 1 - h \in 1 .. Len(stack)
                                     /\ Len(stack) + 1 - (Len(stack) + 1 - h) = h
      BY <1>1
    <2>3. \A f : f \in Moves <=> \E i \in 1 .. Len(stack) : f = stack[i] /\ f.proc \in {"cleanup", "copy"}
      BY <2>1 DEF Moves, Range
    <2>. QED
      BY <2>2, <2>3 DEF Up
  <1>3. \A h \in 1 .. Len(stack) : Up(stack, h).proc \in {"cleanup", "copy"} => h = 4
    <2>. SUFFICES ASSUME NEW h \in 1 .. Len(stack), h # 4 PROVE Up(stack, h).proc \notin {"cleanup", "copy"}
      OBVIOUS
    <2>1. h \in {1, 2, 3, 5, 6} /\ Len(stack) >= h /\ Len(stack) >= 1
      <3>1. \A n \in 0 .. 6 : \A i \in 1 .. n :
              i # 4 => (i = 1 \/ i = 2 \/ i = 3 \/ i = 5 \/ i = 6) /\ n >= i /\ n >= 1
        OBVIOUS
      <3>2. (h = 1 \/ h = 2 \/ h = 3 \/ h = 5 \/ h = 6) /\ Len(stack) >= h /\ Len(stack) >= 1
        BY <1>1, <3>1, Zenon
      <3>. QED
        BY <3>2, Zenon
    <2>2. CASE h = 1
      BY <2>1, <2>2 DEF BStackSound
    <2>3. CASE h = 2
      BY <2>1, <2>3 DEF BStackSound
    <2>4. CASE h = 3
      BY <2>1, <2>4 DEF BStackSound
    <2>5. CASE h = 5
      BY <2>1, <2>5 DEF BStackSound
    <2>6. CASE h = 6
      BY <2>1, <2>6 DEF BStackSound
    <2>. QED
      BY <2>1, <2>2, <2>3, <2>4, <2>5, <2>6
  <1>4. CASE ~(Len(stack) >= 4)
    <2>1. \A h \in 1 .. Len(stack) : h # 4
      BY <1>1, <1>4
    <2>2. Moves = {}
      BY <1>2, <1>3, <2>1
    <2>3. MovedIn(stack) = << >>
      BY <1>4 DEF MovedIn
    <2>. QED
      BY <2>2, <2>3 DEF PageOf, PlaceIn
  <1>5. CASE Len(stack) >= 4
    <2>. DEFINE c == Up(stack, 4)
    <2>1. 4 \in 1 .. Len(stack) /\ c.proc \in {"cleanup", "copy"}
      BY <1>1, <1>5 DEF BStackSound
    <2>2. \A f : f \in Moves <=> f = c
      BY <1>2, <1>3, <2>1
    <2>3. Moves = {c}
      BY <2>2
    <2>4. MovedIn(stack) = c.invalidated_translation
      BY <1>5, ViewsByHeight
    <2>. HIDE DEF c
    <2>5. (\E f \in Moves : l \in DOMAIN f.invalidated_translation) <=> l \in DOMAIN c.invalidated_translation
      BY <2>2
    <2>6. l \in DOMAIN c.invalidated_translation
            => (CHOOSE f \in Moves : l \in DOMAIN f.invalidated_translation) = c
      BY <2>3
    <2>. QED
      BY <2>4, <2>5, <2>6 DEF PageOf, PlaceIn
  <1>. QED
    BY <1>4, <1>5

\* cleanup_block on top.
LEMMA BCleanupTop ==
  ASSUME SoundInv, NEW proc \in {"cleanup", "copy"}, At(proc)
  PROVE  /\ BStackSound(stack) /\ stack # << >> /\ top = stack[1] /\ top.proc = proc
         /\ top \in BFrames /\ top \in CleanupFrame /\ Len(stack) = 4
         /\ top.block \in Blocks /\ top.block # NoBlock /\ top.i \in 0 .. BLOCK_SIZE
         /\ DOMAIN top.invalidated_translation \in SUBSET Lpns
         /\ top.invalidated_translation \in [DOMAIN top.invalidated_translation -> Ppns]
         /\ VictimIn(stack) = top.block /\ MovedIn(stack) = top.invalidated_translation
         /\ DoneIn(stack) = top.i /\ CopyingIn(stack) = (proc = "copy")
  <1>1. /\ BStackSound(stack) /\ stack # << >> /\ top = stack[1] /\ top.proc = proc
        /\ stack[1] \in BFrames /\ Up(stack, Len(stack)) = stack[1]
    BY BTop
  <1>2. Len(stack) = 4
    BY <1>1, BUnder
  <1>3. top \in BFrames /\ top \in CleanupFrame
    BY <1>1, BFrameKinds
  <1>4. /\ top.block \in Blocks /\ top.i \in 0 .. BLOCK_SIZE
        /\ DOMAIN top.invalidated_translation \in SUBSET Lpns
        /\ top.invalidated_translation \in [DOMAIN top.invalidated_translation -> Ppns]
    BY <1>3 DEF CleanupFrame
  <1>5. top.block # NoBlock
    BY <1>4 DEF Blocks, NoBlock
  <1>6. Up(stack, 4) = top /\ Len(stack) >= 4
    BY <1>1, <1>2
  <1>7. /\ VictimIn(stack) = top.block /\ MovedIn(stack) = top.invalidated_translation
        /\ DoneIn(stack) = top.i /\ CopyingIn(stack) = (top.proc = "copy")
    BY <1>1, <1>6, ViewsByHeight
  <1>. QED
    BY <1>1, <1>2, <1>3, <1>4, <1>5, <1>7

\* The page cleanup_block is at.
LEMMA BOldPpn ==
  ASSUME SoundInv, NEW proc \in {"cleanup", "copy"}, At(proc), top.i < BLOCK_SIZE
  PROVE  OldPpn \in Ppns /\ OldPpn = <<top.block, top.i>> /\ OldPpn[1] = top.block /\ top.i \in Offsets
  <1>1. top.block \in Blocks /\ top.i \in 0 .. BLOCK_SIZE
    BY BCleanupTop
  <1>2. top.i \in Offsets
    BY <1>1, GeometryAssumption DEF Offsets
  <1>. QED
    BY <1>1, <1>2 DEF OldPpn, Ppns

\* A step of a collection that copies nothing.
LEMMA BViewStep ==
  ASSUME SoundInv, BStackSound(stack'), ~BHanded(stack'), stack # << >>, Len(stack) >= 2,
         Len(stack') >= 2, Up(stack', 1) = Up(stack, 1), MovedIn(stack') = MovedIn(stack),
         BVictimInv(flash, bm, ppn, VictimIn(stack'), MovedIn(stack'), DoneIn(stack'), CopyingIn(stack')),
         UNCHANGED <<flash, bm, maps, cached, currentDataPage, block_map, trim_map, pool, stored, lost>>
  PROVE  SoundInv'
  <1>1. /\ flash' = flash /\ bm' = bm /\ ppn' = ppn /\ reverse_trans_map' = reverse_trans_map
        /\ currentDataPage' = currentDataPage
        /\ block_map' = block_map /\ trim_map' = trim_map /\ inuseBlock' = inuseBlock
        /\ blockQueue' = blockQueue /\ stored' = stored /\ lost' = lost /\ cached' = cached
    BY DEF pool, maps
  <1>2. BTypes'
    BY <1>1 DEF SoundInv, BTypes
  <1>3. BCurInv(flash, bm, currentDataPage, BHanded(stack), MapBlocks(block_map))'
    <2>1. BCurInv(flash, bm, currentDataPage, BHanded(stack), MapBlocks(block_map))
      BY DEF SoundInv
    <2>2. BCurInv(flash, bm, currentDataPage, BHanded(stack'), MapBlocks(block_map))
      BY <2>1 DEF BCurInv
    <2>. QED
      BY <1>1, <2>2
  <1>4. RequestInv(stack, bm, block_map, trim_map)'
    <2>1. RequestInv(stack, bm, block_map, trim_map) /\ BStackSound(stack)
      BY DEF SoundInv
    <2>2. Up(stack, 1).proc # "bwrite" \/ Up(stack, 1).page = NoPpn
      BY <2>1, NoPageGiven
    <2>3. RequestInv(stack', bm, block_map, trim_map)
      BY <2>1, <2>2, RequestKept
    <2>. QED
      BY <1>1, <2>3
  <1>5. BVictimInv(flash, bm, ppn, VictimIn(stack), MovedIn(stack), DoneIn(stack), CopyingIn(stack))'
    BY <1>1
  <1>6. /\ FlashSound(flash)' /\ CountInv(flash)' /\ BListInv(flash, bm)'
        /\ BMapInv(flash, bm, block_map)' /\ NextInv(block_map)'
        /\ BPoolInv(bm, inuseBlock, blockQueue)'
        /\ BPlacesInv(flash, PlacesOf(ppn, MovedIn(stack)), MapBlocks(block_map))'
        /\ ReverseInv(ppn, reverse_trans_map, MovedIn(stack))'
        /\ OneMapInv(PlacesOf(ppn, MovedIn(stack)), block_map, trim_map, stored)'
        /\ ContentInv(flash, PlacesOf(ppn, MovedIn(stack)), block_map, stored, lost)'
    BY <1>1 DEF SoundInv
  <1>. QED
    BY <1>2, <1>3, <1>4, <1>5, <1>6 DEF SoundInv
LEMMA BStartCleanupKeeps ==
  ASSUME SoundInv, StartCleanup, Moves = {},
         UNCHANGED <<block_map, trim_map, pool, stored, lost>>
  PROVE  SoundInv'
  <1>1. /\ BStackSound(stack) /\ stack # << >> /\ stack[1].proc = "insert" /\ top = stack[1]
        /\ stack[1] \in BFrames /\ stack \in Seq(BFrames)
    BY BTop DEF StartCleanup
  <1>2. Len(stack) = 3 /\ Up(stack, 3) = stack[1]
    <2>1. Len(stack) \in {3, 6} /\ Up(stack, Len(stack)) = stack[1]
      BY <1>1, BHeights
    <2>2. Len(stack) # 6
      <3>. SUFFICES ASSUME Len(stack) = 6 PROVE FALSE
        OBVIOUS
      <3>1. Len(stack) >= 5 /\ Up(stack, 4) = stack[3] /\ 3 \in 1 .. Len(stack)
        BY DEF Up
      <3>2. stack[3].proc = "copy"
        BY <1>1, <3>1 DEF BStackSound
      <3>3. DOMAIN stack = 1 .. Len(stack)
        BY <1>1
      <3>. QED
        BY <3>1, <3>2, <3>3 DEF Moves, Range
    <2>. QED
      BY <2>1, <2>2
  <1>. DEFINE v == top.it
              f == [proc |-> "cleanup", block |-> v, i |-> 0, invalidated_translation |-> << >>]
              g == [top EXCEPT !.proc = "erase"]
  <1>3. top \in InsertFrame /\ v \in Blocks /\ top.num_to_erase # 0 /\ flash.pages_valid[v] = BLOCK_SIZE
    BY <1>1, BFrameKinds DEF StartCleanup, LoopOn, Collectable, InsertFrame
  <1>4. g \in BFrames /\ g.proc = "erase" /\ g.it = v
    <2>1. g \in InsertFrame /\ g.proc = "erase" /\ g.num_to_erase # 0 /\ g.it = v
      BY <1>1, <1>3 DEF InsertFrame
    <2>. QED
      BY <2>1 DEF BFrames, LiveFrames, Frames
  <1>5. /\ f \in BFrames /\ f.proc = "cleanup" /\ f.block = v /\ f.i = 0
        /\ f.invalidated_translation = << >>
    <2>1. << >> \in [{} -> Ppns] /\ {} \in SUBSET Lpns /\ 0 \in 0 .. BLOCK_SIZE
      BY GeometryAssumption
    <2>2. << >> \in UNION {[L -> Ppns] : L \in SUBSET Lpns}
      BY <2>1
    <2>3. f \in CleanupFrame /\ f.proc = "cleanup"
      BY <1>3, <2>1, <2>2 DEF CleanupFrame
    <2>4. f \in BFrames
      BY <2>3 DEF BFrames, LiveFrames, Frames
    <2>. QED
      BY <2>4
  <1>6. stack' = Calling(f, g, stack)
    BY DEF StartCleanup, Call, Calling
  <1>7. /\ flash \in FlashType /\ CountInv(flash) /\ BListInv(flash, bm) /\ bm \in BlockManagerType
    BY DEF SoundInv, FlashSound, BTypes
  <1>. HIDE DEF v, f, g
  <1>8. BStackSound(stack')
    <2>1. stack[1].proc = "insert" /\ Len(stack) = 3 /\ f.proc = "cleanup" /\ g.proc = "erase" /\ f.block = g.it
      BY <1>1, <1>2, <1>4, <1>5
    <2>. QED
      BY <1>1, <1>4, <1>5, <1>6, <2>1, BCallSound
  <1>9. /\ Len(stack') = 4 /\ stack' # << >> /\ Up(stack', 4) = f /\ Up(stack', 1) = Up(stack, 1)
        /\ stack'[1] = f
    <2>1. /\ stack' \in Seq(BFrames) /\ Len(stack') = Len(stack) + 1 /\ stack' # << >>
          /\ Up(stack', Len(stack) + 1) = f
          /\ \A k \in 1 .. Len(stack) - 1 : Up(stack', k) = Up(stack, k)
      BY <1>1, <1>4, <1>5, <1>6, UpCall
    <2>2. Len(stack') = 4 /\ Up(stack', 4) = f
      BY <1>2, <2>1
    <2>3. 1 \in 1 .. Len(stack) - 1
      BY <1>2
    <2>4. Up(stack', Len(stack')) = stack'[1]
      BY <2>1, UpTop
    <2>. QED
      BY <2>1, <2>2, <2>3, <2>4
  <1>10. Len(stack) >= 2 /\ Len(stack') >= 2 /\ Len(stack') >= 4
    BY <1>2, <1>9
  <1>11. /\ VictimIn(stack') = v /\ MovedIn(stack') = << >> /\ DoneIn(stack') = 0
         /\ CopyingIn(stack') = FALSE
    <2>1. /\ VictimIn(stack') = Up(stack', 4).block
          /\ MovedIn(stack') = Up(stack', 4).invalidated_translation
          /\ DoneIn(stack') = Up(stack', 4).i
          /\ CopyingIn(stack') = (Up(stack', 4).proc = "copy")
      BY <1>8, <1>10, ViewsByHeight
    <2>2. Up(stack', 4) = f
      BY <1>9
    <2>. QED
      BY <1>5, <2>1, <2>2
  <1>12. MovedIn(stack) = << >>
    BY <1>1, <1>2, ViewsByHeight DEF NoneIn
  <1>13. \A o \in Offsets : flash.page[<<v, o>>] # "EMPTY"
    BY <1>3, <1>7, FullBlock
  <1>14. v < bm.fresh /\ v \notin Members(bm.free_list)
    <2>1. 0 \in Offsets
      BY GeometryAssumption DEF Offsets
    <2>2. ~AllEmpty(flash, v)
      BY <1>13, <2>1 DEF AllEmpty
    <2>3. ~(v >= bm.fresh) /\ v \notin Members(bm.free_list)
      BY <1>3, <1>7, <2>2 DEF BListInv
    <2>. QED
      BY <1>3, <1>7, <2>3 DEF Blocks, BlockManagerType
  <1>15. BVictimInv(flash, bm, ppn, v, << >>, 0, FALSE)
    <2>1. \A o \in Offsets : ~(o < 0)
      BY DEF Offsets
    <2>2. DOMAIN << >> = {}
      OBVIOUS
    <2>. QED
      BY <1>3, <1>13, <1>14, <2>1, <2>2 DEF BVictimInv
  <1>16. ~BHanded(stack')
    BY <1>5, <1>9 DEF BHanded
  <1>17. UNCHANGED <<flash, bm, maps, cached, currentDataPage, block_map, trim_map, pool, stored, lost>>
    BY DEF StartCleanup, cache
  <1>18. BVictimInv(flash, bm, ppn, VictimIn(stack'), MovedIn(stack'), DoneIn(stack'), CopyingIn(stack'))
    BY <1>11, <1>15
  <1>19. MovedIn(stack') = MovedIn(stack)
    BY <1>11, <1>12
  <1>. QED
    BY <1>1, <1>8, <1>9, <1>10, <1>16, <1>17, <1>18, <1>19, BViewStep

LEMMA BSkipPageKeeps ==
  ASSUME SoundInv, SkipPage, UNCHANGED bvars
  PROVE  SoundInv'
  <1>1. At("cleanup") /\ top.i < BLOCK_SIZE /\ flash.page[OldPpn] = "INVALID"
    BY DEF SkipPage, InLoop
  <1>2. /\ BStackSound(stack) /\ stack # << >> /\ top = stack[1] /\ top.proc = "cleanup"
        /\ top \in BFrames /\ top \in CleanupFrame /\ Len(stack) = 4
        /\ top.block \in Blocks /\ top.block # NoBlock /\ top.i \in 0 .. BLOCK_SIZE
        /\ DOMAIN top.invalidated_translation \in SUBSET Lpns
        /\ top.invalidated_translation \in [DOMAIN top.invalidated_translation -> Ppns]
        /\ VictimIn(stack) = top.block /\ MovedIn(stack) = top.invalidated_translation
        /\ DoneIn(stack) = top.i /\ CopyingIn(stack) = FALSE
    BY <1>1, BCleanupTop
  <1>3. OldPpn = <<top.block, top.i>> /\ top.i \in Offsets
    BY <1>1, BOldPpn
  <1>. DEFINE f == [top EXCEPT !.i = @ + 1]
              m == top.invalidated_translation
  <1>4. stack' = Becoming(f, stack)
    BY DEF SkipPage, Become, Becoming
  <1>5. f = Advanced(top, m)
    BY <1>2 DEF CleanupFrame, Advanced
  <1>. HIDE DEF f
  <1>6. /\ f \in BFrames /\ f.proc = "cleanup" /\ f.block = top.block /\ f.i = top.i + 1
        /\ f.invalidated_translation = m
    <2>1. /\ f \in LiveFrames /\ f.proc = "cleanup" /\ f.block = top.block /\ f.i = top.i + 1
          /\ f.invalidated_translation = m
      BY <1>1, <1>2, <1>5, NextFrame
    <2>. QED
      BY <2>1 DEF BFrames
  <1>7. BStackSound(stack')
    <2>1. SameStep(f, stack[1])
      BY <1>2, <1>6 DEF SameStep
    <2>. QED
      BY <1>2, <1>4, <1>6, <2>1, BBecomeSound
  <1>8. Len(stack) >= 2
    BY <1>2
  <1>9. Len(stack') = Len(stack) /\ stack' # << >> /\ stack'[1] = f /\ Up(stack', 1) = Up(stack, 1)
    <2>1. BStackSound(stack) /\ stack # << >> /\ f \in BFrames
      BY <1>2, <1>6
    <2>. QED
      BY <1>4, <1>8, <2>1, BBecomeTop
  <1>10. Len(stack') >= 4 /\ Len(stack') >= 2 /\ Len(stack') = 4
    BY <1>2, <1>9
  <1>11. Up(stack', 4) = f
    BY <1>7, <1>9, <1>10, BHeights
  <1>12. /\ VictimIn(stack') = f.block /\ MovedIn(stack') = f.invalidated_translation
         /\ DoneIn(stack') = f.i /\ CopyingIn(stack') = (f.proc = "copy")
    BY <1>7, <1>10, <1>11, ViewsByHeight
  <1>13. MovedIn(stack') = MovedIn(stack)
    BY <1>2, <1>6, <1>12
  <1>14. BVictimInv(flash, bm, ppn, VictimIn(stack'), MovedIn(stack'), DoneIn(stack'), CopyingIn(stack'))
    <2>1. BVictimInv(flash, bm, ppn, top.block, m, top.i, FALSE)
      BY <1>2 DEF SoundInv
    <2>2. \A o \in Offsets : o < top.i + 1 => o < top.i \/ o = top.i
      BY <1>3 DEF Offsets
    <2>3. BVictimInv(flash, bm, ppn, top.block, m, top.i + 1, FALSE)
      BY <1>1, <1>2, <1>3, <2>1, <2>2 DEF BVictimInv
    <2>4. /\ VictimIn(stack') = top.block /\ MovedIn(stack') = m
          /\ DoneIn(stack') = top.i + 1 /\ CopyingIn(stack') = FALSE
      BY <1>6, <1>12
    <2>. QED
      BY <2>3, <2>4
  <1>15. ~BHanded(stack')
    BY <1>6, <1>9 DEF BHanded
  <1>16. UNCHANGED <<flash, bm, maps, cached, currentDataPage, block_map, trim_map, pool, stored, lost>>
    BY DEF SkipPage, cache, bvars, history
  <1>. QED
    BY <1>2, <1>7, <1>8, <1>9, <1>10, <1>13, <1>14, <1>15, <1>16, BViewStep

LEMMA BStartCopyKeeps ==
  ASSUME SoundInv, StartCopy, Owned(OldPpn),
         UNCHANGED <<block_map, trim_map, pool, stored, lost>>
  PROVE  SoundInv'
  <1>1. At("cleanup") /\ top.i < BLOCK_SIZE /\ flash.page[OldPpn] = "VALID"
    BY DEF StartCopy, InLoop
  <1>2. /\ BStackSound(stack) /\ stack # << >> /\ top = stack[1] /\ top.proc = "cleanup"
        /\ top \in BFrames /\ top \in CleanupFrame /\ Len(stack) = 4
        /\ top.block \in Blocks /\ top.block # NoBlock /\ top.i \in 0 .. BLOCK_SIZE
        /\ DOMAIN top.invalidated_translation \in SUBSET Lpns
        /\ VictimIn(stack) = top.block /\ MovedIn(stack) = top.invalidated_translation
        /\ DoneIn(stack) = top.i /\ CopyingIn(stack) = FALSE
    BY <1>1, BCleanupTop
  <1>3. OldPpn \in Ppns /\ OldPpn = <<top.block, top.i>> /\ OldPpn[1] = top.block /\ top.i \in Offsets
    BY <1>1, BOldPpn
  <1>. DEFINE f == [proc |-> "page"]
              g == [top EXCEPT !.proc = "copy"]
              m == top.invalidated_translation
  <1>4. f \in BFrames /\ f.proc = "page"
    BY DEF BFrames, LiveFrames, Frames, PageFrame
  <1>5. /\ g \in BFrames /\ g.proc = "copy" /\ g.block = top.block /\ g.i = top.i
        /\ g.invalidated_translation = m
    <2>1. /\ g \in CleanupFrame /\ g.proc = "copy" /\ g.block = top.block /\ g.i = top.i
          /\ g.invalidated_translation = m
      BY <1>2 DEF CleanupFrame
    <2>. QED
      BY <1>1, <2>1 DEF BFrames, LiveFrames, Frames
  <1>6. stack' = Calling(f, g, stack)
    BY DEF StartCopy, Call, Calling
  <1>. HIDE DEF f, g
  <1>7. BStackSound(stack')
    <2>1. stack[1].proc = "cleanup" /\ f.proc = "page" /\ g.proc = "copy" /\ g.block = stack[1].block
      BY <1>2, <1>4, <1>5
    <2>. QED
      BY <1>2, <1>4, <1>5, <1>6, <2>1, BCallSound
  <1>8. /\ Len(stack') = 5 /\ stack' # << >> /\ Up(stack', 4) = g /\ Up(stack', 1) = Up(stack, 1)
        /\ stack'[1] = f
    <2>1. /\ stack' \in Seq(BFrames) /\ Len(stack') = Len(stack) + 1 /\ stack' # << >>
          /\ Up(stack', Len(stack) + 1) = f /\ Up(stack', Len(stack)) = g
          /\ \A k \in 1 .. Len(stack) - 1 : Up(stack', k) = Up(stack, k)
      <3>1. stack \in Seq(BFrames) /\ stack # << >> /\ f \in BFrames /\ g \in BFrames
        BY <1>2, <1>4, <1>5 DEF BStackSound
      <3>. QED
        BY <1>6, <3>1, UpCall
    <2>2. Len(stack') = 5 /\ Up(stack', 4) = g /\ Up(stack', 5) = f
      BY <1>2, <2>1
    <2>3. 1 \in 1 .. Len(stack) - 1
      BY <1>2
    <2>4. Up(stack', Len(stack')) = stack'[1]
      BY <2>1, UpTop
    <2>. QED
      BY <2>1, <2>2, <2>3, <2>4
  <1>9. Len(stack) >= 2 /\ Len(stack') >= 2 /\ Len(stack') >= 4
    BY <1>2, <1>8
  <1>10. /\ VictimIn(stack') = top.block /\ MovedIn(stack') = m /\ DoneIn(stack') = top.i
         /\ CopyingIn(stack') = TRUE
    <2>1. /\ VictimIn(stack') = g.block /\ MovedIn(stack') = g.invalidated_translation
          /\ DoneIn(stack') = g.i /\ CopyingIn(stack') = (g.proc = "copy")
      BY <1>7, <1>8, <1>9, ViewsByHeight
    <2>. QED
      BY <1>5, <2>1
  <1>11. MovedIn(stack') = MovedIn(stack)
    BY <1>2, <1>10
  <1>12. BVictimInv(flash, bm, ppn, top.block, m, top.i, TRUE)
    <2>1. BVictimInv(flash, bm, ppn, top.block, m, top.i, FALSE)
      BY <1>2 DEF SoundInv
    <2>2. PICK l \in Lpns : PageOf(l) = OldPpn
      BY DEF Owned
    <2>3. PlaceIn(ppn, m, l) = OldPpn
      BY <1>2, <2>2, BPageHere
    <2>4. l \notin DOMAIN m
      BY <1>2, <1>3, <2>1, <2>3 DEF BVictimInv, PlaceIn
    <2>5. ppn[l] = <<top.block, top.i>>
      BY <1>3, <2>3, <2>4 DEF PlaceIn
    <2>6. \E n \in Lpns \ DOMAIN m : ppn[n] = <<top.block, top.i>>
      BY <2>4, <2>5
    <2>. QED
      BY <1>1, <1>3, <2>1, <2>6 DEF BVictimInv
  <1>13. BVictimInv(flash, bm, ppn, VictimIn(stack'), MovedIn(stack'), DoneIn(stack'), CopyingIn(stack'))
    BY <1>10, <1>12
  <1>14. ~BHanded(stack')
    BY <1>4, <1>8 DEF BHanded
  <1>15. UNCHANGED <<flash, bm, maps, cached, currentDataPage, block_map, trim_map, pool, stored, lost>>
    BY DEF StartCopy, cache
  <1>. QED
    BY <1>2, <1>7, <1>8, <1>9, <1>11, <1>13, <1>14, <1>15, BViewStep
\* A page of the page map gets another place: every page holds what it did, but
\* for the one written.
Restored(e, lo, l, d, e2, lo2) ==
  /\ \A n \in Lpns : n # l => e2[n] = e[n] /\ (n \in lo => n \in lo2)
  /\ l \in lo2 \/ e2[l] = NoData \/ e2[l] = d
LEMMA ContentPlaced ==
  ASSUME NEW f, NEW g, NEW m, NEW P \in [Lpns -> Ppns \cup {NoPpn}], NEW k \in BMapType,
         BMapInv(f, m, k), BPlacesInv(f, P, MapBlocks(k)),
         NEW l \in Lpns, ~k[Lbn(l)].optimal, NEW p \in Ppns, f.page[p] = "EMPTY", NEW d,
         Placed(f, g, p, d, P[l]), NEW Q, Q = Mapped(P, l, p),
         NEW e, NEW e2, NEW lo, NEW lo2, ContentInv(f, P, k, e, lo),
         Restored(e, lo, l, d, e2, lo2)
  PROVE  ContentInv(g, Q, k, e2, lo2)
  <1>1. \A n \in Lpns : Q[n] = IF n = l THEN p ELSE P[n]
    BY DEF Mapped
  <1>2. p # NoPpn /\ g.page[p] = "VALID" /\ g.data[p] = d
    <2>1. P[l] # NoPpn => f.page[P[l]] = "VALID"
      BY DEF BPlacesInv
    <2>2. p # P[l] /\ p # NoPpn
      BY <2>1, NoPpnNotPage
    <2>. QED
      BY <2>2 DEF Placed
  <1>3. ASSUME NEW n \in Lpns \ lo2, e2[n] # NoData
        PROVE  Holds(g, Where(Q, k, n), e2[n]) \/ SamePlace(f, g, P, Q, k, k, e, e2, lo, n)
    <2>1. CASE n = l
      <3>1. Where(Q, k, n) = p
        BY <1>1, <2>1 DEF Where
      <3>. QED
        BY <1>2, <1>3, <2>1, <3>1 DEF Holds, Restored
    <2>2. CASE n # l
      <3>1. n \in Lpns /\ n \notin lo /\ e2[n] = e[n]
        BY <1>3, <2>2 DEF Restored
      <3>2. Where(Q, k, n) = Where(P, k, n)
        BY <1>1, <2>2, <3>1 DEF Where
      <3>3. ASSUME Where(P, k, n) # NoPpn, f.page[Where(P, k, n)] = "VALID"
            PROVE  SameAt(f, g, Where(P, k, n))
        <4>. DEFINE x == Where(P, k, n)
        <4>1. x \in Ppns
          BY <3>1, <3>3, WhereType
        <4>2. x # p
          BY <3>3
        <4>3. Where(P, k, l) = P[l]
          BY DEF Where
        <4>4. x # P[l]
          BY <2>2, <3>1, <3>3, <4>3, WhereDistinct
        <4>. HIDE DEF x
        <4>5. SameAt(f, g, x)
          BY <4>1, <4>2, <4>4, PlacedSame
        <4>. QED
          BY <4>5 DEF x
      <3>. QED
        BY <3>1, <3>2, <3>3 DEF SamePlace
    <2>. QED
      BY <2>1, <2>2
  <1>. QED
    BY <1>3, ContentStep

\* A page is written in its block of the block map.
LEMMA ContentInOrder ==
  ASSUME NEW f, NEW g, NEW m, NEW P \in [Lpns -> Ppns \cup {NoPpn}], NEW k \in BMapType, NEW k2 \in BMapType,
         BMapInv(f, m, k), BPlacesInv(f, P, MapBlocks(k)),
         \A i \in Lbns : k2[i].pbn = k[i].pbn /\ k2[i].optimal = k[i].optimal,
         NEW l \in Lpns, NEW p \in Ppns, Where(P, k, l) = p, f.page[p] = "EMPTY", NEW d,
         Placed(f, g, p, d, NoPpn),
         NEW e, NEW e2, NEW lo, NEW lo2, ContentInv(f, P, k, e, lo),
         \A n \in Lpns : n # l => e2[n] = e[n] /\ (n \in lo => n \in lo2), e2[l] = d
  PROVE  ContentInv(g, P, k2, e2, lo2)
  <1>1. \A n \in Lpns : Where(P, k2, n) = Where(P, k, n)
    BY LbnOff DEF Where
  <1>2. p # NoPpn /\ g.page[p] = "VALID" /\ g.data[p] = d
    BY NoPpnNotPage DEF Placed
  <1>3. ASSUME NEW n \in Lpns \ lo2
        PROVE  Holds(g, Where(P, k2, n), e2[n]) \/ SamePlace(f, g, P, P, k, k2, e, e2, lo, n)
    <2>1. CASE n = l
      BY <1>1, <1>2, <2>1 DEF Holds
    <2>2. CASE n # l
      <3>1. n \in Lpns /\ n \notin lo /\ e2[n] = e[n]
        BY <1>3, <2>2
      <3>2. ASSUME Where(P, k, n) # NoPpn, f.page[Where(P, k, n)] = "VALID"
            PROVE  SameAt(f, g, Where(P, k, n))
        <4>. DEFINE x == Where(P, k, n)
        <4>1. x \in Ppns
          BY <3>1, <3>2, WhereType
        <4>2. x # p /\ x # NoPpn
          BY <3>2
        <4>. HIDE DEF x
        <4>3. SameAt(f, g, x)
          BY <4>1, <4>2, PlacedSame
        <4>. QED
          BY <4>3 DEF x
      <3>. QED
        BY <1>1, <3>1, <3>2 DEF SamePlace
    <2>. QED
      BY <2>1, <2>2
  <1>. QED
    BY <1>3, ContentStep

\* One more page moved.
LEMMA PlacesMore ==
  ASSUME NEW u \in [Lpns -> Ppns \cup {NoPpn}], NEW mv, DOMAIN mv \in SUBSET Lpns,
         mv \in [DOMAIN mv -> Ppns], NEW l \in Lpns, NEW p \in Ppns, NEW n, n = Updated(Entry(l, p), mv)
  PROVE  PlacesOf(u, n) = Mapped(PlacesOf(u, mv), l, p)
  <1>1. /\ DOMAIN n = DOMAIN mv \cup {l} /\ n[l] = p
        /\ \A j \in DOMAIN mv : j # l => n[j] = mv[j]
    BY DEF Updated, Entry
  <1>2. \A j \in Lpns : PlaceIn(u, n, j) = IF j = l THEN p ELSE PlaceIn(u, mv, j)
    BY <1>1 DEF PlaceIn
  <1>. QED
    BY <1>2 DEF PlacesOf, Mapped

LEMMA FewerSame ==
  ASSUME NEW k
  PROVE  Fewer(k, k)
  BY DEF Fewer
LEMMA BFinishCopyKeeps ==
  ASSUME SoundInv, FinishCopy, UNCHANGED bvars
  PROVE  SoundInv'
  <1>. DEFINE q == OldPpn
              v == top.block
              i == top.i
              mv == top.invalidated_translation
              p == currentDataPage
              g == flash'
              d == flash.data[q]
              w == MapBlocks(block_map)
  <1>1. /\ At("copy") /\ BStackSound(stack) /\ stack # << >> /\ top = stack[1] /\ top.proc = "copy"
        /\ top \in BFrames /\ top \in CleanupFrame /\ Len(stack) = 4
        /\ v \in Blocks /\ v # NoBlock
        /\ DOMAIN mv \in SUBSET Lpns /\ mv \in [DOMAIN mv -> Ppns]
        /\ VictimIn(stack) = v /\ MovedIn(stack) = mv
        /\ DoneIn(stack) = i /\ CopyingIn(stack) = TRUE
    BY BCleanupTop DEF FinishCopy
  <1>2. i < BLOCK_SIZE /\ BHanded(stack) = TRUE
    BY <1>1, BFrameKinds DEF BHanded
  <1>3. q \in Ppns /\ q = <<v, i>> /\ q[1] = v /\ i \in Offsets
    BY <1>1, <1>2, BOldPpn
  <1>4. PICK l \in OwnerOf(OldPpn) :
           Become([top EXCEPT !.proc = "cleanup", !.i = @ + 1,
                              !.invalidated_translation = Updated([k \in {l} |-> currentDataPage], @)])
    BY DEF FinishCopy
  <1>. DEFINE n == Updated([k \in {l} |-> currentDataPage], mv)
              fr == [top EXCEPT !.proc = "cleanup", !.i = @ + 1, !.invalidated_translation = n]
  <1>5. stack' = Becoming(fr, stack)
    BY <1>4 DEF Become, Becoming
  <1>6. n = Updated(Entry(l, p), mv)
    BY DEF Entry
  <1>7. fr = Advanced(top, n)
    BY DEF Advanced
  <1>8. /\ g = Replace(Program(flash, p, d), q) /\ flash.page[p] = "EMPTY"
        /\ bm' = bm /\ ppn' = ppn /\ reverse_trans_map' = reverse_trans_map
        /\ currentDataPage' = currentDataPage /\ cached' = cached
        /\ block_map' = block_map /\ trim_map' = trim_map /\ inuseBlock' = inuseBlock
        /\ blockQueue' = blockQueue /\ stored' = stored /\ lost' = lost
    BY DEF FinishCopy, maps, CanProgram, bvars, pool, history, cache
  <1>. DEFINE P == PlacesOf(ppn, mv)
              Q == Mapped(P, l, p)
  <1>9. /\ BTypes /\ FlashSound(flash) /\ CountInv(flash) /\ BListInv(flash, bm)
        /\ BCurInv(flash, bm, p, TRUE, w)
        /\ BMapInv(flash, bm, block_map) /\ NextInv(block_map)
        /\ BPoolInv(bm, inuseBlock, blockQueue)
        /\ BPlacesInv(flash, P, w)
        /\ ReverseInv(ppn, reverse_trans_map, mv)
        /\ BVictimInv(flash, bm, ppn, v, mv, i, TRUE)
        /\ OneMapInv(P, block_map, trim_map, stored)
        /\ ContentInv(flash, P, block_map, stored, lost)
        /\ RequestInv(stack, bm, block_map, trim_map)
    BY <1>1, <1>2 DEF SoundInv
  <1>10. /\ bm \in BlockManagerType /\ block_map \in BMapType
         /\ ppn \in [Lpns -> Ppns \cup {NoPpn}]
         /\ p \in Ppns /\ p # NoPpn
    BY <1>9 DEF BTypes, BCurInv
  <1>. HIDE DEF q, n, fr, g, w, p, v, i, mv, d, P, Q
  <1>11. /\ flash.page[q] = "VALID" /\ l \in Lpns /\ P[l] = q
    <2>1. flash.page[q] = "VALID" /\ \E j \in Lpns \ DOMAIN mv : ppn[j] = q
      BY <1>1, <1>3, <1>9 DEF BVictimInv
    <2>2. PICK j \in Lpns \ DOMAIN mv : ppn[j] = q
      BY <2>1
    <2>3. q # NoPpn
      BY <1>3, NoPpnNotPage
    <2>4. reverse_trans_map[q] = j
      BY <1>9, <2>2, <2>3 DEF ReverseInv
    <2>5. j # NoLpn
      BY DEF Lpns, NoLpn
    <2>6. l = j
      BY <1>4, <2>4, <2>5 DEF OwnerOf, q
    <2>. QED
      BY <2>1, <2>2, <2>6 DEF P, PlacesOf, PlaceIn
  <1>12. DOMAIN n \in SUBSET Lpns /\ n \in [DOMAIN n -> Ppns] /\ DOMAIN n = DOMAIN mv \cup {l}
    <2>1. DOMAIN mv \in SUBSET Lpns /\ mv \in [DOMAIN mv -> Ppns] /\ l \in Lpns /\ p \in Ppns
      BY <1>1, <1>10, <1>11
    <2>. QED
      BY <1>6, <2>1 DEF Updated, Entry
  <1>13. /\ fr \in BFrames /\ fr.proc = "cleanup" /\ fr.block = v /\ fr.i = i + 1
         /\ fr.invalidated_translation = n
    <2>1. top \in CleanupFrame /\ top.i < BLOCK_SIZE
      BY <1>1, <1>2 DEF i
    <2>2. /\ fr \in LiveFrames /\ fr.proc = "cleanup" /\ fr.block = top.block /\ fr.i = top.i + 1
          /\ fr.invalidated_translation = n
      BY <1>7, <1>12, <2>1, NextFrame
    <2>. QED
      BY <2>2 DEF BFrames, v, i
  <1>14. BStackSound(stack')
    <2>1. SameStep(fr, stack[1])
      BY <1>1, <1>13 DEF SameStep, v
    <2>. QED
      BY <1>1, <1>5, <1>13, <2>1, BBecomeSound
  <1>15. Len(stack) >= 2
    BY <1>1
  <1>16. Len(stack') = Len(stack) /\ stack' # << >> /\ stack'[1] = fr /\ Up(stack', 1) = Up(stack, 1)
    <2>1. BStackSound(stack) /\ stack # << >> /\ fr \in BFrames
      BY <1>1, <1>13
    <2>. QED
      BY <1>5, <1>15, <2>1, BBecomeTop
  <1>17. Len(stack') >= 4 /\ Len(stack') >= 2 /\ Len(stack') = 4
    BY <1>1, <1>16
  <1>18. Up(stack', 4) = fr
    BY <1>14, <1>16, <1>17, BHeights
  <1>19. /\ VictimIn(stack') = v /\ MovedIn(stack') = n /\ DoneIn(stack') = i + 1
         /\ CopyingIn(stack') = FALSE /\ BHanded(stack') = FALSE
    <2>1. /\ VictimIn(stack') = fr.block /\ MovedIn(stack') = fr.invalidated_translation
          /\ DoneIn(stack') = fr.i /\ CopyingIn(stack') = (fr.proc = "copy")
      BY <1>14, <1>17, <1>18, ViewsByHeight
    <2>2. BHanded(stack') = FALSE
      BY <1>13, <1>16 DEF BHanded
    <2>. QED
      BY <1>13, <2>1, <2>2
  <1>20. d \in Payloads /\ q \in Ppns \cup {NoPpn}
    BY <1>3, <1>9, <1>11 DEF FlashSound, d
  <1>21. FlashSound(g) /\ CountInv(g) /\ Placed(flash, g, p, d, q) /\ p # q
    BY <1>8, <1>9, <1>10, <1>11, <1>20, BProgrammed DEF p
  <1>22. /\ P \in [Lpns -> Ppns \cup {NoPpn}]
    BY <1>1, <1>10, PlacesOfType DEF P
  <1>23. q[1] \notin w /\ P[l] # NoPpn
    BY <1>3, <1>9, <1>11, NoPpnNotPage DEF BPlacesInv
  <1>24. StaysEmpty(flash, g, p[1]) /\ NotGone(flash, g, w)
    BY <1>10, <1>11, <1>20, <1>21, <1>23, PlacedKeeps
  <1>25. /\ p[1] \in Blocks /\ p[1] < bm.fresh /\ p[1] \notin Members(bm.free_list) /\ p[1] \notin w
    BY <1>9, <1>10 DEF BCurInv, Ppns
  <1>26. BListInv(g, bm)
    BY <1>9, <1>10, <1>24, <1>25, BListKept
  <1>27. BCurInv(g, bm, p, FALSE, w)
    BY <1>9, <1>10, <1>11, <1>20, <1>21, BCurWritten
  <1>28. BMapInv(g, bm, block_map)
    <2>1. bm.fresh <= bm.fresh
      BY <1>10 DEF BlockManagerType
    <2>2. \A b \in MapBlocks(block_map) : b \notin Members(bm.free_list)
      BY <1>9 DEF BMapInv
    <2>3. NotGone(flash, g, MapBlocks(block_map)) /\ Fewer(block_map, block_map)
      BY <1>24, FewerSame DEF w
    <2>. QED
      BY <1>9, <1>10, <2>1, <2>2, <2>3, BMapKept
  <1>29. Q = Mapped(P, l, p) /\ Placed(flash, g, p, d, P[l]) /\ flash.page[p] = "EMPTY"
    BY <1>8, <1>11, <1>21 DEF Q, p
  <1>30. BPlacesInv(g, Q, w)
    BY <1>9, <1>10, <1>11, <1>22, <1>25, <1>29, BPlacesMoved
  <1>31. ReverseInv(ppn, reverse_trans_map, n)
    BY <1>9, <1>12 DEF ReverseInv
  <1>32. BVictimInv(g, bm, ppn, v, n, i + 1, FALSE)
    <2>1. Placed(flash, g, p, d, <<v, i>>)
      BY <1>3, <1>21
    <2>. QED
      BY <1>1, <1>6, <1>9, <1>10, <1>11, <1>29, <2>1, BVictimCopied
  <1>33. ~block_map[Lbn(l)].optimal /\ ~trim_map[l]
    BY <1>9, <1>11, <1>23 DEF OneMapInv
  <1>34. OneMapInv(Q, block_map, trim_map, stored)
    <2>1. \A j \in Lpns : j # l => Q[j] = P[j]
      BY DEF Q, Mapped
    <2>. QED
      BY <1>9, <1>33, <2>1 DEF OneMapInv
  <1>35. ContentInv(g, Q, block_map, stored, lost)
    <2>1. l \in lost \/ stored[l] = NoData \/ stored[l] = d
      <3>1. Where(P, block_map, l) = q
        BY <1>11, <1>33 DEF Where
      <3>. QED
        BY <1>9, <1>11, <3>1 DEF ContentInv, Holds, d
    <2>2. Restored(stored, lost, l, d, stored, lost)
      BY <2>1 DEF Restored
    <2>3. BPlacesInv(flash, P, MapBlocks(block_map))
      BY <1>9 DEF w
    <2>. QED
      BY <1>9, <1>10, <1>11, <1>22, <1>29, <1>33, <2>2, <2>3, ContentPlaced
  <1>36. RequestInv(stack', bm, block_map, trim_map)
    <2>1. Up(stack, 1).proc # "bwrite" \/ Up(stack, 1).page = NoPpn
      BY <1>1, <1>15, NoPageGiven
    <2>. QED
      BY <1>1, <1>9, <1>15, <1>16, <1>17, <2>1, RequestKept
  <1>37. PlacesOf(ppn, n) = Q
    BY <1>1, <1>6, <1>10, <1>11, PlacesMore DEF P, Q
  <1>38. BTypes'
    BY <1>8, <1>9 DEF BTypes
  <1>39. /\ FlashSound(flash)' /\ CountInv(flash)' /\ BListInv(flash, bm)'
         /\ BCurInv(flash, bm, currentDataPage, BHanded(stack), MapBlocks(block_map))'
         /\ BMapInv(flash, bm, block_map)' /\ NextInv(block_map)'
         /\ BPoolInv(bm, inuseBlock, blockQueue)'
    BY <1>8, <1>9, <1>19, <1>21, <1>26, <1>27, <1>28 DEF g, p, w
  <1>40. /\ BPlacesInv(flash, PlacesOf(ppn, MovedIn(stack)), MapBlocks(block_map))'
         /\ ReverseInv(ppn, reverse_trans_map, MovedIn(stack))'
         /\ OneMapInv(PlacesOf(ppn, MovedIn(stack)), block_map, trim_map, stored)'
         /\ ContentInv(flash, PlacesOf(ppn, MovedIn(stack)), block_map, stored, lost)'
    BY <1>8, <1>19, <1>30, <1>31, <1>34, <1>35, <1>37 DEF g, w
  <1>41. /\ BVictimInv(flash, bm, ppn, VictimIn(stack), MovedIn(stack), DoneIn(stack), CopyingIn(stack))'
         /\ RequestInv(stack, bm, block_map, trim_map)'
    BY <1>8, <1>19, <1>32, <1>36 DEF g
  <1>. QED
    BY <1>14, <1>38, <1>39, <1>40, <1>41 DEF SoundInv

\* insert_events on top, after a cleanup_block.
LEMMA BEraseTop ==
  ASSUME NEW st, BStackSound(st), Len(st) = 3, Up(st, 3).proc = "erase"
  PROVE  /\ VictimIn(st) = Up(st, 3).it /\ MovedIn(st) = << >>
         /\ DoneIn(st) = BLOCK_SIZE /\ CopyingIn(st) = FALSE
  BY ViewsByHeight

LEMMA BFinishCleanupKeeps ==
  ASSUME SoundInv, FinishCleanup, UNCHANGED bvars
  PROVE  SoundInv'
  <1>. DEFINE v == top.block
              mv == top.invalidated_translation
              w == MapBlocks(block_map)
              P == PlacesOf(ppn, mv)
  <1>1. /\ At("cleanup") /\ BStackSound(stack) /\ stack # << >> /\ top = stack[1] /\ top.proc = "cleanup"
        /\ Len(stack) = 4 /\ v \in Blocks /\ v # NoBlock
        /\ DOMAIN mv \in SUBSET Lpns /\ mv \in [DOMAIN mv -> Ppns]
        /\ VictimIn(stack) = v /\ MovedIn(stack) = mv
        /\ DoneIn(stack) = top.i /\ CopyingIn(stack) = FALSE
    BY BCleanupTop DEF FinishCleanup
  <1>2. /\ flash' = flash /\ bm' = bm /\ ppn' = Updated(mv, ppn)
        /\ reverse_trans_map' = Updated(AntiFunction(mv), reverse_trans_map)
        /\ currentDataPage' = currentDataPage /\ cached' = cached \cup DOMAIN mv
        /\ block_map' = block_map /\ trim_map' = trim_map /\ inuseBlock' = inuseBlock
        /\ blockQueue' = blockQueue /\ stored' = stored /\ lost' = lost
        /\ stack' = Tail(stack) /\ top.i = BLOCK_SIZE
    BY DEF FinishCleanup, bvars, pool, history, Return
  <1>3. /\ BTypes /\ FlashSound(flash) /\ CountInv(flash) /\ BListInv(flash, bm)
        /\ BCurInv(flash, bm, currentDataPage, BHanded(stack), w)
        /\ BMapInv(flash, bm, block_map) /\ NextInv(block_map)
        /\ BPoolInv(bm, inuseBlock, blockQueue)
        /\ BPlacesInv(flash, P, w)
        /\ ReverseInv(ppn, reverse_trans_map, mv)
        /\ BVictimInv(flash, bm, ppn, v, mv, BLOCK_SIZE, FALSE)
        /\ OneMapInv(P, block_map, trim_map, stored)
        /\ ContentInv(flash, P, block_map, stored, lost)
        /\ RequestInv(stack, bm, block_map, trim_map)
    BY <1>1, <1>2 DEF SoundInv
  <1>4. Len(stack) >= 2 /\ Len(stack) >= 4
    BY <1>1
  <1>5. BStackSound(stack')
    BY <1>1, <1>2, BReturnSound
  <1>6. /\ Len(stack') = 3 /\ stack' # << >> /\ stack'[1] = Up(stack, 3) /\ Up(stack', 1) = Up(stack, 1)
    <2>1. /\ Len(stack') = Len(stack) - 1 /\ stack' # << >> /\ stack'[1] = Up(stack, Len(stack) - 1)
          /\ Up(stack', 1) = Up(stack, 1)
      BY <1>1, <1>2, <1>4, BReturnTop
    <2>. QED
      BY <1>1, <2>1
  <1>7. Up(stack', 3) = Up(stack, 3) /\ Up(stack, 3).proc = "erase" /\ Up(stack, 3).it = v
    <2>1. Up(stack', Len(stack')) = stack'[1]
      BY <1>5, <1>6, BHeights
    <2>2. Up(stack, 3).proc = "erase" /\ Up(stack, 3).it = stack[1].block
      BY <1>1, BUnder
    <2>. QED
      BY <1>1, <1>6, <2>1, <2>2
  <1>. HIDE DEF w, v, mv, P
  <1>8. /\ VictimIn(stack') = v /\ MovedIn(stack') = << >> /\ DoneIn(stack') = BLOCK_SIZE
        /\ CopyingIn(stack') = FALSE
    BY <1>5, <1>6, <1>7, BEraseTop
  <1>9. ~BHanded(stack') /\ ~BHanded(stack)
    BY <1>1, <1>6, <1>7 DEF BHanded
  <1>10. /\ ppn' \in [Lpns -> Ppns \cup {NoPpn}] /\ reverse_trans_map' \in [Ppns -> Lpns \cup {NoLpn}]
         /\ ReverseInv(ppn', reverse_trans_map', << >>) /\ PlacesOf(ppn', << >>) = P
    <2>1. MapTypes(ppn, reverse_trans_map)
      BY <1>3 DEF BTypes, MapTypes
    <2>2. MovedType(mv)
      BY <1>1 DEF MovedType
    <2>3. Batched(ppn, reverse_trans_map, mv, ppn', reverse_trans_map')
      BY <1>2 DEF Batched
    <2>4. P = PlacesOf(ppn, mv) /\ BPlacesInv(flash, P, w) /\ ReverseInv(ppn, reverse_trans_map, mv)
      BY <1>3 DEF P
    <2>5. MapTypes(ppn', reverse_trans_map') /\ AtRest(ppn', reverse_trans_map', P)
      BY <2>1, <2>2, <2>3, <2>4, BEntered
    <2>. QED
      BY <2>5 DEF MapTypes, AtRest
  <1>11. BTypes'
    <2>1. cached' \in SUBSET Lpns
      BY <1>1, <1>2, <1>3 DEF BTypes
    <2>. QED
      BY <1>2, <1>3, <1>10, <2>1 DEF BTypes
  <1>12. /\ FlashSound(flash)' /\ CountInv(flash)' /\ BListInv(flash, bm)'
         /\ BCurInv(flash, bm, currentDataPage, BHanded(stack), MapBlocks(block_map))'
         /\ BMapInv(flash, bm, block_map)' /\ NextInv(block_map)'
         /\ BPoolInv(bm, inuseBlock, blockQueue)'
    <2>1. BHanded(stack') => BHanded(stack)
      BY <1>9
    <2>2. BCurInv(flash, bm, currentDataPage, BHanded(stack'), w)
      BY <1>3, <1>9 DEF BCurInv
    <2>. QED
      BY <1>2, <1>3, <2>2 DEF w
  <1>13. /\ BPlacesInv(flash, PlacesOf(ppn, MovedIn(stack)), MapBlocks(block_map))'
         /\ ReverseInv(ppn, reverse_trans_map, MovedIn(stack))'
         /\ OneMapInv(PlacesOf(ppn, MovedIn(stack)), block_map, trim_map, stored)'
         /\ ContentInv(flash, PlacesOf(ppn, MovedIn(stack)), block_map, stored, lost)'
    BY <1>2, <1>3, <1>8, <1>10 DEF w
  <1>14. BVictimInv(flash, bm, ppn, VictimIn(stack), MovedIn(stack), DoneIn(stack), CopyingIn(stack))'
    <2>1. DOMAIN << >> = {}
      OBVIOUS
    <2>2. BVictimInv(flash, bm, ppn', v, << >>, BLOCK_SIZE, FALSE)
      BY <1>3, <2>1 DEF BVictimInv
    <2>. QED
      BY <1>2, <1>8, <2>2
  <1>15. RequestInv(stack, bm, block_map, trim_map)'
    <2>1. Up(stack, 1).proc # "bwrite" \/ Up(stack, 1).page = NoPpn
      BY <1>1, <1>4, NoPageGiven
    <2>2. Len(stack') >= 2
      BY <1>6
    <2>3. RequestInv(stack', bm, block_map, trim_map)
      BY <1>1, <1>3, <1>4, <1>6, <2>1, <2>2, RequestKept
    <2>. QED
      BY <1>2, <2>3
  <1>. QED
    BY <1>5, <1>11, <1>12, <1>13, <1>14, <1>15 DEF SoundInv

LEMMA BEraseVictimKeeps ==
  ASSUME SoundInv, EraseVictim, UNCHANGED bvars
  PROVE  SoundInv'
  <1>. DEFINE v == top.it
              w == MapBlocks(block_map)
              P == PlacesOf(ppn, << >>)
              g == flash'
  <1>1. /\ At("erase") /\ BStackSound(stack) /\ stack # << >> /\ top = stack[1] /\ top.proc = "erase"
        /\ top \in BFrames /\ Len(stack) = 3
    <2>1. /\ At("erase") /\ BStackSound(stack) /\ stack # << >> /\ top = stack[1] /\ top.proc = "erase"
          /\ top \in BFrames
      BY BTop DEF EraseVictim
    <2>. QED
      BY <2>1, BUnder
  <1>2. top \in InsertFrame /\ v \in Blocks /\ top.num_to_erase # 0 /\ Up(stack, 3) = top
    <2>1. top \in InsertFrame /\ top.num_to_erase # 0
      BY <1>1, BFrameKinds
    <2>2. Up(stack, Len(stack)) = stack[1]
      BY <1>1, BHeights
    <2>. QED
      BY <1>1, <2>1, <2>2 DEF InsertFrame
  <1>3. /\ VictimIn(stack) = v /\ MovedIn(stack) = << >> /\ DoneIn(stack) = BLOCK_SIZE
        /\ CopyingIn(stack) = FALSE
    BY <1>1, <1>2, BEraseTop
  <1>4. PICK b \in NextVictims(flash') :
           Become([top EXCEPT !.proc = "insert", !.it = b, !.num_to_erase = @ - 1])
    BY DEF EraseVictim
  <1>. DEFINE fr == [top EXCEPT !.proc = "insert", !.it = b, !.num_to_erase = @ - 1]
  <1>5. stack' = Becoming(fr, stack)
    BY <1>4 DEF Become, Becoming
  <1>6. fr \in BFrames /\ fr.proc = "insert"
    <2>1. b \in Blocks
      BY <1>4, NextVictimType
    <2>2. top.num_to_erase - 1 \in 0 .. NUM_TO_ERASE
      BY <1>2, BlockListsAssumption DEF InsertFrame
    <2>3. fr \in InsertFrame /\ fr.proc = "insert"
      BY <1>2, <2>1, <2>2 DEF InsertFrame
    <2>. QED
      BY <2>3 DEF BFrames, LiveFrames, Frames
  <1>7. /\ g = Erase(flash, {v}) /\ CanErase(flash, v)
        /\ bm' = [bm EXCEPT !.free_list = Append(bm.free_list, v)]
        /\ ppn' = ppn /\ reverse_trans_map' = reverse_trans_map
        /\ currentDataPage' = currentDataPage /\ cached' = cached
        /\ block_map' = block_map /\ trim_map' = trim_map /\ inuseBlock' = inuseBlock
        /\ blockQueue' = blockQueue /\ stored' = stored /\ lost' = lost
    BY DEF EraseVictim, maps, bvars, pool, history, cache
  <1>8. /\ BTypes /\ FlashSound(flash) /\ CountInv(flash) /\ BListInv(flash, bm)
        /\ BCurInv(flash, bm, currentDataPage, BHanded(stack), w)
        /\ BMapInv(flash, bm, block_map) /\ NextInv(block_map)
        /\ BPoolInv(bm, inuseBlock, blockQueue)
        /\ BPlacesInv(flash, P, w)
        /\ ReverseInv(ppn, reverse_trans_map, << >>)
        /\ BVictimInv(flash, bm, ppn, v, << >>, BLOCK_SIZE, FALSE)
        /\ OneMapInv(P, block_map, trim_map, stored)
        /\ ContentInv(flash, P, block_map, stored, lost)
        /\ RequestInv(stack, bm, block_map, trim_map)
    BY <1>3 DEF SoundInv
  <1>9. /\ bm \in BlockManagerType /\ block_map \in BMapType /\ ppn \in [Lpns -> Ppns \cup {NoPpn}]
        /\ currentDataPage \in Ppns \cup {NoPpn} /\ bm.free_list \in Seq(Blocks)
    BY <1>8 DEF BTypes, BlockManagerType
  <1>10. v # NoBlock
    BY <1>2 DEF Blocks, NoBlock
  <1>11. /\ bm' \in BlockManagerType /\ bm'.fresh = bm.fresh
         /\ bm'.free_list = Append(bm.free_list, v)
    <2>1. Append(bm.free_list, v) \in Seq(Blocks)
      BY <1>2, <1>9
    <2>. QED
      BY <1>7, <1>9, <2>1 DEF BlockManagerType
  <1>. HIDE DEF v, w, P, g, fr
  <1>12. /\ v < bm.fresh /\ v \notin Members(bm.free_list)
         /\ \A o \in Offsets : flash.page[<<v, o>>] = "INVALID"
    <2>1. \A o \in Offsets : o < BLOCK_SIZE
      BY GeometryAssumption DEF Offsets
    <2>. QED
      BY <1>8, <1>10, <2>1 DEF BVictimInv
  <1>13. \A x \in Ppns : x[1] = v => flash.page[x] = "INVALID"
    BY <1>12 DEF Ppns
  <1>14. v \notin w
    BY <1>8, <1>12 DEF BMapInv, w
  <1>15. FlashSound(g) /\ CountInv(g) /\ BlockGone(flash, g, v) /\ AllEmpty(g, v)
    BY <1>2, <1>7, <1>8, BErased DEF v
  <1>16. StaysEmpty(flash, g, NoBlock) /\ NotGone(flash, g, w)
    BY <1>15, ErasedKeeps
  <1>17. /\ BListInv(g, bm')
         /\ \A x : x \in Members(bm'.free_list) <=> x \in Members(bm.free_list) \/ x = v
    <2>1. BListInv(g, bm)
      <3>1. NoBlock \in Blocks \cup {NoBlock}
        OBVIOUS
      <3>. QED
        BY <1>8, <1>9, <1>16, <3>1, BListKept
    <2>2. v \in Blocks /\ bm \in BlockManagerType /\ v < bm.fresh /\ v \notin Members(bm.free_list)
      BY <1>2, <1>9, <1>12 DEF v
    <2>3. Joined(bm, bm', v)
      BY <1>11 DEF Joined
    <2>4. AllEmpty(g, v)
      BY <1>15
    <2>. QED
      BY <2>1, <2>2, <2>3, <2>4, BListJoined
  <1>18. BStackSound(stack')
    <2>1. SameStep(fr, stack[1])
      BY <1>1, <1>6 DEF SameStep
    <2>. QED
      BY <1>1, <1>5, <1>6, <2>1, BBecomeSound
  <1>19. Len(stack) >= 2 /\ Len(stack) >= 3
    BY <1>1
  <1>20. Len(stack') = Len(stack) /\ stack' # << >> /\ stack'[1] = fr /\ Up(stack', 1) = Up(stack, 1)
    <2>1. BStackSound(stack) /\ stack # << >> /\ fr \in BFrames
      BY <1>1, <1>6
    <2>. QED
      BY <1>5, <1>19, <2>1, BBecomeTop
  <1>21. Len(stack') = 3 /\ Len(stack') >= 2
    BY <1>1, <1>20
  <1>22. NoneIn(stack') /\ ~BHanded(stack')
    <2>1. Up(stack', 3) = fr
      BY <1>18, <1>20, <1>21, BHeights
    <2>. QED
      BY <1>6, <1>18, <1>20, <1>21, <2>1, ViewsByHeight DEF BHanded
  <1>23. /\ VictimIn(stack') = NoBlock /\ MovedIn(stack') = << >>
    BY <1>22 DEF NoneIn
  <1>24. CanFill(currentDataPage) => currentDataPage[1] # v
    <2>. SUFFICES ASSUME CanFill(currentDataPage), currentDataPage[1] = v PROVE FALSE
      OBVIOUS
    <2>1. currentDataPage \in Ppns /\ currentDataPage[2] \in Offsets /\ currentDataPage[2] # BLOCK_SIZE - 1
      BY <1>9 DEF CanFill, Ppns
    <2>2. currentDataPage[2] + 1 \in Offsets /\ currentDataPage[2] + 1 > currentDataPage[2]
      <3>1. \A o \in Offsets : o # BLOCK_SIZE - 1 => o + 1 \in Offsets /\ o + 1 > o
        BY GeometryAssumption DEF Offsets
      <3>. QED
        BY <2>1, <3>1
    <2>3. flash.page[<<v, currentDataPage[2] + 1>>] = "EMPTY"
      BY <1>8, <2>2 DEF BCurInv
    <2>. QED
      BY <1>12, <2>2, <2>3
  <1>25. BCurInv(g, bm', currentDataPage, BHanded(stack'), w)
    <2>1. BHanded(stack) = FALSE /\ BHanded(stack') = FALSE
      BY <1>1, <1>22 DEF BHanded
    <2>2. bm.fresh <= bm'.fresh
      BY <1>9, <1>11 DEF BlockManagerType
    <2>3. CanFill(currentDataPage) =>
            /\ currentDataPage[1] \notin Members(bm'.free_list) /\ currentDataPage[1] \notin w
            /\ currentDataPage[1] # NoBlock
      <3>1. CanFill(currentDataPage) => currentDataPage[1] \in Blocks
        BY <1>9 DEF CanFill, Ppns
      <3>2. NoBlock \notin Blocks
        BY DEF Blocks, NoBlock
      <3>. QED
        BY <1>8, <1>17, <1>24, <3>1, <3>2 DEF BCurInv
    <2>4. BCurInv(flash, bm, currentDataPage, FALSE, w)
      BY <1>8, <2>1
    <2>5. BCurInv(g, bm', currentDataPage, FALSE, w)
      BY <1>9, <1>11, <1>16, <2>2, <2>3, <2>4, BCurKept
    <2>. QED
      BY <2>1, <2>5
  <1>26. BMapInv(g, bm', block_map)
    <2>1. bm.fresh <= bm'.fresh
      BY <1>9, <1>11 DEF BlockManagerType
    <2>2. \A x \in MapBlocks(block_map) : x \notin Members(bm'.free_list)
      BY <1>8, <1>14, <1>17 DEF BMapInv, w
    <2>3. NotGone(flash, g, MapBlocks(block_map)) /\ Fewer(block_map, block_map)
      BY <1>16, FewerSame DEF w
    <2>. QED
      BY <1>8, <1>9, <1>11, <2>1, <2>2, <2>3, BMapKept
  <1>27. BPoolInv(bm', inuseBlock, blockQueue)
    BY <1>8, <1>11 DEF BPoolInv
  <1>28. P = ppn
    BY <1>9, PlacesAtRest DEF P
  <1>29. BPlacesInv(g, P, w)
    <2>1. \A l \in Lpns : P[l] # NoPpn => P[l] \in Ppns /\ flash.page[P[l]] = "VALID" /\ P[l][1] \notin w
      BY <1>8, <1>9, <1>28 DEF BPlacesInv
    <2>2. \A l \in Lpns : P[l] # NoPpn => P[l][1] # v
      BY <1>13, <2>1
    <2>3. \A l \in Lpns : P[l] # NoPpn => SameAt(flash, g, P[l]) /\ P[l][1] \notin w
      BY <1>15, <2>1, <2>2, ErasedSame
    <2>. QED
      BY <1>8, <2>3, BPlacesKept
  <1>30. ContentInv(g, P, block_map, stored, lost)
    <2>. SUFFICES ASSUME NEW l \in Lpns \ lost
                  PROVE  SamePlace(flash, g, P, P, block_map, block_map, stored, stored, lost, l)
      BY <1>8, ContentStep
    <2>1. ASSUME Where(P, block_map, l) # NoPpn, flash.page[Where(P, block_map, l)] = "VALID"
          PROVE  SameAt(flash, g, Where(P, block_map, l))
      <3>1. Where(P, block_map, l) \in Ppns
        BY <1>9, <1>28, <2>1, WhereType
      <3>2. Where(P, block_map, l)[1] # v
        BY <1>13, <2>1, <3>1
      <3>. QED
        BY <1>15, <3>1, <3>2, ErasedSame
    <2>. QED
      BY <2>1 DEF SamePlace
  <1>31. RequestInv(stack', bm', block_map, trim_map)
    <2>1. Up(stack, 1).proc # "bwrite" \/ Up(stack, 1).page = NoPpn
      BY <1>1, <1>19, NoPageGiven
    <2>. QED
      BY <1>1, <1>8, <1>19, <1>20, <1>21, <2>1, RequestKept
  <1>32. BTypes'
    BY <1>7, <1>8, <1>11 DEF BTypes
  <1>33. /\ FlashSound(flash)' /\ CountInv(flash)' /\ BListInv(flash, bm)'
         /\ BCurInv(flash, bm, currentDataPage, BHanded(stack), MapBlocks(block_map))'
         /\ BMapInv(flash, bm, block_map)' /\ NextInv(block_map)'
         /\ BPoolInv(bm, inuseBlock, blockQueue)'
    BY <1>7, <1>8, <1>15, <1>17, <1>25, <1>26, <1>27 DEF g, w
  <1>34. /\ BPlacesInv(flash, PlacesOf(ppn, MovedIn(stack)), MapBlocks(block_map))'
         /\ ReverseInv(ppn, reverse_trans_map, MovedIn(stack))'
         /\ OneMapInv(PlacesOf(ppn, MovedIn(stack)), block_map, trim_map, stored)'
         /\ ContentInv(flash, PlacesOf(ppn, MovedIn(stack)), block_map, stored, lost)'
    BY <1>7, <1>8, <1>23, <1>29, <1>30 DEF g, w, P
  <1>35. /\ BVictimInv(flash, bm, ppn, VictimIn(stack), MovedIn(stack), DoneIn(stack), CopyingIn(stack))'
         /\ RequestInv(stack, bm, block_map, trim_map)'
    BY <1>7, <1>23, <1>31 DEF BVictimInv
  <1>. QED
    BY <1>18, <1>32, <1>33, <1>34, <1>35 DEF SoundInv

---------------------------------------------------------------------------
(* The page due next of a logical block is written.                        *)

LEMMA RestViews ==
  ASSUME NEW st, NoneIn(st)
  PROVE  VictimIn(st) = NoBlock /\ MovedIn(st) = << >>
  BY DEF NoneIn

LEMMA EmptySound == BStackSound(<< >>) /\ NoneIn(<< >>) /\ ~BHanded(<< >>)
  <1>1. BStackSound(<< >>)
    BY DEF BStackSound
  <1>2. Len(<< >>) <= 2
    OBVIOUS
  <1>3. NoneIn(<< >>)
    BY <1>1, <1>2, ViewsByHeight
  <1>. QED
    BY <1>1, <1>3 DEF BHanded

\* What the host stored, after page l was.
StoredNow(e, lo, l, d, e2, lo2) ==
  /\ e2 \in [Lpns -> Contents] /\ e2[l] = d /\ l \notin lo2
  /\ \A n \in Lpns : n # l => e2[n] = e[n] /\ (n \in lo => n \in lo2)

LEMMA StoreEffect ==
  ASSUME NEW l \in Lpns, NEW d \in Contents, stored \in [Lpns -> Contents], Store(l, d)
  PROVE  StoredNow(stored, lost, l, d, stored', lost')
  BY DEF Store, StoredNow

LEMMA BInOrderKeeps ==
  ASSUME SoundInv, NEW l \in Lpns, NEW d \in Payloads, ProgramInOrder(l, d),
         block_map[Lbn(l)].optimal, block_map[Lbn(l)].pbn # NoBlock,
         block_map[Lbn(l)].nextPage = Off(l), NoneIn(stack), ~BHanded(stack), stack' = << >>,
         trim_map' \in [Lpns -> BOOLEAN], ~trim_map'[l], \A n \in Lpns : trim_map'[n] => trim_map[n],
         UNCHANGED <<bm, maps, cached, currentDataPage, pool>>
  PROVE  SoundInv'
  <1>. DEFINE j == Lbn(l)
              c == block_map[Lbn(l)].pbn
              p == <<c, Off(l)>>
              g == flash'
              w == MapBlocks(block_map)
              P == ppn
              k2 == block_map'
  <1>1. /\ bm' = bm /\ ppn' = ppn /\ reverse_trans_map' = reverse_trans_map /\ cached' = cached
        /\ currentDataPage' = currentDataPage /\ inuseBlock' = inuseBlock /\ blockQueue' = blockQueue
        /\ flash' = Program(flash, p, d) /\ flash.page[p] = "EMPTY"
        /\ block_map' = OnePageOn(block_map, j) /\ Store(l, d)
    BY DEF ProgramInOrder, maps, pool, OnePageOn, CanProgram
  <1>2. VictimIn(stack) = NoBlock /\ MovedIn(stack) = << >>
    BY RestViews
  <1>3. /\ BTypes /\ FlashSound(flash) /\ CountInv(flash) /\ BListInv(flash, bm)
        /\ BCurInv(flash, bm, currentDataPage, BHanded(stack), w)
        /\ BMapInv(flash, bm, block_map) /\ NextInv(block_map)
        /\ BPoolInv(bm, inuseBlock, blockQueue)
        /\ BPlacesInv(flash, PlacesOf(ppn, << >>), w)
        /\ ReverseInv(ppn, reverse_trans_map, << >>)
        /\ OneMapInv(PlacesOf(ppn, << >>), block_map, trim_map, stored)
        /\ ContentInv(flash, PlacesOf(ppn, << >>), block_map, stored, lost)
    BY <1>2 DEF SoundInv
  <1>4. /\ bm \in BlockManagerType /\ block_map \in BMapType /\ ppn \in [Lpns -> Ppns \cup {NoPpn}]
        /\ currentDataPage \in Ppns \cup {NoPpn} /\ stored \in [Lpns -> Contents]
    BY <1>3 DEF BTypes
  <1>5. PlacesOf(ppn, << >>) = P
    BY <1>4, PlacesAtRest
  <1>6. j \in Lbns /\ Off(l) \in Offsets /\ Off(l) < BLOCK_SIZE
    BY LbnOff, GeometryAssumption DEF Offsets
  <1>7. c \in w /\ c \in Blocks /\ c # NoBlock /\ p \in Ppns /\ p[1] = c
    <2>1. c \in w
      BY <1>4, <1>6, MapBlocksOf
    <2>2. c \in Blocks
      BY <1>4, <2>1, MapBlocksOf
    <2>. QED
      BY <1>6, <2>1, <2>2 DEF Ppns
  <1>8. c < bm.fresh /\ c \notin Members(bm.free_list)
    BY <1>3, <1>7 DEF BMapInv
  <1>9. flash' = Replace(Program(flash, p, d), NoPpn)
    BY <1>1 DEF Replace
  <1>10. block_map[j].optimal /\ block_map[j].pbn = c /\ block_map[j].nextPage < BLOCK_SIZE
         /\ Where(P, block_map, l) = p
    BY <1>6, <1>7 DEF Where
  <1>. HIDE DEF j, p, c, g, w, P, k2
  <1>11. FlashSound(g) /\ CountInv(g) /\ Placed(flash, g, p, d, NoPpn)
    <2>1. NoPpn \in Ppns \cup {NoPpn} /\ (NoPpn # NoPpn => flash.page[NoPpn] = "VALID")
      OBVIOUS
    <2>2. g = Replace(Program(flash, p, d), NoPpn)
      BY <1>9 DEF g
    <2>. QED
      BY <1>1, <1>3, <1>7, <2>1, <2>2, BProgrammed
  <1>12. StaysEmpty(flash, g, c) /\ NotGone(flash, g, w)
    <2>1. NoPpn \in Ppns \cup {NoPpn} /\ (NoPpn # NoPpn => flash.page[NoPpn] = "VALID")
          /\ (NoPpn # NoPpn => NoPpn[1] \notin w)
      OBVIOUS
    <2>. QED
      BY <1>7, <1>11, <2>1, PlacedKeeps
  <1>13. /\ k2 \in BMapType /\ Fewer(block_map, k2)
         /\ \A i \in Lbns : k2[i].pbn = block_map[i].pbn /\ k2[i].optimal = block_map[i].optimal
    <2>1. k2 = OnePageOn(block_map, j)
      BY <1>1 DEF k2
    <2>. QED
      BY <1>4, <1>6, <1>10, <2>1, OnePageOnMap
  <1>14. MapBlocks(k2) \subseteq w
    BY <1>4, <1>13, MapBlocksOf DEF w
  <1>15. BListInv(g, bm)
    <2>1. c \in Blocks \cup {NoBlock} /\ (c # NoBlock => c < bm.fresh /\ c \notin Members(bm.free_list))
      BY <1>7, <1>8
    <2>. QED
      BY <1>3, <1>4, <1>12, <2>1, BListKept
  <1>16. BCurInv(g, bm, currentDataPage, FALSE, MapBlocks(k2))
    <2>1. BCurInv(flash, bm, currentDataPage, FALSE, w)
      BY <1>3 DEF BCurInv
    <2>2. FALSE \/ CanFill(currentDataPage) =>
            /\ currentDataPage[1] \notin Members(bm.free_list)
            /\ currentDataPage[1] \notin MapBlocks(k2) /\ currentDataPage[1] # c
      BY <1>7, <1>14, <2>1 DEF BCurInv
    <2>3. bm.fresh <= bm.fresh /\ (FALSE => FALSE)
      BY <1>4 DEF BlockManagerType
    <2>. QED
      BY <1>4, <1>12, <2>1, <2>2, <2>3, BCurKept
  <1>17. BMapInv(g, bm, k2)
    <2>1. \A b \in MapBlocks(k2) : b \notin Members(bm.free_list)
      BY <1>3, <1>14 DEF BMapInv, w
    <2>2. NotGone(flash, g, MapBlocks(k2)) /\ bm.fresh <= bm.fresh
      BY <1>4, <1>12, <1>14 DEF NotGone, BlockManagerType
    <2>. QED
      BY <1>3, <1>4, <1>13, <2>1, <2>2, BMapKept
  <1>18. NextInv(k2)
    <2>1. \A i \in Lbns : i # j => k2[i] = block_map[i]
      BY <1>1, <1>4 DEF k2, OnePageOn, BMapType
    <2>2. k2[j].pbn # NoBlock
      BY <1>6, <1>7, <1>10, <1>13
    <2>. QED
      BY <1>3, <2>1, <2>2 DEF NextInv
  <1>19. \A n \in Lpns : P[n] # NoPpn => P[n] \in Ppns /\ flash.page[P[n]] = "VALID" /\ P[n][1] \notin w
    BY <1>3, <1>4, <1>5 DEF BPlacesInv, P
  <1>20. BPlacesInv(g, P, MapBlocks(k2))
    <2>1. \A n \in Lpns : P[n] # NoPpn => P[n] # p
      BY <1>1, <1>19
    <2>2. \A n \in Lpns : P[n] # NoPpn => SameAt(flash, g, P[n]) /\ P[n][1] \notin MapBlocks(k2)
      BY <1>11, <1>14, <1>19, <2>1, PlacedSame
    <2>. QED
      BY <1>3, <1>5, <2>2, BPlacesKept
  <1>21. StoredNow(stored, lost, l, d, stored', lost')
    <2>1. d \in Contents
      BY DEF Contents
    <2>. QED
      BY <1>1, <1>4, <2>1, StoreEffect
  <1>22. OneMapInv(P, k2, trim_map', stored')
    <2>1. \A n \in Lpns : k2[Lbn(n)].optimal => P[n] = NoPpn
      BY <1>3, <1>5, <1>13, LbnOff DEF OneMapInv
    <2>2. \A n \in Lpns : trim_map'[n] => P[n] = NoPpn /\ stored'[n] = NoData
      BY <1>3, <1>5, <1>21 DEF OneMapInv, StoredNow
    <2>. QED
      BY <2>1, <2>2 DEF OneMapInv
  <1>23. ContentInv(g, P, k2, stored', lost')
    <2>1. /\ P \in [Lpns -> Ppns \cup {NoPpn}] /\ BPlacesInv(flash, P, MapBlocks(block_map))
          /\ ContentInv(flash, P, block_map, stored, lost)
      BY <1>3, <1>4, <1>5 DEF P, w
    <2>2. \A n \in Lpns : n # l => stored'[n] = stored[n] /\ (n \in lost => n \in lost')
      BY <1>21 DEF StoredNow
    <2>3. stored'[l] = d
      BY <1>21 DEF StoredNow
    <2>. QED
      BY <1>1, <1>3, <1>4, <1>7, <1>10, <1>11, <1>13, <2>1, <2>2, <2>3, ContentInOrder
  <1>24. BStackSound(stack') /\ NoneIn(stack') /\ ~BHanded(stack')
    BY EmptySound
  <1>25. VictimIn(stack') = NoBlock /\ MovedIn(stack') = << >>
    BY <1>24, RestViews
  <1>26. BTypes'
    BY <1>1, <1>3, <1>13, <1>21 DEF BTypes, k2, StoredNow
  <1>27. /\ FlashSound(flash)' /\ CountInv(flash)' /\ BListInv(flash, bm)'
         /\ BMapInv(flash, bm, block_map)' /\ NextInv(block_map)'
         /\ BPoolInv(bm, inuseBlock, blockQueue)'
    BY <1>1, <1>3, <1>11, <1>15, <1>17, <1>18 DEF g, k2
  <1>28. BCurInv(flash, bm, currentDataPage, BHanded(stack), MapBlocks(block_map))'
    <2>1. BHanded(stack') = FALSE
      BY <1>24 DEF BHanded
    <2>. QED
      BY <1>1, <1>16, <2>1 DEF g, k2
  <1>29. PlacesOf(ppn', MovedIn(stack')) = P
    BY <1>1, <1>5, <1>25
  <1>30. /\ BPlacesInv(flash, PlacesOf(ppn, MovedIn(stack)), MapBlocks(block_map))'
         /\ ReverseInv(ppn, reverse_trans_map, MovedIn(stack))'
         /\ OneMapInv(PlacesOf(ppn, MovedIn(stack)), block_map, trim_map, stored)'
         /\ ContentInv(flash, PlacesOf(ppn, MovedIn(stack)), block_map, stored, lost)'
    BY <1>1, <1>3, <1>20, <1>22, <1>23, <1>25, <1>29 DEF g, k2
  <1>31. /\ BVictimInv(flash, bm, ppn, VictimIn(stack), MovedIn(stack), DoneIn(stack), CopyingIn(stack))'
         /\ RequestInv(stack, bm, block_map, trim_map)'
    BY <1>25 DEF BVictimInv, RequestInv
  <1>. QED
    BY <1>24, <1>26, <1>27, <1>28, <1>30, <1>31 DEF SoundInv

LEMMA BWriteInOrderKeeps ==
  ASSUME SoundInv, NEW l \in Lpns, NEW d \in Payloads, WriteInOrder(l, d)
  PROVE  SoundInv'
  <1>1. /\ stack = << >> /\ stack' = << >> /\ ProgramInOrder(l, d)
        /\ block_map[Lbn(l)].optimal /\ block_map[Lbn(l)].pbn # NoBlock
        /\ block_map[Lbn(l)].nextPage = Off(l) /\ trim_map' = [trim_map EXCEPT ![l] = FALSE]
        /\ UNCHANGED <<bm, maps, cached, currentDataPage, pool>>
    BY DEF WriteInOrder, Idle, InOrder, cache
  <1>2. NoneIn(stack) /\ ~BHanded(stack)
    BY <1>1, EmptySound
  <1>3. trim_map' \in [Lpns -> BOOLEAN] /\ ~trim_map'[l] /\ \A n \in Lpns : trim_map'[n] => trim_map[n]
    BY <1>1, TrimCleared DEF SoundInv, BTypes
  <1>. QED
    BY <1>1, <1>2, <1>3, BInOrderKeeps

LEMMA BFinishFirstKeeps ==
  ASSUME SoundInv, FinishFirst
  PROVE  SoundInv'
  <1>. DEFINE l == top.lpn
              d == top.payload
  <1>1. /\ BStackSound(stack) /\ stack # << >> /\ top = stack[1] /\ top.proc = "first" /\ top \in BFrames
        /\ Len(stack) = 1 /\ Up(stack, 1) = top
    <2>1. /\ BStackSound(stack) /\ stack # << >> /\ top = stack[1] /\ stack[1].proc = "first"
          /\ top \in BFrames /\ Up(stack, Len(stack)) = stack[1]
      BY BTop DEF FinishFirst
    <2>2. Len(stack) = 1
      BY <2>1, BUnder
    <2>. QED
      BY <2>1, <2>2
  <1>2. l \in Lpns /\ d \in Payloads
    <2>1. top \in FirstFrame
      BY <1>1, BFrameKinds
    <2>. QED
      BY <2>1 DEF FirstFrame
  <1>3. /\ ProgramInOrder(l, d) /\ stack' = Tail(stack) /\ trim_map' = trim_map
        /\ UNCHANGED <<bm, maps, cached, currentDataPage, pool>>
    BY DEF FinishFirst, Return, cache
  <1>4. stack' = << >>
    BY <1>1, <1>3, BReturnTop
  <1>5. NoneIn(stack) /\ ~BHanded(stack)
    <2>1. Len(stack) <= 2
      BY <1>1
    <2>. QED
      BY <1>1, <2>1, ViewsByHeight DEF BHanded
  <1>6. /\ block_map[Lbn(l)].optimal /\ block_map[Lbn(l)].nextPage = 0 /\ Off(l) = 0
        /\ ~trim_map[l] /\ block_map[Lbn(l)].pbn # NoBlock
    <2>1. ~(Len(stack) >= 2)
      BY <1>1
    <2>. QED
      BY <1>1, <2>1 DEF SoundInv, RequestInv
  <1>7. trim_map' \in [Lpns -> BOOLEAN] /\ ~trim_map'[l] /\ \A n \in Lpns : trim_map'[n] => trim_map[n]
    BY <1>3, <1>6 DEF SoundInv, BTypes
  <1>. HIDE DEF l, d
  <1>. QED
    BY <1>2, <1>3, <1>4, <1>5, <1>6, <1>7, BInOrderKeeps

---------------------------------------------------------------------------
(* A page is written through the page map.                                 *)

LEMMA BFinishWriteKeeps ==
  ASSUME SoundInv, FinishWriteByPage, ~spoiled'
  PROVE  SoundInv'
  <1>. DEFINE l == top.lpn
              d == top.payload
              p == IF top.page = NoPpn THEN currentDataPage ELSE top.page
              c == p[1]
              q == ppn[l]
              g == flash'
              w == MapBlocks(block_map)
              P == ppn
              Q == ppn'
  <1>1. /\ BStackSound(stack) /\ stack # << >> /\ top = stack[1] /\ top.proc = "bwrite" /\ top \in BFrames
        /\ Len(stack) = 1 /\ Up(stack, 1) = top
    <2>1. /\ BStackSound(stack) /\ stack # << >> /\ top = stack[1] /\ stack[1].proc = "bwrite"
          /\ top \in BFrames /\ Up(stack, Len(stack)) = stack[1]
      BY BTop DEF FinishWriteByPage
    <2>2. Len(stack) = 1
      BY <2>1, BUnder
    <2>. QED
      BY <2>1, <2>2
  <1>2. l \in Lpns /\ d \in Payloads /\ d \in Contents /\ top.page \in Ppns \cup {NoPpn}
    <2>1. top \in BWriteFrame
      BY <1>1, BFrameKinds
    <2>. QED
      BY <2>1 DEF BWriteFrame, Contents
  <1>3. /\ flash.page[p] = "EMPTY" /\ resolve_mapping(l)
        /\ flash' = Replace(Program(flash, p, d), q)
        /\ ppn' = Mapped(ppn, l, p) /\ reverse_trans_map' = Mapped(reverse_trans_map, p, l)
        /\ Store(l, d) /\ stack' = Tail(stack)
        /\ bm' = bm /\ currentDataPage' = currentDataPage /\ block_map' = block_map
        /\ trim_map' = trim_map /\ inuseBlock' = inuseBlock /\ blockQueue' = blockQueue
        /\ c \notin Members(bm.free_list) /\ c \notin w
        /\ top.page # NoPpn => ~Filling(c)
    <2>1. /\ CanProgram(flash, p) /\ resolve_mapping(l)
          /\ flash' = Replace(Program(flash, p, d), q)
          /\ ppn' = [ppn EXCEPT ![l] = p] /\ reverse_trans_map' = [reverse_trans_map EXCEPT ![p] = l]
          /\ Store(l, d) /\ stack' = Tail(stack)
          /\ bm' = bm /\ currentDataPage' = currentDataPage /\ block_map' = block_map
          /\ trim_map' = trim_map /\ inuseBlock' = inuseBlock /\ blockQueue' = blockQueue
      BY DEF FinishWriteByPage, Return, pool
    <2>2. /\ c \notin Range(bm.free_list) /\ c \notin BlocksOf
          /\ top.page # NoPpn => ~Filling(c)
      BY DEF FinishWriteByPage
    <2>3. Members(bm.free_list) = Range(bm.free_list)
      <3>1. bm.free_list \in Seq(Blocks)
        BY DEF SoundInv, BTypes, BlockManagerType
      <3>. QED
        BY <3>1 DEF Members, Range
    <2>4. w = BlocksOf
      BY DEF MapBlocks, BlocksOf
    <2>. HIDE DEF l, d, p, c, g, w, P, Q, q
    <2>. QED
      BY <2>1, <2>2, <2>3, <2>4 DEF CanProgram, Mapped
  <1>4. NoneIn(stack) /\ VictimIn(stack) = NoBlock /\ MovedIn(stack) = << >>
    <2>1. Len(stack) <= 2
      BY <1>1
    <2>2. NoneIn(stack)
      BY <1>1, <2>1, ViewsByHeight
    <2>. QED
      BY <2>2, RestViews
  <1>5. /\ BTypes /\ FlashSound(flash) /\ CountInv(flash) /\ BListInv(flash, bm)
        /\ BCurInv(flash, bm, currentDataPage, BHanded(stack), w)
        /\ BMapInv(flash, bm, block_map) /\ NextInv(block_map)
        /\ BPoolInv(bm, inuseBlock, blockQueue)
        /\ BPlacesInv(flash, PlacesOf(ppn, << >>), w)
        /\ ReverseInv(ppn, reverse_trans_map, << >>)
        /\ OneMapInv(PlacesOf(ppn, << >>), block_map, trim_map, stored)
        /\ ContentInv(flash, PlacesOf(ppn, << >>), block_map, stored, lost)
        /\ RequestInv(stack, bm, block_map, trim_map)
    BY <1>4 DEF SoundInv
  <1>6. /\ bm \in BlockManagerType /\ block_map \in BMapType /\ ppn \in [Lpns -> Ppns \cup {NoPpn}]
        /\ currentDataPage \in Ppns \cup {NoPpn} /\ stored \in [Lpns -> Contents]
        /\ reverse_trans_map \in [Ppns -> Lpns \cup {NoLpn}] /\ cached \in SUBSET Lpns
    BY <1>5 DEF BTypes
  <1>7. PlacesOf(ppn, << >>) = P
    BY <1>6, PlacesAtRest
  <1>8. /\ ~block_map[Lbn(l)].optimal /\ ~trim_map[l]
        /\ top.page # NoPpn => top.page[1] < bm.fresh
    BY <1>1, <1>5 DEF RequestInv
  <1>9. top.page = NoPpn => BHanded(stack) /\ currentDataPage \in Ppns /\ currentDataPage[1] < bm.fresh
    <2>1. top.page = NoPpn => BHanded(stack)
      BY <1>1 DEF BHanded
    <2>2. BHanded(stack) => currentDataPage # NoPpn /\ currentDataPage[1] < bm.fresh
      BY <1>5 DEF BCurInv
    <2>. QED
      BY <1>6, <2>1, <2>2
  <1>10. p \in Ppns /\ c \in Blocks /\ c < bm.fresh
    <2>1. p \in Ppns /\ c < bm.fresh
      BY <1>2, <1>8, <1>9
    <2>. QED
      BY <2>1 DEF Ppns
  <1>11. top.page = NoPpn => p = currentDataPage
    OBVIOUS
  <1>12. top.page # NoPpn => (CanFill(currentDataPage) => currentDataPage[1] # c)
    BY <1>3 DEF Filling, AtEnd, CanFill
  <1>. HIDE DEF l, d, p, c, g, w, P, Q, q
  <1>13. \A n \in Lpns : P[n] # NoPpn => P[n] \in Ppns /\ flash.page[P[n]] = "VALID" /\ P[n][1] \notin w
    BY <1>5, <1>6, <1>7 DEF BPlacesInv, P
  <1>14. q = P[l] /\ q \in Ppns \cup {NoPpn} /\ (q # NoPpn => flash.page[q] = "VALID" /\ q[1] \notin w)
    BY <1>2, <1>6, <1>13 DEF P, q
  <1>15. FlashSound(g) /\ CountInv(g) /\ Placed(flash, g, p, d, q)
    <2>1. g = Replace(Program(flash, p, d), q)
      BY <1>3 DEF g
    <2>. QED
      BY <1>2, <1>3, <1>5, <1>10, <1>14, <2>1, BProgrammed
  <1>16. StaysEmpty(flash, g, c) /\ NotGone(flash, g, w)
    BY <1>10, <1>14, <1>15, PlacedKeeps DEF c
  <1>17. BListInv(g, bm)
    <2>1. c \in Blocks \cup {NoBlock} /\ (c # NoBlock => c < bm.fresh /\ c \notin Members(bm.free_list))
      BY <1>3, <1>10
    <2>. QED
      BY <1>5, <1>6, <1>16, <2>1, BListKept
  <1>18. BCurInv(g, bm, currentDataPage, FALSE, w)
    <2>1. CASE top.page = NoPpn
      <3>1. BHanded(stack) = TRUE
        BY <1>9, <2>1 DEF BHanded
      <3>2. BCurInv(flash, bm, currentDataPage, TRUE, w) /\ currentDataPage \in Ppns
        BY <1>5, <1>9, <2>1, <3>1
      <3>3. Placed(flash, g, currentDataPage, d, q)
        BY <1>11, <1>15, <2>1
      <3>. QED
        BY <1>14, <3>2, <3>3, BCurWritten
    <2>2. CASE top.page # NoPpn
      <3>1. BCurInv(flash, bm, currentDataPage, FALSE, w)
        BY <1>5 DEF BCurInv
      <3>2. FALSE \/ CanFill(currentDataPage) =>
              /\ currentDataPage[1] \notin Members(bm.free_list)
              /\ currentDataPage[1] \notin w /\ currentDataPage[1] # c
        BY <1>12, <2>2, <3>1 DEF BCurInv
      <3>3. bm.fresh <= bm.fresh /\ (FALSE => FALSE)
        BY <1>6 DEF BlockManagerType
      <3>. QED
        BY <1>6, <1>16, <3>1, <3>2, <3>3, BCurKept
    <2>. QED
      BY <2>1, <2>2
  <1>19. BMapInv(g, bm, block_map)
    <2>1. \A b \in MapBlocks(block_map) : b \notin Members(bm.free_list)
      BY <1>5 DEF BMapInv
    <2>2. NotGone(flash, g, MapBlocks(block_map)) /\ bm.fresh <= bm.fresh /\ Fewer(block_map, block_map)
      BY <1>6, <1>16, FewerSame DEF BlockManagerType, w
    <2>. QED
      BY <1>5, <1>6, <2>1, <2>2, BMapKept
  <1>20. Q = Mapped(P, l, p) /\ Placed(flash, g, p, d, P[l])
    BY <1>3, <1>14, <1>15 DEF P, Q
  <1>21. BPlacesInv(flash, P, w) /\ P \in [Lpns -> Ppns \cup {NoPpn}]
    BY <1>5, <1>6, <1>7 DEF P
  <1>22. BPlacesInv(g, Q, w)
    BY <1>2, <1>3, <1>10, <1>20, <1>21, BPlacesMoved DEF c
  <1>23. Q \in [Lpns -> Ppns \cup {NoPpn}] /\ reverse_trans_map' \in [Ppns -> Lpns \cup {NoLpn}]
    BY <1>2, <1>3, <1>6, <1>10 DEF Q, Mapped
  <1>24. PlacesOf(ppn', << >>) = Q
    BY <1>23, PlacesAtRest DEF Q
  <1>25. ReverseInv(Q, reverse_trans_map', << >>)
    <2>1. \A n \in Lpns : P[n] # p
      BY <1>3, <1>10, <1>13, NoPpnNotPage
    <2>2. ReverseInv(P, reverse_trans_map, << >>)
      BY <1>5 DEF P
    <2>. QED
      BY <1>2, <1>3, <1>6, <1>10, <1>20, <1>21, <2>1, <2>2, BReverseWritten
  <1>26. StoredNow(stored, lost, l, d, stored', lost')
    BY <1>2, <1>3, <1>6, StoreEffect
  <1>27. OneMapInv(Q, block_map, trim_map, stored')
    <2>1. \A n \in Lpns : n # l => Q[n] = P[n]
      BY <1>20 DEF Mapped
    <2>2. OneMapInv(P, block_map, trim_map, stored)
      BY <1>5, <1>7
    <2>. QED
      BY <1>8, <1>26, <2>1, <2>2 DEF OneMapInv, StoredNow
  <1>28. ContentInv(g, Q, block_map, stored', lost')
    <2>1. /\ BPlacesInv(flash, P, MapBlocks(block_map))
          /\ ContentInv(flash, P, block_map, stored, lost)
      BY <1>5, <1>7, <1>21 DEF w
    <2>2. Restored(stored, lost, l, d, stored', lost')
      BY <1>26 DEF StoredNow, Restored
    <2>4. /\ P \in [Lpns -> Ppns \cup {NoPpn}] /\ block_map \in BMapType
          /\ BMapInv(flash, bm, block_map) /\ l \in Lpns /\ ~block_map[Lbn(l)].optimal
          /\ p \in Ppns /\ flash.page[p] = "EMPTY"
      BY <1>2, <1>3, <1>5, <1>6, <1>8, <1>10, <1>21
    <2>5. Placed(flash, g, p, d, P[l]) /\ Q = Mapped(P, l, p)
      BY <1>20
    <2>. QED
      BY <2>1, <2>2, <2>4, <2>5, ContentPlaced
  <1>29. stack' = << >> /\ BStackSound(stack') /\ NoneIn(stack') /\ ~BHanded(stack')
    <2>1. stack' = << >>
      BY <1>1, <1>3, BReturnTop
    <2>. QED
      BY <2>1, EmptySound
  <1>30. VictimIn(stack') = NoBlock /\ MovedIn(stack') = << >>
    BY <1>29, RestViews
  <1>31. cached' \in SUBSET Lpns
    BY <1>2, <1>3, <1>6, ResolveKeepsType
  <1>32. BTypes'
    BY <1>3, <1>5, <1>23, <1>26, <1>31 DEF BTypes, Q, StoredNow
  <1>33. /\ FlashSound(flash)' /\ CountInv(flash)' /\ BListInv(flash, bm)'
         /\ BMapInv(flash, bm, block_map)' /\ NextInv(block_map)'
         /\ BPoolInv(bm, inuseBlock, blockQueue)'
    BY <1>3, <1>5, <1>15, <1>17, <1>19 DEF g
  <1>34. BCurInv(flash, bm, currentDataPage, BHanded(stack), MapBlocks(block_map))'
    <2>1. BHanded(stack') = FALSE
      BY <1>29 DEF BHanded
    <2>. QED
      BY <1>3, <1>18, <2>1 DEF g, w
  <1>35. /\ BPlacesInv(flash, PlacesOf(ppn, MovedIn(stack)), MapBlocks(block_map))'
         /\ ReverseInv(ppn, reverse_trans_map, MovedIn(stack))'
         /\ OneMapInv(PlacesOf(ppn, MovedIn(stack)), block_map, trim_map, stored)'
         /\ ContentInv(flash, PlacesOf(ppn, MovedIn(stack)), block_map, stored, lost)'
    <2>1. PlacesOf(ppn', MovedIn(stack')) = Q
      BY <1>24, <1>30
    <2>2. ReverseInv(ppn', reverse_trans_map', MovedIn(stack'))
      BY <1>25, <1>30 DEF Q
    <2>. QED
      BY <1>3, <1>22, <1>27, <1>28, <2>1, <2>2 DEF g, w
  <1>36. /\ BVictimInv(flash, bm, ppn, VictimIn(stack), MovedIn(stack), DoneIn(stack), CopyingIn(stack))'
         /\ RequestInv(stack, bm, block_map, trim_map)'
    BY <1>29, <1>30 DEF BVictimInv, RequestInv
  <1>. QED
    BY <1>29, <1>32, <1>33, <1>34, <1>35, <1>36 DEF SoundInv

---------------------------------------------------------------------------
(* Between the requests.                                                   *)

BlocksRest(f, m, c, k, b, q) ==
  /\ FlashSound(f) /\ CountInv(f) /\ BListInv(f, m) /\ BCurInv(f, m, c, FALSE, MapBlocks(k))
  /\ BMapInv(f, m, k) /\ NextInv(k) /\ BPoolInv(m, b, q)

PagesRest(f, P, r, k, t, e, lo) ==
  /\ BPlacesInv(f, P, MapBlocks(k)) /\ ReverseInv(P, r, << >>) /\ OneMapInv(P, k, t, e)
  /\ ContentInv(f, P, k, e, lo)

BRestInv ==
  /\ BTypes
  /\ BlocksRest(flash, bm, currentDataPage, block_map, inuseBlock, blockQueue)
  /\ PagesRest(flash, ppn, reverse_trans_map, block_map, trim_map, stored, lost)

LEMMA BRest ==
  ASSUME SoundInv, stack = << >>
  PROVE  BRestInv
  <1>1. NoneIn(stack) /\ ~BHanded(stack)
    BY EmptySound
  <1>2. VictimIn(stack) = NoBlock /\ MovedIn(stack) = << >> /\ BHanded(stack) = FALSE
    BY <1>1, RestViews DEF BHanded
  <1>3. BTypes
    BY DEF SoundInv
  <1>4. PlacesOf(ppn, MovedIn(stack)) = ppn
    BY <1>2, <1>3, PlacesAtRest DEF BTypes
  <1>5. BlocksRest(flash, bm, currentDataPage, block_map, inuseBlock, blockQueue)
    BY <1>2 DEF SoundInv, BlocksRest
  <1>6. PagesRest(flash, ppn, reverse_trans_map, block_map, trim_map, stored, lost)
    BY <1>2, <1>4 DEF SoundInv, PagesRest
  <1>. QED
    BY <1>3, <1>5, <1>6 DEF BRestInv

\* So it is when a request begins, as long as nothing is collected ...
LEMMA BRequested ==
  ASSUME BStackSound(stack'), NoneIn(stack'), ~BHanded(stack'),
         RequestInv(stack', bm', block_map', trim_map'), BTypes',
         BlocksRest(flash', bm', currentDataPage', block_map', inuseBlock', blockQueue'),
         PagesRest(flash', ppn', reverse_trans_map', block_map', trim_map', stored', lost')
  PROVE  SoundInv'
  <1>2. VictimIn(stack') = NoBlock /\ MovedIn(stack') = << >> /\ BHanded(stack') = FALSE
    BY RestViews DEF BHanded
  <1>3. PlacesOf(ppn', MovedIn(stack')) = ppn'
    BY <1>2, PlacesAtRest DEF BTypes
  <1>4. /\ FlashSound(flash)' /\ CountInv(flash)' /\ BListInv(flash, bm)'
        /\ BCurInv(flash, bm, currentDataPage, BHanded(stack), MapBlocks(block_map))'
        /\ BMapInv(flash, bm, block_map)' /\ NextInv(block_map)'
        /\ BPoolInv(bm, inuseBlock, blockQueue)'
    BY <1>2 DEF BlocksRest
  <1>5. /\ BPlacesInv(flash, PlacesOf(ppn, MovedIn(stack)), MapBlocks(block_map))'
        /\ ReverseInv(ppn, reverse_trans_map, MovedIn(stack))'
        /\ OneMapInv(PlacesOf(ppn, MovedIn(stack)), block_map, trim_map, stored)'
        /\ ContentInv(flash, PlacesOf(ppn, MovedIn(stack)), block_map, stored, lost)'
    BY <1>2, <1>3 DEF PagesRest
  <1>6. BVictimInv(flash, bm, ppn, VictimIn(stack), MovedIn(stack), DoneIn(stack), CopyingIn(stack))'
    BY <1>2 DEF BVictimInv
  <1>7. RequestInv(stack, bm, block_map, trim_map)'
    OBVIOUS
  <1>. QED
    BY <1>4, <1>5, <1>6, <1>7 DEF SoundInv

\* ... and when it ends.
LEMMA BRested ==
  ASSUME stack' = << >>, BTypes',
         BlocksRest(flash', bm', currentDataPage', block_map', inuseBlock', blockQueue'),
         PagesRest(flash', ppn', reverse_trans_map', block_map', trim_map', stored', lost')
  PROVE  SoundInv'
  <1>1. BStackSound(stack') /\ NoneIn(stack') /\ ~BHanded(stack')
    BY EmptySound
  <1>2. RequestInv(stack', bm', block_map', trim_map')
    BY DEF RequestInv
  <1>. QED
    BY <1>1, <1>2, BRequested

---------------------------------------------------------------------------
(* A page is trimmed.                                                      *)

\* The page is marked, and the host finds nothing there.
Trimmed(e, lo, l, t, e2, lo2, t2) ==
  /\ StoredNow(e, lo, l, NoData, e2, lo2)
  /\ t2 \in [Lpns -> BOOLEAN] /\ \A n \in Lpns : n # l => t2[n] = t[n]

LEMMA TrimmedMap ==
  ASSUME NEW P, NEW Q, NEW k, NEW k2, NEW t, NEW t2, NEW e, NEW e2, NEW lo, NEW lo2, NEW l \in Lpns,
         OneMapInv(P, k, t, e), Trimmed(e, lo, l, t, e2, lo2, t2),
         Q[l] = NoPpn, \A n \in Lpns : n # l => Q[n] = P[n],
         \A n \in Lpns : k2[Lbn(n)].optimal => k[Lbn(n)].optimal \/ Q[n] = NoPpn
  PROVE  OneMapInv(Q, k2, t2, e2)
  BY DEF OneMapInv, Trimmed, StoredNow

LEMMA BTrimmedStep ==
  ASSUME NEW l \in Lpns, stored \in [Lpns -> Contents], trim_map \in [Lpns -> BOOLEAN],
         Store(l, NoData), trim_map' = [trim_map EXCEPT ![l] = TRUE]
  PROVE  Trimmed(stored, lost, l, trim_map, stored', lost', trim_map')
  <1>1. NoData \in Contents
    BY DEF Contents
  <1>2. StoredNow(stored, lost, l, NoData, stored', lost')
    BY <1>1, StoreEffect
  <1>. QED
    BY <1>2 DEF Trimmed

\* A trim that touches no page.
LEMMA BTrimNothing ==
  ASSUME BRestInv, NEW l \in Lpns, ppn[l] = NoPpn,
         Store(l, NoData), trim_map' = [trim_map EXCEPT ![l] = TRUE],
         UNCHANGED <<flash, bm, maps, cached, currentDataPage, block_map, pool>>, stack' = << >>
  PROVE  SoundInv'
  <1>1. /\ flash' = flash /\ bm' = bm /\ ppn' = ppn /\ reverse_trans_map' = reverse_trans_map
        /\ cached' = cached /\ currentDataPage' = currentDataPage /\ block_map' = block_map
        /\ inuseBlock' = inuseBlock /\ blockQueue' = blockQueue
    BY DEF maps, pool
  <1>2. BTypes /\ stored \in [Lpns -> Contents] /\ trim_map \in [Lpns -> BOOLEAN]
    BY DEF BRestInv, BTypes
  <1>3. Trimmed(stored, lost, l, trim_map, stored', lost', trim_map')
    BY <1>2, BTrimmedStep
  <1>4. BTypes'
    BY <1>1, <1>2, <1>3 DEF BTypes, Trimmed, StoredNow
  <1>5. BlocksRest(flash', bm', currentDataPage', block_map', inuseBlock', blockQueue')
    BY <1>1 DEF BRestInv
  <1>6. /\ BPlacesInv(flash, ppn, MapBlocks(block_map)) /\ ReverseInv(ppn, reverse_trans_map, << >>)
        /\ OneMapInv(ppn, block_map, trim_map, stored)
        /\ ContentInv(flash, ppn, block_map, stored, lost)
    BY DEF BRestInv, PagesRest
  <1>7. OneMapInv(ppn, block_map, trim_map', stored')
    <2>1. \A n \in Lpns : block_map[Lbn(n)].optimal => block_map[Lbn(n)].optimal \/ ppn[n] = NoPpn
      OBVIOUS
    <2>. QED
      BY <1>3, <1>6, <2>1, TrimmedMap
  <1>8. ContentInv(flash, ppn, block_map, stored', lost')
    BY <1>3, <1>6 DEF ContentInv, Trimmed, StoredNow
  <1>9. PagesRest(flash', ppn', reverse_trans_map', block_map', trim_map', stored', lost')
    BY <1>1, <1>6, <1>7, <1>8 DEF PagesRest
  <1>. QED
    BY <1>4, <1>5, <1>9, BRested

\* The block map and what a trim in one of its blocks leaves alone.
LEMMA TrimmedPlace ==
  ASSUME BRestInv, NEW l \in Lpns, block_map[Lbn(l)].optimal, NEW c, c = block_map[Lbn(l)].pbn,
         c # NoBlock, NEW p, p = <<c, Off(l)>>
  PROVE  /\ c \in Blocks /\ c \in MapBlocks(block_map) /\ p \in Ppns /\ p[1] = c
         /\ c < bm.fresh /\ c \notin Members(bm.free_list)
         /\ ppn[l] = NoPpn /\ Where(ppn, block_map, l) = p
         /\ \A n \in Lpns : n # l => Where(ppn, block_map, n) # p
         /\ \A i \in Lbns : block_map[i].optimal /\ block_map[i].pbn = c => i = Lbn(l)
         /\ \A n \in Lpns : ppn[n] # NoPpn => ppn[n] \in Ppns /\ ppn[n][1] # c
         /\ CanFill(currentDataPage) => currentDataPage[1] # c
  <1>1. Lbn(l) \in Lbns /\ Off(l) \in Offsets
    BY LbnOff
  <1>2. block_map \in BMapType /\ ppn \in [Lpns -> Ppns \cup {NoPpn}]
    BY DEF BRestInv, BTypes
  <1>3. c \in MapBlocks(block_map)
    BY <1>1, <1>2, MapBlocksOf
  <1>4. c \in Blocks
    BY <1>2, <1>3, MapBlocksOf
  <1>5. p \in Ppns /\ p[1] = c
    BY <1>1, <1>4 DEF Ppns
  <1>6. /\ BMapInv(flash, bm, block_map) /\ BPlacesInv(flash, ppn, MapBlocks(block_map))
        /\ OneMapInv(ppn, block_map, trim_map, stored)
        /\ BCurInv(flash, bm, currentDataPage, FALSE, MapBlocks(block_map))
    BY DEF BRestInv, BlocksRest, PagesRest
  <1>7. Where(ppn, block_map, l) = p
    BY DEF Where
  <1>8. p # NoPpn
    BY <1>5, NoPpnNotPage
  <1>9. \A n \in Lpns : n # l => Where(ppn, block_map, n) # p
    BY <1>2, <1>6, <1>7, <1>8, WhereDistinct
  <1>10. \A n \in Lpns : ppn[n] # NoPpn => ppn[n] \in Ppns /\ ppn[n][1] # c
    BY <1>2, <1>3, <1>6 DEF BPlacesInv
  <1>11. CanFill(currentDataPage) => currentDataPage[1] # c
    BY <1>3, <1>6 DEF BCurInv
  <1>12. c < bm.fresh /\ c \notin Members(bm.free_list)
    BY <1>3, <1>6 DEF BMapInv
  <1>13. \A i \in Lbns : block_map[i].optimal /\ block_map[i].pbn = c => i = Lbn(l)
    BY <1>1, <1>6 DEF BMapInv
  <1>14. ppn[l] = NoPpn
    BY <1>6 DEF OneMapInv
  <1>. QED
    BY <1>3, <1>4, <1>5, <1>7, <1>9, <1>10, <1>11, <1>12, <1>13, <1>14

LEMMA BTrimInBlock ==
  ASSUME BRestInv, NEW l \in Lpns, block_map[Lbn(l)].optimal, block_map[Lbn(l)].pbn # NoBlock,
         flash' = Invalidate(flash, <<block_map[Lbn(l)].pbn, Off(l)>>),
         flash'.pages_invalid[block_map[Lbn(l)].pbn] < BLOCK_SIZE,
         Store(l, NoData), trim_map' = [trim_map EXCEPT ![l] = TRUE],
         UNCHANGED <<bm, maps, cached, currentDataPage, block_map, pool>>, stack' = << >>
  PROVE  SoundInv'
  <1>. DEFINE c == block_map[Lbn(l)].pbn
              p == <<c, Off(l)>>
              g == flash'
              k == block_map
              w == MapBlocks(block_map)
  <1>1. /\ bm' = bm /\ ppn' = ppn /\ reverse_trans_map' = reverse_trans_map
        /\ cached' = cached /\ currentDataPage' = currentDataPage /\ block_map' = block_map
        /\ inuseBlock' = inuseBlock /\ blockQueue' = blockQueue
    BY DEF maps, pool
  <1>2. /\ BTypes /\ stored \in [Lpns -> Contents] /\ trim_map \in [Lpns -> BOOLEAN]
        /\ bm \in BlockManagerType /\ currentDataPage \in Ppns \cup {NoPpn} /\ k \in BMapType
        /\ ppn \in [Lpns -> Ppns \cup {NoPpn}]
    BY DEF BRestInv, BTypes
  <1>3. /\ FlashSound(flash) /\ CountInv(flash) /\ BListInv(flash, bm)
        /\ BCurInv(flash, bm, currentDataPage, FALSE, w)
        /\ BMapInv(flash, bm, k) /\ NextInv(k) /\ BPoolInv(bm, inuseBlock, blockQueue)
        /\ BPlacesInv(flash, ppn, w) /\ ReverseInv(ppn, reverse_trans_map, << >>)
        /\ OneMapInv(ppn, k, trim_map, stored)
        /\ ContentInv(flash, ppn, k, stored, lost)
    BY DEF BRestInv, BlocksRest, PagesRest
  <1>4. c # NoBlock /\ g = Invalidate(flash, p) /\ g.pages_invalid[c] < BLOCK_SIZE
    OBVIOUS
  <1>5. /\ c \in Blocks /\ c \in w /\ p \in Ppns /\ p[1] = c
        /\ c < bm.fresh /\ c \notin Members(bm.free_list)
        /\ ppn[l] = NoPpn /\ Where(ppn, k, l) = p
        /\ \A n \in Lpns : n # l => Where(ppn, k, n) # p
        /\ \A n \in Lpns : ppn[n] # NoPpn => ppn[n] \in Ppns /\ ppn[n][1] # c
        /\ CanFill(currentDataPage) => currentDataPage[1] # c
    BY TrimmedPlace
  <1>. HIDE DEF c, p, g, k, w
  <1>6. /\ FlashSound(g) /\ CountInv(g) /\ PageGone(flash, g, p) /\ g.data = flash.data
    BY <1>3, <1>4, <1>5, BInvalidated
  <1>7. \A x \in Ppns : x # p => SameAt(flash, g, x)
    BY <1>6, GoneSame
  <1>8. StaysEmpty(flash, g, c)
    BY <1>5, <1>7 DEF StaysEmpty, SameAt
  <1>9. BListInv(g, bm)
    <2>1. c \in Blocks \cup {NoBlock} /\ (c # NoBlock => c < bm.fresh /\ c \notin Members(bm.free_list))
      BY <1>5
    <2>. QED
      BY <1>2, <1>3, <1>8, <2>1, BListKept
  <1>10. BCurInv(g, bm, currentDataPage, FALSE, w)
    <2>1. FALSE \/ CanFill(currentDataPage) =>
            /\ currentDataPage[1] \notin Members(bm.free_list)
            /\ currentDataPage[1] \notin w /\ currentDataPage[1] # c
      BY <1>3, <1>5 DEF BCurInv
    <2>2. bm.fresh <= bm.fresh /\ (FALSE => FALSE)
      BY <1>2 DEF BlockManagerType
    <2>. QED
      BY <1>2, <1>3, <1>8, <2>1, <2>2, BCurKept
  <1>11. BMapInv(g, bm, k)
    <2>1. ASSUME NEW b \in w
          PROVE  \E o \in Offsets : g.page[<<b, o>>] # "INVALID"
      <3>1. CASE b = c
        BY <1>4, <1>5, <1>6, <3>1, SomePageLeft
      <3>2. CASE b # c
        <4>1. b \in Blocks
          BY <1>2, MapBlocksOf DEF w, k
        <4>2. PICK o \in Offsets : flash.page[<<b, o>>] # "INVALID"
          BY <1>3 DEF BMapInv, w, k
        <4>3. <<b, o>> \in Ppns /\ <<b, o>> # p
          BY <1>5, <3>2, <4>1 DEF Ppns
        <4>4. g.page[<<b, o>>] # "INVALID"
          BY <1>7, <4>2, <4>3 DEF SameAt
        <4>. QED
          BY <4>4
      <3>. QED
        BY <3>1, <3>2
    <2>. QED
      BY <1>3, <2>1 DEF BMapInv, w, k
  <1>12. BPlacesInv(g, ppn, w)
    <2>1. \A n \in Lpns : ppn[n] # NoPpn => ppn[n] # p
      BY <1>5
    <2>2. \A n \in Lpns : ppn[n] # NoPpn => SameAt(flash, g, ppn[n]) /\ ppn[n][1] \notin w
      BY <1>3, <1>5, <1>7, <2>1 DEF BPlacesInv
    <2>. QED
      BY <1>3, <2>2, BPlacesKept
  <1>13. Trimmed(stored, lost, l, trim_map, stored', lost', trim_map')
    BY <1>2, BTrimmedStep
  <1>14. OneMapInv(ppn, k, trim_map', stored')
    <2>1. \A n \in Lpns : k[Lbn(n)].optimal => k[Lbn(n)].optimal \/ ppn[n] = NoPpn
      OBVIOUS
    <2>. QED
      BY <1>3, <1>5, <1>13, <2>1, TrimmedMap
  <1>15. ContentInv(g, ppn, k, stored', lost')
    <2>. SUFFICES ASSUME NEW n \in Lpns \ lost'
                  PROVE  \/ stored'[n] = NoData
                         \/ SamePlace(flash, g, ppn, ppn, k, k, stored, stored', lost, n)
      BY <1>3, ContentStep
    <2>1. CASE n = l
      BY <1>13, <2>1 DEF Trimmed, StoredNow
    <2>2. CASE n # l
      <3>1. stored'[n] = stored[n] /\ n \notin lost
        BY <1>13, <2>2 DEF Trimmed, StoredNow
      <3>2. Where(ppn, k, n) \in Ppns \cup {NoPpn} /\ Where(ppn, k, n) # p
        BY <1>2, <1>5, <2>2, WhereType
      <3>3. Where(ppn, k, n) # NoPpn => SameAt(flash, g, Where(ppn, k, n))
        BY <1>7, <3>2
      <3>. QED
        BY <3>1, <3>3 DEF SamePlace
    <2>. QED
      BY <2>1, <2>2
  <1>16. BTypes'
    BY <1>1, <1>2, <1>13 DEF BTypes, Trimmed, StoredNow
  <1>17. BlocksRest(flash', bm', currentDataPage', block_map', inuseBlock', blockQueue')
    BY <1>1, <1>3, <1>6, <1>9, <1>10, <1>11 DEF BlocksRest, g, k, w
  <1>18. PagesRest(flash', ppn', reverse_trans_map', block_map', trim_map', stored', lost')
    BY <1>1, <1>3, <1>12, <1>14, <1>15 DEF PagesRest, g, k, w
  <1>. QED
    BY <1>16, <1>17, <1>18, BRested

\* The block c of logical block j, wholly INVALID, is forgotten; g and n are
\* the flash and the lists with or without its erase.
ErasedOrNot(f, m, c, g, n) ==
  \/ g = f /\ n = m
  \/ CanErase(f, c) /\ g = Erase(f, {c}) /\ n = EraseAndInvalidate(m, c, "DATA")

LEMMA ErasedOrNotEffect ==
  ASSUME NEW f, FlashSound(f), CountInv(f), NEW m \in BlockManagerType, NEW c \in Blocks,
         NEW g, NEW n, ErasedOrNot(f, m, c, g, n), BListInv(f, m),
         c < m.fresh, c \notin Members(m.free_list)
  PROVE  /\ FlashSound(g) /\ CountInv(g) /\ BListInv(g, n) /\ n \in BlockManagerType
         /\ n.fresh = m.fresh
         /\ \A x \in Ppns : x[1] # c => SameAt(f, g, x)
         /\ \A x : x # c => (x \in Members(n.free_list) <=> x \in Members(m.free_list))
  <1>1. CASE g = f /\ n = m
    BY <1>1 DEF SameAt
  <1>2. CASE CanErase(f, c) /\ g = Erase(f, {c}) /\ n = EraseAndInvalidate(m, c, "DATA")
    <2>1. FlashSound(g) /\ CountInv(g) /\ BlockGone(f, g, c) /\ AllEmpty(g, c)
      BY <1>2, BErased
    <2>2. \A x \in Ppns : x[1] # c => SameAt(f, g, x)
      BY <2>1, ErasedSame
    <2>3. StaysEmpty(f, g, c)
      BY <2>2 DEF StaysEmpty, SameAt
    <2>4. BListInv(g, m)
      <3>1. c \in Blocks \cup {NoBlock} /\ (c # NoBlock => c < m.fresh /\ c \notin Members(m.free_list))
        OBVIOUS
      <3>. QED
        BY <2>3, <3>1, BListKept
    <2>. DEFINE o == [m EXCEPT !.free_list = Append(m.free_list, c)]
    <2>5. o \in BlockManagerType /\ o.fresh = m.fresh /\ o.free_list = Append(m.free_list, c)
      <3>1. Append(m.free_list, c) \in Seq(Blocks)
        BY DEF BlockManagerType
      <3>. QED
        BY <3>1 DEF BlockManagerType
    <2>6. n = CountActive(o, "DATA", -1)
      BY <1>2 DEF EraseAndInvalidate
    <2>. HIDE DEF o
    <2>7. n \in BlockManagerType /\ Joined(m, n, c)
      <3>1. "DATA" \in BlockTypes /\ -1 \in Int
        BY DEF BlockTypes
      <3>2. /\ n \in BlockManagerType /\ n.fresh = o.fresh /\ n.free_list = o.free_list
        BY <2>5, <2>6, <3>1, CountActiveEffect
      <3>. QED
        BY <2>5, <3>2 DEF Joined
    <2>8. /\ BListInv(g, n)
          /\ \A x : x \in Members(n.free_list) <=> x \in Members(m.free_list) \/ x = c
      BY <2>1, <2>4, <2>7, BListJoined
    <2>9. n.fresh = m.fresh
      BY <2>7 DEF Joined
    <2>. QED
      BY <2>1, <2>2, <2>7, <2>8, <2>9
  <1>. QED
    BY <1>1, <1>2 DEF ErasedOrNot

LEMMA BTrimLast ==
  ASSUME BRestInv, NEW l \in Lpns, block_map[Lbn(l)].optimal, block_map[Lbn(l)].pbn # NoBlock,
         NEW f, f = Invalidate(flash, <<block_map[Lbn(l)].pbn, Off(l)>>),
         f.pages_invalid[block_map[Lbn(l)].pbn] >= BLOCK_SIZE,
         ErasedOrNot(f, bm, block_map[Lbn(l)].pbn, flash', bm'),
         block_map' = Forgotten(block_map, Lbn(l)),
         Store(l, NoData), trim_map' = [trim_map EXCEPT ![l] = TRUE],
         UNCHANGED <<maps, cached, currentDataPage, pool>>, stack' = << >>
  PROVE  SoundInv'
  <1>. DEFINE j == Lbn(l)
              c == block_map[Lbn(l)].pbn
              p == <<c, Off(l)>>
              g == flash'
              k == block_map
              k2 == block_map'
              w == MapBlocks(block_map)
  <1>1. /\ ppn' = ppn /\ reverse_trans_map' = reverse_trans_map
        /\ cached' = cached /\ currentDataPage' = currentDataPage
        /\ inuseBlock' = inuseBlock /\ blockQueue' = blockQueue
    BY DEF maps, pool
  <1>2. /\ BTypes /\ stored \in [Lpns -> Contents] /\ trim_map \in [Lpns -> BOOLEAN]
        /\ bm \in BlockManagerType /\ currentDataPage \in Ppns \cup {NoPpn} /\ k \in BMapType
        /\ ppn \in [Lpns -> Ppns \cup {NoPpn}]
    BY DEF BRestInv, BTypes
  <1>3. /\ FlashSound(flash) /\ CountInv(flash) /\ BListInv(flash, bm)
        /\ BCurInv(flash, bm, currentDataPage, FALSE, w)
        /\ BMapInv(flash, bm, k) /\ NextInv(k) /\ BPoolInv(bm, inuseBlock, blockQueue)
        /\ BPlacesInv(flash, ppn, w) /\ ReverseInv(ppn, reverse_trans_map, << >>)
        /\ OneMapInv(ppn, k, trim_map, stored)
        /\ ContentInv(flash, ppn, k, stored, lost)
    BY DEF BRestInv, BlocksRest, PagesRest
  <1>4. /\ c # NoBlock /\ f = Invalidate(flash, p) /\ f.pages_invalid[c] >= BLOCK_SIZE
        /\ ErasedOrNot(f, bm, c, g, bm') /\ k2 = Forgotten(k, j) /\ k[j].optimal /\ k[j].pbn = c
    OBVIOUS
  <1>5. /\ c \in Blocks /\ c \in w /\ p \in Ppns /\ p[1] = c
        /\ c < bm.fresh /\ c \notin Members(bm.free_list)
        /\ ppn[l] = NoPpn /\ Where(ppn, k, l) = p
        /\ \A n \in Lpns : n # l => Where(ppn, k, n) # p
        /\ \A i \in Lbns : k[i].optimal /\ k[i].pbn = c => i = j
        /\ \A n \in Lpns : ppn[n] # NoPpn => ppn[n] \in Ppns /\ ppn[n][1] # c
        /\ CanFill(currentDataPage) => currentDataPage[1] # c
    BY TrimmedPlace
  <1>6. j \in Lbns
    BY LbnOff
  <1>. HIDE DEF j, c, p, g, k, k2, w
  <1>7. FlashSound(f) /\ CountInv(f) /\ PageGone(flash, f, p) /\ f.data = flash.data
    BY <1>3, <1>4, <1>5, BInvalidated
  <1>8. \A x \in Ppns : x # p => SameAt(flash, f, x)
    BY <1>7, GoneSame
  <1>9. \A o \in Offsets : f.page[<<c, o>>] = "INVALID"
    <2>1. f.pages_invalid[c] \in Nat
      BY <1>5, <1>7 DEF FlashSound, FlashType
    <2>. QED
      BY <1>4, <1>5, <1>7, <2>1, AllInvalid
  <1>10. BListInv(f, bm)
    <2>1. c \in Blocks \cup {NoBlock} /\ (c # NoBlock => c < bm.fresh /\ c \notin Members(bm.free_list))
      BY <1>5
    <2>2. StaysEmpty(flash, f, c)
      BY <1>5, <1>8 DEF StaysEmpty, SameAt
    <2>. QED
      BY <1>2, <1>3, <2>1, <2>2, BListKept
  <1>11. /\ FlashSound(g) /\ CountInv(g) /\ BListInv(g, bm') /\ bm' \in BlockManagerType
         /\ bm'.fresh = bm.fresh
         /\ \A x \in Ppns : x[1] # c => SameAt(f, g, x)
         /\ \A x : x # c => (x \in Members(bm'.free_list) <=> x \in Members(bm.free_list))
    BY <1>2, <1>4, <1>5, <1>7, <1>10, ErasedOrNotEffect
  <1>12. \A x \in Ppns : x[1] # c => SameAt(flash, g, x)
    BY <1>5, <1>8, <1>11 DEF SameAt
  <1>13. /\ k2 \in BMapType /\ Fewer(k, k2) /\ \A i \in Lbns : i # j => k2[i] = k[i]
         /\ k2[j].optimal /\ k2[j].pbn = NoBlock /\ k2[j].nextPage = 0
    BY <1>2, <1>4, <1>6, ForgottenMap
  <1>14. MapBlocks(k2) \subseteq w /\ c \notin MapBlocks(k2)
    <2>1. \A b : b \in MapBlocks(k2) <=> \E i \in Lbns : k2[i].optimal /\ k2[i].pbn = b /\ b # NoBlock
      BY <1>13, MapBlocksOf
    <2>2. \A b : b \in w <=> \E i \in Lbns : k[i].optimal /\ k[i].pbn = b /\ b # NoBlock
      BY <1>2, MapBlocksOf DEF w, k
    <2>3. MapBlocks(k2) \subseteq w
      BY <1>13, <2>1, <2>2 DEF Fewer
    <2>4. c \notin MapBlocks(k2)
      BY <1>4, <1>5, <1>13, <2>1
    <2>. QED
      BY <2>3, <2>4
  <1>15. StaysEmpty(flash, g, c) /\ NotGone(flash, g, MapBlocks(k2))
    BY <1>12, <1>14 DEF StaysEmpty, NotGone, SameAt
  <1>16. bm.fresh <= bm'.fresh
    BY <1>2, <1>11 DEF BlockManagerType
  <1>17. BCurInv(g, bm', currentDataPage, FALSE, MapBlocks(k2))
    <2>1. FALSE \/ CanFill(currentDataPage) =>
            /\ currentDataPage[1] \notin Members(bm'.free_list)
            /\ currentDataPage[1] \notin MapBlocks(k2) /\ currentDataPage[1] # c
      BY <1>3, <1>5, <1>11, <1>14 DEF BCurInv
    <2>2. FALSE => FALSE
      OBVIOUS
    <2>. QED
      BY <1>2, <1>3, <1>11, <1>15, <1>16, <2>1, <2>2, BCurKept
  <1>18. BMapInv(g, bm', k2)
    <2>1. \A b \in MapBlocks(k2) : b \notin Members(bm'.free_list)
      <3>1. \A b \in w : b \notin Members(bm.free_list)
        BY <1>3 DEF BMapInv, w, k
      <3>. QED
        BY <1>11, <1>14, <3>1
    <2>. QED
      BY <1>2, <1>3, <1>11, <1>13, <1>15, <1>16, <2>1, BMapKept
  <1>19. NextInv(k2)
    BY <1>3, <1>13 DEF NextInv
  <1>20. BPoolInv(bm', inuseBlock, blockQueue)
    BY <1>3, <1>11 DEF BPoolInv
  <1>21. BPlacesInv(g, ppn, MapBlocks(k2))
    <2>1. \A n \in Lpns : ppn[n] # NoPpn => ppn[n][1] \notin MapBlocks(k2)
      BY <1>3, <1>14 DEF BPlacesInv
    <2>2. \A n \in Lpns : ppn[n] # NoPpn => SameAt(flash, g, ppn[n])
      BY <1>5, <1>12
    <2>. QED
      BY <1>3, <2>1, <2>2, BPlacesKept
  <1>22. Trimmed(stored, lost, l, trim_map, stored', lost', trim_map')
    BY <1>2, BTrimmedStep
  <1>23. OneMapInv(ppn, k2, trim_map', stored')
    <2>1. \A n \in Lpns : Lbn(n) \in Lbns
      BY LbnOff
    <2>2. \A n \in Lpns : k2[Lbn(n)].optimal => k[Lbn(n)].optimal \/ ppn[n] = NoPpn
      BY <1>4, <1>13, <2>1
    <2>. QED
      BY <1>3, <1>5, <1>22, <2>2, TrimmedMap
  <1>24. ContentInv(g, ppn, k2, stored', lost')
    <2>. SUFFICES ASSUME NEW n \in Lpns \ lost'
                  PROVE  \/ stored'[n] = NoData
                         \/ SamePlace(flash, g, ppn, ppn, k, k2, stored, stored', lost, n)
      BY <1>3, ContentStep
    <2>1. CASE n = l
      BY <1>22, <2>1 DEF Trimmed, StoredNow
    <2>2. CASE n # l
      <3>1. stored'[n] = stored[n] /\ n \notin lost
        BY <1>22, <2>2 DEF Trimmed, StoredNow
      <3>2. Lbn(n) \in Lbns /\ Off(n) \in Offsets
        BY LbnOff
      <3>3. CASE Lbn(n) = j
        <4>1. Where(ppn, k, n) = <<c, Off(n)>> /\ <<c, Off(n)>> # p
          BY <1>4, <1>5, <2>2, <3>3 DEF Where
        <4>2. <<c, Off(n)>> \in Ppns
          BY <1>5, <3>2 DEF Ppns
        <4>3. flash.page[<<c, Off(n)>>] = "INVALID"
          BY <1>8, <1>9, <3>2, <4>1, <4>2 DEF SameAt
        <4>4. stored[n] = NoData
          BY <1>3, <3>1, <4>1, <4>3 DEF ContentInv, Holds
        <4>. QED
          BY <3>1, <4>4
      <3>4. CASE Lbn(n) # j
        <4>1. Where(ppn, k2, n) = Where(ppn, k, n)
          BY <1>13, <3>2, <3>4 DEF Where
        <4>2. Where(ppn, k, n) # NoPpn => Where(ppn, k, n) \in Ppns /\ Where(ppn, k, n)[1] # c
          <5>1. CASE k[Lbn(n)].optimal
            <6>1. k[Lbn(n)].pbn # c
              BY <1>5, <3>2, <3>4, <5>1
            <6>. QED
              BY <1>2, <5>1, <6>1, WhereType
          <5>2. CASE ~k[Lbn(n)].optimal
            BY <1>5, <5>2 DEF Where
          <5>. QED
            BY <5>1, <5>2
        <4>3. Where(ppn, k, n) # NoPpn => SameAt(flash, g, Where(ppn, k, n))
          BY <1>12, <4>2
        <4>. QED
          BY <3>1, <4>1, <4>3 DEF SamePlace
      <3>. QED
        BY <3>3, <3>4
    <2>. QED
      BY <2>1, <2>2
  <1>25. BTypes'
    BY <1>1, <1>2, <1>11, <1>13, <1>22 DEF BTypes, Trimmed, StoredNow, k2
  <1>26. BlocksRest(flash', bm', currentDataPage', block_map', inuseBlock', blockQueue')
    BY <1>1, <1>11, <1>17, <1>18, <1>19, <1>20 DEF BlocksRest, g, k2
  <1>27. PagesRest(flash', ppn', reverse_trans_map', block_map', trim_map', stored', lost')
    BY <1>1, <1>3, <1>21, <1>23, <1>24 DEF PagesRest, g, k2
  <1>. QED
    BY <1>25, <1>26, <1>27, BRested

\* An erase shows in the flash.
LEMMA EraseShows ==
  ASSUME NEW f \in FlashType, NEW b \in Blocks, CanErase(f, b)
  PROVE  Erase(f, {b}).erases_remaining # f.erases_remaining
  <1>1. f.erases_remaining[b] \in Nat
    BY DEF FlashType
  <1>2. Erase(f, {b}).erases_remaining[b] = f.erases_remaining[b] - 1
    BY DEF Erase, FlashType
  <1>. QED
    BY <1>1, <1>2

LEMMA WrappedPage ==
  ASSUME NEW l \in Lpns, block_map[Lbn(l)].pbn = NoBlock
  PROVE  TrimmedPage(l) \in Ppns
  <1>1. Off(l) \in Offsets /\ NUMBER_OF_ADDRESSABLE_BLOCKS \in Nat \ {0} /\ BLOCK_SIZE \in Nat \ {0}
    BY LbnOff, GeometryAssumption
  <1>2. /\ NUMBER_OF_ADDRESSABLE_BLOCKS - 1 \in Blocks /\ 0 \in Blocks /\ BLOCK_SIZE - 1 \in Offsets
        /\ Off(l) # 0 => Off(l) - 1 \in Offsets
    BY <1>1 DEF Blocks, Offsets
  <1>3. CASE Off(l) = 0
    <2>1. TrimmedPage(l) = <<NUMBER_OF_ADDRESSABLE_BLOCKS - 1, BLOCK_SIZE - 1>>
      BY <1>3 DEF TrimmedPage
    <2>. QED
      BY <1>2, <2>1 DEF Ppns
  <1>4. CASE Off(l) # 0
    <2>1. TrimmedPage(l) = <<0, Off(l) - 1>>
      BY <1>4 DEF TrimmedPage
    <2>. QED
      BY <1>2, <1>4, <2>1 DEF Ppns
  <1>. QED
    BY <1>3, <1>4

LEMMA BTrimOptimalKeeps ==
  ASSUME SoundInv, NEW l \in Lpns, TrimOptimal(l), ~spoiled'
  PROVE  SoundInv'
  <1>. DEFINE p == TrimmedPage(l)
              f == Invalidate(flash, p)
              b == p[1]
  <1>1. /\ stack = << >> /\ stack' = << >> /\ block_map[Lbn(l)].optimal
        /\ Store(l, NoData) /\ trim_map' = [trim_map EXCEPT ![l] = TRUE]
        /\ UNCHANGED <<maps, cached, currentDataPage, pool>>
        /\ block_map[Lbn(l)].pbn = NoBlock => flash' = flash
    BY DEF TrimOptimal, Idle, cache
  <1>2. \/ /\ f.pages_invalid[b] < BLOCK_SIZE
           /\ flash' = f /\ UNCHANGED <<bm, block_map>>
        \/ /\ ~(f.pages_invalid[b] < BLOCK_SIZE)
           /\ block_map' = Forgotten(block_map, Lbn(l))
           /\ ErasedOrNot(f, bm, b, flash', bm')
    BY DEF TrimOptimal, ForgetBlock, Forgotten, ErasedOrNot
  <1>3. BRestInv
    BY <1>1, BRest
  <1>4. /\ FlashSound(flash) /\ CountInv(flash) /\ NextInv(block_map) /\ block_map \in BMapType
        /\ OneMapInv(ppn, block_map, trim_map, stored)
    BY <1>3 DEF BRestInv, BlocksRest, PagesRest, BTypes
  <1>5. Lbn(l) \in Lbns
    BY LbnOff
  <1>6. CASE block_map[Lbn(l)].pbn = NoBlock
    <2>1. p \in Ppns
      BY <1>6, WrappedPage
    <2>2. b \in Blocks
      BY <2>1 DEF Ppns
    <2>3. FlashSound(f) /\ f.erases_remaining = flash.erases_remaining
      BY <1>4, <2>1, BInvalidated
    <2>4. flash' = flash
      BY <1>1, <1>6
    <2>. HIDE DEF p, f, b
    <2>5. bm' = bm
      <3>. SUFFICES ASSUME CanErase(f, b), flash' = Erase(f, {b}) PROVE FALSE
        BY <1>2 DEF ErasedOrNot
      <3>1. f \in FlashType
        BY <2>3 DEF FlashSound
      <3>. QED
        BY <2>2, <2>3, <2>4, <3>1, EraseShows
    <2>6. block_map[Lbn(l)] = UnmappedBlock
      <3>1. block_map[Lbn(l)].nextPage = 0
        BY <1>1, <1>4, <1>5, <1>6 DEF NextInv
      <3>. QED
        BY <1>1, <1>4, <1>5, <1>6, <3>1 DEF BMapType, UnmappedBlock
    <2>7. Forgotten(block_map, Lbn(l)) = block_map
      BY <1>4, <1>5, <2>6 DEF Forgotten, BMapType
    <2>8. block_map' = block_map
      BY <1>2, <2>7
    <2>9. ppn[l] = NoPpn
      BY <1>1, <1>4 DEF OneMapInv
    <2>. QED
      BY <1>1, <1>3, <2>4, <2>5, <2>8, <2>9, BTrimNothing
  <1>7. CASE block_map[Lbn(l)].pbn # NoBlock
    <2>1. p = <<block_map[Lbn(l)].pbn, Off(l)>> /\ b = block_map[Lbn(l)].pbn
      BY <1>7 DEF TrimmedPage
    <2>2. f = Invalidate(flash, <<block_map[Lbn(l)].pbn, Off(l)>>)
      BY <2>1
    <2>. HIDE DEF p, f, b
    <2>3. CASE f.pages_invalid[b] < BLOCK_SIZE /\ flash' = f /\ UNCHANGED <<bm, block_map>>
      <3>1. /\ flash' = Invalidate(flash, <<block_map[Lbn(l)].pbn, Off(l)>>)
            /\ flash'.pages_invalid[block_map[Lbn(l)].pbn] < BLOCK_SIZE
        BY <2>1, <2>2, <2>3
      <3>2. UNCHANGED <<bm, maps, cached, currentDataPage, block_map, pool>>
        BY <1>1, <2>3
      <3>. QED
        BY <1>1, <1>3, <1>7, <3>1, <3>2, BTrimInBlock
    <2>4. CASE /\ ~(f.pages_invalid[b] < BLOCK_SIZE)
               /\ block_map' = Forgotten(block_map, Lbn(l))
               /\ ErasedOrNot(f, bm, b, flash', bm')
      <3>1. b \in Blocks /\ FlashSound(f)
        <4>1. <<block_map[Lbn(l)].pbn, Off(l)>> \in Ppns /\ block_map[Lbn(l)].pbn \in Blocks
          BY <1>1, <1>3, <1>7, TrimmedPlace
        <4>. QED
          BY <1>4, <2>1, <2>2, <4>1, BInvalidated
      <3>2. f.pages_invalid[block_map[Lbn(l)].pbn] >= BLOCK_SIZE
        <4>1. f.pages_invalid[b] \in Nat
          BY <3>1 DEF FlashSound, FlashType
        <4>. QED
          BY <2>1, <2>4, <4>1, GeometryAssumption
      <3>3. ErasedOrNot(f, bm, block_map[Lbn(l)].pbn, flash', bm')
        BY <2>1, <2>4
      <3>. QED
        BY <1>1, <1>3, <1>7, <2>2, <2>4, <3>2, <3>3, BTrimLast
    <2>. QED
      BY <1>2, <2>3, <2>4
  <1>. QED
    BY <1>6, <1>7

\* A trim through the page map takes its page off the map; when nothing else
\* of the logical block is there, the block map may have it back.
LEMMA ForgetTrimmed ==
  ASSUME NEW k \in BMapType, NEW j \in Lbns, NextInv(k), NEW t, NEW k2,
         k2 = k \/ (k2 = Forgotten(k, j) /\ \A n \in LpnsOf(j) : t[n])
  PROVE  /\ k2 \in BMapType /\ Fewer(k, k2) /\ NextInv(k2) /\ MapBlocks(k2) \subseteq MapBlocks(k)
         /\ \A n \in Lpns : k2[Lbn(n)] = k[Lbn(n)] \/ (k2[Lbn(n)].optimal /\ t[n])
  <1>1. \A n \in Lpns : Lbn(n) \in Lbns
    BY LbnOff
  <1>2. CASE k2 = k
    BY <1>2 DEF Fewer
  <1>3. CASE k2 = Forgotten(k, j) /\ \A n \in LpnsOf(j) : t[n]
    <2>1. /\ k2 \in BMapType /\ Fewer(k, k2) /\ \A i \in Lbns : i # j => k2[i] = k[i]
          /\ k2[j].optimal /\ k2[j].pbn = NoBlock /\ k2[j].nextPage = 0
      BY <1>3, ForgottenMap
    <2>2. NextInv(k2)
      BY <2>1 DEF NextInv
    <2>3. MapBlocks(k2) \subseteq MapBlocks(k)
      BY <2>1, MapBlocksOf DEF Fewer
    <2>4. \A n \in Lpns : k2[Lbn(n)] = k[Lbn(n)] \/ (k2[Lbn(n)].optimal /\ t[n])
      BY <1>1, <1>3, <2>1 DEF LpnsOf
    <2>. QED
      BY <2>1, <2>2, <2>3, <2>4
  <1>. QED
    BY <1>2, <1>3

LEMMA BTrimByPageKeeps ==
  ASSUME SoundInv, NEW l \in Lpns, TrimByPage(l)
  PROVE  SoundInv'
  <1>. DEFINE q == ppn[l]
              g == flash'
              k == block_map
              k2 == block_map'
              w == MapBlocks(block_map)
              P == ppn
              Q == ppn'
  <1>1. /\ stack = << >> /\ stack' = << >> /\ ~k[Lbn(l)].optimal
        /\ Store(l, NoData) /\ trim_map' = [trim_map EXCEPT ![l] = TRUE]
        /\ bm' = bm /\ reverse_trans_map' = reverse_trans_map /\ cached' = cached
        /\ currentDataPage' = currentDataPage /\ inuseBlock' = inuseBlock /\ blockQueue' = blockQueue
        /\ \/ q # NoPpn /\ g = Invalidate(flash, q) /\ ppn' = [ppn EXCEPT ![l] = NoPpn]
           \/ q = NoPpn /\ g = flash /\ ppn' = ppn
    BY DEF TrimByPage, Trim, Idle, vars, maps, cache, pool
  <1>2. k2 = k \/ (k2 = Forgotten(k, Lbn(l)) /\ \A n \in LpnsOf(Lbn(l)) : trim_map'[n])
    BY DEF TrimByPage, AllTrimmed, ForgetBlock, Forgotten
  <1>3. BRestInv
    BY <1>1, BRest
  <1>4. /\ BTypes /\ stored \in [Lpns -> Contents] /\ trim_map \in [Lpns -> BOOLEAN]
        /\ bm \in BlockManagerType /\ currentDataPage \in Ppns \cup {NoPpn} /\ k \in BMapType
        /\ P \in [Lpns -> Ppns \cup {NoPpn}]
    BY <1>3 DEF BRestInv, BTypes
  <1>5. /\ FlashSound(flash) /\ CountInv(flash) /\ BListInv(flash, bm)
        /\ BCurInv(flash, bm, currentDataPage, FALSE, w)
        /\ BMapInv(flash, bm, k) /\ NextInv(k) /\ BPoolInv(bm, inuseBlock, blockQueue)
        /\ BPlacesInv(flash, P, w) /\ ReverseInv(P, reverse_trans_map, << >>)
        /\ OneMapInv(P, k, trim_map, stored)
        /\ ContentInv(flash, P, k, stored, lost)
    BY <1>3 DEF BRestInv, BlocksRest, PagesRest
  <1>6. Lbn(l) \in Lbns
    BY LbnOff
  <1>7. q = P[l] /\ q \in Ppns \cup {NoPpn} /\ Where(P, k, l) = q
    BY <1>1, <1>4 DEF Where
  <1>8. w = MapBlocks(k)
    OBVIOUS
  <1>. HIDE DEF q, g, k, k2, w, P, Q
  <1>9. q # NoPpn => flash.page[q] = "VALID" /\ q[1] \notin w
    BY <1>5, <1>7 DEF BPlacesInv
  <1>10. FlashSound(g) /\ CountInv(g) /\ PageGone(flash, g, q) /\ g.data = flash.data
    <2>1. CASE q # NoPpn /\ g = Invalidate(flash, q)
      BY <1>5, <1>7, <2>1, BInvalidated
    <2>2. CASE q = NoPpn /\ g = flash
      BY <1>5, <2>2, NoPpnNotPage DEF PageGone
    <2>. QED
      BY <1>1, <2>1, <2>2
  <1>11. Q = Mapped(P, l, NoPpn) /\ Q \in [Lpns -> Ppns \cup {NoPpn}]
    <2>1. ppn' = [ppn EXCEPT ![l] = NoPpn]
      BY <1>1, <1>4, <1>7 DEF P
    <2>. QED
      BY <1>4, <2>1 DEF Mapped, P, Q
  <1>12. Q[l] = NoPpn /\ \A n \in Lpns : n # l => Q[n] = P[n]
    BY <1>11 DEF Mapped
  <1>13. /\ k2 \in BMapType /\ Fewer(k, k2) /\ NextInv(k2) /\ MapBlocks(k2) \subseteq w
         /\ \A n \in Lpns : k2[Lbn(n)] = k[Lbn(n)] \/ (k2[Lbn(n)].optimal /\ trim_map'[n])
    BY <1>2, <1>4, <1>5, <1>6, <1>8, ForgetTrimmed
  <1>14. StaysEmpty(flash, g, NoBlock) /\ NotGone(flash, g, MapBlocks(k2))
    <2>1. \A x \in Ppns : x = q => flash.page[x] = "VALID" /\ x[1] \notin MapBlocks(k2)
      BY <1>9, <1>13, NoPpnNotPage
    <2>2. \A x \in Ppns : x # q => g.page[x] = flash.page[x]
      BY <1>10 DEF PageGone
    <2>3. StaysEmpty(flash, g, NoBlock)
      BY <2>1, <2>2 DEF StaysEmpty
    <2>4. NotGone(flash, g, MapBlocks(k2))
      BY <2>1, <2>2 DEF NotGone
    <2>. QED
      BY <2>3, <2>4
  <1>15. BListInv(g, bm)
    <2>1. NoBlock \in Blocks \cup {NoBlock}
      OBVIOUS
    <2>. QED
      BY <1>4, <1>5, <1>14, <2>1, BListKept
  <1>16. BCurInv(g, bm, currentDataPage, FALSE, MapBlocks(k2))
    <2>1. CanFill(currentDataPage) => currentDataPage[1] # NoBlock
      <3>1. CanFill(currentDataPage) => currentDataPage[1] \in Blocks
        BY <1>4 DEF CanFill, Ppns
      <3>2. NoBlock \notin Blocks
        BY DEF Blocks, NoBlock
      <3>. QED
        BY <3>1, <3>2
    <2>2. FALSE \/ CanFill(currentDataPage) =>
            /\ currentDataPage[1] \notin Members(bm.free_list)
            /\ currentDataPage[1] \notin MapBlocks(k2) /\ currentDataPage[1] # NoBlock
      BY <1>5, <1>13, <2>1 DEF BCurInv
    <2>3. bm.fresh <= bm.fresh /\ (FALSE => FALSE)
      BY <1>4 DEF BlockManagerType
    <2>. QED
      BY <1>4, <1>5, <1>14, <2>2, <2>3, BCurKept
  <1>17. BMapInv(g, bm, k2)
    <2>1. \A b \in w : b \notin Members(bm.free_list)
      BY <1>5, <1>8 DEF BMapInv
    <2>2. bm.fresh <= bm.fresh /\ \A b \in MapBlocks(k2) : b \notin Members(bm.free_list)
      BY <1>4, <1>13, <2>1 DEF BlockManagerType
    <2>. QED
      BY <1>4, <1>5, <1>13, <1>14, <2>2, BMapKept
  <1>18. BPlacesInv(g, Q, MapBlocks(k2))
    <2>1. BPlacesInv(g, Q, w)
      BY <1>4, <1>5, <1>7, <1>10, <1>11, BPlacesGone
    <2>. QED
      BY <1>13, <2>1 DEF BPlacesInv
  <1>19. ReverseInv(Q, reverse_trans_map, << >>)
    BY <1>4, <1>5, <1>11, BReverseTrimmed
  <1>20. Trimmed(stored, lost, l, trim_map, stored', lost', trim_map')
    BY <1>1, <1>4, BTrimmedStep
  <1>21. \A n \in Lpns : trim_map'[n] => Q[n] = NoPpn /\ stored'[n] = NoData
    BY <1>5, <1>12, <1>20 DEF OneMapInv, Trimmed, StoredNow
  <1>22. OneMapInv(Q, k2, trim_map', stored')
    <2>1. \A n \in Lpns : k2[Lbn(n)].optimal => k[Lbn(n)].optimal \/ Q[n] = NoPpn
      BY <1>13, <1>21
    <2>. QED
      BY <1>5, <1>12, <1>20, <2>1, TrimmedMap
  <1>23. ContentInv(g, Q, k2, stored', lost')
    <2>. SUFFICES ASSUME NEW n \in Lpns \ lost'
                  PROVE  \/ stored'[n] = NoData
                         \/ SamePlace(flash, g, P, Q, k, k2, stored, stored', lost, n)
      BY <1>5, ContentStep
    <2>1. CASE n = l
      BY <1>20, <2>1 DEF Trimmed, StoredNow
    <2>2. CASE trim_map'[n]
      BY <1>21, <2>2
    <2>3. CASE n # l /\ k2[Lbn(n)] = k[Lbn(n)]
      <3>1. stored'[n] = stored[n] /\ n \notin lost
        BY <1>20, <2>3 DEF Trimmed, StoredNow
      <3>2. Where(Q, k2, n) = Where(P, k, n)
        BY <1>12, <2>3 DEF Where
      <3>3. Where(P, k, n) \in Ppns \cup {NoPpn}
        BY <1>4, WhereType
      <3>4. Where(P, k, n) # NoPpn => Where(P, k, n) # q
        BY <1>4, <1>5, <1>7, <1>8, <2>3, WhereDistinct
      <3>5. Where(P, k, n) # NoPpn => SameAt(flash, g, Where(P, k, n))
        BY <1>10, <3>3, <3>4, GoneSame
      <3>. QED
        BY <3>1, <3>2, <3>5 DEF SamePlace
    <2>. QED
      BY <1>13, <2>1, <2>2, <2>3
  <1>24. BTypes'
    BY <1>1, <1>4, <1>11, <1>13, <1>20 DEF BTypes, Trimmed, StoredNow, k2, Q
  <1>25. BlocksRest(flash', bm', currentDataPage', block_map', inuseBlock', blockQueue')
    BY <1>1, <1>5, <1>10, <1>13, <1>15, <1>16, <1>17 DEF BlocksRest, g, k2
  <1>26. PagesRest(flash', ppn', reverse_trans_map', block_map', trim_map', stored', lost')
    BY <1>1, <1>18, <1>19, <1>22, <1>23 DEF PagesRest, g, k2, Q
  <1>. QED
    BY <1>1, <1>24, <1>25, <1>26, BRested

---------------------------------------------------------------------------
(* A write through the page map begins.                                    *)

LEMMA NothingMoved ==
  ASSUME NEW t, NEW r, MapTypes(t, r), NEW mv, MovedType(mv), NEW u, NEW s, Batched(t, r, mv, u, s)
  PROVE  DOMAIN mv = {} => u = t /\ s = r
  <1>1. /\ t \in [Lpns -> Ppns \cup {NoPpn}] /\ r \in [Ppns -> Lpns \cup {NoLpn}]
        /\ DOMAIN mv \in SUBSET Lpns /\ mv \in [DOMAIN mv -> Ppns]
        /\ u = Updated(mv, t) /\ s = Updated(AntiFunction(mv), r)
    BY DEF MapTypes, MovedType, Batched
  <1>2. /\ u \in [Lpns -> Ppns \cup {NoPpn}] /\ s \in [Ppns -> Lpns \cup {NoLpn}]
        /\ \A l \in Lpns : u[l] = IF l \in DOMAIN mv THEN mv[l] ELSE t[l]
        /\ \A p \in Ppns : IF \E l \in DOMAIN mv : mv[l] = p
                             THEN s[p] \in DOMAIN mv /\ mv[s[p]] = p
                             ELSE s[p] = r[p]
    BY <1>1, MovedMaps
  <1>3. DOMAIN mv = {} => \A l \in Lpns : u[l] = t[l]
    BY <1>2
  <1>4. DOMAIN mv = {} => \A p \in Ppns : s[p] = r[p]
    BY <1>2
  <1>. QED
    BY <1>1, <1>2, <1>3, <1>4

\* A conversion finds nothing to enter.
LEMMA BConverts ==
  ASSUME BRestInv, NEW j \in Lbns, block_map[j].optimal, Convert(j)
  PROVE  /\ ppn' = ppn /\ reverse_trans_map' = reverse_trans_map /\ cached' = cached
         /\ \A n \in Lpns : n \in lost' <=> n \in lost \/ (Lbn(n) = j /\ stored[n] # NoData)
  <1>. DEFINE pages == {j * BLOCK_SIZE + i : i \in Entered(j)}
              place == [l \in pages |-> <<block_map[j].pbn, Off(l)>>]
  <1>1. /\ ppn \in [Lpns -> Ppns \cup {NoPpn}] /\ reverse_trans_map \in [Ppns -> Lpns \cup {NoLpn}]
        /\ cached \in SUBSET Lpns /\ block_map \in BMapType /\ OneMapInv(ppn, block_map, trim_map, stored)
    BY DEF BRestInv, BTypes, PagesRest
  <1>2. /\ ppn' = Updated(place, ppn) /\ reverse_trans_map' = Updated(AntiFunction(place), reverse_trans_map)
        /\ cached' = cached \cup pages
        /\ lost' = lost \cup {l \in LpnsOf(j) \ pages : stored[l] # NoData}
    BY DEF Convert
  <1>3. ASSUME NEW i \in Entered(j) PROVE FALSE
    <2>1. i \in 0 .. block_map[j].nextPage - 1 /\ ppn[j * BLOCK_SIZE + i] # NoPpn
      BY DEF Entered
    <2>2. block_map[j].nextPage \in 0 .. BLOCK_SIZE
      BY <1>1 DEF BMapType
    <2>3. i \in Offsets
      BY <2>1, <2>2, GeometryAssumption DEF Offsets
    <2>4. j * BLOCK_SIZE + i \in Lpns /\ Lbn(j * BLOCK_SIZE + i) = j
      BY <2>3, LbnOffOf
    <2>. DEFINE x == j * BLOCK_SIZE + i
    <2>5. x \in Lpns /\ Lbn(x) = j /\ ppn[x] # NoPpn
      BY <2>1, <2>4
    <2>. HIDE DEF x
    <2>. QED
      BY <1>1, <2>5 DEF OneMapInv
  <1>4. pages = {}
    BY <1>3
  <1>5. DOMAIN place = {} /\ place \in [DOMAIN place -> Ppns]
    BY <1>4
  <1>. HIDE DEF pages, place
  <1>6. DOMAIN place \in SUBSET Lpns
    BY <1>5
  <1>7. /\ MapTypes(ppn, reverse_trans_map) /\ MovedType(place)
        /\ Batched(ppn, reverse_trans_map, place, ppn', reverse_trans_map')
    BY <1>1, <1>2, <1>5, <1>6 DEF MapTypes, MovedType, Batched
  <1>8. ppn' = ppn /\ reverse_trans_map' = reverse_trans_map
    BY <1>5, <1>7, NothingMoved
  <1>10. cached' = cached
    BY <1>2, <1>4
  <1>11. \A n \in Lpns : n \in lost' <=> n \in lost \/ (Lbn(n) = j /\ stored[n] # NoData)
    BY <1>2, <1>4 DEF LpnsOf
  <1>. QED
    BY <1>8, <1>10, <1>11

\* The write of page l waits under what its page is found with.
WriteUnder(st, l, m) ==
  st # << >> => /\ Up(st, 1).proc = "bwrite" /\ Up(st, 1).lpn = l
                /\ Up(st, 1).page # NoPpn => Up(st, 1).page[1] < m.fresh

GivenFrame(l, d, p) == [proc |-> "bwrite", lpn |-> l, payload |-> d, page |-> p]

LEMMA GivenFrameSound ==
  ASSUME NEW l \in Lpns, NEW d \in Payloads, NEW p \in Ppns \cup {NoPpn}, NEW f, f = GivenFrame(l, d, p)
  PROVE  f \in BFrames /\ f.proc = "bwrite" /\ f.lpn = l /\ f.page = p
  <1>1. f \in BWriteFrame /\ f.proc = "bwrite" /\ f.lpn = l /\ f.page = p
    BY DEF GivenFrame, BWriteFrame
  <1>. QED
    BY <1>1 DEF BFrames

\* A page of a block of the pool ...
LEMMA BPageOfPool ==
  ASSUME NEW f, NEW b \in Blocks \cup {NoBlock}, EmptyIn(b) # {}, f = flash
  PROVE  b \in Blocks /\ NextEmpty(b) \in Ppns /\ NextEmpty(b)[1] = b
  <1>1. b \in Blocks
    BY DEF EmptyIn
  <1>2. EmptyIn(b) \in SUBSET Offsets
    BY DEF EmptyIn
  <1>3. EmptyIn(b) \in SUBSET Nat
    BY <1>2 DEF Offsets
  <1>4. PICK o \in EmptyIn(b) : \A n \in EmptyIn(b) : o <= n
    BY <1>3, LeastNumber
  <1>5. Min(EmptyIn(b)) \in EmptyIn(b)
    BY <1>4 DEF Min
  <1>6. NextEmpty(b) = <<b, Min(EmptyIn(b))>> /\ Min(EmptyIn(b)) \in Offsets
    BY <1>2, <1>5 DEF NextEmpty
  <1>. QED
    BY <1>1, <1>6 DEF Ppns

LEMMA BGivenAlone ==
  ASSUME NEW l \in Lpns, NEW d \in Payloads, NEW p \in Ppns, NEW m, p[1] < m.fresh,
         NEW u, u = Alone(GivenFrame(l, d, p))
  PROVE  BStackSound(u) /\ NoneIn(u) /\ ~BHanded(u) /\ WriteUnder(u, l, m)
  <1>. DEFINE f == GivenFrame(l, d, p)
  <1>1. f \in BFrames /\ f.proc = "bwrite" /\ f.lpn = l /\ f.page = p
    BY GivenFrameSound
  <1>2. u = Alone(f) /\ p # NoPpn
    BY NoPpnNotPage
  <1>. HIDE DEF f
  <1>3. BStackSound(u) /\ Len(u) = 1 /\ u # << >> /\ Up(u, 1) = f /\ u[1] = f
    <2>1. f.proc \in {"bwrite", "first"}
      BY <1>1
    <2>. QED
      BY <1>1, <1>2, <2>1, BAlone
  <1>4. Len(u) <= 2
    BY <1>3
  <1>5. NoneIn(u)
    BY <1>3, <1>4, ViewsByHeight
  <1>6. ~BHanded(u)
    BY <1>1, <1>2, <1>3 DEF BHanded
  <1>7. WriteUnder(u, l, m)
    BY <1>1, <1>3 DEF WriteUnder
  <1>. QED
    BY <1>3, <1>5, <1>6, <1>7

LEMMA JoinTwo ==
  ASSUME NEW S, NEW g \in S, NEW f \in S
  PROVE  <<g>> \o <<f>> = <<g, f>>
  <1>. DEFINE a == <<g>> \o <<f>>
              b == <<g, f>>
  <1>1. a \in Seq(S) /\ Len(a) = 2
    OBVIOUS
  <1>2. a[1] = g /\ a[2] = f
    OBVIOUS
  <1>3. b \in Seq(S) /\ Len(b) = 2 /\ b[1] = g /\ b[2] = f
    OBVIOUS
  <1>. HIDE DEF a, b
  <1>4. a = b
    BY <1>1, <1>2, <1>3
  <1>. QED
    BY <1>4 DEF a, b

PageCall == [proc |-> "page"]

LEMMA PageThenWrite ==
  ASSUME NEW l \in Lpns, NEW d \in Payloads
  PROVE  <<PageCall>> \o Alone(GivenFrame(l, d, NoPpn)) = OnTop(PageCall, GivenFrame(l, d, NoPpn))
  <1>1. GivenFrame(l, d, NoPpn) \in BFrames
    BY GivenFrameSound
  <1>2. PageCall \in BFrames
    BY DEF PageCall, BFrames, LiveFrames, Frames, PageFrame
  <1>. QED
    BY <1>1, <1>2, JoinTwo DEF OnTop, Alone

\* ... or the one handed out when the functions called return.
LEMMA BGivenLater ==
  ASSUME NEW l \in Lpns, NEW d \in Payloads, NEW m, NEW u, u = OnTop(PageCall, GivenFrame(l, d, NoPpn))
  PROVE  BStackSound(u) /\ NoneIn(u) /\ ~BHanded(u) /\ WriteUnder(u, l, m)
         /\ u # << >> /\ u[1].proc = "page"
  <1>. DEFINE f == GivenFrame(l, d, NoPpn)
              g == PageCall
  <1>1. f \in BFrames /\ f.proc = "bwrite" /\ f.lpn = l /\ f.page = NoPpn
    BY GivenFrameSound
  <1>2. g \in BFrames /\ g.proc = "page"
    BY DEF PageCall, BFrames, LiveFrames, Frames, PageFrame
  <1>4. u = OnTop(g, f)
    OBVIOUS
  <1>. HIDE DEF f, g
  <1>9. \/ f.proc = "bwrite" /\ f.page = NoPpn /\ g.proc \in {"page", "take"}
        \/ f.proc = "first" /\ g.proc \in {"block", "btake"} /\ g.lbn = Lbn(f.lpn)
    BY <1>1, <1>2
  <1>10. BStackSound(u) /\ Len(u) = 2 /\ u # << >> /\ Up(u, 1) = f /\ u[1] = g
    BY <1>1, <1>2, <1>4, <1>9, BOnTop
  <1>5. Len(u) <= 2
    BY <1>10
  <1>6. NoneIn(u)
    BY <1>5, <1>10, ViewsByHeight
  <1>7. ~BHanded(u)
    BY <1>2, <1>10 DEF BHanded
  <1>8. WriteUnder(u, l, m)
    BY <1>1, <1>10 DEF WriteUnder
  <1>. QED
    BY <1>2, <1>6, <1>7, <1>8, <1>10

\* What get_free_biftl_page leaves.
WriteBegun(st, l, m, b, q) ==
  /\ BStackSound(st) /\ NoneIn(st) /\ ~BHanded(st) /\ WriteUnder(st, l, m)
  /\ b \in Blocks \cup {NoBlock} /\ q \in Seq(Blocks) /\ BPoolInv(m, b, q)

LEMMA BFreePage ==
  ASSUME stack = << >>, NEW l \in Lpns, NEW d \in Payloads, NEW a \in Blocks \cup {NoBlock},
         NEW q \in Seq(Blocks), BPoolInv(bm, a, q), get_free_biftl_page(a, q, l, d)
  PROVE  WriteBegun(stack', l, bm, inuseBlock', blockQueue')
  <1>1. CASE /\ EmptyIn(a) # {} /\ stack' = Alone(GivenFrame(l, d, NextEmpty(a)))
             /\ inuseBlock' = a /\ blockQueue' = q
    <2>1. NextEmpty(a) \in Ppns /\ NextEmpty(a)[1] = a /\ a \in Blocks
      BY <1>1, BPageOfPool
    <2>2. a < bm.fresh
      BY <2>1 DEF BPoolInv, Blocks, NoBlock
    <2>3. NextEmpty(a)[1] < bm.fresh
      BY <2>1, <2>2
    <2>4. BStackSound(stack') /\ NoneIn(stack') /\ ~BHanded(stack') /\ WriteUnder(stack', l, bm)
      BY <1>1, <2>1, <2>3, BGivenAlone
    <2>. QED
      BY <1>1, <2>4 DEF WriteBegun
  <1>2. CASE /\ q # << >> /\ inuseBlock' = Head(q) /\ blockQueue' = Tail(q)
             /\ \/ stack' = stack
                \/ /\ EmptyIn(Head(q)) # {}
                   /\ stack' = Alone(GivenFrame(l, d, NextEmpty(Head(q))))
    <2>. DEFINE b == Head(q)
                r == Tail(q)
    <2>1. b \in Blocks /\ b \in Members(q) /\ r \in Seq(Blocks) /\ Members(r) \subseteq Members(q)
      <3>1. /\ b \in Blocks /\ r \in Seq(Blocks) /\ b = q[1] /\ 1 \in 1 .. Len(q)
            /\ Len(r) = Len(q) - 1 /\ \A i \in 1 .. Len(r) : r[i] = q[i + 1]
        BY <1>2
      <3>2. \A i \in 1 .. Len(r) : i + 1 \in 1 .. Len(q)
        BY <3>1
      <3>. HIDE DEF b, r
      <3>. QED
        BY <3>1, <3>2 DEF Members
    <2>2. /\ inuseBlock' = b /\ blockQueue' = r
          /\ \/ stack' = << >>
             \/ EmptyIn(b) # {} /\ stack' = Alone(GivenFrame(l, d, NextEmpty(b)))
      BY <1>2
    <2>. HIDE DEF b, r
    <2>3. b < bm.fresh /\ BPoolInv(bm, b, r)
      BY <2>1 DEF BPoolInv
    <2>4. BStackSound(stack') /\ NoneIn(stack') /\ ~BHanded(stack') /\ WriteUnder(stack', l, bm)
      <3>1. CASE stack' = << >>
        BY <3>1, EmptySound DEF WriteUnder
      <3>2. CASE EmptyIn(b) # {} /\ stack' = Alone(GivenFrame(l, d, NextEmpty(b)))
        <4>1. NextEmpty(b) \in Ppns /\ NextEmpty(b)[1] = b
          BY <2>1, <3>2, BPageOfPool
        <4>2. NextEmpty(b)[1] < bm.fresh
          BY <2>3, <4>1
        <4>. QED
          BY <3>2, <4>1, <4>2, BGivenAlone
      <3>. QED
        BY <2>2, <3>1, <3>2
    <2>. QED
      BY <2>1, <2>2, <2>3, <2>4 DEF WriteBegun
  <1>3. CASE /\ inuseBlock' = NoBlock /\ blockQueue' = q
             /\ LET rest == <<PageCall>> \o Alone(GivenFrame(l, d, NoPpn))
                IN  InsertEventsThen(rest) \/ stack' = rest
    <2>. DEFINE rest == OnTop(PageCall, GivenFrame(l, d, NoPpn))
    <2>1. BStackSound(rest) /\ NoneIn(rest) /\ ~BHanded(rest) /\ WriteUnder(rest, l, bm)
          /\ rest # << >> /\ rest[1].proc = "page"
      BY BGivenLater
    <2>2. inuseBlock' = NoBlock /\ blockQueue' = q /\ (InsertEventsThen(rest) \/ stack' = rest)
      BY <1>3, PageThenWrite
    <2>. HIDE DEF rest
    <2>3. BPoolInv(bm, NoBlock, q)
      BY DEF BPoolInv
    <2>4. BStackSound(stack') /\ NoneIn(stack') /\ ~BHanded(stack') /\ WriteUnder(stack', l, bm)
      <3>1. CASE stack' = rest
        BY <2>1, <3>1
      <3>2. CASE InsertEventsThen(rest)
        <4>1. rest[1].proc \in {"page", "take", "btake"}
          BY <2>1
        <4>2. /\ BStackSound(stack') /\ BSameViews(rest, stack') /\ ~BHanded(stack')
              /\ stack' # << >> /\ Up(stack', 1) = Up(rest, 1)
          BY <2>1, <3>2, <4>1, InsertThen
        <4>3. NoneIn(stack')
          BY <2>1, <4>2 DEF NoneIn, BSameViews
        <4>4. WriteUnder(stack', l, bm)
          BY <2>1, <4>2 DEF WriteUnder
        <4>. QED
          BY <4>2, <4>3, <4>4
      <3>. QED
        BY <2>2, <3>1, <3>2
    <2>. QED
      BY <2>2, <2>3, <2>4 DEF WriteBegun
  <1>. QED
    BY <1>1, <1>2, <1>3 DEF get_free_biftl_page, Alone, GivenFrame, PageCall

LEMMA BWriteByPageKeeps ==
  ASSUME SoundInv, NEW l \in Lpns, NEW d \in Payloads, WriteByPage(l, d)
  PROVE  SoundInv'
  <1>. DEFINE j == Lbn(l)
              k == block_map
              k2 == block_map'
              c == block_map[Lbn(l)].pbn
              converts == k[j].optimal /\ c # NoBlock
              joins == converts /\ flash.pages_valid[c] # BLOCK_SIZE
              a == IF joins /\ inuseBlock = NoBlock THEN c ELSE inuseBlock
              q == IF joins /\ inuseBlock # NoBlock THEN Append(blockQueue, c) ELSE blockQueue
              w == MapBlocks(block_map)
  <1>1. /\ stack = << >> /\ get_free_biftl_page(a, q, l, d)
        /\ IF converts THEN Convert(j) ELSE UNCHANGED <<maps, cache, lost>>
        /\ k2 = Converted(k, j) /\ trim_map' = [trim_map EXCEPT ![l] = FALSE]
        /\ flash' = flash /\ bm' = bm /\ currentDataPage' = currentDataPage /\ stored' = stored
    BY DEF WriteByPage, Idle, Converted
  <1>2. BRestInv
    BY <1>1, BRest
  <1>3. /\ BTypes /\ stored \in [Lpns -> Contents] /\ trim_map \in [Lpns -> BOOLEAN]
        /\ bm \in BlockManagerType /\ currentDataPage \in Ppns \cup {NoPpn} /\ k \in BMapType
        /\ ppn \in [Lpns -> Ppns \cup {NoPpn}] /\ inuseBlock \in Blocks \cup {NoBlock}
        /\ blockQueue \in Seq(Blocks)
    BY <1>2 DEF BRestInv, BTypes
  <1>4. /\ FlashSound(flash) /\ CountInv(flash) /\ BListInv(flash, bm)
        /\ BCurInv(flash, bm, currentDataPage, FALSE, w)
        /\ BMapInv(flash, bm, k) /\ NextInv(k) /\ BPoolInv(bm, inuseBlock, blockQueue)
        /\ BPlacesInv(flash, ppn, w) /\ ReverseInv(ppn, reverse_trans_map, << >>)
        /\ OneMapInv(ppn, k, trim_map, stored)
        /\ ContentInv(flash, ppn, k, stored, lost)
    BY <1>2 DEF BRestInv, BlocksRest, PagesRest
  <1>5. j \in Lbns /\ \A n \in Lpns : Lbn(n) \in Lbns
    BY LbnOff
  <1>6. joins => c \in Blocks /\ c < bm.fresh
    <2>1. joins => c \in w
      BY <1>3, <1>5, MapBlocksOf
    <2>. QED
      BY <1>3, <1>4, <2>1, MapBlocksOf DEF BMapInv
  <1>7. a \in Blocks \cup {NoBlock} /\ q \in Seq(Blocks) /\ BPoolInv(bm, a, q)
    <2>1. CASE joins /\ inuseBlock = NoBlock
      <3>1. a = c /\ q = blockQueue
        BY <2>1
      <3>. HIDE DEF a, q, c, joins
      <3>. QED
        BY <1>3, <1>4, <1>6, <2>1, <3>1 DEF BPoolInv
    <2>2. CASE joins /\ inuseBlock # NoBlock
      <3>1. a = inuseBlock /\ q = Append(blockQueue, c)
        BY <2>2
      <3>. HIDE DEF a, q, c, joins
      <3>2. q \in Seq(Blocks)
        BY <1>3, <1>6, <2>2, <3>1
      <3>3. Members(q) = Members(blockQueue) \cup {c}
        BY <1>3, <1>6, <2>2, <3>1, AppendedList
      <3>. QED
        BY <1>3, <1>4, <1>6, <2>2, <3>1, <3>2, <3>3 DEF BPoolInv
    <2>3. CASE ~joins
      <3>1. a = inuseBlock /\ q = blockQueue
        BY <2>3
      <3>. HIDE DEF a, q, c, joins
      <3>. QED
        BY <1>3, <1>4, <3>1
    <2>. QED
      BY <2>1, <2>2, <2>3
  <1>. HIDE DEF a, q, joins
  <1>8. WriteBegun(stack', l, bm, inuseBlock', blockQueue')
    BY <1>1, <1>7, BFreePage
  <1>9. /\ ppn' = ppn /\ reverse_trans_map' = reverse_trans_map /\ cached' = cached
        /\ \A n \in Lpns : n \in lost' <=> n \in lost \/ (converts /\ Lbn(n) = j /\ stored[n] # NoData)
    <2>1. CASE converts
      <3>1. k[j].optimal /\ Convert(j)
        BY <1>1, <2>1
      <3>. QED
        BY <1>2, <1>5, <2>1, <3>1, BConverts
    <2>2. CASE ~converts
      BY <1>1, <2>2 DEF maps, cache
    <2>. QED
      BY <2>1, <2>2
  <1>10. /\ k2 \in BMapType /\ Fewer(k, k2) /\ \A i \in Lbns : i # j => k2[i] = k[i]
         /\ ~k2[j].optimal
    BY <1>1, <1>3, <1>5, ConvertedMap
  <1>11. trim_map' \in [Lpns -> BOOLEAN] /\ ~trim_map'[l] /\ \A n \in Lpns : trim_map'[n] => trim_map[n]
    BY <1>1, <1>3, TrimCleared
  <1>. HIDE DEF k, k2, w, j, c
  <1>12. MapBlocks(k2) \subseteq MapBlocks(k)
    BY <1>3, <1>10, MapBlocksOf DEF Fewer
  <1>13. w = MapBlocks(k)
    BY DEF w, k
  <1>14. BlocksRest(flash, bm, currentDataPage, k2, inuseBlock', blockQueue')
    <2>1. BCurInv(flash, bm, currentDataPage, FALSE, MapBlocks(k2))
      BY <1>4, <1>12, <1>13 DEF BCurInv
    <2>2. BMapInv(flash, bm, k2)
      <3>1. \A b \in MapBlocks(k) : b \notin Members(bm.free_list)
        BY <1>4 DEF BMapInv
      <3>2. NotGone(flash, flash, MapBlocks(k2))
        BY DEF NotGone
      <3>3. bm.fresh <= bm.fresh /\ \A b \in MapBlocks(k2) : b \notin Members(bm.free_list)
        BY <1>3, <1>12, <3>1 DEF BlockManagerType
      <3>. QED
        BY <1>3, <1>4, <1>10, <3>2, <3>3, BMapKept
    <2>3. NextInv(k2)
      BY <1>4, <1>10 DEF NextInv
    <2>4. BPoolInv(bm, inuseBlock', blockQueue')
      BY <1>8 DEF WriteBegun
    <2>. QED
      BY <1>4, <2>1, <2>2, <2>3, <2>4 DEF BlocksRest
  <1>15. OneMapInv(ppn, k2, trim_map', stored)
    <2>1. \A n \in Lpns : k2[Lbn(n)].optimal => ppn[n] = NoPpn
      BY <1>4, <1>5, <1>10 DEF OneMapInv
    <2>. QED
      BY <1>4, <1>11, <2>1 DEF OneMapInv
  <1>16. ContentInv(flash, ppn, k2, stored, lost')
    <2>. SUFFICES ASSUME NEW n \in Lpns \ lost'
                  PROVE  \/ stored[n] = NoData
                         \/ SamePlace(flash, flash, ppn, ppn, k, k2, stored, stored, lost, n)
      BY <1>4, ContentStep
    <2>1. n \notin lost
      BY <1>9
    <2>2. CASE Where(ppn, k2, n) = Where(ppn, k, n)
      BY <2>1, <2>2 DEF SamePlace, SameAt
    <2>3. CASE Where(ppn, k2, n) # Where(ppn, k, n)
      <3>1. Lbn(n) = j
        BY <1>5, <1>10, <2>3 DEF Where
      <3>2. Where(ppn, k2, n) = ppn[n]
        BY <1>10, <3>1 DEF Where
      <3>3. k[j].optimal
        BY <2>3, <3>1, <3>2 DEF Where
      <3>4. CASE converts
        BY <1>9, <3>1, <3>4
      <3>5. CASE ~converts
        <4>1. k[Lbn(n)].optimal /\ k[Lbn(n)].pbn = NoBlock
          BY <3>1, <3>3, <3>5 DEF c, k, j
        <4>2. Where(ppn, k, n) = NoPpn
          BY <1>3, <4>1, WhereType
        <4>. QED
          BY <1>4, <2>1, <4>2 DEF ContentInv, Holds
      <3>. QED
        BY <3>4, <3>5
    <2>. QED
      BY <2>2, <2>3
  <1>17. BPlacesInv(flash, ppn, MapBlocks(k2))
    BY <1>4, <1>12, <1>13 DEF BPlacesInv
  <1>18. BTypes'
    BY <1>1, <1>3, <1>8, <1>9, <1>10, <1>11 DEF BTypes, WriteBegun, k2
  <1>19. BlocksRest(flash', bm', currentDataPage', block_map', inuseBlock', blockQueue')
    BY <1>1, <1>14 DEF k2
  <1>20. PagesRest(flash', ppn', reverse_trans_map', block_map', trim_map', stored', lost')
    BY <1>1, <1>4, <1>9, <1>15, <1>16, <1>17 DEF PagesRest, k2
  <1>21. RequestInv(stack', bm', block_map', trim_map')
    <2>1. WriteUnder(stack', l, bm)
      BY <1>8 DEF WriteBegun
    <2>2. ~block_map'[Lbn(l)].optimal /\ bm' = bm
      BY <1>1, <1>10 DEF k2, j
    <2>. QED
      BY <1>11, <2>1, <2>2 DEF RequestInv, WriteUnder
  <1>22. BStackSound(stack') /\ NoneIn(stack') /\ ~BHanded(stack')
    BY <1>8 DEF WriteBegun
  <1>. QED
    BY <1>18, <1>19, <1>20, <1>21, <1>22, BRequested

---------------------------------------------------------------------------
(* BDFTL keeps the invariant until it is spoiled.                          *)

LEMMA FlashFresh ==
  /\ FlashInit \in FlashType
  /\ \A p \in Ppns : FlashInit.page[p] = "EMPTY"
  /\ \A b \in Blocks : FlashInit.pages_valid[b] = 0 /\ FlashInit.pages_invalid[b] = 0
  <1>1. FlashInit \in FlashType
    BY GeometryAssumption DEF FlashInit, FlashType, PageStates, Contents
  <1>. QED
    BY <1>1 DEF FlashInit

LEMMA FlashFreshSound ==
  ASSUME NEW f, f = FlashInit
  PROVE  FlashSound(f) /\ CountInv(f) /\ \A b \in Blocks : AllEmpty(f, b)
  <1>1. /\ f \in FlashType /\ \A p \in Ppns : f.page[p] = "EMPTY"
        /\ \A b \in Blocks : f.pages_valid[b] = 0 /\ f.pages_invalid[b] = 0
    BY FlashFresh
  <1>2. \A b \in Blocks, o \in Offsets : f.page[<<b, o>>] = "EMPTY"
    BY <1>1 DEF Ppns
  <1>3. \A b \in Blocks : InvalidPages(f, b) = {} /\ Cardinality({}) = 0
    BY <1>2, FS_EmptySet DEF InvalidPages
  <1>4. FlashSound(f)
    BY <1>1, <1>3 DEF FlashSound
  <1>5. \A b \in Blocks : 0 <= Cardinality(UsedPages(f, b))
    BY UsedFinite
  <1>6. CountInv(f)
    BY <1>1, <1>5 DEF CountInv
  <1>. QED
    BY <1>2, <1>4, <1>6 DEF AllEmpty

LEMMA MapFresh ==
  ASSUME NEW k, k = [j \in Lbns |-> UnmappedBlock]
  PROVE  k \in BMapType /\ MapBlocks(k) = {} /\ NextInv(k) /\ \A j \in Lbns : k[j].pbn = NoBlock
  <1>1. \A j \in Lbns : k[j] = UnmappedBlock
    OBVIOUS
  <1>2. UnmappedBlock \in [pbn : Blocks \cup {NoBlock}, nextPage : 0 .. BLOCK_SIZE, optimal : BOOLEAN]
    BY GeometryAssumption DEF UnmappedBlock
  <1>3. k \in BMapType
    BY <1>2 DEF BMapType
  <1>4. \A j \in Lbns : k[j].pbn = NoBlock /\ k[j].nextPage = 0
    BY <1>1 DEF UnmappedBlock
  <1>5. \A b : b \notin MapBlocks(k)
    BY <1>3, <1>4, MapBlocksOf
  <1>. QED
    BY <1>3, <1>4, <1>5 DEF NextInv

LEMMA BInitSound ==
  ASSUME BInit
  PROVE  SoundInv
  <1>1. /\ flash = FlashInit /\ bm = BlockManagerInit /\ stack = << >> /\ currentDataPage = NoPpn
        /\ ppn = [l \in Lpns |-> NoPpn] /\ reverse_trans_map = [p \in Ppns |-> NoLpn]
        /\ cached = {} /\ block_map = [k \in Lbns |-> UnmappedBlock]
        /\ trim_map \in [Lpns -> BOOLEAN] /\ inuseBlock = NoBlock /\ blockQueue = << >>
        /\ stored = [l \in Lpns |-> NoData]
    BY DEF BInit, Init
  <1>2. FlashSound(flash) /\ CountInv(flash) /\ \A b \in Blocks : AllEmpty(flash, b)
    BY <1>1, FlashFreshSound
  <1>3. /\ block_map \in BMapType /\ MapBlocks(block_map) = {} /\ NextInv(block_map)
        /\ \A j \in Lbns : block_map[j].pbn = NoBlock
    BY <1>1, MapFresh
  <1>4. BStackSound(stack) /\ NoneIn(stack) /\ ~BHanded(stack)
    BY <1>1, EmptySound
  <1>5. VictimIn(stack) = NoBlock /\ MovedIn(stack) = << >> /\ BHanded(stack) = FALSE
    BY <1>4, RestViews DEF BHanded
  <1>6. BTypes
    <2>1. bm \in BlockManagerType
      BY <1>1, GeometryAssumption DEF BlockManagerInit, BlockManagerType
    <2>2. /\ ppn \in [Lpns -> Ppns \cup {NoPpn}] /\ reverse_trans_map \in [Ppns -> Lpns \cup {NoLpn}]
          /\ stored \in [Lpns -> Contents]
      BY <1>1 DEF Contents
    <2>3. currentDataPage \in Ppns \cup {NoPpn} /\ inuseBlock \in Blocks \cup {NoBlock}
          /\ cached \in SUBSET Lpns /\ blockQueue \in Seq(Blocks)
      BY <1>1
    <2>. QED
      BY <1>1, <1>3, <2>1, <2>2, <2>3 DEF BTypes
  <1>7. PlacesOf(ppn, MovedIn(stack)) = ppn /\ \A l \in Lpns : ppn[l] = NoPpn
    BY <1>1, <1>5, <1>6, PlacesAtRest DEF BTypes
  <1>8. BListInv(flash, bm)
    <2>1. bm.free_list = << >>
      BY <1>1 DEF BlockManagerInit
    <2>2. Members(bm.free_list) = {} /\ NoRepeat(bm.free_list)
      BY <2>1 DEF Members, NoRepeat
    <2>. QED
      BY <1>2, <2>2 DEF BListInv
  <1>9. BCurInv(flash, bm, currentDataPage, BHanded(stack), MapBlocks(block_map))
    BY <1>1, <1>5 DEF BCurInv, CanFill
  <1>10. BMapInv(flash, bm, block_map)
    BY <1>3 DEF BMapInv
  <1>11. BPoolInv(bm, inuseBlock, blockQueue)
    <2>1. Members(blockQueue) = {}
      BY <1>1 DEF Members
    <2>. QED
      BY <1>1, <2>1 DEF BPoolInv
  <1>12. BPlacesInv(flash, PlacesOf(ppn, MovedIn(stack)), MapBlocks(block_map))
    BY <1>7 DEF BPlacesInv
  <1>13. ReverseInv(ppn, reverse_trans_map, MovedIn(stack))
    <2>1. \A l \in Lpns : PlaceIn(ppn, << >>, l) = NoPpn
      BY <1>7 DEF PlaceIn
    <2>. QED
      BY <1>5, <1>7, <2>1 DEF ReverseInv
  <1>14. BVictimInv(flash, bm, ppn, VictimIn(stack), MovedIn(stack), DoneIn(stack), CopyingIn(stack))
    BY <1>5 DEF BVictimInv
  <1>15. OneMapInv(PlacesOf(ppn, MovedIn(stack)), block_map, trim_map, stored)
    BY <1>1, <1>7 DEF OneMapInv
  <1>16. ContentInv(flash, PlacesOf(ppn, MovedIn(stack)), block_map, stored, lost)
    BY <1>1 DEF ContentInv
  <1>17. RequestInv(stack, bm, block_map, trim_map)
    BY <1>1 DEF RequestInv
  <1>. QED
    BY <1>2, <1>3, <1>4, <1>6, <1>8, <1>9, <1>10, <1>11, <1>12, <1>13, <1>14, <1>15, <1>16, <1>17
    DEF SoundInv

LEMMA BCollectStep ==
  ASSUME SoundInv, Collect, ~spoiled'
  PROVE  SoundInv'
  <1>1. CASE NextPage /\ UNCHANGED bvars
    BY <1>1, BNextPageKeeps
  <1>2. CASE FreshBlock /\ UNCHANGED bvars
    BY <1>2, BFreshBlockKeeps
  <1>3. CASE CollectForLastBlock /\ UNCHANGED bvars
    BY <1>3, BCollectForLastKeeps
  <1>4. CASE FreeBlock /\ UNCHANGED bvars
    BY <1>4, BFreeBlockKeeps
  <1>5. CASE EndInsert /\ UNCHANGED bvars
    BY <1>5, BEndInsertKeeps
  <1>6. CASE SkipVictim /\ UNCHANGED bvars
    BY <1>6, BSkipVictimKeeps
  <1>7. CASE /\ StartCleanup /\ spoiled' = (spoiled \/ Moves # {})
             /\ UNCHANGED <<block_map, trim_map, pool, stored, lost>>
    <2>1. Moves = {}
      BY <1>7, Zenon
    <2>. QED
      BY <1>7, <2>1, BStartCleanupKeeps
  <1>8. CASE EraseVictim /\ UNCHANGED bvars
    BY <1>8, BEraseVictimKeeps
  <1>9. CASE SkipPage /\ UNCHANGED bvars
    BY <1>9, BSkipPageKeeps
  <1>10. CASE /\ StartCopy /\ spoiled' = (spoiled \/ ~Owned(OldPpn))
              /\ UNCHANGED <<block_map, trim_map, pool, stored, lost>>
    <2>1. Owned(OldPpn)
      BY <1>10, Zenon
    <2>. QED
      BY <1>10, <2>1, BStartCopyKeeps
  <1>11. CASE FinishCopy /\ UNCHANGED bvars
    BY <1>11, BFinishCopyKeeps
  <1>12. CASE FinishCleanup /\ UNCHANGED bvars
    BY <1>12, BFinishCleanupKeeps
  <1>. QED
    BY <1>1, <1>2, <1>3, <1>4, <1>5, <1>6, <1>7, <1>8, <1>9, <1>10, <1>11, <1>12, Zenon DEF Collect

\* A spoiled BDFTL stays so.
LEMMA BSpoiledStays ==
  ASSUME [BNext]_allvars, ~spoiled'
  PROVE  ~spoiled
  <1>1. ASSUME NEW l \in Lpns, read(l) \/ TrimOptimal(l) \/ TrimByPage(l) PROVE ~spoiled
    BY <1>1 DEF read, TrimOptimal, TrimByPage, bvars, history
  <1>2. ASSUME NEW l \in Lpns, NEW d \in Payloads,
               WriteInOrder(l, d) \/ WriteFirst(l, d) \/ WriteByPage(l, d)
        PROVE  ~spoiled
    BY <1>2 DEF WriteInOrder, WriteFirst, WriteByPage, history
  <1>3. CASE FinishFirst \/ FinishWriteByPage
    BY <1>3 DEF FinishFirst, FinishWriteByPage
  <1>4. CASE FreshForBlock \/ CollectForBlock \/ FreeForBlock
    BY <1>4 DEF FreshForBlock, CollectForBlock, FreeForBlock, GiveBlock, bvars, history
  <1>5. CASE Collect
    BY <1>5 DEF Collect, bvars, history
  <1>6. CASE AssertFailsHere
    BY <1>6 DEF AssertFailsHere, bvars, history
  <1>7. CASE UNCHANGED allvars
    BY <1>7 DEF allvars, bvars, history
  <1>. QED
    BY <1>1, <1>2, <1>3, <1>4, <1>5, <1>6, <1>7, Zenon DEF BNext

LEMMA BStep ==
  ASSUME BInv, [BNext]_allvars
  PROVE  BInv'
  <1>. SUFFICES ASSUME ~spoiled' PROVE SoundInv'
    BY DEF BInv
  <1>1. SoundInv
    BY BSpoiledStays DEF BInv
  <1>2. ASSUME NEW l \in Lpns, read(l) \/ TrimOptimal(l) \/ TrimByPage(l) PROVE SoundInv'
    BY <1>1, <1>2, BReadKeeps, BTrimOptimalKeeps, BTrimByPageKeeps
  <1>3. ASSUME NEW l \in Lpns, NEW d \in Payloads,
               WriteInOrder(l, d) \/ WriteFirst(l, d) \/ WriteByPage(l, d)
        PROVE  SoundInv'
    BY <1>1, <1>3, BWriteInOrderKeeps, BWriteFirstKeeps, BWriteByPageKeeps
  <1>4. CASE FinishFirst \/ FinishWriteByPage
    BY <1>1, <1>4, BFinishFirstKeeps, BFinishWriteKeeps
  <1>5. CASE FreshForBlock \/ CollectForBlock \/ FreeForBlock
    BY <1>1, <1>5, BFreshForBlockKeeps, BCollectForBlockKeeps, BFreeForBlockKeeps
  <1>6. CASE Collect
    BY <1>1, <1>6, BCollectStep
  <1>7. CASE AssertFailsHere
    BY <1>1, <1>7, BAssertKeeps
  <1>8. CASE UNCHANGED allvars
    <2>1. UNCHANGED <<flash, bm, maps, cached, currentDataPage, stack, block_map,
                      trim_map, pool, stored, lost>>
      BY <1>8 DEF allvars, vars, bvars, history, cache
    <2>. QED
      BY <1>1, <2>1, BStutter
  <1>. QED
    BY <1>2, <1>3, <1>4, <1>5, <1>6, <1>7, <1>8, Zenon DEF BNext

\* Until it is spoiled, BDFTL keeps the joint invariant of its two maps, its
\* pool, its block manager and the collection under way.
THEOREM BInvariance == BSpec => []BInv
  <1>1. BInit => BInv
    BY BInitSound DEF BInv
  <1>2. BInv /\ [BNext]_allvars => BInv'
    BY BStep
  <1>. QED
    BY <1>1, <1>2, PTL DEF BSpec

\* Until the first spoiling step a logical block has its pages in one map only:
\* while it is optimal, trans_map, with the moves of the collection under way,
\* has nothing of it.
THEOREM OneMap == BSpec => []OptimalNotInPageMap
  <1>1. BInv => OptimalNotInPageMap
    <2>. SUFFICES ASSUME SoundInv, NEW l \in Lpns, block_map[Lbn(l)].optimal
                  PROVE  PageOf(l) = NoPpn
      BY DEF BInv, OptimalNotInPageMap
    <2>1. BStackSound(stack) /\ OneMapInv(PlacesOf(ppn, MovedIn(stack)), block_map, trim_map, stored)
      BY DEF SoundInv
    <2>2. PlacesOf(ppn, MovedIn(stack))[l] = PageOf(l)
      BY <2>1, BPageHere DEF PlacesOf
    <2>. QED
      BY <2>1, <2>2 DEF OneMapInv
  <1>. QED
    BY <1>1, BInvariance, PTL

\* Until then no block has two users, of the free list, the pages of Dftl and
\* the block map: no cleanup, trim or conversion leaves a block in two places.
THEOREM MapExclusive == BSpec => []BlockMapExclusive
  <1>1. BInv => BlockMapExclusive
    <2>. SUFFICES ASSUME SoundInv
                  PROVE  /\ BlocksOf \cap Range(bm.free_list) = {}
                         /\ ~AtEnd => currentDataPage[1] \notin BlocksOf
                         /\ \A l \in Lpns : PageOf(l) # NoPpn => PageOf(l)[1] \notin BlocksOf
                         /\ \A j, k \in Lbns :
                              block_map[j].optimal /\ block_map[k].optimal
                              /\ block_map[j].pbn = block_map[k].pbn
                                => j = k \/ block_map[j].pbn = NoBlock
      BY Zenon DEF BInv, BlockMapExclusive
    <2>. DEFINE w == MapBlocks(block_map)
    <2>1. /\ BStackSound(stack) /\ BTypes
          /\ BCurInv(flash, bm, currentDataPage, BHanded(stack), w)
          /\ BMapInv(flash, bm, block_map)
          /\ BPlacesInv(flash, PlacesOf(ppn, MovedIn(stack)), w)
      BY DEF SoundInv
    <2>2. BlocksOf = w
      BY DEF BlocksOf, MapBlocks
    <2>3. Range(bm.free_list) = Members(bm.free_list)
      <3>1. bm.free_list \in Seq(Blocks)
        BY <2>1 DEF BTypes, BlockManagerType
      <3>. QED
        BY <3>1 DEF Range, Members
    <2>4. BlocksOf \cap Range(bm.free_list) = {}
      BY <2>1, <2>2, <2>3 DEF BMapInv
    <2>5. ~AtEnd => currentDataPage[1] \notin BlocksOf
      <3>1. ~AtEnd => CanFill(currentDataPage)
        BY DEF AtEnd, CanFill
      <3>. QED
        BY <2>1, <2>2, <3>1 DEF BCurInv
    <2>6. ASSUME NEW l \in Lpns, PageOf(l) # NoPpn PROVE PageOf(l)[1] \notin BlocksOf
      <3>1. PlacesOf(ppn, MovedIn(stack))[l] = PageOf(l)
        BY <2>1, BPageHere DEF PlacesOf
      <3>. QED
        BY <2>1, <2>2, <2>6, <3>1 DEF BPlacesInv
    <2>7. \A j, k \in Lbns :
            block_map[j].optimal /\ block_map[k].optimal /\ block_map[j].pbn = block_map[k].pbn
              => j = k \/ block_map[j].pbn = NoBlock
      BY <2>1 DEF BMapInv
    <2>. QED
      BY <2>4, <2>5, <2>6, <2>7, Zenon
  <1>. QED
    BY <1>1, BInvariance, PTL

\* Until then a page that no conversion lost is read back, between the
\* requests, as it was last written.
THEOREM UnlostIntact == BSpec => []UnlostPagesIntact
  <1>1. BInv => UnlostPagesIntact
    <2>. SUFFICES ASSUME SoundInv, stack = << >>, NEW l \in Lpns \ lost, stored[l] # NoData
                  PROVE  /\ PageRead(l) # NoPpn /\ flash.page[PageRead(l)] = "VALID"
                         /\ flash.data[PageRead(l)] = stored[l]
      BY DEF BInv, UnlostPagesIntact, Intact
    <2>1. PageRead(l) = Where(ppn, block_map, l)
      BY DEF PageRead, Where
    <2>2. ContentInv(flash, ppn, block_map, stored, lost)
      BY BRest DEF BRestInv, PagesRest
    <2>3. Holds(flash, Where(ppn, block_map, l), stored[l])
      BY <2>2 DEF ContentInv
    <2>. QED
      BY <2>1, <2>3 DEF Holds
  <1>. QED
    BY <1>1, BInvariance, PTL
================================================================================
