----------------------------- MODULE MNFtlCleanup -----------------------------
(***************************************************************************)
(* Garbage collection of MNFTL: cleanup_block (mn_ftl.cpp), one page of    *)
(* the victim at a time, under the conditions and with the epilogue that   *)
(* insert_events (ssd_bm.cpp) gives every cleanup_block it calls.          *)
(*                                                                         *)
(* In the source insert_events calls cleanup_block for DFTL and BIMODAL    *)
(* only, so MNFTL's never runs.  This module is what the function would do *)
(* for a caller that picks any victim insert_events may pick, between two  *)
(* host requests.  A block needed while pages are copied is taken from the *)
(* Block_manager as a write would take it; no second cleanup starts inside *)
(* the first.                                                              *)
(***************************************************************************)
EXTENDS MNFtl

VARIABLES
  victim,   \* the block being cleaned, or NoBlock
  next      \* the page of it the loop looks at next

cleanup == <<victim, next>>
allvars == <<vars, cleanup>>

CleanupTypeOK ==
  /\ TypeOK
  /\ victim \in Blocks \cup {NoBlock}
  /\ next \in 0 .. BLOCK_SIZE

CleanupInit ==
  /\ Init
  /\ victim = NoBlock
  /\ next = 0

Cleaning == Running /\ victim # NoBlock
OldPpn == <<victim, next>>

\* insert_events: a block with invalid pages, wholly written, not the one
\* being written.
StartCleanup(b) ==
  /\ Running
  /\ victim = NoBlock
  /\ flash.pages_invalid[b] > 0
  /\ flash.pages_valid[b] = BLOCK_SIZE
  /\ b # bm.current_writing_block
  /\ victim' = b
  /\ next' = 0
  /\ UNCHANGED vars

\* Mutant: the loop does not advance over a page it skips.
SkipPage_Stays ==
  /\ Cleaning
  /\ next < BLOCK_SIZE
  /\ flash.page[OldPpn] # "VALID"
  /\ UNCHANGED <<vars, cleanup>>

SkipPage ==
  /\ Cleaning
  /\ next < BLOCK_SIZE
  /\ flash.page[OldPpn] # "VALID"
  /\ next' = next + 1
  /\ UNCHANGED <<vars, victim>>

\* Mutant: the copy carries no payload, as in mn_ftl_v2.cpp.
CopyPage_NoPayload ==
  /\ Cleaning
  /\ next < BLOCK_SIZE
  /\ flash.page[OldPpn] = "VALID"
  /\ AllocFailure = "none"
  /\ AppendPage(flash.data[NewPpn], OldPpn)
  /\ \E s \in Slots :
       /\ PMT[s] = OldPpn
       /\ PMT' = [PMT EXCEPT ![s] = NewPpn]
       /\ PMD' = [PMD EXCEPT ![AnchorOf(s)] = NewPpn]
  /\ global_buffer' = OldPpn
  /\ next' = next + 1
  /\ UNCHANGED <<abort, victim>>

\* The page is read, copied with its payload, replaced, and the first slot
\* that maps to it is moved with its anchor.  A page no slot maps to (a
\* trimmed one) is copied all the same and the anchors stay as they are.
CopyPage ==
  /\ Cleaning
  /\ next < BLOCK_SIZE
  /\ flash.page[OldPpn] = "VALID"
  /\ AllocFailure = "none"
  /\ AppendPage(flash.data[OldPpn], OldPpn)
  /\ \/ \E s \in Slots :
          /\ PMT[s] = OldPpn
          /\ PMT' = [PMT EXCEPT ![s] = NewPpn]
          /\ PMD' = [PMD EXCEPT ![AnchorOf(s)] = NewPpn]
     \/ /\ \A s \in Slots : PMT[s] # OldPpn
        /\ UNCHANGED tables
  /\ global_buffer' = OldPpn
  /\ next' = next + 1
  /\ UNCHANGED <<abort, victim>>

CopyAborts ==
  /\ Cleaning
  /\ next < BLOCK_SIZE
  /\ flash.page[OldPpn] = "VALID"
  /\ AllocFailure # "none"
  /\ Die(AllocFailure)
  /\ UNCHANGED cleanup

\* cleanup_block erases the victim without looking at the outcome, and
\* insert_events erases it again, asserts that it could, and frees it.
ErasedOnce(f, b) == IF CanErase(f, b) THEN Erase(f, {b}) ELSE f

\* Mutant: the loop ends one page early.
FinishCleanup_Early ==
  /\ Cleaning
  /\ next = BLOCK_SIZE - 1
  /\ CanErase(ErasedOnce(flash, victim), victim)
  /\ flash' = Erase(ErasedOnce(flash, victim), {victim})
  /\ bm' = [bm EXCEPT !.free_list = Append(bm.free_list, victim)]
  /\ victim' = NoBlock
  /\ next' = 0
  /\ UNCHANGED <<tables, current_block, current_page_offset, global_buffer, abort>>

FinishCleanup ==
  /\ Cleaning
  /\ next = BLOCK_SIZE
  /\ CanErase(ErasedOnce(flash, victim), victim)
  /\ flash' = Erase(ErasedOnce(flash, victim), {victim})
  /\ bm' = [bm EXCEPT !.free_list = Append(bm.free_list, victim)]
  /\ victim' = NoBlock
  /\ next' = 0
  /\ UNCHANGED <<tables, current_block, current_page_offset, global_buffer, abort>>

EraseAborts ==
  /\ Cleaning
  /\ next = BLOCK_SIZE
  /\ ~CanErase(ErasedOnce(flash, victim), victim)
  /\ Die("erase_failed")
  /\ UNCHANGED cleanup

Request == victim = NoBlock /\ Next /\ UNCHANGED cleanup

CleanupStep == SkipPage \/ CopyPage \/ CopyAborts \/ FinishCleanup \/ EraseAborts

CleanupNext ==
  \/ Request
  \/ \E b \in Blocks : StartCleanup(b)
  \/ CleanupStep

CleanupSpec == CleanupInit /\ [][CleanupNext]_allvars

\* cleanup_block is a loop in one function call: once begun it goes on.
FairCleanupSpec == CleanupSpec /\ WF_allvars(CleanupStep)

(***************************************************************************)
(* Properties.                                                             *)
(***************************************************************************)
\* An erase never takes a page some logical page still maps to, neither the
\* victim's own nor, after the block is handed out again, a later one's.
ErasesOnlyUnmapped ==
  [][\A p \in Ppns :
       flash.page[p] # "EMPTY" /\ flash'.page[p] = "EMPTY"
         => \A s \in Slots : PMT[s] # p]_allvars

\* What the host stored is not changed by moving it: no step of a cleanup
\* shows in the logical disk, up to and including the two erases, and a
\* write or trim after it still reaches the page it names and no other.
CleanupKeepsDisk ==
  [][IF victim # NoBlock
     THEN disk' = disk
     ELSE \A lpn \in Lpns :
            /\ \A d \in Payloads : Write(lpn, d) => disk' = [disk EXCEPT ![lpn] = d]
            /\ Trim(lpn) => disk' = [disk EXCEPT ![lpn] = NoData]]_allvars

\* Every cleanup ends, in a free block or in a failed assert.
CleanupEnds == victim # NoBlock ~> (victim = NoBlock \/ ~Running)
===============================================================================
