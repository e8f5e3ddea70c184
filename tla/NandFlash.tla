------------------------------ MODULE NandFlash ------------------------------
(***************************************************************************)
(* The flash array seen by an FTL: pages, erase blocks and the counters    *)
(* each block keeps (ssd_page.cpp, ssd_block.cpp).  The module has no      *)
(* variables: the whole array is one record, and each hardware operation   *)
(* is an operator from record to record, so that a handler that issues     *)
(* several operations composes them in the order the code issues them.     *)
(*                                                                         *)
(* A physical page number is the pair <<block, offset>>: the linear number *)
(* of the code is block * BLOCK_SIZE + offset.                             *)
(***************************************************************************)
EXTENDS Integers

CONSTANTS
  NUMBER_OF_ADDRESSABLE_BLOCKS,  \* erase blocks of the device
  BLOCK_SIZE,                    \* pages per erase block
  BLOCK_ERASES,                  \* erase cycles a block survives
  Payloads,                      \* contents a host can write to a page
  NoData                         \* content of a page never written

ASSUME GeometryAssumption ==
  /\ NUMBER_OF_ADDRESSABLE_BLOCKS \in Nat \ {0}
  /\ BLOCK_SIZE \in Nat \ {0}
  /\ BLOCK_ERASES \in Nat

ASSUME PayloadAssumption == NoData \notin Payloads

Blocks == 0 .. NUMBER_OF_ADDRESSABLE_BLOCKS - 1
Offsets == 0 .. BLOCK_SIZE - 1
Ppns == Blocks \X Offsets

\* The -1 with which every mapping table says "not mapped".
NoPpn == <<-1, -1>>
NoBlock == -1

PageStates == {"EMPTY", "VALID", "INVALID"}
Contents == Payloads \cup {NoData}

(***************************************************************************)
(* page: Page::state.  data: the PAGE_SIZE slice of page_data.             *)
(* pages_valid: pages programmed since the last erase; despite its name an *)
(* invalidation does not decrease it.  pages_invalid: pages invalidated    *)
(* since the last erase.                                                   *)
(***************************************************************************)
FlashType ==
  [page             : [Ppns -> PageStates],
   data             : [Ppns -> Contents],
   pages_valid      : [Blocks -> Nat],
   pages_invalid    : [Blocks -> Nat],
   erases_remaining : [Blocks -> Nat]]

FlashInit ==
  [page             |-> [p \in Ppns |-> "EMPTY"],
   data             |-> [p \in Ppns |-> NoData],
   pages_valid      |-> [b \in Blocks |-> 0],
   pages_invalid    |-> [b \in Blocks |-> 0],
   erases_remaining |-> [b \in Blocks |-> BLOCK_ERASES]]

\* Page::_write asserts that the page is EMPTY; a failed assert ends the program.
CanProgram(f, p) == f.page[p] = "EMPTY"

\* Mutant: the event is still marked as a no-op, so only the payload moves.
Program_AsNoop(f, p, d) == [f EXCEPT !.data = [@ EXCEPT ![p] = d]]

\* Block::write of a page with payload d.
Program(f, p, d) ==
  [f EXCEPT !.page        = [@ EXCEPT ![p] = "VALID"],
            !.data        = [@ EXCEPT ![p] = d],
            !.pages_valid = [@ EXCEPT ![p[1]] = f.pages_valid[p[1]] + 1]]

\* Block::invalidate_page: does nothing on a page that is already INVALID.
Invalidate(f, p) ==
  IF f.page[p] = "INVALID"
    THEN f
    ELSE [f EXCEPT !.page          = [@ EXCEPT ![p] = "INVALID"],
                   !.pages_invalid = [@ EXCEPT ![p[1]] = f.pages_invalid[p[1]] + 1]]

\* Controller::issue follows the write of an event by the replacement of the
\* page its replace_address names, when it names one.
Replace(f, p) == IF p = NoPpn THEN f ELSE Invalidate(f, p)

\* Block::_erase refuses a block with no erase cycle left.
CanErase(f, b) == f.erases_remaining[b] >= 1

\* Block::_erase of each block of B.  The payloads stay in page_data.
Erase(f, B) ==
  [f EXCEPT
    !.page             = [p \in Ppns |-> IF p[1] \in B THEN "EMPTY" ELSE f.page[p]],
    !.pages_valid      = [b \in Blocks |-> IF b \in B THEN 0 ELSE f.pages_valid[b]],
    !.pages_invalid    = [b \in Blocks |-> IF b \in B THEN 0 ELSE f.pages_invalid[b]],
    !.erases_remaining = [b \in Blocks |-> IF b \in B THEN f.erases_remaining[b] - 1
                                                      ELSE f.erases_remaining[b]]]

\* Plane::get_free_page: the page after the last one programmed in the block,
\* and its assert that there is one.
HasFreePage(f, b) == f.pages_valid[b] < BLOCK_SIZE
FreePage(f, b) == <<b, f.pages_valid[b]>>
==============================================================================
