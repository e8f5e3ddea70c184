------------------------------ MODULE MNFtlIndex ------------------------------
(***************************************************************************)
(* How MNFTL addresses its mapping tables (mn_ftl.cpp).  A logical page    *)
(* number is split into the logical block, the page mapping table of that  *)
(* block, and the slot in that table; the page mapping directory (PMD)     *)
(* keeps one anchor per table.                                             *)
(***************************************************************************)
EXTENDS NandFlash

CONSTANTS
  Q,           \* entries per table: MNFTL_OOB_SIZE / MNFTL_ENTRY_SIZE
  NumLbns      \* logical blocks the host addresses

ASSUME IndexAssumption ==
  /\ Q \in Nat \ {0}
  /\ NumLbns \in Nat

\* The constructor's name for the number of pages per block.
P == BLOCK_SIZE

\* Tables per logical block, ceil(P / Q).
num_pmd == (P + Q - 1) \div Q

Lpns == 0 .. NumLbns * P - 1
Lbns == 0 .. NumLbns - 1
PmdIndexes == 0 .. num_pmd - 1
MapSlots == 0 .. Q - 1

lbn(lpn) == lpn \div P
bo(lpn) == lpn % P
pmd_index(lpn) == bo(lpn) \div Q
map_slot(lpn) == bo(lpn) % Q

\* The directory entry and the table slot that belong to a logical page.
Anchors == Lbns \X PmdIndexes
Slots == Lbns \X PmdIndexes \X MapSlots

Anchor(lpn) == <<lbn(lpn), pmd_index(lpn)>>
Slot(lpn) == <<lbn(lpn), pmd_index(lpn), map_slot(lpn)>>

\* The directory entry of the table a slot is in.
AnchorOf(s) == <<s[1], s[2]>>
===============================================================================
