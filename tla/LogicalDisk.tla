----------------------------- MODULE LogicalDisk -----------------------------
(***************************************************************************)
(* What every FTL promises the host, with no flash in sight: an array of   *)
(* logical pages.  A read returns what the last write left.  A page never  *)
(* written, or trimmed, holds nothing, and a read of it promises nothing:  *)
(* MNFTL makes it a no-op that leaves the host's buffer (global_buffer in  *)
(* ssd.h) as it was, BAST returns what physical page 0 happens to hold.    *)
(***************************************************************************)
CONSTANTS Lpns, Payloads, NoData

VARIABLES
  disk,     \* the payload of each logical page, or NoData
  buffer    \* what the last served read returned

Init ==
  /\ disk = [l \in Lpns |-> NoData]
  /\ buffer = NoData

Write(l, d) ==
  /\ disk' = [disk EXCEPT ![l] = d]
  /\ UNCHANGED buffer

Trim(l) ==
  /\ disk' = [disk EXCEPT ![l] = NoData]
  /\ UNCHANGED buffer

Read(l) ==
  /\ disk[l] # NoData
  /\ buffer' = disk[l]
  /\ UNCHANGED disk

ReadNothing(l) ==
  /\ disk[l] = NoData
  /\ buffer' \in Payloads \cup {NoData}
  /\ UNCHANGED disk

Next ==
  \E l \in Lpns :
    \/ \E d \in Payloads : Write(l, d)
    \/ Trim(l)
    \/ Read(l)
    \/ ReadNothing(l)

Spec == Init /\ [][Next]_<<disk, buffer>>
==============================================================================
