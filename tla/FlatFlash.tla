------------------------------ MODULE FlatFlash ------------------------------
(***************************************************************************)
(* The abstract device: what Controller::issue and the block pointers      *)
(* promise an FTL, with erase blocks numbered from 0 and nothing of        *)
(* packages, dies and planes.  Every FTL module of this project works on   *)
(* this flash; Device is shown to implement it.                            *)
(***************************************************************************)
EXTENDS NandFlash

VARIABLE flash

Init == flash = FlashInit

\* The operations, from the flash f to the flash g; their pages and blocks are
\* looked for where g shows them.
Write(f, g) ==
  \E p \in {q \in Ppns : g.page[q] # "EMPTY"}, d \in Payloads,
     old \in {q \in Ppns : g.page[q] = "INVALID"} \cup {NoPpn} :
    /\ CanProgram(f, p)
    /\ g = Replace(Program(f, p, d), old)

EraseBlock(f, g) ==
  \E b \in {c \in Blocks : g.erases_remaining[c] # f.erases_remaining[c]} :
    /\ CanErase(f, b)
    /\ g = Erase(f, {b})

InvalidatePage(f, g) ==
  \E p \in {q \in Ppns : g.page[q] = "INVALID"} : g = Invalidate(f, p)

\* (f and g are bound here so that a refinement mapping is evaluated once.)
Next ==
  \E f \in {flash}, g \in {flash'} :
    /\ {f, g} \subseteq FlashType
    /\ InvalidatePage(f, g) \/ EraseBlock(f, g) \/ Write(f, g)

Spec == Init /\ [][Next]_flash
==============================================================================
