------------------------------ MODULE ImageStore ------------------------------
(***************************************************************************)
(* What a bootloader promises about the flash of the user image: it changes *)
(* one page at a time by erasing or one slot at a time by storing contents  *)
(* the host meant for that slot, and a chunk is only confirmed while its     *)
(* slot holds such contents.  Both bootloaders implement it.                *)
(***************************************************************************)
EXTENDS Flash

CONSTANTS Contents,  \* what a slot can hold
          NoSlot     \* no chunk is being confirmed

VARIABLES contents,  \* the flash, slot by slot
          confirmed, \* the slot whose ack is on its way, or NoSlot
          meant      \* what the host may have meant for each slot; it never changes

storeVars == <<contents, confirmed, meant>>

StoreInit ==
  /\ contents \in [Slots -> Contents]
  /\ confirmed = NoSlot
  /\ meant \in [Slots -> SUBSET Contents]

ErasePageOf(p) ==
  /\ contents' = [s \in Slots |-> IF PageOf(s) = p THEN Erased ELSE contents[s]]
  /\ UNCHANGED <<confirmed, meant>>

Store(s, d) ==
  /\ d \in meant[s]
  /\ contents' = [contents EXCEPT ![s] = Programmed(@, d)]
  /\ UNCHANGED <<confirmed, meant>>

Confirm(s) ==
  /\ contents[s] \in meant[s]
  /\ confirmed' = s
  /\ UNCHANGED <<contents, meant>>

\* The ack is sent, or a reset forgets it.
Forget == confirmed' = NoSlot /\ UNCHANGED <<contents, meant>>

\* The flash only changes while no ack is on its way.
Change == /\ confirmed = NoSlot
          /\ \/ \E p \in {PageOf(s) : s \in Slots} : ErasePageOf(p)
             \/ \E s \in Slots, d \in Contents : Store(s, d)

StoreNext == Change \/ (\E s \in Slots : Confirm(s)) \/ Forget

StoreSpec == StoreInit /\ [][StoreNext]_storeVars
=============================================================================
