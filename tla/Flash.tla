--------------------------------- MODULE Flash ---------------------------------
(***************************************************************************)
(* The flash that holds the user image, in slots of one OTA chunk, and the  *)
(* page arithmetic of the bootloader.                                      *)
(***************************************************************************)
EXTENDS Integers

CONSTANTS
  NSlots,       \* chunk-sized slots of the flash that holds the user image
  PageSlots,    \* slots of one flash page (4096 / 128 in the code)
  Erased,       \* a slot of an erased page
  Garbage       \* contents that are no chunk: two chunks written over each other

ASSUME SizeAssumption == NSlots \in Nat \ {0} /\ PageSlots \in Nat \ {0}
ASSUME ErasedAssumption == Erased # Garbage

Slots == 0 .. NSlots - 1

PageOf(s) == s \div PageSlots

\* The pages to erase for a count of chunks: the round-up of bootloader main.c:398.
PageCount(n) == (n \div PageSlots) + (IF n % PageSlots # 0 THEN 1 ELSE 0)

\* Writing clears bits: only an erased slot takes any value.
Programmed(old, new) == IF old = Erased \/ old = new THEN new ELSE Garbage

\* The flash once the first n pages are erased.
ErasePages(contents, n) ==
  [s \in Slots |-> IF PageOf(s) < n THEN Erased ELSE contents[s]]
=============================================================================
