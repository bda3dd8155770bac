------------------------------ MODULE MCStartup ------------------------------
(* RAM is 1..7, flash 11..19.  The bootloaders keep the two clock flags in    *)
(* bss at 2 and 3; the user image has its data in the upper words.            *)
EXTENDS Startup

Chip == [app |-> {42, 55}, net |-> {55}, single |-> {36, 136}]
MCBoards ==
  UNION {[image : {img}, debug : BOOLEAN, errata : {{}, Chip[img]}] : img \in DOMAIN Chip}

Empty == [load |-> 0, start |-> 0, end |-> 0]
At(load, start, n) == [load |-> load, start |-> start, end |-> start + n]

Boot == [s \in Sections |->
           CASE s = "data"   -> At(11, 1, 1)
             [] s = "text"   -> At(12, 12, 2)
             [] s = "rodata" -> At(14, 14, 1)
             [] s = "bss"    -> At(0, 2, 2)
             [] s = "shared" -> At(0, 4, 1)
             [] OTHER        -> Empty]

User == [s \in Sections |->
           CASE s = "data"   -> At(15, 5, 1)
             [] s = "fast"   -> At(16, 6, 1)
             [] s = "text"   -> At(17, 17, 2)
             [] s = "bss"    -> At(0, 7, 1)
             [] s = "shared" -> At(0, 4, 1)
             [] OTHER        -> Empty]

MCLayout == [img \in Images |-> IF img = "user" THEN User ELSE Boot]
===============================================================================
