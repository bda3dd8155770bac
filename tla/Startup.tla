------------------------------- MODULE Startup -------------------------------
(* From a reset to main(): the Reset_Handler of the four images (startup.c),  *)
(* SystemInit (system_init.c), the clocks (clock.c), and the choice the two   *)
(* bootloaders make between getting ready and jumping to the user image.      *)
(* A word of flash is named by its address, a cleared word of RAM is 0 and a  *)
(* word nobody initialised is Junk; one loop of Reset_Handler is one step.    *)
(* A reset may come between any two steps and finds RAM as it was left.       *)
EXTENDS Integers, FiniteSets, Sequences

CONSTANTS
  Boards,     \* [image, debug, errata]: the first image, DEBUG, the chip's errata
  Layout,     \* Layout[image][section]: [load, start, end] from the linker
  Ram, Flash, \* word addresses
  StackTop,   \* address of Reset_Handler's local func
  HfFlag,     \* _clock_state.hf_enabled and lf_enabled
  LfFlag,
  MaxResets   \* bound on pin, watchdog and power-on resets

Images == {"app", "net", "single", "user"}
Junk   == -1
Live   == 1

\* The loops of Reset_Handler, in order.
SectionOrder == <<"data", "text", "fast", "ctors", "dtors", "rodata", "tdata",
                  "bss", "tbss", "shared">>
NSections == 10
Sections  == {SectionOrder[i] : i \in 1 .. NSections}
Zeroed    == {"bss", "tbss", "shared"}

Span(sec) == sec.start .. (sec.end - 1)
InPlace(sec) == sec.load = sec.start
SharedData == Span(Layout["app"]["shared"])

\* What word a of a section holds once its loop has run.
Initial(sec, s, a) == IF s \in Zeroed THEN 0 ELSE sec.load + (a - sec.start)

\* The sections each Reset_Handler has a loop for: text and rodata in debug
\* builds only, the shared data in the application core's bootloader only.
Skipped(debug) == IF debug THEN {} ELSE {"text", "rodata"}
AppLoops(debug)    == Sections \ Skipped(debug)
NetLoops(debug)    == Sections \ (Skipped(debug) \cup {"shared"})
SingleLoops(debug) == Sections \ (Skipped(debug) \cup {"shared"})
Bug_UserLoops(debug) == Sections \ Skipped(debug)
UserLoops(debug)   == Sections \ (Skipped(debug) \cup {"shared"})

Runs(img, debug, s) ==
  \/ img = "app"    /\ s \in AppLoops(debug)
  \/ img = "net"    /\ s \in NetLoops(debug)
  \/ img = "single" /\ s \in SingleLoops(debug)
  \/ img = "user"   /\ s \in UserLoops(debug)

\* The errata each SystemInit works around by writing registers.
AppErrata    == {97, 64, 42, 46, 49, 55, 69}
NetErrata    == {49, 55}
SingleErrata == {12, 16, 31, 32, 36, 37, 57, 66, 98, 103, 108, 115, 120, 136, 182, 217}
Handled(img) == CASE img = "app" -> AppErrata [] img = "net" -> NetErrata
                  [] OTHER -> SingleErrata
SpuriousReasons == {55, 136}   \* "Bits in RESETREAS are set when they should not be"

ASSUME BoardAssumption ==
  /\ Boards \subseteq [image : {"app", "net", "single"}, debug : BOOLEAN, errata : SUBSET Nat]
  /\ \A b \in Boards : b.errata \subseteq Handled(b.image)
ASSUME AddressAssumption == Ram \subseteq Nat /\ Flash \subseteq Nat \ {0}
ASSUME SectionAssumption ==
  Layout \in [Images -> [Sections -> [load : Nat, start : Nat, end : Nat]]]

\* The linker: copied sections are loaded from flash, those that run do not
\* overlap, tdata is empty or in place (its loop spins otherwise) and the stack
\* lies above the constructors.
ASSUME LinkerAssumption ==
  \A img \in Images :
    /\ \A s, t \in Sections :
         s # t => Span(Layout[img][s]) \cap Span(Layout[img][t]) \cap Ram = {}
    /\ \A s \in Sections \ Zeroed : \A a \in Span(Layout[img][s]) \cap Ram :
         ~InPlace(Layout[img][s]) /\ Layout[img][s].load + (a - Layout[img][s].start) \in Flash
    /\ InPlace(Layout[img]["tdata"]) \/ Span(Layout[img]["tdata"]) = {}
    /\ StackTop >= Layout[img]["ctors"].end
ASSUME FlagAssumption ==
  /\ \A img \in {"app", "single"} : {HfFlag, LfFlag} \subseteq Span(Layout[img]["bss"]) \cap Ram
  /\ HfFlag # LfFlag
ASSUME UserAssumption ==
  \A s \in Sections \ {"shared"} : Span(Layout["user"][s]) \cap SharedData = {}
ASSUME ResetAssumption == MaxResets \in Nat

VARIABLES
  board,      \* the board, fixed
  image,      \* the image whose code runs
  phase,      \* how far it is
  k,          \* loops of Reset_Handler done, plus one
  mem,        \* RAM
  patched,    \* errata worked around since the reset
  hfclk,      \* the two clocks
  lfclk,
  nfcpins,    \* UICR NFCPINS, in flash
  resetreas,  \* RESETREAS
  intent,     \* _boot_intent, in .non_init RAM
  wdt,        \* a watchdog runs
  asked,      \* history: why the present boot was asked for
  resets      \* environment resets so far

bootVars  == <<image, phase, k>>
clockVars == <<patched, hfclk, lfclk>>
keptVars  == <<nfcpins, resetreas, intent, wdt>>
vars == <<board, bootVars, mem, clockVars, keptVars, asked, resets>>

Phases == {"memory", "init", "uicr", "hfclk", "lfclk", "main", "ready"}
TypeOK ==
  /\ board \in Boards /\ image \in Images /\ phase \in Phases
  /\ k \in 1 .. NSections + 1
  /\ mem \in [Ram -> Nat \cup {Junk}]
  /\ patched \subseteq board.errata
  /\ hfclk \in {"off", "starting", "on"} /\ lfclk \in {"off", "starting", "on"}
  /\ nfcpins \in {"nfc", "gpio"} /\ resetreas \subseteq {"PIN", "DOG", "SREQ"}
  /\ intent \in {"none", "user", "bootloader", "random"}
  /\ wdt \in BOOLEAN /\ asked \subseteq {"start", "uicr"}
  /\ resets \in 0 .. MaxResets

Init ==
  /\ board \in Boards /\ image = board.image
  /\ phase = "memory" /\ k = 1
  /\ mem = [a \in Ram |-> Junk]
  /\ patched = {} /\ hfclk = "off" /\ lfclk = "off"
  /\ nfcpins \in {"nfc", "gpio"}
  /\ resetreas = {} /\ intent = "random"
  /\ wdt = FALSE /\ asked = {} /\ resets = 0

-------------------------------------------------------------------------------
(* Resets *)

\* The core starts over at the bootloader's Reset_Handler, its registers and
\* clocks as the chip leaves them.
Restart(why) ==
  /\ image' = board.image /\ phase' = "memory" /\ k' = 1
  /\ patched' = {} /\ hfclk' = "off" /\ lfclk' = "off"
  /\ resetreas' = why

\* NVIC_SystemReset(): RAM is kept and so is a running watchdog.
SoftReset ==
  /\ Restart(resetreas \cup {"SREQ"})
  /\ UNCHANGED <<board, mem, wdt, resets>>

\* Battery change: RAM, with _boot_intent in it, and the reasons are lost.
PowerCycle ==
  /\ Restart({}) /\ mem' = [a \in Ram |-> Junk]
  /\ intent' = "random" /\ wdt' = FALSE /\ asked' = {}
  /\ UNCHANGED <<board, nfcpins>>

\* The button: on a chip with the erratum other bits of RESETREAS may come on.
PinReset ==
  /\ \E spurious \in IF board.errata \cap SpuriousReasons # {} THEN SUBSET {"DOG", "SREQ"} ELSE {{}} :
       Restart(resetreas \cup {"PIN"} \cup spurious)
  /\ wdt' = FALSE /\ UNCHANGED <<board, mem, nfcpins, intent, asked>>

\* A running watchdog that nobody fed.
WatchdogReset ==
  /\ wdt /\ Restart(resetreas \cup {"DOG"})
  /\ wdt' = FALSE /\ UNCHANGED <<board, mem, nfcpins, intent, asked>>

EnvironmentReset ==
  /\ resets < MaxResets /\ resets' = resets + 1
  /\ PowerCycle \/ PinReset \/ WatchdogReset

-------------------------------------------------------------------------------
(* Reset_Handler *)

Section == SectionOrder[k]
Sec     == Layout[image][Section]

\* `while (dst < end) *dst++ = *src++;` and its zeroing twin.
Bug_Filled(sec, s) ==
  [a \in Ram |-> IF a \in sec.start .. (sec.end - 2) THEN Initial(sec, s, a) ELSE mem[a]]
Filled(sec, s) ==
  [a \in Ram |-> IF a \in Span(sec) THEN Initial(sec, s, a) ELSE mem[a]]

\* The text and rodata loops break, and the tdata loop only advances, where the
\* section already is in place.
RunLoop ==
  /\ phase = "memory" /\ k <= NSections
  /\ Runs(image, board.debug, Section) /\ Section = "tdata" =>
       InPlace(Sec) \/ Span(Sec) = {}
  /\ mem' = IF Runs(image, board.debug, Section) /\ Section # "tdata"
               /\ ~(Section \in {"text", "rodata"} /\ InPlace(Sec))
              THEN Filled(Sec, Section) ELSE mem
  /\ k' = k + 1
  /\ UNCHANGED <<board, image, phase, clockVars, keptVars, asked, resets>>

\* No constructor is called: &func is on the stack, above the section.  The
\* user image goes to main() at once, the others to SystemInit().
MemoryDone ==
  /\ phase = "memory" /\ k = NSections + 1
  /\ StackTop >= Layout[image]["ctors"].end
  /\ phase' = IF image = "user" THEN "main" ELSE "init"
  /\ UNCHANGED <<board, image, k, mem, clockVars, keptVars, asked, resets>>

-------------------------------------------------------------------------------
(* SystemInit and the clocks *)

\* Errata 55 and 136: after a pin reset every other reason is cleared.
Bug_Reasons == resetreas
Reasons ==
  IF board.errata \cap SpuriousReasons # {} /\ "PIN" \in resetreas
    THEN {"PIN"} ELSE resetreas

\* Bootloaders built with CONFIG_NFCT_PINS_AS_GPIOS free the NFC pins, once in
\* the life of the board, and reset.
Bug_SystemInitApp ==
  /\ phase = "init" /\ board.image = "app"
  /\ patched' = board.errata \cap AppErrata /\ resetreas' = Reasons
  /\ phase' = IF nfcpins = "nfc" THEN "uicr" ELSE "hfclk"
  /\ UNCHANGED <<board, image, k, mem, hfclk, lfclk, nfcpins, intent, wdt, asked, resets>>

SystemInitApp ==
  /\ phase = "init" /\ board.image = "app"
  /\ patched' = board.errata \cap AppErrata /\ resetreas' = Reasons
  /\ \/ /\ nfcpins = "nfc" /\ nfcpins' = "gpio" /\ phase' = "uicr"
     \/ nfcpins = "gpio" /\ phase' = "hfclk" /\ UNCHANGED nfcpins
  /\ UNCHANGED <<board, image, k, mem, hfclk, lfclk, intent, wdt, asked, resets>>

SystemInitSingle ==
  /\ phase = "init" /\ board.image = "single"
  /\ patched' = board.errata \cap SingleErrata /\ resetreas' = Reasons
  /\ \/ /\ nfcpins = "nfc" /\ nfcpins' = "gpio" /\ phase' = "uicr"
     \/ nfcpins = "gpio" /\ phase' = "hfclk" /\ UNCHANGED nfcpins
  /\ UNCHANGED <<board, image, k, mem, hfclk, lfclk, intent, wdt, asked, resets>>

UicrReset ==
  /\ phase = "uicr" /\ SoftReset
  /\ asked' = asked \cup {"uicr"} /\ UNCHANGED <<nfcpins, intent>>

\* The network core starts its high-frequency clock itself, without a flag.
SystemInitNet ==
  /\ phase = "init" /\ board.image = "net"
  /\ patched' = board.errata \cap NetErrata /\ resetreas' = Reasons
  /\ phase' = "hfclk" /\ hfclk' = "starting"
  /\ UNCHANGED <<board, image, k, mem, lfclk, nfcpins, intent, wdt, asked, resets>>

\* A flag that is set, or that holds junk, makes the function return at once.
hfclk_init ==
  /\ phase = "hfclk" /\ hfclk = "off"
  /\ IF mem[HfFlag] # 0
       THEN phase' = "lfclk" /\ UNCHANGED hfclk
       ELSE hfclk' = "starting" /\ UNCHANGED phase
  /\ UNCHANGED <<board, image, k, patched, mem, lfclk, keptVars, asked, resets>>

HfclkStarted ==
  /\ phase = "hfclk" /\ hfclk = "starting" /\ hfclk' = "on"
  /\ IF board.image = "net"
       THEN phase' = "main" /\ UNCHANGED mem
       ELSE phase' = "lfclk" /\ mem' = [mem EXCEPT ![HfFlag] = 1]
  /\ UNCHANGED <<board, image, k, patched, lfclk, keptVars, asked, resets>>

lfclk_init ==
  /\ phase = "lfclk" /\ lfclk = "off"
  /\ IF mem[LfFlag] # 0
       THEN phase' = "main" /\ UNCHANGED lfclk
       ELSE lfclk' = "starting" /\ UNCHANGED phase
  /\ UNCHANGED <<board, image, k, patched, mem, hfclk, keptVars, asked, resets>>

LfclkStarted ==
  /\ phase = "lfclk" /\ lfclk = "starting" /\ lfclk' = "on"
  /\ phase' = "main" /\ mem' = [mem EXCEPT ![LfFlag] = 1]
  /\ UNCHANGED <<board, image, k, patched, hfclk, keptVars, asked, resets>>

-------------------------------------------------------------------------------
(* main() *)

\* The secure bootloader wants the intent as well as the reason.
LaunchApp    == "SREQ" \in resetreas /\ intent = "user"
LaunchSingle == "SREQ" \in resetreas

\* By now both cores have filled the shared data.  The reasons and the intent
\* are consumed; a launch starts the watchdog and runs the Reset_Handler of the
\* user image.
Main ==
  /\ phase = "main" /\ image # "user"
  /\ resetreas' = IF image = "net" THEN resetreas ELSE {}
  /\ intent' = IF image = "app" THEN "none" ELSE intent
  /\ IF (image = "app" /\ LaunchApp) \/ (image = "single" /\ LaunchSingle)
       THEN /\ image' = "user" /\ phase' = "memory" /\ k' = 1
            /\ wdt' = TRUE /\ UNCHANGED asked
       ELSE phase' = "ready" /\ asked' = {} /\ UNCHANGED <<image, k, wdt>>
  /\ mem' = IF image = "app" THEN [a \in Ram |-> IF a \in SharedData THEN Live ELSE mem[a]]
                             ELSE mem
  /\ UNCHANGED <<board, clockVars, nfcpins, resets>>

\* A START taken by a ready bootloader.
StartReset ==
  /\ phase = "ready" /\ image \in {"app", "single"} /\ SoftReset
  /\ intent' = IF image = "app" THEN "user" ELSE intent
  /\ asked' = {"start"} /\ UNCHANGED nfcpins

\* A calibration commit resets the application core back into its bootloader.
CommitReset ==
  /\ phase = "ready" /\ image = "app" /\ SoftReset
  /\ intent' = "bootloader" /\ asked' = {} /\ UNCHANGED nfcpins

-------------------------------------------------------------------------------
Step ==
  \/ RunLoop \/ MemoryDone
  \/ SystemInitApp \/ SystemInitSingle \/ SystemInitNet \/ UicrReset
  \/ hfclk_init \/ HfclkStarted \/ lfclk_init \/ LfclkStarted
  \/ Main

Next == Step \/ StartReset \/ CommitReset \/ EnvironmentReset

\* The core executes, and the oscillators start.
Spec == Init /\ [][Next]_vars /\ WF_vars(Step)

-------------------------------------------------------------------------------
(* Properties *)

\* Every section the code relies on is as the linker laid it out when the first
\* line after the loops runs, whatever the previous run left in RAM.
MemoryReady ==
  phase = "init" =>
    \A s \in Sections :
      Runs(image, board.debug, s) /\ s # "tdata" =>
        \A a \in Span(Layout[image][s]) \cap Ram :
          mem[a] = Initial(Layout[image][s], s, a)

\* No main() runs on a stopped clock or on a chip whose errata are not worked
\* around: not after a reset that kept "enabled" flags in RAM, and not in the
\* user image, which sees to neither itself.
ClocksRun ==
  phase \in {"main", "ready"} =>
    /\ hfclk = "on" /\ (board.image # "net" => lfclk = "on")
    /\ patched = board.errata

\* The user image runs only after somebody asked for it; on the single-core
\* board the reset that follows the UICR write counts as asking.
LaunchOnlyIfAsked ==
  [][image # "user" /\ image' = "user" =>
       "start" \in asked \/ (board.image = "single" /\ "uicr" \in asked)]_vars

\* The start-up code of the user image leaves the data shared with the network
\* core, which is live by then, alone.
SharedKept ==
  [][image = "user" /\ phase = "memory" /\ image' = "user" =>
       \A a \in SharedData \cap Ram : mem'[a] = mem[a]]_vars

\* A core that was reset gets through its start-up code.
BootEnds ==
  phase = "memory" ~> phase = "ready" \/ (image = "user" /\ phase = "main")
===============================================================================
