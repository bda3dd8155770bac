---------------------------- MODULE StartupProofs ----------------------------
(* For every board, linker layout that LinkerAssumption admits and number of  *)
(* resets: the sections are ready when the first line after the loops of      *)
(* Reset_Handler runs, no main() runs on a stopped clock, the start-up code    *)
(* of the user image leaves the shared data alone, and only a request starts  *)
(* that image.                                                                *)
EXTENDS Startup, TLAPS

LEMMA OrderFacts ==
  /\ \A i \in 1 .. NSections : SectionOrder[i] \in Sections
  /\ \A i, j \in 1 .. NSections : i # j => SectionOrder[i] # SectionOrder[j]
  /\ \A s \in Sections : \E i \in 1 .. NSections : s = SectionOrder[i]
<1>1. \A i \in 1 .. NSections : SectionOrder[i] \in Sections
  BY DEF Sections
<1>2. \A i, j \in 1 .. NSections : i # j => SectionOrder[i] # SectionOrder[j]
  BY SMTT(60) DEF SectionOrder, NSections
<1>3. \A s \in Sections : \E i \in 1 .. NSections : s = SectionOrder[i]
  BY DEF Sections
<1> QED  BY <1>1, <1>2, <1>3

\* The words of section s hold what its loop puts there.
Ready(s) ==
  Runs(image, board.debug, s) /\ s # "tdata" =>
    \A a \in Span(Layout[image][s]) \cap Ram :
      mem[a] = Initial(Layout[image][s], s, a)

FlagsClear == mem[HfFlag] = 0 /\ mem[LfFlag] = 0

\* Which image runs in which phase, and how far the clocks are by then.
PhaseInv ==
  /\ image \in {board.image, "user"}
  /\ image = "user" => /\ board.image # "net" /\ phase \in {"memory", "main"}
                       /\ hfclk = "on" /\ lfclk = "on" /\ patched = board.errata
  /\ image # "user" /\ phase \in {"memory", "init", "uicr"}
       => hfclk = "off" /\ lfclk = "off"
  /\ phase = "hfclk" => /\ hfclk \in {"off", "starting"} /\ lfclk = "off"
                        /\ board.image = "net" => hfclk = "starting"
  /\ phase = "lfclk" => /\ hfclk = "on" /\ lfclk \in {"off", "starting"}
                        /\ board.image # "net"
  /\ phase \in {"hfclk", "lfclk"} => patched = board.errata
  /\ ClocksRun

\* The flags are clear as long as their clocks are off: bss covers them.
FlagInv ==
  board.image # "net" =>
    /\ phase \in {"init", "hfclk"} /\ hfclk = "off" => mem[HfFlag] = 0
    /\ phase \in {"init", "hfclk", "lfclk"} /\ lfclk = "off" => mem[LfFlag] = 0

\* The loops already run have left their sections ready.
LoopInv ==
  /\ phase = "memory" => \A i \in 1 .. k - 1 : Ready(SectionOrder[i])
  /\ phase = "init" => \A s \in Sections : Ready(s)

IInv == TypeOK /\ PhaseInv /\ FlagInv /\ LoopInv

LEMMA BoardFacts ==
  ASSUME NEW b \in Boards
  PROVE  /\ b.image \in {"app", "net", "single"} /\ b.debug \in BOOLEAN
         /\ b.errata \subseteq Handled(b.image)
BY BoardAssumption

LEMMA LayoutFacts ==
  ASSUME NEW img \in Images, NEW s \in Sections
  PROVE  /\ Layout[img][s].load \in Nat /\ Layout[img][s].start \in Nat
         /\ Layout[img][s].end \in Nat
         /\ Span(Layout[img][s]) \subseteq Nat
BY SectionAssumption DEF Span

LEMMA FlashWord ==
  ASSUME NEW img \in Images, NEW s \in Sections, s \notin Zeroed,
         NEW a \in Span(Layout[img][s]) \cap Ram
  PROVE  /\ ~InPlace(Layout[img][s])
         /\ Initial(Layout[img][s], s, a) \in Nat
BY LinkerAssumption, AddressAssumption DEF Initial

LEMMA InitialType ==
  ASSUME NEW img \in Images, NEW s \in Sections,
         NEW a \in Span(Layout[img][s]) \cap Ram
  PROVE  Initial(Layout[img][s], s, a) \in Nat
<1>1. CASE s \in Zeroed  BY <1>1 DEF Initial
<1>2. CASE s \notin Zeroed  BY <1>2, FlashWord
<1> QED  BY <1>1, <1>2

\* ClocksRun is about phases the code reaches with its clocks accounted for.
LEMMA InitIInv == Init => IInv
<1> SUFFICES ASSUME Init PROVE IInv
  OBVIOUS
<1>1. board.image \in {"app", "net", "single"}
  BY BoardFacts DEF Init
<1>2. TypeOK
  <2>1. image \in Images /\ phase \in Phases /\ k \in 1 .. NSections + 1
    BY <1>1 DEF Init, Images, Phases, NSections
  <2>2. mem \in [Ram -> Nat \cup {Junk}] /\ resets \in 0 .. MaxResets
    BY ResetAssumption DEF Init
  <2> QED  BY <2>1, <2>2 DEF Init, TypeOK
<1>3. PhaseInv /\ FlagInv /\ LoopInv
  BY <1>1 DEF Init, PhaseInv, FlagInv, LoopInv, ClocksRun
<1> QED  BY <1>2, <1>3 DEF IInv

-------------------------------------------------------------------------------
(* The loops *)

\* One loop makes its own section ready and, as sections do not overlap, keeps
\* the others so.
LEMMA LoopStep ==
  ASSUME IInv, RunLoop
  PROVE  /\ mem' \in [Ram -> Nat \cup {Junk}]
         /\ \A i \in 1 .. k' - 1 : Ready(SectionOrder[i])'
<1>1. k \in 1 .. NSections /\ Section \in Sections /\ image \in Images /\ k' = k + 1
      /\ image' = image /\ board' = board
  BY OrderFacts DEF RunLoop, IInv, TypeOK, NSections, Section
<1>2. mem \in [Ram -> Nat \cup {Junk}]
  BY DEF IInv, TypeOK
<1>3. Filled(Sec, Section) \in [Ram -> Nat \cup {Junk}]
  BY <1>1, <1>2, InitialType DEF Filled, Sec
<1>4. mem' \in [Ram -> Nat \cup {Junk}]
  BY <1>2, <1>3 DEF RunLoop
<1>5. ASSUME NEW i \in 1 .. k - 1 PROVE Ready(SectionOrder[i])'
  <2>1. i \in 1 .. NSections /\ SectionOrder[i] \in Sections /\ SectionOrder[i] # Section
    BY <1>1, OrderFacts DEF Section, NSections
  <2>2. Ready(SectionOrder[i])
    BY <1>5 DEF IInv, LoopInv, RunLoop
  <2>3. \A a \in Span(Layout[image][SectionOrder[i]]) \cap Ram : mem'[a] = mem[a]
    <3>1. \A a \in Span(Layout[image][SectionOrder[i]]) \cap Ram :
            a \notin Span(Layout[image][Section])
      BY <1>1, <2>1, LinkerAssumption
    <3> QED  BY <3>1, <1>2 DEF RunLoop, Filled, Sec
  <2> QED  BY <2>2, <2>3, <1>1 DEF Ready
<1>6. ASSUME NEW s \in Sections, s = Section PROVE Ready(s)'
  <2>1. SUFFICES ASSUME Runs(image, board.debug, s), s # "tdata",
                        NEW a \in Span(Layout[image][s]) \cap Ram
                 PROVE  mem'[a] = Initial(Layout[image][s], s, a)
    BY <1>1 DEF Ready
  <2>2. ~(s \in {"text", "rodata"} /\ InPlace(Layout[image][s]))
    BY <1>1, <2>1, FlashWord DEF Zeroed
  <2>3. mem' = Filled(Layout[image][s], s)
    BY <1>6, <2>1, <2>2 DEF RunLoop, Sec
  <2> QED  BY <2>3 DEF Filled
<1> QED
  <2>1. ASSUME NEW i \in 1 .. k' - 1 PROVE Ready(SectionOrder[i])'
    <3>1. CASE i \in 1 .. k - 1  BY <1>5, <3>1
    <3>2. CASE i = k
      <4>1. SectionOrder[i] \in Sections /\ SectionOrder[i] = Section
        BY <1>1, <3>2 DEF Section
      <4> QED  BY <1>6, <4>1
    <3> QED  BY <1>1, <2>1, <3>1, <3>2 DEF NSections
  <2> QED  BY <1>4, <2>1

-------------------------------------------------------------------------------
(* The inductive step *)

\* Once every loop has run, bss is clear and with it the flags of the clocks.
LEMMA FlagsCleared ==
  ASSUME IInv, \A s \in Sections : Ready(s), board.image # "net", image # "user"
  PROVE  FlagsClear
<1>1. image \in {"app", "single"} /\ image \in Images
  BY BoardFacts DEF IInv, TypeOK, PhaseInv, Images
<1>2. "bss" \in Sections /\ Runs(image, board.debug, "bss") /\ "bss" \in Zeroed
  <2>1. SectionOrder[8] = "bss"
    BY DEF SectionOrder
  <2>2. "bss" \in Sections
    BY <2>1, OrderFacts DEF NSections
  <2>3. "bss" \in AppLoops(board.debug) /\ "bss" \in SingleLoops(board.debug)
    BY <2>2 DEF AppLoops, SingleLoops, Skipped
  <2> QED  BY <1>1, <2>2, <2>3 DEF Runs, Zeroed
<1>3. \A a \in Span(Layout[image]["bss"]) \cap Ram : mem[a] = 0
  BY <1>2 DEF Ready, Initial
<1> QED  BY <1>1, <1>3, FlagAssumption DEF FlagsClear

\* A reset starts the loops over, with the clocks off.
LEMMA RestartIInv ==
  ASSUME IInv, NEW why \in SUBSET {"PIN", "DOG", "SREQ"}, Restart(why), board' = board,
         mem' \in [Ram -> Nat \cup {Junk}], nfcpins' \in {"nfc", "gpio"},
         intent' \in {"none", "user", "bootloader", "random"}, wdt' \in BOOLEAN,
         asked' \in SUBSET {"start", "uicr"}, resets' \in 0 .. MaxResets
  PROVE  IInv'
<1>1. board.image \in {"app", "net", "single"}
  BY BoardFacts DEF IInv, TypeOK
<1>2. image' \in Images /\ phase' \in Phases /\ k' \in 1 .. NSections + 1
  BY <1>1 DEF Restart, Images, Phases, NSections
<1>3. TypeOK'
  BY <1>2 DEF IInv, TypeOK, Restart
<1>4. PhaseInv' /\ FlagInv' /\ LoopInv'
  BY <1>1 DEF Restart, PhaseInv, FlagInv, LoopInv, ClocksRun
<1> QED  BY <1>3, <1>4 DEF IInv

LEMMA StepIInv == IInv /\ [Next]_vars => IInv'
<1> SUFFICES ASSUME IInv, [Next]_vars PROVE IInv'
  OBVIOUS
<1>t. /\ board \in Boards /\ board.image \in {"app", "net", "single"}
      /\ image \in Images /\ phase \in Phases /\ k \in 1 .. NSections + 1
      /\ mem \in [Ram -> Nat \cup {Junk}] /\ resets \in 0 .. MaxResets
      /\ resetreas \in SUBSET {"PIN", "DOG", "SREQ"} /\ asked \in SUBSET {"start", "uicr"}
      /\ wdt \in BOOLEAN /\ nfcpins \in {"nfc", "gpio"}
      /\ intent \in {"none", "user", "bootloader", "random"}
  BY BoardFacts DEF IInv, TypeOK
<1>r. Reasons \in SUBSET {"PIN", "DOG", "SREQ"}
  BY <1>t DEF Reasons
<1>f. board.image # "net" => HfFlag \in Ram /\ LfFlag \in Ram /\ HfFlag # LfFlag
  BY <1>t, FlagAssumption
<1>1. CASE RunLoop
  <2>1. TypeOK'
    BY <1>1, <1>t, LoopStep DEF RunLoop, IInv, TypeOK, clockVars, keptVars, NSections
  <2>2. PhaseInv' /\ FlagInv'
    BY <1>1 DEF RunLoop, IInv, PhaseInv, FlagInv, ClocksRun, clockVars, keptVars
  <2>3. LoopInv'
    BY <1>1, LoopStep DEF RunLoop, LoopInv
  <2> QED  BY <2>1, <2>2, <2>3 DEF IInv
<1>2. CASE MemoryDone
  <2>1. \A s \in Sections : Ready(s)
    <3>1. \A i \in 1 .. NSections : Ready(SectionOrder[i])
      BY <1>2 DEF MemoryDone, IInv, LoopInv, NSections
    <3> QED  BY <3>1, OrderFacts
  <2>2. phase' \in Phases
    BY <1>2 DEF MemoryDone, Phases
  <2>3. TypeOK'
    BY <1>2, <2>2 DEF MemoryDone, IInv, TypeOK, clockVars, keptVars
  <2>4. PhaseInv'
    BY <1>2, <1>t DEF MemoryDone, IInv, PhaseInv, ClocksRun, clockVars, keptVars
  <2>5. FlagInv'
    BY <1>2, <2>1, FlagsCleared DEF MemoryDone, FlagInv, FlagsClear
  <2>6. LoopInv'
    BY <1>2, <2>1 DEF MemoryDone, LoopInv, Ready
  <2> QED  BY <2>3, <2>4, <2>5, <2>6 DEF IInv
<1>3. CASE SystemInitApp \/ SystemInitSingle
  <2>1. phase' \in Phases /\ nfcpins' \in {"nfc", "gpio"}
    BY <1>3, <1>t DEF SystemInitApp, SystemInitSingle, Phases
  <2>2. TypeOK'
    BY <1>3, <1>r, <2>1 DEF SystemInitApp, SystemInitSingle, IInv, TypeOK, clockVars
  <2>3. patched' = board.errata
    BY <1>3, <1>t, BoardFacts DEF SystemInitApp, SystemInitSingle, Handled
  <2>4. PhaseInv' /\ FlagInv' /\ LoopInv'
    BY <1>3, <1>t, <2>3 DEF SystemInitApp, SystemInitSingle, IInv, PhaseInv, FlagInv, LoopInv,
                      ClocksRun, clockVars
  <2> QED  BY <2>2, <2>4 DEF IInv
<1>4. CASE SystemInitNet
  <2>1. phase' \in Phases
    BY <1>4 DEF SystemInitNet, Phases
  <2>2. TypeOK'
    BY <1>4, <1>r, <2>1 DEF SystemInitNet, IInv, TypeOK
  <2>3. patched' = board.errata
    BY <1>4, <1>t, BoardFacts DEF SystemInitNet, Handled
  <2>4. PhaseInv' /\ FlagInv' /\ LoopInv'
    BY <1>4, <1>t, <2>3 DEF SystemInitNet, IInv, PhaseInv, FlagInv, LoopInv, ClocksRun
  <2> QED  BY <2>2, <2>4 DEF IInv
<1>5. CASE hfclk_init \/ lfclk_init
  <2>1. phase' \in Phases
    BY <1>5, <1>t DEF hfclk_init, lfclk_init, Phases
  <2>2. TypeOK'
    BY <1>5, <2>1 DEF hfclk_init, lfclk_init, IInv, TypeOK, keptVars
  <2>3. CASE hfclk_init
    BY <2>2, <2>3, <1>t DEF hfclk_init, IInv, PhaseInv, FlagInv, LoopInv, ClocksRun, keptVars
  <2>4. CASE lfclk_init
    BY <2>2, <2>4, <1>t DEF lfclk_init, IInv, PhaseInv, FlagInv, LoopInv, ClocksRun, keptVars
  <2> QED  BY <1>5, <2>3, <2>4
<1>6. CASE HfclkStarted \/ LfclkStarted
  <2>1. phase' \in Phases /\ mem' \in [Ram -> Nat \cup {Junk}]
    BY <1>6, <1>t DEF HfclkStarted, LfclkStarted, Phases
  <2>2. TypeOK'
    BY <1>6, <2>1 DEF HfclkStarted, LfclkStarted, IInv, TypeOK, keptVars
  <2>3. CASE HfclkStarted
    BY <2>2, <2>3, <1>t, <1>f DEF HfclkStarted, IInv, PhaseInv, FlagInv, LoopInv, ClocksRun,
                                  keptVars
  <2>4. CASE LfclkStarted
    BY <2>2, <2>4, <1>t, <1>f DEF LfclkStarted, IInv, PhaseInv, FlagInv, LoopInv, ClocksRun,
                                  keptVars
  <2> QED  BY <1>6, <2>3, <2>4
<1>7. CASE Main
  <2>1. phase' \in Phases /\ image' \in Images /\ k' \in 1 .. NSections + 1
    BY <1>7, <1>t DEF Main, Phases, Images, NSections
  <2>2. mem' \in [Ram -> Nat \cup {Junk}]
    BY <1>7, <1>t DEF Main, Live
  <2>3. TypeOK'
    BY <1>7, <1>t, <2>1, <2>2 DEF Main, IInv, TypeOK, clockVars
  <2>4. PhaseInv' /\ FlagInv' /\ LoopInv'
    BY <1>7, <1>t DEF Main, IInv, PhaseInv, FlagInv, LoopInv, ClocksRun, clockVars
  <2> QED  BY <2>3, <2>4 DEF IInv
<1>8. CASE UicrReset \/ StartReset \/ CommitReset
  BY <1>8, <1>t, RestartIInv DEF UicrReset, StartReset, CommitReset, SoftReset
<1>9. CASE EnvironmentReset
  <2>1. resets' \in 0 .. MaxResets
    BY <1>9, <1>t, ResetAssumption DEF EnvironmentReset
  <2>2. CASE PowerCycle
    <3>1. mem' \in [Ram -> Nat \cup {Junk}]
      BY <2>2 DEF PowerCycle
    <3> QED  BY <2>1, <2>2, <3>1, <1>t, RestartIInv DEF PowerCycle
  <2>3. CASE PinReset
    BY <2>1, <2>3, <1>t, RestartIInv DEF PinReset
  <2>4. CASE WatchdogReset
    BY <2>1, <2>4, <1>t, RestartIInv DEF WatchdogReset
  <2> QED  BY <1>9, <2>2, <2>3, <2>4 DEF EnvironmentReset
<1>10. CASE UNCHANGED vars
  BY <1>10 DEF vars, bootVars, clockVars, keptVars, IInv, TypeOK, PhaseInv, FlagInv,
               LoopInv, Ready, ClocksRun
<1> QED
  BY <1>1, <1>2, <1>3, <1>4, <1>5, <1>6, <1>7, <1>8, <1>9, <1>10 DEF Next, Step

\* Every variable stays in its type.
THEOREM TypeCorrect == Spec => []TypeOK
<1>1. IInv => TypeOK
  BY DEF IInv
<1> QED  BY <1>1, InitIInv, StepIInv, PTL DEF Spec

\* The sections are ready whenever SystemInit is about to run (startup.c).
THEOREM MemoryAlwaysReady == Spec => []MemoryReady
<1>1. IInv => MemoryReady
  BY DEF IInv, LoopInv, MemoryReady, Ready
<1> QED  BY <1>1, InitIInv, StepIInv, PTL DEF Spec

\* No main() runs on a stopped clock (clock.c): the flags are cleared with bss
\* on every boot, so the guards of the two functions never skip a start.
THEOREM ClocksAlwaysRun == Spec => []ClocksRun
<1>1. IInv => ClocksRun
  BY DEF IInv, PhaseInv
<1> QED  BY <1>1, InitIInv, StepIInv, PTL DEF Spec

\* The start-up code of the user image leaves the shared data alone: the loop
\* that clears it is the application core's, the others write elsewhere.
THEOREM SharedAlwaysKept == Spec => SharedKept
<1>1. ASSUME IInv, [Next]_vars, image = "user", phase = "memory", image' = "user",
             NEW a \in SharedData \cap Ram
      PROVE  mem'[a] = mem[a]
  <2>i. board.image \in {"app", "net", "single"} /\ board.image # "user"
        /\ k \in 1 .. NSections + 1 /\ mem \in [Ram -> Nat \cup {Junk}]
    BY <1>1, BoardFacts DEF IInv, TypeOK
  <2>1. CASE RunLoop
    <3>1. k \in 1 .. NSections /\ Section \in Sections
      BY <2>1, <2>i, OrderFacts DEF RunLoop, Section, NSections
    <3>2. CASE Section = "shared"
      BY <1>1, <2>1, <3>2 DEF RunLoop, Runs, UserLoops
    <3>3. CASE Section # "shared"
      <4>1. a \notin Span(Sec)
        BY <1>1, <3>1, <3>3, UserAssumption DEF Sec
      <4>2. Filled(Sec, Section)[a] = mem[a]
        BY <4>1 DEF Filled
      <4> QED  BY <2>1, <4>2 DEF RunLoop
    <3> QED  BY <3>2, <3>3
  <2>2. CASE EnvironmentReset
    BY <1>1, <2>2, <2>i DEF EnvironmentReset, PowerCycle, PinReset, WatchdogReset, Restart
  <2>3. CASE Next /\ ~RunLoop /\ ~EnvironmentReset
    BY <1>1, <2>3 DEF Next, Step, MemoryDone, SystemInitApp, SystemInitSingle, SystemInitNet,
         UicrReset, hfclk_init, HfclkStarted, lfclk_init, LfclkStarted, Main, StartReset,
         CommitReset
  <2>4. CASE UNCHANGED vars
    BY <2>4 DEF vars
  <2> QED  BY <1>1, <2>1, <2>2, <2>3, <2>4
<1>2. IInv /\ [Next]_vars =>
        [image = "user" /\ phase = "memory" /\ image' = "user" =>
           \A a \in SharedData \cap Ram : mem'[a] = mem[a]]_vars
  BY <1>1
<1> QED  BY <1>2, InitIInv, StepIInv, PTL DEF Spec, SharedKept

-------------------------------------------------------------------------------
(* The choice of the image *)

\* Why a reset may lead to a launch: an intent is that of a START, and SREQ stands
\* for a request unless a pin reset set it by mistake, which SystemInit sees to.
AskInv ==
  /\ board.image = "app" /\ intent = "user" => "start" \in asked
  /\ board.image = "single" /\ "SREQ" \in resetreas =>
       /\ image # "user"
       /\ \/ asked # {}
          \/ /\ board.errata \cap SpuriousReasons # {} /\ "PIN" \in resetreas
             /\ phase \in {"memory", "init"}

LEMMA AskStep == IInv /\ AskInv /\ [Next]_vars => AskInv'
<1> SUFFICES ASSUME IInv, AskInv, [Next]_vars PROVE AskInv'
  OBVIOUS
<1>t. /\ board.image \in {"app", "net", "single"}
      /\ resetreas \in SUBSET {"PIN", "DOG", "SREQ"} /\ asked \in SUBSET {"start", "uicr"}
  BY BoardFacts DEF IInv, TypeOK
<1>p. /\ image \in {board.image, "user"}
      /\ image = "user" => phase \in {"memory", "main"}
  BY DEF IInv, PhaseInv
<1>1. CASE RunLoop
  BY <1>1 DEF RunLoop, AskInv, keptVars
<1>2. CASE MemoryDone
  BY <1>2 DEF MemoryDone, AskInv, clockVars, keptVars
<1>3. CASE SystemInitApp \/ SystemInitSingle \/ SystemInitNet
  <2>1. /\ resetreas' = Reasons /\ phase = "init" /\ phase' \in {"uicr", "hfclk"}
        /\ UNCHANGED <<board, image, intent, asked>>
    BY <1>3 DEF SystemInitApp, SystemInitSingle, SystemInitNet
  <2> QED  BY <2>1 DEF Reasons, AskInv
<1>4. CASE hfclk_init \/ HfclkStarted \/ lfclk_init \/ LfclkStarted
  BY <1>4 DEF hfclk_init, HfclkStarted, lfclk_init, LfclkStarted, AskInv, keptVars
<1>5. CASE Main
  BY <1>5, <1>t, <1>p DEF Main, AskInv
<1>6. CASE UicrReset \/ StartReset \/ CommitReset
  BY <1>6, <1>t, <1>p DEF UicrReset, StartReset, CommitReset, SoftReset, Restart, AskInv
<1>7. CASE EnvironmentReset
  <2>1. CASE PowerCycle
    BY <2>1 DEF PowerCycle, Restart, AskInv
  <2>2. CASE PinReset
    BY <2>2, <1>t DEF PinReset, Restart, AskInv
  <2>3. CASE WatchdogReset
    BY <2>3, <1>t DEF WatchdogReset, Restart, AskInv
  <2> QED  BY <1>7, <2>1, <2>2, <2>3 DEF EnvironmentReset
<1>8. CASE UNCHANGED vars
  BY <1>8 DEF vars, bootVars, keptVars, AskInv
<1> QED
  BY <1>1, <1>2, <1>3, <1>4, <1>5, <1>6, <1>7, <1>8 DEF Next, Step

\* The user image runs only after a START, or on the single-core board after the write of
\* the UICR: no pin reset, watchdog, power-on or calibration commit launches it, and
\* neither does what they leave in RESETREAS and in .non_init RAM.
THEOREM LaunchIsAsked == Spec => LaunchOnlyIfAsked
<1>1. Init => AskInv
  BY DEF Init, AskInv
<1>2. ASSUME IInv, AskInv, [Next]_vars, image # "user", image' = "user"
      PROVE  "start" \in asked \/ (board.image = "single" /\ "uicr" \in asked)
  <2>1. /\ image = board.image /\ board.image # "user" /\ asked \in SUBSET {"start", "uicr"}
    BY <1>2, BoardFacts DEF IInv, TypeOK, PhaseInv
  <2>2. Main
    BY <1>2, <2>1 DEF Next, Step, RunLoop, MemoryDone, SystemInitApp, SystemInitSingle,
         SystemInitNet, UicrReset, hfclk_init, HfclkStarted, lfclk_init, LfclkStarted,
         StartReset, CommitReset, SoftReset, EnvironmentReset, PowerCycle, PinReset,
         WatchdogReset, Restart, vars, bootVars
  <2> QED  BY <1>2, <2>1, <2>2 DEF Main, LaunchApp, LaunchSingle, AskInv
<1>3. IInv /\ AskInv /\ [Next]_vars =>
        [image # "user" /\ image' = "user" =>
           "start" \in asked \/ (board.image = "single" /\ "uicr" \in asked)]_vars
  BY <1>2
<1> QED  BY <1>1, <1>3, InitIInv, StepIInv, AskStep, PTL DEF Spec, LaunchOnlyIfAsked

-------------------------------------------------------------------------------
(* Why a start-up ends *)

\* The steps a core has before it at most: the loops, the clocks, main(), a second
\* time for the user image, and all of it again after the write of the UICR.
PhaseLeft ==
  CASE phase = "ready" -> 0
    [] phase = "main" -> 1
    [] phase = "lfclk" -> IF lfclk = "off" THEN 3 ELSE 2
    [] phase = "hfclk" -> IF hfclk = "off" THEN 5 ELSE 4
    [] phase = "init" -> 6
    [] phase = "memory" -> 7 + (NSections + 1 - k)
    [] phase = "uicr" -> 18
StepsLeft ==
  PhaseLeft + (IF image = "user" THEN 0 ELSE 20) + (IF nfcpins = "nfc" THEN 40 ELSE 0)

\* Every step of the start-up code brings its end nearer, whatever is left in RAM, in the
\* reset reasons and in UICR, so that only a reset from outside or a request prolongs it.
Advance == Step => StepsLeft \in Nat /\ StepsLeft' \in Nat /\ StepsLeft' < StepsLeft
BootAdvances == [][Advance]_vars

LEMMA LeftType ==
  ASSUME phase \in Phases, k \in 1 .. NSections + 1
  PROVE  StepsLeft \in Nat
<1>1. PhaseLeft \in Nat
  BY DEF PhaseLeft, Phases, NSections
<1> QED
  BY <1>1 DEF StepsLeft

LEMMA LeftDecreases == IInv /\ Step => StepsLeft' < StepsLeft
<1> SUFFICES ASSUME IInv, Step PROVE StepsLeft' < StepsLeft
  OBVIOUS
<1>1. /\ k \in 1 .. NSections + 1 /\ board.image \in {"app", "net", "single"}
      /\ image \in {board.image, "user"} /\ image = "user" => phase \in {"memory", "main"}
      /\ nfcpins \in {"nfc", "gpio"}
  BY BoardFacts DEF IInv, TypeOK, PhaseInv
<1> USE DEF StepsLeft, PhaseLeft
<1>2. CASE RunLoop
  <2>1. phase = "memory" /\ k' = k + 1 /\ k <= NSections /\ UNCHANGED <<phase, image, nfcpins>>
    BY <1>2 DEF RunLoop, keptVars
  <2> QED
    BY <1>1, <2>1 DEF NSections
<1>3. CASE MemoryDone
  <2>1. /\ phase = "memory" /\ k = NSections + 1 /\ phase' \in {"main", "init"}
        /\ UNCHANGED <<image, nfcpins>>
    BY <1>3 DEF MemoryDone, keptVars
  <2> QED
    BY <1>1, <2>1 DEF NSections
<1>4. CASE SystemInitApp \/ SystemInitSingle \/ SystemInitNet
  <2>1. /\ phase = "init" /\ image' = image
        /\ \/ nfcpins = "nfc" /\ nfcpins' = "gpio" /\ phase' = "uicr"
           \/ phase' = "hfclk" /\ nfcpins' = nfcpins
    BY <1>4 DEF SystemInitApp, SystemInitSingle, SystemInitNet
  <2> QED
    BY <1>1, <2>1
<1>5. CASE UicrReset
  <2>1. /\ phase = "uicr" /\ phase' = "memory" /\ k' = 1 /\ image' = board.image
        /\ nfcpins' = nfcpins
    BY <1>5 DEF UicrReset, SoftReset, Restart
  <2> QED
    BY <1>1, <2>1 DEF NSections
<1>6. CASE hfclk_init \/ HfclkStarted
  <2>1. /\ phase = "hfclk" /\ UNCHANGED <<image, nfcpins>>
        /\ \/ phase' = "hfclk" /\ hfclk = "off" /\ hfclk' = "starting"
           \/ phase' \in {"lfclk", "main"}
    BY <1>6 DEF hfclk_init, HfclkStarted, keptVars
  <2> QED
    BY <1>1, <2>1
<1>7. CASE lfclk_init \/ LfclkStarted
  <2>1. /\ phase = "lfclk" /\ UNCHANGED <<image, nfcpins>>
        /\ \/ phase' = "lfclk" /\ lfclk = "off" /\ lfclk' = "starting"
           \/ phase' = "main"
    BY <1>7 DEF lfclk_init, LfclkStarted, keptVars
  <2> QED
    BY <1>1, <2>1
<1>8. CASE Main
  <2>1. /\ phase = "main" /\ image # "user" /\ nfcpins' = nfcpins
        /\ \/ image' = "user" /\ phase' = "memory" /\ k' = 1
           \/ image' = image /\ phase' = "ready"
    BY <1>8 DEF Main
  <2> QED
    BY <1>1, <2>1 DEF NSections
<1> QED
  BY <1>2, <1>3, <1>4, <1>5, <1>6, <1>7, <1>8 DEF Step

\* Reset_Handler, SystemInit and main(): a start-up has no loop that is not counted, not even
\* through the reset after the write of UICR or through the launch of the user image.  The
\* safety half of BootEnds.
THEOREM StartupAdvances == Spec => BootAdvances
<1>1. IInv => StepsLeft \in Nat
  <2>1. IInv => phase \in Phases /\ k \in 1 .. NSections + 1
    BY DEF IInv, TypeOK
  <2> QED
    BY <2>1, LeftType
<1>2. IInv /\ StepsLeft \in Nat /\ (StepsLeft \in Nat)' /\ [Next]_vars => [Advance]_vars
  BY LeftDecreases DEF Advance
<1> QED
  BY <1>1, <1>2, InitIInv, StepIInv, PTL DEF Spec, BootAdvances
===============================================================================
