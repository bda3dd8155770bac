----------------------------- MODULE Calibration -----------------------------
(* The way of LH2 matrices from the host to the localisation of a robot: the  *)
(* upload (controller.py), the configuration page of the network core and its *)
(* commit, the reset that follows, and the boot that hands the matrices over  *)
(* to the application core.                                                   *)
EXTENDS Integers, Sequences

CONSTANTS
  Slots,        \* LH2_BASESTATION_COUNT_MAX
  Copies,       \* COMMAND_MAX_ATTEMPTS: how often each matrix is sent
  Uploads,      \* number of uploads
  PowerLosses,  \* bound on power cycles
  NetId         \* the network the robot is provisioned for

ASSUME CalibrationAssumption ==
  /\ Slots \in Nat \ {0} /\ Copies \in Nat \ {0}
  /\ Uploads \in Nat /\ PowerLosses \in Nat

\* Matrices are told apart by the upload they come from; Baked is the one that
\* dotbot-provision may have written.
Erased == -1     \* 0xFFFFFFFF
Zero == 0
Baked == 1
Indexes == 0 .. Slots - 1
Counts == 1 .. Slots
DefaultNetId == "0xA000"
NoNetId == "0xFFFF"     \* of an erased page
NoPacket == [upload |-> 0]

VARIABLES
  upload, index, copy, count,  \* the host: what it sends next; copy = 0: nothing
  home,          \* the network it was delivered with
  flash,         \* the configuration page
  config,        \* _app_vars.config, its copy in RAM
  netPc,         \* "off", "load", "loop", "erase", "write", "halt"
  written,       \* fields of the page written so far
  mari_net_id,
  req,           \* the buffered request
  signal,        \* lh2_calibration_ready of the network core
  shared,        \* lh2_calibration in shared memory
  appPc,         \* "reset", "wait", "READY", "RUNNING"
  intent,        \* _boot_intent asks for the user image
  start_application, system_reset_requested, lh2_calibration_ready,
  app,           \* the matrices the localisation has
  torn,          \* a reset came in the middle of a commit
  power          \* power losses left

hostVars == <<upload, index, copy, count>>
netVars  == <<config, netPc, written, mari_net_id, req, signal, shared>>
appVars  == <<appPc, intent, start_application, system_reset_requested,
              lh2_calibration_ready, app>>
calVars  == <<hostVars, home, flash, netVars, appVars, torn, power>>

\* The page when it is erased, and as dotbot-provision leaves it, with n matrices.
Virgin == [magic |-> FALSE, has_net_id |-> FALSE, net_id |-> NoNetId, count |-> Slots + 1,
           homographies |-> [i \in Indexes |-> Erased]]
Provisioned(n) == [magic |-> TRUE, has_net_id |-> TRUE, net_id |-> NetId, count |-> n,
                   homographies |-> [i \in Indexes |-> IF i < n THEN Baked ELSE Zero]]
NoMatrices == [count |-> 0, homographies |-> [i \in Indexes |-> Zero]]
Matrices(c) == [count |-> c.count,
                homographies |-> [i \in Indexes |-> IF i < c.count THEN c.homographies[i]
                                                     ELSE Zero]]

\* A page is trusted for its matrices if magic and count are right.
Calibrated(c) == c.magic /\ c.count \in Counts

-------------------------------------------------------------------------------
(* The host (send_lh2_calibration) *)

Upload ==
  /\ copy = 0 /\ upload < Baked + Uploads
  /\ upload' = upload + 1 /\ index' = 0 /\ copy' = 1 /\ count' \in Counts
  /\ UNCHANGED <<home, flash, netVars, appVars, torn, power>>

\* Every matrix is sent Copies times, 0.3 s apart: the robot has handled one
\* when the next one comes, if it comes.
Transmit ==
  /\ copy > 0 /\ req = NoPacket
  /\ \/ UNCHANGED req
     \/ /\ appPc \in {"READY", "RUNNING"} /\ netPc = "loop"
        /\ req' = [upload |-> upload, index |-> index, count |-> count]
  /\ IF copy < Copies THEN copy' = copy + 1 /\ UNCHANGED index
     ELSE IF index < count - 1 THEN copy' = 1 /\ index' = index + 1
     ELSE copy' = 0 /\ UNCHANGED index
  /\ UNCHANGED <<upload, count, home, flash, config, netPc, written, mari_net_id, signal, shared,
                 appVars, torn, power>>

-------------------------------------------------------------------------------
(* The network core *)

\* The whole page goes into RAM, for the next commit writes all of it again.
Bug_Loaded(page) == IF Calibrated(page) THEN page ELSE Virgin
Loaded(page) == page

\* _load_config: magic gates the page, has_net_id and homography_count their
\* own fields.
LoadConfig ==
  /\ netPc = "load" /\ netPc' = "loop"
  /\ config' = Loaded(flash)
  /\ mari_net_id' = IF flash.magic /\ flash.has_net_id THEN flash.net_id ELSE DefaultNetId
  /\ shared' = IF Calibrated(flash) THEN Matrices(flash) ELSE shared
  /\ signal' = Calibrated(flash)
  /\ UNCHANGED <<hostVars, home, flash, written, req, appVars, torn, power>>

SignalCalibration ==
  /\ netPc = "loop" /\ signal /\ signal' = FALSE /\ lh2_calibration_ready' = TRUE
  /\ UNCHANGED <<hostVars, home, flash, config, netPc, written, mari_net_id, req, shared, appPc,
                 intent, start_application, system_reset_requested, app, torn, power>>

\* The configuration once packet p is in: index 0 opens a session and zeroes
\* what the last one left.
Bug_Received(c, p) ==
  [c EXCEPT !.count = p.count, !.homographies[p.index] = p.upload]
Received(c, p) ==
  [c EXCEPT !.count = p.count,
            !.homographies = [i \in Indexes |-> IF i = p.index THEN p.upload
                                                ELSE IF p.index = 0 THEN Zero ELSE @[i]]]

\* The last index triggers the commit.
HandleCalibration ==
  /\ netPc = "loop" /\ req # NoPacket /\ req' = NoPacket
  /\ IF appPc # "READY" THEN UNCHANGED <<config, netPc>>
       ELSE /\ config' = Received(config, req)
            /\ netPc' = IF req.index = req.count - 1 THEN "erase" ELSE "loop"
  /\ UNCHANGED <<hostVars, home, flash, written, mari_net_id, signal, shared, appVars, torn, power>>

\* START: a signal to the application core.
HandleStart ==
  /\ netPc = "loop" /\ appPc = "READY" /\ start_application' = TRUE
  /\ UNCHANGED <<hostVars, home, flash, netVars, appPc, intent, system_reset_requested,
                 lh2_calibration_ready, app, torn, power>>

\* _commit_config_and_reboot: the magic is stamped, the page erased ...
Stamped(c) == [c EXCEPT !.magic = TRUE]
EraseConfig ==
  /\ netPc = "erase" /\ netPc' = "write" /\ written' = 0
  /\ config' = Stamped(config) /\ flash' = Virgin
  /\ UNCHANGED <<hostVars, home, mari_net_id, req, signal, shared, appVars, torn, power>>

\* ... and written word after word: the header, then the matrices.
Header == <<"magic", "has_net_id", "net_id", "count">>
Fields == Len(Header) + Slots
WriteConfig ==
  /\ netPc = "write" /\ written < Fields /\ written' = written + 1
  /\ flash' = IF written < Len(Header)
                THEN LET f == Header[written + 1] IN [flash EXCEPT ![f] = config[f]]
                ELSE LET i == written - Len(Header) IN
                       [flash EXCEPT !.homographies[i] = config.homographies[i]]
  /\ UNCHANGED <<hostVars, home, config, netPc, mari_net_id, req, signal, shared, appVars, torn,
                 power>>

\* The application core is asked for a reset; the network core waits for it.
Bug_AskReset == UNCHANGED system_reset_requested
AskReset == system_reset_requested' = TRUE
Halt ==
  /\ netPc = "write" /\ written = Fields /\ netPc' = "halt" /\ written' = 0
  /\ AskReset
  /\ UNCHANGED <<hostVars, home, flash, config, mari_net_id, req, signal, shared, appPc, intent,
                 start_application, lh2_calibration_ready, app, torn, power>>

-------------------------------------------------------------------------------
(* The application core *)

\* main() up to the release of the network core.
ReleaseNetwork ==
  /\ appPc = "reset" /\ appPc' = "wait" /\ netPc' = "load"
  /\ UNCHANGED <<hostVars, home, flash, config, written, mari_net_id, req, signal, shared, intent,
                 start_application, system_reset_requested, lh2_calibration_ready, app, torn,
                 power>>

\* Once net_ready is set: the user image, with the matrices if there are any,
\* or the bootloader.
LeaveStart ==
  /\ appPc = "wait" /\ netPc = "loop"
  /\ IF intent THEN /\ appPc' = "RUNNING" /\ intent' = FALSE
                    /\ app' = IF shared.count \in Counts THEN shared ELSE app
               ELSE appPc' = "READY" /\ UNCHANGED <<intent, app>>
  /\ UNCHANGED <<hostVars, home, flash, netVars, start_application, system_reset_requested,
                 lh2_calibration_ready, torn, power>>

\* localization_init from the main loop.
InitLocalization ==
  /\ appPc = "READY" /\ lh2_calibration_ready /\ lh2_calibration_ready' = FALSE
  /\ app' = shared
  /\ UNCHANGED <<hostVars, home, flash, netVars, appPc, intent, start_application,
                 system_reset_requested, torn, power>>

\* A reset of the chip: RAM is initialised again, both cores start over.
Restart(user_image) ==
  /\ appPc' = "reset" /\ intent' = user_image
  /\ start_application' = FALSE /\ system_reset_requested' = FALSE
  /\ lh2_calibration_ready' = FALSE /\ app' = NoMatrices
  /\ netPc' = "off" /\ written' = 0 /\ config' = Virgin /\ req' = NoPacket
  /\ signal' = FALSE /\ shared' = NoMatrices /\ mari_net_id' = DefaultNetId
  /\ torn' = (torn \/ netPc = "write")
  /\ UNCHANGED <<hostVars, home, flash>>

SoftReset ==
  /\ appPc = "READY" /\ (start_application \/ system_reset_requested)
  /\ Restart(start_application) /\ UNCHANGED power

\* STOP, a fault or a hang of the user image: a watchdog bites.
WatchdogReset == appPc = "RUNNING" /\ Restart(FALSE) /\ UNCHANGED power

PowerLoss == power > 0 /\ power' = power - 1 /\ Restart(FALSE)

AppStep == ReleaseNetwork \/ LeaveStart \/ InitLocalization
NetStep == LoadConfig \/ SignalCalibration \/ HandleCalibration \/ EraseConfig \/ WriteConfig
             \/ Halt
Resets == SoftReset \/ WatchdogReset \/ PowerLoss

CalInit ==
  /\ upload = Baked /\ index = 0 /\ copy = 0 /\ count = 1
  /\ home \in {NetId, DefaultNetId}
  /\ flash \in IF home = NetId THEN {Provisioned(0), Provisioned(Slots)} ELSE {Virgin}
  /\ config = Virgin /\ netPc = "off" /\ written = 0 /\ mari_net_id = DefaultNetId
  /\ req = NoPacket /\ signal = FALSE /\ shared = NoMatrices
  /\ appPc = "reset" /\ intent = FALSE
  /\ start_application = FALSE /\ system_reset_requested = FALSE
  /\ lh2_calibration_ready = FALSE /\ app = NoMatrices
  /\ torn = FALSE /\ power = PowerLosses

CalNext == Upload \/ Transmit \/ NetStep \/ HandleStart \/ AppStep \/ Resets

\* Both cores execute.
CalFairness == WF_calVars(AppStep) /\ WF_calVars(NetStep) /\ WF_calVars(SoftReset)

CalSpec == CalInit /\ [][CalNext]_calVars /\ CalFairness

-------------------------------------------------------------------------------
(* Properties *)

CalTypeOK ==
  /\ upload \in Baked .. Baked + Uploads /\ index \in Indexes /\ copy \in 0 .. Copies
  /\ count \in Counts
  /\ netPc \in {"off", "load", "loop", "erase", "write", "halt"}
  /\ appPc \in {"reset", "wait", "READY", "RUNNING"}
  /\ written \in 0 .. Fields
  /\ {flash, config} \subseteq
       [magic : BOOLEAN, has_net_id : BOOLEAN, net_id : {NetId, NoNetId}, count : 0 .. Slots + 1,
        homographies : [Indexes -> Erased .. Baked + Uploads]]

\* "any unrecovered slot from the previous session does not silently survive
\* into the flash commit" (main.c:381-384): it holds for an upload whose index 0
\* arrived, whatever else was lost, torn or repeated.
OneSession ==
  Calibrated(flash) =>
    LET last == flash.homographies[flash.count - 1] IN
      last > 0 /\ flash.homographies[0] = last =>
        \A i \in 0 .. flash.count - 1 :
          flash.homographies[i] > 0 => flash.homographies[i] = last

\* A provisioned robot keeps its network through every calibration, unless a
\* reset tears a commit between the erasure and the end of the write.
NetIdKept == netPc = "loop" /\ ~torn => mari_net_id = home

\* A commit takes effect: the robot restarts and its localisation has what the
\* page then holds.
InUse == IF Calibrated(flash) THEN app = Matrices(flash) ELSE app = NoMatrices
CommitTakesEffect == netPc = "halt" ~> netPc = "loop" /\ InUse
===============================================================================
