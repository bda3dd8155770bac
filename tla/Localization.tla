---------------------------- MODULE Localization -----------------------------
(* The positions and raw captures of a robot: localization.c, the part of the *)
(* bootloader's main loop that uses it (READY), and swarmit_keep_alive, which *)
(* the user image calls (RUNNING), with the matrices that module Calibration  *)
(* brings.  Positions are points of a line, 0 is the origin.                  *)
EXTENDS Calibration

CONSTANTS
  Fixes,      \* what the lighthouses may locate the robot at; negative: outside
  Threshold   \* VALID_POSITION_DISTANCE_THRESHOLD_MM

ASSUME LocalizationAssumption == Fixes \subseteq Int /\ Threshold \in Nat

VARIABLES
  in_sight,     \* of a lighthouse, for the whole run
  lh2_started,
  fix,          \* the processed data not read yet, if any
  coordinates, previous_position,
  current_position,      \* in shared memory
  loopPc,       \* the part of the main loop: "process", "capture", "position"
  data_available,        \* of the loop; in RUNNING _localization_data_available
  position_update, lh2_capture_request, lh2_capturing,
  sample        \* a raw capture was logged since the last request

positionVars == <<coordinates, previous_position, current_position>>
captureVars  == <<lh2_capture_request, lh2_capturing, sample>>
locVars == <<lh2_started, fix, positionVars, loopPc, data_available, position_update, captureVars>>
vars == <<calVars, in_sight, locVars>>

-------------------------------------------------------------------------------

\* localization_start, which does nothing the second time.
StartLh2 == lh2_started' = TRUE

\* localization_process_data: a measurement is complete, or it is not; one that
\* nobody read is overwritten.
ProcessData ==
  /\ \/ UNCHANGED fix
     \/ in_sight /\ lh2_started' /\ \E p \in Fixes : fix' = {p}
  /\ data_available' = (fix' # {})

\* The user image's LH2 interrupt.
HandleIsr ==
  /\ appPc = "RUNNING" /\ lh2_started /\ UNCHANGED lh2_started /\ ProcessData
  /\ UNCHANGED <<calVars, in_sight, positionVars, loopPc, position_update, captureVars>>

\* localization_get_position: the last coordinates count again if there is no
\* new data; a previous position of (0, 0) means that there is none.
Distance(a, b) == IF a > b THEN a - b ELSE b - a
Point == IF fix # {} THEN CHOOSE p \in fix : TRUE ELSE coordinates
Reference == IF previous_position = 0 THEN Point ELSE previous_position
Valid == Point >= 0 /\ Distance(Reference, Point) <= Threshold

Bug_Previous == IF Point >= 0 THEN Point ELSE previous_position
Previous == IF Valid THEN Point ELSE IF Point >= 0 THEN Reference ELSE previous_position

GetPosition ==
  IF app.count = 0 THEN UNCHANGED <<fix, positionVars>>
    ELSE /\ fix' = {} /\ coordinates' = Point
         /\ previous_position' = Previous
         /\ current_position' = IF Valid THEN Point ELSE current_position

\* One pass of the main loop, in this order.
Bug_After(part) ==
  CASE part = "process" -> "position" [] part = "position" -> "capture" [] OTHER -> "process"
After(part) ==
  CASE part = "process" -> "capture" [] part = "capture" -> "position" [] OTHER -> "process"

\* What the requests' flags ask for comes first.  A capture request starts LH2
\* even without matrices.
Process ==
  /\ appPc = "READY" /\ loopPc = "process" /\ loopPc' = After("process")
  /\ ~(lh2_calibration_ready \/ start_application \/ system_reset_requested)
  /\ lh2_capture_request' = FALSE
  /\ lh2_capturing' = (lh2_capturing \/ lh2_capture_request)
  /\ IF lh2_capture_request THEN StartLh2 ELSE UNCHANGED lh2_started
  /\ ProcessData
  /\ UNCHANGED <<calVars, in_sight, positionVars, position_update, sample>>

\* localization_get_raw_counts takes the data away from the position.
GetRawCounts == fix' = {}

\* The counts go into a log event.
Capture ==
  /\ appPc = "READY" /\ loopPc = "capture" /\ loopPc' = After("capture")
  /\ IF lh2_capturing /\ data_available /\ fix # {}
       THEN GetRawCounts /\ sample' = TRUE /\ lh2_capturing' = FALSE
       ELSE UNCHANGED <<fix, sample, lh2_capturing>>
  /\ UNCHANGED <<calVars, in_sight, lh2_started, positionVars, data_available, position_update,
                 lh2_capture_request>>

\* The position, with what data_available was before the capture.
Position ==
  /\ appPc = "READY" /\ loopPc = "position" /\ loopPc' = After("position")
  /\ IF position_update /\ data_available THEN GetPosition /\ position_update' = FALSE
       ELSE UNCHANGED <<fix, positionVars, position_update>>
  /\ UNCHANGED <<calVars, in_sight, lh2_started, data_available, captureVars>>

\* Every 100 ms; out of sight the position has nothing to update.
Tick ==
  /\ appPc = "READY" /\ in_sight /\ ~position_update /\ position_update' = TRUE
  /\ UNCHANGED <<calVars, in_sight, lh2_started, fix, positionVars, loopPc, data_available,
                 captureVars>>

\* swarmit_keep_alive: data_available stays set until the next interrupt.
KeepAlive ==
  /\ appPc = "RUNNING" /\ data_available /\ GetPosition
  /\ UNCHANGED <<calVars, in_sight, lh2_started, loopPc, data_available, position_update,
                 captureVars>>

\* The network core hands LH2_CAPTURE over only to a READY bootloader.
HandleCapture ==
  /\ netPc = "loop" /\ appPc = "READY"
  /\ lh2_capture_request' = TRUE /\ sample' = FALSE
  /\ UNCHANGED <<calVars, in_sight, lh2_started, fix, positionVars, loopPc, data_available,
                 position_update, lh2_capturing>>

\* localization_init starts LH2, at launch and from the main loop.
Located == /\ (LeaveStart \/ InitLocalization) /\ loopPc = "process"
           /\ IF app'.count > 0 THEN StartLh2 ELSE UNCHANGED lh2_started
           /\ UNCHANGED <<in_sight, fix, positionVars, loopPc, data_available, position_update,
                          captureVars>>

Cleared ==
  /\ lh2_started' = FALSE /\ fix' = {}
  /\ coordinates' = 0 /\ previous_position' = 0 /\ current_position' = 0
  /\ loopPc' = "process" /\ data_available' = FALSE /\ position_update' = FALSE
  /\ lh2_capture_request' = FALSE /\ lh2_capturing' = FALSE /\ sample' = FALSE
  /\ UNCHANGED in_sight

LoopReset == loopPc = "process" /\ SoftReset /\ Cleared

Sudden == (WatchdogReset \/ PowerLoss) /\ Cleared

\* The steps of Calibration that leave the localisation alone.
CoreStep == (NetStep \/ ReleaseNetwork) /\ UNCHANGED <<in_sight, locVars>>
\* Bound: matrices are uploaded to robots out of sight.
Elsewhere == ((Upload /\ ~in_sight) \/ Transmit \/ HandleStart) /\ UNCHANGED <<in_sight, locVars>>

LoopStep == Process \/ Capture \/ Position

Init ==
  /\ CalInit
  /\ in_sight \in BOOLEAN
  /\ lh2_started = FALSE /\ fix = {}
  /\ coordinates = 0 /\ previous_position = 0 /\ current_position = 0
  /\ loopPc = "process" /\ data_available = FALSE /\ position_update = FALSE
  /\ lh2_capture_request = FALSE /\ lh2_capturing = FALSE /\ sample = FALSE

Next == \/ CoreStep \/ Elsewhere \/ Located \/ LoopReset \/ Sudden
        \/ HandleIsr \/ LoopStep \/ Tick \/ KeepAlive \/ HandleCapture

\* Both cores execute; a robot in sight of a lighthouse completes measurements
\* again and again.
Fairness ==
  /\ WF_vars(CoreStep) /\ WF_vars(Located) /\ WF_vars(LoopReset) /\ WF_vars(LoopStep)
  /\ SF_vars(Process /\ data_available')

Spec == Init /\ [][Next]_vars /\ Fairness

-------------------------------------------------------------------------------
(* Properties *)

TypeOK ==
  /\ CalTypeOK
  /\ fix \in {{}} \cup {{p} : p \in Fixes} /\ {coordinates, previous_position, current_position} \subseteq Int
  /\ loopPc \in {"process", "capture", "position"}

\* A reported position is never further from the last one than the threshold,
\* unless that one was the origin, whatever is measured, rejected or read twice.
NoJump ==
  [][current_position' # current_position /\ appPc' # "reset" =>
       \/ current_position = 0
       \/ Distance(current_position', current_position) <= Threshold]_vars

\* A capture request is answered as long as a lighthouse is in sight, though
\* every position update drains the same data.
CaptureAnswered == lh2_capture_request /\ in_sight ~> sample \/ appPc # "READY"
===============================================================================
