----------------------------- MODULE OtaTransfer ------------------------------
(***************************************************************************)
(* Flashing a swarm: start_ota() and transfer() of the testbed controller   *)
(* (swarmit/testbed/controller.py) against the robots, over links that lose *)
(* packets in both directions.                                             *)
(*                                                                         *)
(* The controller's thread runs one flash at a time; acknowledgements come  *)
(* in on another thread and are actions of their own.  A robot handles one  *)
(* packet per step: what its two cores do with it access by access is the   *)
(* subject of module Device.  A link keeps its packets in order, so the     *)
(* duplicates a robot sees are the controller's retransmissions.            *)
(***************************************************************************)
EXTENDS Flash, Sequences, FiniteSets

CONSTANTS
  Robots,
  Broadcast,        \* BROADCAST_ADDRESS
  Images,
  OldImage,         \* what the robots hold before the first flash
  Size,             \* Size[i]: the number of chunks of image i
  Settings,         \* the values ControllerSettings.devices may have
  Targets,          \* the values the devices parameter of a flash may have
  MaxRetries,       \* ControllerSettings.ota_max_retries
  MaxFlashes,       \* bound: flashes in a behaviour
  MaxInFlight,      \* bound: packets a link holds, a full one loses the next
  SessionGap        \* TRUE: a flash starts once the links have drained

ASSUME NameAssumption ==
  /\ Broadcast \notin Robots
  /\ Erased \notin Images /\ Garbage \notin Images /\ OldImage \notin Images
  /\ OldImage # Garbage
ASSUME SizesAssumption == Size \in [Images -> 1 .. NSlots]
ASSUME TargetAssumption ==
  Settings \subseteq SUBSET Robots /\ Targets \subseteq SUBSET Robots
ASSUME BoundAssumption ==
  /\ MaxRetries \in Nat /\ MaxFlashes \in Nat /\ MaxInFlight \in Nat \ {0}
  /\ SessionGap \in BOOLEAN

VARIABLES
  (* the controller *)
  pc,            \* "idle", in start_ota() or in transfer()
  settings,      \* settings.devices, fixed when the controller is made
  image,         \* the image being flashed, or flashed last
  listed,        \* the devices of this flash; {} means broadcast
  ready,         \* ready_devices as start_ota() read it
  target,        \* destination of the message being sent, and retransmitted
  queue,         \* the destinations after it
  retries,       \* start_ota_data.retries, then retries_count
  addrs,         \* start_ota_data.addrs
  index,         \* the chunk being transferred
  receivers,     \* the keys of transfer_data
  acked,         \* acked[r]: the indexes of the acked chunks of r
  missed,        \* the robots start_ota() reported as missed
  success,       \* the robots transfer() reported as successful
  flashes,
  (* the links *)
  down, up,      \* down[r], up[r]: packets to and from robot r
  asked,         \* history: the robots an OTA_START of this flash was sent to
  (* the robots *)
  status, chunk_count, last_chunk_acked, ota_require_erase,
  flash          \* flash[r]: chunk i of image a is a in slot i

sessionVars  == <<settings, image, listed, ready>>
startVars    == <<addrs, missed, asked>>
transferVars == <<index, receivers, acked, success>>
turnVars     == <<target, queue, retries>>
hostVars     == <<pc, sessionVars, startVars, transferVars, turnVars, flashes>>
robotVars    == <<status, chunk_count, last_chunk_acked, ota_require_erase, flash>>
vars         == <<hostVars, down, up, robotVars>>

Statuses == {"Ready", "Running", "Programming"}
Indexes(i) == 0 .. Size[i] - 1

Request == [type : {"OTA_START", "OTA_CHUNK"}, count : 0 .. NSlots, index : Slots,
            data : Images]
Answer  == [type : {"START_ACK", "CHUNK_ACK"}, index : Slots]

-------------------------------------------------------------------------------
(* Links *)

Send(link, m) == IF Len(link) < MaxInFlight THEN Append(link, m) ELSE link

Destinations(t) == IF t = Broadcast THEN Robots ELSE {t}

\* Any of the robots the packet is addressed to may hear it.
Transmit(m) ==
  \E heard \in SUBSET Destinations(target) :
    down' = [r \in Robots |-> IF r \in heard THEN Send(down[r], m) ELSE down[r]]

\* Mutant: the next attempt is not counted.
Bug_NextTry == retries

NextTry == retries + 1

\* Mutant: one attempt too many.
Bug_MayTry == retries <= MaxRetries + 1

MayTry == retries <= MaxRetries

\* The loop over the destinations: one of them now, the others after it.
Turn(dests) == target' \in dests /\ queue' = dests \ {target'}

-------------------------------------------------------------------------------
(* start_ota() *)

\* A flash of image i for the devices devs.  view is ready_devices, which status
\* messages keep more or less up to date; only a broadcast looks at it.
StartFlash(i, devs, view) ==
  /\ pc = "idle" /\ flashes < MaxFlashes
  /\ SessionGap => \A r \in Robots : down[r] = <<>> /\ up[r] = <<>>
  /\ pc' = "start"
  /\ flashes' = flashes + 1
  /\ image' = i
  /\ listed' = IF devs = {} THEN settings ELSE devs
  /\ ready' = IF listed' = {} THEN view ELSE {}
  /\ Turn(IF listed' = {} THEN {Broadcast} ELSE listed')
  /\ retries' = 0 /\ addrs' = {} /\ missed' = {} /\ asked' = {} /\ success' = {}
  /\ UNCHANGED <<settings, index, receivers, acked, down, up, robotVars>>

\* is_start_ota_acknowledged(): a broadcast waits for the robots seen as ready.
StartAcked == IF target = Broadcast THEN addrs = ready ELSE target \in addrs

SendStart ==
  /\ pc = "start" /\ ~StartAcked /\ MayTry
  /\ Transmit([type |-> "OTA_START", count |-> Size[image], index |-> 0,
               data |-> image])
  /\ asked' = asked \cup Destinations(target)
  /\ retries' = NextTry
  /\ UNCHANGED <<pc, sessionVars, addrs, missed, transferVars, target, queue,
                 flashes, up, robotVars>>

StartDone == pc = "start" /\ (StartAcked \/ ~MayTry)

\* The next listed robot; retries is not reset.
NextStart ==
  /\ StartDone /\ queue # {}
  /\ Turn(queue)
  /\ UNCHANGED <<pc, sessionVars, startVars, transferVars, retries, flashes, down,
                 up, robotVars>>

\* Mutant: chunks always go out as broadcasts.
Bug_ChunkDestinations(devices) == {Broadcast}

\* transfer() broadcasts the chunks when the settings name no devices, even if
\* the flash does.
ChunkDestinations(devices) == IF settings = {} THEN {Broadcast} ELSE devices

\* The result of start_ota(): its callers go on when nobody is missed.
EndStart ==
  /\ StartDone /\ queue = {}
  /\ missed' = listed \ addrs
  /\ IF missed' = {}
       THEN /\ pc' = "transfer"
            /\ receivers' = addrs
            /\ index' = 0
            /\ acked' = [r \in Robots |-> {}]
            /\ Turn(ChunkDestinations(addrs))
       ELSE /\ pc' = "idle"
            /\ target' = Broadcast
            /\ UNCHANGED <<receivers, index, acked, queue>>
  /\ retries' = 0
  /\ addrs' = {}
  /\ UNCHANGED <<sessionVars, asked, success, flashes, down, up, robotVars>>

-------------------------------------------------------------------------------
(* transfer() *)

\* is_chunk_acknowledged()
ChunkAcked ==
  \A r \in (IF target = Broadcast THEN receivers ELSE {target}) : index \in acked[r]

SendChunk ==
  /\ pc = "transfer" /\ ~ChunkAcked /\ MayTry
  /\ Transmit([type |-> "OTA_CHUNK", count |-> 0, index |-> index, data |-> image])
  /\ retries' = NextTry
  /\ UNCHANGED <<pc, sessionVars, startVars, transferVars, target, queue, flashes,
                 up, robotVars>>

ChunkDone == pc = "transfer" /\ (ChunkAcked \/ ~MayTry)

\* The same chunk to the next robot, or the next chunk, whoever has the last one.
NextChunk ==
  /\ ChunkDone
  /\ IF queue # {}
       THEN Turn(queue) /\ UNCHANGED index
       ELSE /\ index + 1 \in Indexes(image)
            /\ index' = index + 1
            /\ Turn(ChunkDestinations(receivers))
  /\ retries' = 0
  /\ UNCHANGED <<pc, sessionVars, startVars, receivers, acked, success, flashes,
                 down, up, robotVars>>

\* Mutant: one acked chunk is enough.
Bug_Succeeded(r) == acked[r] # {}

Succeeded(r) == acked[r] = Indexes(image)

\* What the controller still holds of a flash that ended is never read again.
EndTransfer ==
  /\ ChunkDone /\ queue = {} /\ index + 1 \notin Indexes(image)
  /\ pc' = "idle"
  /\ success' = {r \in receivers : Succeeded(r)}
  /\ acked' = [r \in Robots |-> {}]
  /\ receivers' = {} /\ target' = Broadcast /\ index' = 0 /\ retries' = 0
  /\ UNCHANGED <<sessionVars, startVars, queue, flashes, down, up, robotVars>>

\* on_frame_received(): an answer that no running call waits for has no effect.
ReceiveAnswer(r) ==
  /\ up[r] # <<>>
  /\ up' = [up EXCEPT ![r] = Tail(@)]
  /\ LET a == Head(up[r]) IN
     /\ addrs' = IF a.type = "START_ACK" /\ pc = "start"
                   THEN addrs \cup {r} ELSE addrs
     /\ acked' = IF /\ a.type = "CHUNK_ACK" /\ pc = "transfer"
                    /\ r \in receivers /\ a.index \in Indexes(image)
                   THEN [acked EXCEPT ![r] = @ \cup {a.index}] ELSE acked
  /\ UNCHANGED <<pc, sessionVars, missed, asked, index, receivers, success, turnVars,
                 flashes, down, robotVars>>

-------------------------------------------------------------------------------
(* Robots *)

\* The packet leaves the link; its answer may be lost on the way back.
Answers(r, a) ==
  /\ down' = [down EXCEPT ![r] = Tail(@)]
  /\ up' \in {up, [up EXCEPT ![r] = Send(@, a)]}

Listens(r) == status[r] \in {"Ready", "Programming"}

\* Mutant: a new transfer keeps the last acked chunk of the one before.
Bug_NoneAcked(r) == last_chunk_acked[r]

NoneAcked(r) == -1

HandleOtaStart(r) ==
  /\ down[r] # <<>> /\ Head(down[r]).type = "OTA_START" /\ Listens(r)
  /\ LET n == Head(down[r]).count IN
     /\ status' = [status EXCEPT ![r] = "Programming"]
     /\ last_chunk_acked' = [last_chunk_acked EXCEPT ![r] = NoneAcked(r)]
     /\ chunk_count' = [chunk_count EXCEPT ![r] = n]
     /\ flash' = IF ota_require_erase[r]
                   THEN [flash EXCEPT ![r] = ErasePages(@, PageCount(n))] ELSE flash
     /\ ota_require_erase' = [ota_require_erase EXCEPT ![r] = FALSE]
  /\ Answers(r, [type |-> "START_ACK", index |-> 0])
  /\ UNCHANGED hostVars

\* Mutant: the last chunk is taken to be the one past the end.
Bug_IsLast(i, n) == i = n

IsLast(i, n) == i = n - 1

HandleOtaChunk(r) ==
  /\ down[r] # <<>> /\ Head(down[r]).type = "OTA_CHUNK" /\ Listens(r)
  /\ LET i == Head(down[r]).index
         fresh == last_chunk_acked[r] # i IN
     /\ i < chunk_count[r]
     /\ flash' = IF fresh THEN [flash EXCEPT ![r][i] = Programmed(@, Head(down[r]).data)]
                   ELSE flash
     /\ ota_require_erase' = [ota_require_erase EXCEPT ![r] = fresh \/ @]
     /\ last_chunk_acked' = [last_chunk_acked EXCEPT ![r] = i]
     /\ status' = IF IsLast(i, chunk_count[r])
                    THEN [status EXCEPT ![r] = "Ready"] ELSE status
     /\ Answers(r, [type |-> "CHUNK_ACK", index |-> i])
  /\ UNCHANGED <<hostVars, chunk_count>>

Ignore(r) ==
  /\ down[r] # <<>>
  /\ Listens(r) => /\ Head(down[r]).type = "OTA_CHUNK"
                   /\ Head(down[r]).index >= chunk_count[r]
  /\ down' = [down EXCEPT ![r] = Tail(@)]
  /\ UNCHANGED <<hostVars, up, robotVars>>

ClearRam(r) ==
  /\ chunk_count' = [chunk_count EXCEPT ![r] = 0]
  /\ last_chunk_acked' = [last_chunk_acked EXCEPT ![r] = 0]
  /\ UNCHANGED <<hostVars, down, up, flash>>

\* A power cycle, a watchdog, a STOP: the robot is back in its bootloader.
Reboot(r) ==
  /\ status' = [status EXCEPT ![r] = "Ready"]
  /\ ota_require_erase' = [ota_require_erase EXCEPT ![r] = TRUE]
  /\ ClearRam(r)

\* A START, which no host sends during a flash (webserver.py:81 to 88).  "Running"
\* stands for every status in which a robot takes no image.
Launch(r) ==
  /\ pc = "idle" /\ status[r] = "Ready"
  /\ status' = [status EXCEPT ![r] = "Running"]
  /\ ota_require_erase' = [ota_require_erase EXCEPT ![r] = FALSE]
  /\ ClearRam(r)

RobotStep(r) ==
  HandleOtaStart(r) \/ HandleOtaChunk(r) \/ Ignore(r) \/ Reboot(r) \/ Launch(r)

-------------------------------------------------------------------------------
Init ==
  /\ pc = "idle" /\ flashes = 0
  /\ settings \in Settings
  /\ image \in Images /\ listed = {} /\ ready = {}
  /\ target = Broadcast /\ queue = {} /\ retries = 0
  /\ addrs = {} /\ missed = {} /\ asked = {}
  /\ index = 0 /\ receivers = {} /\ success = {}
  /\ acked = [r \in Robots |-> {}]
  /\ down = [r \in Robots |-> <<>>] /\ up = [r \in Robots |-> <<>>]
  /\ status = [r \in Robots |-> "Ready"]
  /\ chunk_count = [r \in Robots |-> 0]
  /\ last_chunk_acked = [r \in Robots |-> 0]
  /\ ota_require_erase = [r \in Robots |-> TRUE]
  /\ flash = [r \in Robots |-> [s \in Slots |-> OldImage]]

\* The thread that runs the flash.
ControllerStep ==
  \/ SendStart \/ NextStart \/ EndStart
  \/ SendChunk \/ NextChunk \/ EndTransfer

Next ==
  \/ \E i \in Images, devs \in Targets, view \in SUBSET Robots : StartFlash(i, devs, view)
  \/ ControllerStep
  \/ \E r \in Robots : ReceiveAnswer(r) \/ RobotStep(r)

Spec == Init /\ [][Next]_vars

\* The loops of the controller poll and time out by themselves.  Nothing is
\* promised of the radio or of the robots.
FairSpec == Spec /\ WF_vars(ControllerStep)

-------------------------------------------------------------------------------
TypeOK ==
  /\ pc \in {"idle", "start", "transfer"}
  /\ settings \in Settings /\ image \in Images
  /\ listed \subseteq Robots /\ ready \subseteq Robots
  /\ target \in Robots \cup {Broadcast} /\ queue \subseteq Robots
  /\ retries \in 0 .. MaxRetries + 1
  /\ addrs \subseteq Robots /\ missed \subseteq Robots /\ asked \subseteq Robots
  /\ index \in Slots /\ receivers \subseteq Robots /\ success \subseteq Robots
  /\ acked \in [Robots -> SUBSET Slots]
  /\ flashes \in 0 .. MaxFlashes
  /\ down \in [Robots -> Seq(Request)] /\ up \in [Robots -> Seq(Answer)]
  /\ status \in [Robots -> Statuses]
  /\ chunk_count \in [Robots -> 0 .. NSlots]
  /\ last_chunk_acked \in [Robots -> Slots \cup {-1}]
  /\ ota_require_erase \in [Robots -> BOOLEAN]
  /\ flash \in [Robots -> [Slots -> Images \cup {OldImage, Erased, Garbage}]]

\* A robot that transfer() reports as successful holds the whole image (the "success"
\* of webserver.py:427), through losses, retransmissions, reboots and flashes
\* that were given up, until the next flash.
SuccessMeansFlashed ==
  \A r \in success : \A s \in Indexes(image) : flash[r][s] = image

\* While the transfer runs, a chunk the controller counts as acked (the progress it
\* shows, and no longer retransmits) is in the flash of that robot.
AckedIsFlashed ==
  pc = "transfer" => \A r \in Robots : \A s \in acked[r] : flash[r][s] = image

\* A successful robot has left PROGRAMMING by itself: it can be started, also when
\* the acks of its last chunk were lost and the chunk was sent again.
SuccessMeansStartable == \A r \in success : status[r] # "Programming"

\* When the settings name the robots of the testbed user, a flash changes the
\* flash of the robots it is for, and of no other (controller.py:824 to 836).
UnicastIsolates ==
  [][settings # {} => \A r \in Robots : flash'[r] # flash[r] => r \in listed]_vars

\* A flash always comes to an end, whatever is lost and whichever robot stays silent.
FlashEnds == pc # "idle" ~> pc = "idle"

-------------------------------------------------------------------------------
(* What the documentation says and the code does not do *)

\* "Number of retries for each OTA message (start or chunk) transfer"
\* (cli/main.py:457): a robot is only reported as missed once it was sent an OTA_START.
MissedWereAsked == missed \subseteq asked

\* "Subset list of device addresses to interact with" (cli/main.py:276): a flash
\* for some robots does not write the flash of others.
OnlyListedFlashed ==
  [][listed # {} => \A r \in Robots : flash'[r] # flash[r] => r \in listed]_vars
=============================================================================
