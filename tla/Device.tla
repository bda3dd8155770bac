-------------------------------- MODULE Device --------------------------------
(***************************************************************************)
(* One dual-core robot: the network core's main loop and radio interrupt    *)
(* (network_core/Source/main.c), the secure bootloader running on the       *)
(* application core (bootloader/Source/main.c), the shared RAM and the      *)
(* flash between them, and the resets.  Whatever is on the air is the        *)
(* environment: any request of Requests may reach the radio at any time, so *)
(* a lost, late, duplicated or reordered packet is a behaviour of Receive.  *)
(*                                                                         *)
(* Each core is a sequential process.  netPc and appPc name the source line *)
(* it is about to execute; a step touches the shared RAM once, except where *)
(* a comment says why two accesses may be one step.                         *)
(***************************************************************************)
EXTENDS Flash

CONSTANTS
  Payload,      \* contents of a chunk
  OldImage,     \* contents of the flash before the first step
  Requests,     \* the packets that may reach the radio
  StopAndWait   \* TRUE: a packet only arrives when the robot has no work left

Status == {"Ready", "Running", "Stopping", "Resetting", "Programming"}
LH2_BASESTATION_COUNT_MAX == 16
Kinds  == {"START", "STOP", "RESET", "OTA_START", "OTA_CHUNK",
           "LH2_CALIBRATION", "OTHER"}

(***************************************************************************)
(* A packet.  count is the chunk count of an OTA_START and the number of    *)
(* matrices of an LH2_CALIBRATION; index is the position of a chunk or of a *)
(* matrix; data are the bytes of a chunk and sha the bytes whose digest the *)
(* packet carries.  "OTHER" stands for every type the request handler       *)
(* does not know (metrics probes, payloads for the user image).             *)
(***************************************************************************)
Packet == [type : Kinds, count : Nat, index : Nat,
           data : Payload \cup {Garbage}, sha : Payload \cup {Garbage}]

NoPacket == [type |-> "OTHER", count |-> 0, index |-> 0,
             data |-> Garbage, sha |-> Garbage]

NoPdu == [type |-> "NONE", index |-> 0]
Pdu   == [type : {"NONE", "START_ACK", "CHUNK_ACK"}, index : Nat]

ASSUME ContentAssumption == Erased \notin Payload /\ Garbage \notin Payload
ASSUME ImageAssumption == OldImage \in [Slots -> Payload \cup {Erased}]
ASSUME RequestAssumption ==
  /\ Requests \subseteq Packet
  /\ \A m \in Requests : m.type = "OTA_CHUNK" => m.data \in Payload
  /\ \A m \in Requests : m.type = "OTA_START" => m.count <= NSlots
ASSUME ModeAssumption == StopAndWait \in BOOLEAN

VARIABLES
  status,             \* ipc_shared_data.status
  chunk_count,        \* ipc_shared_data.ota.*
  chunk_index,
  chunk,
  last_chunk_acked,
  txPending,          \* an ipc_network_call is waiting for the network core
  tx_pdu,             \* ipc_shared_data.tx_pdu
  netPc,              \* network core: next line of its main loop
  req_buffer,         \* network core: the one receive buffer
  req_received,
  appPc,              \* application core: next line of its main loop
  pages,              \* application core: pages the running erase still has to do
  writeIndex,         \* application core: the index behind "addr"
  ota_require_erase,
  boot_intent,
  ota_start_request,  \* flags the IPC interrupt raises for the main loop
  ota_chunk_request,
  start_application,
  system_reset_requested,
  wdt1,               \* the stop watchdog is running
  flash               \* the non-secure flash, slot by slot

otaVars  == <<chunk_count, chunk_index, chunk, last_chunk_acked>>
ipcVars  == <<txPending, tx_pdu>>
netVars  == <<netPc, req_buffer, req_received>>
bootVars == <<appPc, pages, writeIndex, ota_require_erase, boot_intent>>
flagVars == <<ota_start_request, ota_chunk_request, start_application,
              system_reset_requested>>
vars     == <<status, otaVars, ipcVars, netVars, bootVars, flagVars, wdt1, flash>>

NetPcs == {"loop", "copy", "verify", "halted"}
AppPcs == {"top", "erase", "startWait", "chunk", "write", "program", "ack", "mark",
           "ackWait", "end", "reset", "user"}

InUserImage == appPc = "user"

-------------------------------------------------------------------------------
(* Resets.  Every reset restarts both cores and zeroes their RAM; the boot    *)
(* code consumes _boot_intent, which survives in .non_init.                   *)

ClearRam ==
  /\ chunk_count' = 0 /\ chunk_index' = 0
  /\ chunk' = Garbage /\ last_chunk_acked' = 0
  /\ txPending' = FALSE /\ tx_pdu' = NoPdu
  /\ netPc' = "loop" /\ req_buffer' = NoPacket /\ req_received' = FALSE
  /\ pages' = {} /\ writeIndex' = 0
  /\ ota_start_request' = FALSE /\ ota_chunk_request' = FALSE
  /\ start_application' = FALSE /\ system_reset_requested' = FALSE

\* Mutant: any soft reset launches the user image.
Bug_Launch(softReset) == softReset

\* The user image is launched only after a soft reset that asked for it.
Launch(softReset) == softReset /\ boot_intent = "UserImage"

\* main() up to its loop, or up to the jump to the user image.
Boot(softReset) ==
  LET launch == Launch(softReset) IN
  /\ ClearRam
  /\ boot_intent' = "None"
  /\ status' = IF launch THEN "Running" ELSE "Ready"
  /\ appPc' = IF launch THEN "user" ELSE "top"
  /\ ota_require_erase' = ~launch
  /\ UNCHANGED flash

\* NVIC_SystemReset().  A running watchdog survives a soft reset.
SoftReset == appPc = "reset" /\ Boot(TRUE) /\ UNCHANGED wdt1

\* The stop watchdog bites.
Watchdog1 == wdt1 /\ Boot(FALSE) /\ wdt1' = FALSE

\* The user image stops feeding its watchdog (hang, fault).
Watchdog0 == InUserImage /\ Boot(FALSE) /\ wdt1' = FALSE

PowerCycle == Boot(FALSE) /\ wdt1' = FALSE

-------------------------------------------------------------------------------
(* Network core *)

\* Nothing received is left to handle, on either core or between them.
Quiescent ==
  /\ ~req_received /\ netPc = "loop" /\ ~txPending
  /\ ~ota_start_request /\ ~ota_chunk_request
  /\ ~start_application /\ ~system_reset_requested
  /\ appPc \in {"top", "chunk", "end", "user"}

(***************************************************************************)
(* _handle_packet(), in the radio interrupt: the packet overwrites the one  *)
(* receive buffer whether or not the main loop is still reading it.  START  *)
(* and STOP are one byte long and leave the rest of the buffer as it was,   *)
(* which matters while a chunk is being read out of it.                     *)
(***************************************************************************)
Receive(m) ==
  /\ netPc # "halted"
  /\ StopAndWait => Quiescent
  /\ req_buffer' = IF m.type \in {"START", "STOP"} /\ netPc \in {"copy", "verify"}
                     THEN [req_buffer EXCEPT !.type = m.type] ELSE m
  /\ req_received' = (req_received \/ m.type # "OTHER")
  /\ UNCHANGED <<status, otaVars, ipcVars, netPc, bootVars, flagVars, wdt1, flash>>

\* The main loop takes the request in the buffer, whatever it now is.  Contents
\* no line reads any more are forgotten.
Dequeue(kind) ==
  /\ netPc = "loop" /\ req_received /\ req_buffer.type = kind
  /\ req_received' = FALSE
  /\ req_buffer' = IF netPc' = "copy" THEN req_buffer ELSE NoPacket
  /\ UNCHANGED <<ipcVars, bootVars, flash>>

\* Mutant: the network core reports RUNNING as soon as it accepts a START.
Bug_HandleStart ==
  /\ netPc' = "loop" /\ Dequeue("START")
  /\ start_application' = (start_application \/ status = "Ready")
  /\ status' = IF status = "Ready" THEN "Running" ELSE status
  /\ UNCHANGED <<otaVars, ota_start_request, ota_chunk_request,
                 system_reset_requested, wdt1>>

HandleStart ==
  /\ netPc' = "loop" /\ Dequeue("START")
  /\ start_application' = (start_application \/ status = "Ready")
  /\ UNCHANGED <<status, otaVars, ota_start_request, ota_chunk_request,
                 system_reset_requested, wdt1>>

\* Mutant: the stop channel is not signalled.
Bug_SignalStop(accepted) == UNCHANGED wdt1

\* The IPC channel starts the stop watchdog in hardware; the code that is
\* running on the application core has no part in it.
SignalStop(accepted) == wdt1' = (wdt1 \/ accepted)

HandleStop ==
  /\ netPc' = "loop" /\ Dequeue("STOP")
  /\ LET accepted == status \in {"Running", "Resetting", "Programming"} IN
     /\ status' = IF accepted THEN "Stopping" ELSE status
     /\ SignalStop(accepted)
  /\ UNCHANGED <<otaVars, flagVars>>

HandleReset ==
  /\ netPc' = "loop" /\ Dequeue("RESET")
  /\ status' = IF status = "Ready" THEN "Resetting" ELSE status
  /\ UNCHANGED <<otaVars, flagVars, wdt1>>

\* Mutant: a transfer is accepted whatever the status.
Bug_OtaAccepted == TRUE

OtaAccepted == status \in {"Ready", "Programming"}

\* Mutant: the count is stored one too high.
Bug_AnnouncedCount == req_buffer.count + 1

AnnouncedCount == req_buffer.count

HandleOtaStart ==
  /\ netPc' = "loop" /\ Dequeue("OTA_START")
  /\ IF OtaAccepted
       THEN /\ last_chunk_acked' = -1
            /\ status' = "Programming"
            /\ chunk_count' = AnnouncedCount
            /\ ota_start_request' = TRUE
       ELSE UNCHANGED <<last_chunk_acked, status, chunk_count, ota_start_request>>
  /\ UNCHANGED <<chunk_index, chunk, ota_chunk_request, start_application,
                 system_reset_requested, wdt1>>

\* Mutant: the index of a chunk is not compared with the count.
Bug_IndexValid == TRUE

IndexValid == req_buffer.index < chunk_count

\* The index goes to the shared RAM before it is checked (line 323); a chunk that
\* is already acked is passed on without another look at its digest.
HandleOtaChunk ==
  /\ LET acked == last_chunk_acked = req_buffer.index IN
     IF OtaAccepted
       THEN /\ chunk_index' = req_buffer.index
            /\ netPc' = IF IndexValid /\ ~acked THEN "copy" ELSE "loop"
            /\ ota_chunk_request' = (ota_chunk_request \/ (IndexValid /\ acked))
       ELSE netPc' = "loop" /\ UNCHANGED <<chunk_index, ota_chunk_request>>
  /\ Dequeue("OTA_CHUNK")
  /\ UNCHANGED <<status, chunk_count, chunk, last_chunk_acked, ota_start_request,
                 start_application, system_reset_requested, wdt1>>

\* Lines 334 to 337: the bytes are read from the buffer as it is by now.
CopyChunk ==
  /\ netPc = "copy"
  /\ netPc' = "verify"
  /\ chunk' = req_buffer.data
  /\ UNCHANGED <<status, chunk_count, chunk_index, last_chunk_acked, ipcVars,
                 req_buffer, req_received, bootVars, flagVars, wdt1, flash>>

\* Mutant: the digest is not compared.
Bug_DigestMatches == TRUE

DigestMatches == chunk \in Payload /\ req_buffer.sha = chunk

\* Lines 339 to 356: so is the expected digest.
VerifyChunk ==
  /\ netPc = "verify"
  /\ netPc' = "loop"
  /\ ota_chunk_request' = (ota_chunk_request \/ DigestMatches)
  /\ req_buffer' = IF req_received THEN req_buffer ELSE NoPacket
  /\ UNCHANGED <<status, otaVars, ipcVars, req_received, bootVars,
                 ota_start_request, start_application, system_reset_requested,
                 wdt1, flash>>

\* The last matrix commits the configuration; the network core then waits for
\* the application core to reset both.
HandleCalibration ==
  /\ LET commit == /\ status = "Ready"
                   /\ req_buffer.count \in 1 .. LH2_BASESTATION_COUNT_MAX
                   /\ req_buffer.index = req_buffer.count - 1
     IN /\ netPc' = IF commit THEN "halted" ELSE "loop"
        /\ system_reset_requested' = (system_reset_requested \/ commit)
  /\ Dequeue("LH2_CALIBRATION")
  /\ UNCHANGED <<status, otaVars, ota_start_request, ota_chunk_request,
                 start_application, wdt1>>

\* A request that was overwritten by a packet of another type.
HandleUnknown ==
  /\ netPc' = "loop" /\ Dequeue("OTHER")
  /\ UNCHANGED <<status, otaVars, flagVars, wdt1>>

\* Mutant: the call is served but never acknowledged.
Bug_ServeIpc == netPc = "loop" /\ txPending /\ UNCHANGED vars

\* Lines 418 to 449: transmit for the application core and acknowledge the call.
ServeIpc ==
  /\ netPc = "loop" /\ txPending
  /\ txPending' = FALSE
  /\ tx_pdu' = NoPdu
  /\ UNCHANGED <<status, otaVars, netVars, bootVars, flagVars, wdt1, flash>>

HandleRequest ==
  \/ HandleStart \/ HandleStop \/ HandleReset
  \/ HandleOtaStart \/ HandleOtaChunk \/ CopyChunk \/ VerifyChunk
  \/ HandleCalibration \/ HandleUnknown

NetStep == HandleRequest \/ ServeIpc

-------------------------------------------------------------------------------
(* Application core: the bootloader's main loop *)

Goto(from, to) == appPc = from /\ appPc' = to

\* Mutant: the page loop stops one page short.
Bug_PagesToErase == IF ota_require_erase THEN 0 .. PageCount(chunk_count) - 2 ELSE {}

PagesToErase == IF ota_require_erase THEN 0 .. PageCount(chunk_count) - 1 ELSE {}

\* The pages are computed once, from the count the shared RAM holds now.
OtaStartRequest ==
  /\ Goto("top", IF ota_start_request THEN "erase" ELSE "chunk")
  /\ ota_start_request' = FALSE
  /\ pages' = IF ota_start_request THEN PagesToErase ELSE {}
  /\ UNCHANGED <<status, otaVars, ipcVars, netVars, writeIndex, ota_require_erase,
                 boot_intent, ota_chunk_request, start_application,
                 system_reset_requested, wdt1, flash>>

ErasePage(p) ==
  /\ appPc = "erase" /\ p \in pages /\ \A q \in pages : p <= q
  /\ pages' = pages \ {p}
  /\ flash' = [s \in Slots |-> IF PageOf(s) = p THEN Erased ELSE flash[s]]
  /\ UNCHANGED <<status, otaVars, ipcVars, netVars, appPc, writeIndex,
                 ota_require_erase, boot_intent, flagVars, wdt1>>

\* mari_node_tx(): fill tx_pdu, ask the network core and spin on net_ack.
SendStartAck ==
  /\ Goto("erase", "startWait") /\ pages = {}
  /\ ota_require_erase' = FALSE
  /\ txPending' = TRUE
  /\ tx_pdu' = [type |-> "START_ACK", index |-> 0]
  /\ UNCHANGED <<status, otaVars, netVars, pages, writeIndex, boot_intent, flagVars,
                 wdt1, flash>>

StartAckSent ==
  /\ Goto("startWait", "chunk") /\ ~txPending
  /\ UNCHANGED <<status, otaVars, ipcVars, netVars, pages, writeIndex,
                 ota_require_erase, boot_intent, flagVars, wdt1, flash>>

OtaChunkRequest ==
  /\ ota_chunk_request
  /\ Goto("chunk", IF last_chunk_acked # chunk_index THEN "write" ELSE "ack")
  /\ ota_chunk_request' = FALSE
  /\ UNCHANGED <<status, otaVars, ipcVars, netVars, pages, writeIndex,
                 ota_require_erase, boot_intent, ota_start_request,
                 start_application, system_reset_requested, wdt1, flash>>

\* Line 420: the address, from the index in the shared RAM.
ChunkAddress ==
  /\ Goto("write", "program")
  /\ writeIndex' = chunk_index
  /\ UNCHANGED <<status, otaVars, ipcVars, netVars, pages, ota_require_erase,
                 boot_intent, flagVars, wdt1, flash>>

\* Mutant: a write does not ask for the next erase.
Bug_RequireErase == UNCHANGED ota_require_erase

RequireErase == ota_require_erase' = TRUE

\* Lines 422 and 423: the bytes, from the chunk in the shared RAM.  An index the
\* network core has not validated yet can point past the slots of the image.
WriteChunk ==
  /\ Goto("program", "ack")
  /\ flash' = IF writeIndex \in Slots
                THEN [flash EXCEPT ![writeIndex] = Programmed(@, chunk)] ELSE flash
  /\ RequireErase
  /\ writeIndex' = 0
  /\ UNCHANGED <<status, otaVars, ipcVars, netVars, pages, boot_intent, flagVars,
                 wdt1>>

\* Line 429: the index the ack carries ...
FillChunkAck ==
  /\ Goto("ack", "mark")
  /\ tx_pdu' = [type |-> "CHUNK_ACK", index |-> chunk_index]
  /\ UNCHANGED <<status, otaVars, txPending, netVars, pages, writeIndex,
                 ota_require_erase, boot_intent, flagVars, wdt1, flash>>

\* ... and lines 431 and 432: the index remembered as acked.
SendChunkAck ==
  /\ Goto("mark", "ackWait")
  /\ last_chunk_acked' = chunk_index
  /\ txPending' = TRUE
  /\ UNCHANGED <<status, chunk_count, chunk_index, chunk, tx_pdu, netVars, pages,
                 writeIndex, ota_require_erase, boot_intent, flagVars, wdt1, flash>>

\* Mutant: the last chunk is taken to be the one past the end.
Bug_AtLastChunk == chunk_index = chunk_count

AtLastChunk == chunk_index = chunk_count - 1

\* Lines 435 to 437: once the ack is sent, the last chunk ends the transfer.
LastChunk ==
  /\ Goto("ackWait", "end") /\ ~txPending
  /\ status' = IF AtLastChunk THEN "Ready" ELSE status
  /\ UNCHANGED <<otaVars, ipcVars, netVars, pages, writeIndex, ota_require_erase,
                 boot_intent, flagVars, wdt1, flash>>

\* Mutant: only a requested reset is looked at.
Bug_ResetWanted == system_reset_requested

ResetWanted == start_application \/ system_reset_requested

\* Lines 440 to 448: an accepted START goes before a requested reset.
LoopEnd ==
  /\ appPc = "end" \/ (appPc = "chunk" /\ ~ota_chunk_request)
  /\ appPc' = IF ResetWanted THEN "reset" ELSE "top"
  /\ boot_intent' = IF ~ResetWanted THEN boot_intent
                      ELSE IF start_application THEN "UserImage" ELSE "Bootloader"
  /\ UNCHANGED <<status, otaVars, ipcVars, netVars, pages, writeIndex,
                 ota_require_erase, flagVars, wdt1, flash>>

AppStep ==
  \/ OtaStartRequest \/ (\E p \in pages : ErasePage(p))
  \/ SendStartAck \/ StartAckSent
  \/ OtaChunkRequest \/ ChunkAddress \/ WriteChunk
  \/ FillChunkAck \/ SendChunkAck \/ LastChunk
  \/ LoopEnd \/ SoftReset

-------------------------------------------------------------------------------
Init ==
  /\ status = "Ready"
  /\ chunk_count = 0 /\ chunk_index = 0 /\ chunk = Garbage /\ last_chunk_acked = 0
  /\ txPending = FALSE /\ tx_pdu = NoPdu
  /\ netPc = "loop" /\ req_buffer = NoPacket /\ req_received = FALSE
  /\ appPc = "top" /\ pages = {} /\ writeIndex = 0
  /\ ota_require_erase = TRUE /\ boot_intent = "None"
  /\ ota_start_request = FALSE /\ ota_chunk_request = FALSE
  /\ start_application = FALSE /\ system_reset_requested = FALSE
  /\ wdt1 = FALSE
  /\ flash = OldImage

Next ==
  \/ \E m \in Requests : Receive(m)
  \/ NetStep
  \/ AppStep
  \/ Watchdog1 \/ Watchdog0 \/ PowerCycle

Spec == Init /\ [][Next]_vars

\* The cores keep running, a running watchdog fires within its second, and each
\* iteration of the network core's loop serves a pending call once, however many
\* requests come in.  Nothing is promised of the radio, the image or the power.
Fairness == /\ WF_vars(HandleRequest) /\ SF_vars(ServeIpc)
            /\ WF_vars(AppStep) /\ WF_vars(Watchdog1)

FairSpec == Spec /\ Fairness

-------------------------------------------------------------------------------
(* What holds whatever reaches the radio *)

TypeOK ==
  /\ status \in Status
  /\ chunk_count \in 0 .. NSlots /\ chunk_index \in Nat
  /\ chunk \in Payload \cup {Garbage}
  /\ last_chunk_acked \in Nat \cup {-1}
  /\ txPending \in BOOLEAN /\ tx_pdu \in Pdu
  /\ netPc \in NetPcs /\ req_buffer \in Packet /\ req_received \in BOOLEAN
  /\ appPc \in AppPcs
  /\ pages \subseteq Nat
  /\ writeIndex \in Nat
  /\ ota_require_erase \in BOOLEAN
  /\ boot_intent \in {"None", "UserImage", "Bootloader"}
  /\ ota_start_request \in BOOLEAN /\ ota_chunk_request \in BOOLEAN
  /\ start_application \in BOOLEAN /\ system_reset_requested \in BOOLEAN
  /\ wdt1 \in BOOLEAN
  /\ flash \in [Slots -> Payload \cup {Erased, Garbage}]

\* The status both cores share says which image the application core runs:
\* RUNNING is only ever reported of the user image, and while the user image
\* runs no request but STOP has an effect on it.
StatusAgrees ==
  /\ status = "Running" => InUserImage
  /\ InUserImage => status \in {"Running", "Stopping"}

\* A STOP that was accepted stays armed: as long as the robot reports STOPPING
\* the watchdog that will reset it is running (bootloader main.c:284 to 286).
StoppingIsArmed == status = "Stopping" => wdt1

\* The flash never changes under a robot that reports RUNNING, whichever packets
\* arrive and however a transfer was interrupted.
FlashFrozenWhileRunning == [][status = "Running" => UNCHANGED flash]_vars

\* "Boot user image after soft system reset, but only when the previous run
\* explicitly asked for it" (bootloader main.c:327): the user image is only launched
\* when a START was accepted since the last reset, never by a calibration commit or
\* by a watchdog.
LaunchOnlyIfAsked == [][~InUserImage /\ InUserImage' => start_application]_vars

\* "Notify erase is done" (bootloader main.c:409): while START_ACK goes out, every slot of
\* the announced image is erased, retries and aborted transfers included.
StartAckMeansErased ==
  appPc = "startWait" => \A s \in Slots : s < chunk_count => flash[s] = Erased

\* The inductive reason: a cleared ota_require_erase means no slot of the
\* transfer's pages has been written since they were erased.
EraseFlagSound ==
  ~ota_require_erase /\ ~InUserImage =>
    \A s \in Slots : PageOf(s) < PageCount(chunk_count) => flash[s] = Erased

\* An accepted STOP ends with the bootloader, READY, in control of the robot.
StopCompletes == status = "Stopping" ~> (status = "Ready" /\ ~InUserImage)

\* The two main loops never wait for each other for ever: the bootloader comes
\* back to the top of its loop unless the network core halted for a reset.
NoMutualWait == []<>(appPc \in {"top", "user"} \/ netPc = "halted")

\* An accepted START leads to a reset, unless the network core halted.
StartLaunches == start_application ~> (~start_application \/ netPc = "halted")

-------------------------------------------------------------------------------
(* What a host that waits for the answer to each packet can rely on *)

\* m is a chunk for slot s whose digest is right.
ValidChunk(m, s) == m.type = "OTA_CHUNK" /\ m.index = s /\ m.sha = m.data

\* "Notify chunk has been written" (bootloader main.c:426): while the ack of a
\* chunk goes out, the flash holds a chunk that was sent for that index and verified.
AckedIsWritten ==
  txPending /\ tx_pdu.type = "CHUNK_ACK" =>
    \E m \in Requests : ValidChunk(m, tx_pdu.index) /\ flash[tx_pdu.index] = m.data

\* What a host that paces itself means for slot s.
Meant == [s \in Slots |-> {m.data : m \in {r \in Requests : ValidChunk(r, s)}}]

Store == INSTANCE ImageStore
           WITH Contents  <- Payload \cup {Erased, Garbage}, NoSlot <- -1,
                contents  <- flash,
                confirmed <- IF txPending /\ tx_pdu.type = "CHUNK_ACK"
                               THEN tx_pdu.index ELSE -1,
                meant     <- Meant

\* The two cores together implement the same abstract store as the single-core
\* bootloader: nothing but page erases and verified chunks changes the flash, and an
\* ack is only on its way while its slot holds what was sent for it.
ImplementsStore == Store!StoreSpec

\* No slot is ever written twice with different contents, or with contents
\* that failed verification.
NeverCorrupt ==
  \A s \in Slots :
    flash[s] \in {Erased, OldImage[s]} \cup {m.data : m \in {r \in Requests : ValidChunk(r, s)}}

\* The bootloader never computes an address past the announced image.
WriteInRange == appPc = "program" => writeIndex < chunk_count

\* The ack of the last chunk is followed by the end of the transfer.
LastAckEndsTransfer ==
  (txPending /\ tx_pdu.type = "CHUNK_ACK" /\ tx_pdu.index = chunk_count - 1)
    ~> status = "Ready"

\* After a calibration commit the robot comes back up: "both cores come back up
\* fresh" (network_core main.c:206).
CommitLeadsToReset == netPc = "halted" ~> netPc # "halted"
=============================================================================
