----------------------------- MODULE DeviceProofs -----------------------------
(***************************************************************************)
(* Theorems about Device: what holds of one robot whatever packets reach    *)
(* its radio, and what a host that paces itself can rely on, for every      *)
(* flash, every image and every set of requests.                           *)
(***************************************************************************)
EXTENDS Device, TLAPS

-------------------------------------------------------------------------------
(* Types.  The count the network core stores is in range because the OTA_START *)
(* it is looking at is one that was received: the short packets that overwrite  *)
(* the head of a chunk never make one up.                                      *)

BufferFromAir == req_buffer.type = "OTA_START" => req_buffer \in Requests

LEMMA BootTypeOK ==
  ASSUME NEW soft \in BOOLEAN, TypeOK, Boot(soft), wdt1' \in BOOLEAN
  PROVE  TypeOK'
<1>1. NoPdu \in Pdu /\ NoPacket \in Packet
  BY DEF NoPdu, Pdu, NoPacket, Packet, Kinds
<1>2. /\ chunk_count' \in 0 .. NSlots /\ chunk_index' \in Nat
      /\ last_chunk_acked' \in Nat \cup {-1} /\ writeIndex' \in Nat
  BY SizeAssumption DEF Boot, ClearRam
<1>3. ota_require_erase' \in BOOLEAN /\ status' \in Status /\ appPc' \in AppPcs
  BY DEF Boot, Launch, Status, AppPcs
<1>4. flash' \in [Slots -> Payload \cup {Erased, Garbage}]
  BY DEF Boot, TypeOK
<1>5. /\ chunk' \in Payload \cup {Garbage}
      /\ txPending' \in BOOLEAN /\ netPc' \in NetPcs /\ req_received' \in BOOLEAN
      /\ pages' \subseteq Nat /\ boot_intent' \in {"None", "UserImage", "Bootloader"}
      /\ ota_start_request' \in BOOLEAN /\ ota_chunk_request' \in BOOLEAN
      /\ start_application' \in BOOLEAN /\ system_reset_requested' \in BOOLEAN
  BY DEF Boot, ClearRam, NetPcs
<1>6. tx_pdu' \in Pdu /\ req_buffer' \in Packet
  BY <1>1 DEF Boot, ClearRam
<1> QED
  BY <1>2, <1>3, <1>4, <1>5, <1>6 DEF TypeOK

LEMMA InitTypeOK == Init => TypeOK
<1> SUFFICES ASSUME Init PROVE TypeOK
  OBVIOUS
<1>1. tx_pdu \in Pdu /\ req_buffer \in Packet
  BY DEF Init, NoPdu, Pdu, NoPacket, Packet, Kinds
<1>2. chunk_count \in 0 .. NSlots
  BY SizeAssumption DEF Init
<1>3. flash \in [Slots -> Payload \cup {Erased, Garbage}]
  BY ImageAssumption DEF Init
<1> QED
  BY <1>1, <1>2, <1>3 DEF Init, TypeOK, Status, NetPcs, AppPcs

LEMMA ReceiveTypeOK ==
  ASSUME TypeOK, NEW m \in Requests, Receive(m)
  PROVE  TypeOK'
<1>1. m \in Packet
  BY RequestAssumption
<1>2. req_buffer' \in Packet
  BY <1>1 DEF Receive, TypeOK, Packet, Kinds
<1>3. req_received' \in BOOLEAN
  BY DEF Receive, TypeOK
<1> QED
  BY <1>2, <1>3 DEF Receive, TypeOK, otaVars, ipcVars, bootVars, flagVars

LEMMA DequeueTypeOK ==
  ASSUME TypeOK, NEW kind, Dequeue(kind)
  PROVE  /\ req_buffer' \in Packet /\ req_received' \in BOOLEAN
         /\ UNCHANGED <<ipcVars, bootVars, flash>>
BY DEF Dequeue, TypeOK, NoPacket, Packet, Kinds

LEMMA HandleRequestTypeOK ==
  ASSUME TypeOK, BufferFromAir, HandleRequest
  PROVE  TypeOK'
<1> USE DEF otaVars, ipcVars, netVars, bootVars, flagVars, NetPcs
<1>1. CASE HandleStart
  BY <1>1, DequeueTypeOK DEF HandleStart, TypeOK
<1>2. CASE HandleStop
  BY <1>2, DequeueTypeOK DEF HandleStop, SignalStop, TypeOK, Status
<1>3. CASE HandleReset
  <2>1. status' \in Status
    BY <1>3 DEF HandleReset, TypeOK, Status
  <2>2. Dequeue("RESET") /\ netPc' = "loop"
    BY <1>3 DEF HandleReset
  <2> QED
    BY <2>1, <2>2, <1>3, DequeueTypeOK DEF HandleReset, TypeOK
<1>4. CASE HandleOtaStart
  <2>1. Dequeue("OTA_START") /\ netPc' = "loop"
    BY <1>4 DEF HandleOtaStart
  <2>2. status' \in Status
    BY <1>4 DEF HandleOtaStart, TypeOK, Status
  <2>3. chunk_count' \in 0 .. NSlots
    BY <1>4, <2>1, RequestAssumption
       DEF HandleOtaStart, AnnouncedCount, Dequeue, BufferFromAir, TypeOK, Packet
  <2>4. last_chunk_acked' \in Nat \cup {-1} /\ ota_start_request' \in BOOLEAN
    BY <1>4 DEF HandleOtaStart, TypeOK
  <2> QED
    BY <2>1, <2>2, <2>3, <2>4, <1>4, DequeueTypeOK DEF HandleOtaStart, TypeOK
<1>5. CASE HandleOtaChunk
  <2>1. chunk_index' \in Nat
    BY <1>5 DEF HandleOtaChunk, TypeOK, Packet
  <2> QED
    BY <2>1, <1>5, DequeueTypeOK DEF HandleOtaChunk, TypeOK
<1>6. CASE CopyChunk
  BY <1>6 DEF CopyChunk, TypeOK, Packet
<1>7. CASE VerifyChunk
  <2>1. req_buffer' \in Packet
    BY <1>7 DEF VerifyChunk, TypeOK, NoPacket, Packet, Kinds
  <2> QED
    BY <2>1, <1>7 DEF VerifyChunk, TypeOK
<1>8. CASE HandleCalibration
  BY <1>8, DequeueTypeOK DEF HandleCalibration, TypeOK
<1>9. CASE HandleUnknown
  BY <1>9, DequeueTypeOK DEF HandleUnknown, TypeOK
<1> QED
  BY <1>1, <1>2, <1>3, <1>4, <1>5, <1>6, <1>7, <1>8, <1>9 DEF HandleRequest

LEMMA AppStepTypeOK ==
  ASSUME TypeOK, AppStep
  PROVE  TypeOK'
<1> USE DEF otaVars, ipcVars, netVars, bootVars, flagVars, Goto
<1>1. CASE OtaStartRequest
  <2>1. pages' \subseteq Nat
    BY <1>1, SizeAssumption DEF OtaStartRequest, PagesToErase, PageCount, TypeOK
  <2> QED
    BY <2>1, <1>1 DEF OtaStartRequest, TypeOK, AppPcs
<1>2. ASSUME NEW p \in pages, ErasePage(p) PROVE TypeOK'
  BY <1>2 DEF ErasePage, TypeOK
<1>3. CASE SendStartAck
  BY <1>3 DEF SendStartAck, TypeOK, Pdu, AppPcs
<1>4. CASE StartAckSent
  BY <1>4 DEF StartAckSent, TypeOK, AppPcs
<1>5. CASE OtaChunkRequest
  BY <1>5 DEF OtaChunkRequest, TypeOK, AppPcs
<1>6. CASE ChunkAddress
  BY <1>6 DEF ChunkAddress, TypeOK, AppPcs
<1>7. CASE WriteChunk
  <2>1. flash' \in [Slots -> Payload \cup {Erased, Garbage}]
    BY <1>7 DEF WriteChunk, Programmed, TypeOK
  <2> QED
    BY <2>1, <1>7 DEF WriteChunk, RequireErase, TypeOK, AppPcs
<1>8. CASE FillChunkAck
  BY <1>8 DEF FillChunkAck, TypeOK, Pdu, AppPcs
<1>9. CASE SendChunkAck
  BY <1>9 DEF SendChunkAck, TypeOK, AppPcs
<1>10. CASE LastChunk
  BY <1>10 DEF LastChunk, TypeOK, AppPcs, Status
<1>11. CASE LoopEnd
  BY <1>11 DEF LoopEnd, TypeOK, AppPcs
<1>12. CASE SoftReset
  BY <1>12, BootTypeOK DEF SoftReset, TypeOK
<1> QED
  BY <1>1, <1>2, <1>3, <1>4, <1>5, <1>6, <1>7, <1>8, <1>9, <1>10, <1>11, <1>12
     DEF AppStep

LEMMA BufferFromAirStep ==
  ASSUME TypeOK, BufferFromAir, Next
  PROVE  BufferFromAir'
<1> USE DEF BufferFromAir, NoPacket
<1>1. ASSUME NEW m \in Requests, Receive(m) PROVE BufferFromAir'
  BY <1>1, RequestAssumption DEF Receive, TypeOK, Packet
<1>2. ASSUME NEW kind, Dequeue(kind) PROVE BufferFromAir'
  BY <1>2 DEF Dequeue
<1>3. ASSUME NEW soft, Boot(soft) PROVE BufferFromAir'
  BY <1>3 DEF Boot, ClearRam
<1>4. CASE UNCHANGED netVars
  BY <1>4 DEF netVars
<1>5. CASE HandleRequest
  BY <1>2, <1>5 DEF HandleRequest, HandleStart, HandleStop, HandleReset, HandleOtaStart,
     HandleOtaChunk, CopyChunk, VerifyChunk, HandleCalibration, HandleUnknown
<1>6. CASE ServeIpc
  BY <1>4, <1>6 DEF ServeIpc
<1>7. CASE AppStep /\ ~SoftReset
  BY <1>4, <1>7 DEF AppStep, OtaStartRequest, ErasePage, SendStartAck, StartAckSent,
     OtaChunkRequest, ChunkAddress, WriteChunk, FillChunkAck, SendChunkAck, LastChunk,
     LoopEnd
<1> QED
  BY <1>1, <1>3, <1>5, <1>6, <1>7
     DEF Next, NetStep, SoftReset, Watchdog1, Watchdog0, PowerCycle

TypeInv == TypeOK /\ BufferFromAir

LEMMA TypeInvStep ==
  ASSUME TypeInv, [Next]_vars
  PROVE  TypeInv'
<1>1. CASE UNCHANGED vars
  BY <1>1 DEF TypeInv, TypeOK, BufferFromAir, vars, otaVars, ipcVars, netVars, bootVars,
     flagVars
<1>2. CASE Next
  <2>1. BufferFromAir'
    BY <1>2, BufferFromAirStep DEF TypeInv
  <2>2. ASSUME NEW m \in Requests, Receive(m) PROVE TypeOK'
    BY <2>2, ReceiveTypeOK DEF TypeInv
  <2>3. CASE HandleRequest
    BY <2>1, <2>3, HandleRequestTypeOK DEF TypeInv
  <2>4. CASE ServeIpc
    <3>1. tx_pdu' \in Pdu
      BY <2>4 DEF ServeIpc, NoPdu, Pdu
    <3> QED
      BY <3>1, <2>1, <2>4 DEF ServeIpc, TypeInv, TypeOK, otaVars, netVars, bootVars, flagVars
  <2>5. CASE AppStep
    BY <2>1, <2>5, AppStepTypeOK DEF TypeInv
  <2>6. CASE Watchdog1 \/ Watchdog0 \/ PowerCycle
    BY <2>1, <2>6, BootTypeOK DEF Watchdog1, Watchdog0, PowerCycle, TypeInv
  <2> QED
    BY <1>2, <2>1, <2>2, <2>3, <2>4, <2>5, <2>6 DEF Next, NetStep, TypeInv
<1> QED
  BY <1>1, <1>2

LEMMA TypeInvariant == Spec => []TypeInv
<1>1. Init => TypeInv
  BY InitTypeOK DEF Init, TypeInv, BufferFromAir, NoPacket
<1> QED
  BY <1>1, TypeInvStep, PTL DEF Spec

\* Every variable of both cores keeps its type, the address range of the flash
\* included: the announced count never exceeds the flash when no host announces
\* more than that.
THEOREM TypeCorrect == Spec => []TypeOK
BY TypeInvariant, PTL DEF TypeInv

-------------------------------------------------------------------------------
(* The status and the image that runs *)

LEMMA StatusAgreesStep ==
  ASSUME TypeOK, StatusAgrees, [Next]_vars
  PROVE  StatusAgrees'
<1> USE DEF StatusAgrees, InUserImage
<1>1. CASE UNCHANGED <<status, appPc>>
  BY <1>1
<1>2. ASSUME NEW soft, Boot(soft) PROVE StatusAgrees'
  BY <1>2 DEF Boot
<1>3. CASE HandleStop
  BY <1>3 DEF HandleStop, Dequeue, bootVars
<1>4. CASE HandleReset
  BY <1>4 DEF HandleReset, Dequeue, bootVars
<1>5. CASE HandleOtaStart
  BY <1>5 DEF HandleOtaStart, OtaAccepted, Dequeue, bootVars
<1>6. CASE HandleRequest /\ ~HandleStop /\ ~HandleReset /\ ~HandleOtaStart
  BY <1>1, <1>6 DEF HandleRequest, HandleStart, HandleOtaChunk, CopyChunk, VerifyChunk,
     HandleCalibration, HandleUnknown, Dequeue, bootVars
<1>7. CASE LastChunk
  BY <1>7 DEF LastChunk, Goto
<1>8. CASE AppStep /\ ~LastChunk /\ ~SoftReset
  BY <1>8 DEF AppStep, OtaStartRequest, ErasePage, SendStartAck, StartAckSent,
     OtaChunkRequest, ChunkAddress, WriteChunk, FillChunkAck, SendChunkAck, LoopEnd, Goto
<1>9. CASE (\E m \in Requests : Receive(m)) \/ ServeIpc
  BY <1>1, <1>9 DEF Receive, ServeIpc, bootVars
<1> QED
  BY <1>1, <1>2, <1>3, <1>4, <1>5, <1>6, <1>7, <1>8, <1>9
     DEF Next, NetStep, SoftReset, Watchdog1, Watchdog0, PowerCycle, vars, bootVars

\* RUNNING is only ever reported of the user image, and under the user image the
\* status is RUNNING or STOPPING, whatever is received (bootloader main.c:333 and 377).
THEOREM StatusAgreesAlways == Spec => []StatusAgrees
<1>1. Init => StatusAgrees
  BY DEF Init, StatusAgrees, InUserImage
<1>2. TypeInv /\ StatusAgrees /\ [Next]_vars => StatusAgrees'
  BY StatusAgreesStep DEF TypeInv
<1> QED
  BY <1>1, <1>2, TypeInvariant, PTL DEF Spec

\* No packet changes the flash of a robot that reports RUNNING: a write or an
\* erase is a step of the bootloader, and by StatusAgrees the bootloader is not
\* what runs.
THEOREM FlashFrozen == Spec => FlashFrozenWhileRunning
<1>1. ASSUME TypeInv, StatusAgrees, [Next]_vars, status = "Running"
      PROVE  UNCHANGED flash
  <2>1. appPc = "user"
    BY <1>1 DEF StatusAgrees, InUserImage
  <2>2. ~AppStep
    BY <2>1 DEF AppStep, OtaStartRequest, ErasePage, SendStartAck, StartAckSent,
       OtaChunkRequest, ChunkAddress, WriteChunk, FillChunkAck, SendChunkAck, LastChunk,
       LoopEnd, SoftReset, Goto
  <2>3. CASE HandleRequest
    BY <2>3 DEF HandleRequest, HandleStart, HandleStop, HandleReset, HandleOtaStart,
       HandleOtaChunk, CopyChunk, VerifyChunk, HandleCalibration, HandleUnknown, Dequeue
  <2> QED
    BY <1>1, <2>2, <2>3 DEF Next, NetStep, Receive, ServeIpc, Boot, Watchdog1, Watchdog0,
       PowerCycle, vars
<1>2. TypeInv /\ StatusAgrees /\ [Next]_vars => [status = "Running" => UNCHANGED flash]_vars
  BY <1>1
<1> QED
  BY <1>2, TypeInvariant, StatusAgreesAlways, PTL DEF Spec, FlashFrozenWhileRunning

-------------------------------------------------------------------------------
(* The stop watchdog *)

LEMMA StoppingIsArmedStep ==
  ASSUME StoppingIsArmed, [Next]_vars
  PROVE  StoppingIsArmed'
<1> USE DEF StoppingIsArmed
<1>1. CASE UNCHANGED <<status, wdt1>>
  BY <1>1
<1>2. ASSUME NEW soft, Boot(soft) PROVE StoppingIsArmed'
  BY <1>2 DEF Boot
<1>3. CASE HandleStop
  BY <1>3 DEF HandleStop, SignalStop
<1>4. CASE HandleReset
  BY <1>4 DEF HandleReset
<1>5. CASE HandleOtaStart
  BY <1>5 DEF HandleOtaStart, OtaAccepted
<1>6. CASE HandleRequest /\ ~HandleStop /\ ~HandleReset /\ ~HandleOtaStart
  BY <1>1, <1>6 DEF HandleRequest, HandleStart, HandleOtaChunk, CopyChunk, VerifyChunk,
     HandleCalibration, HandleUnknown
<1>7. CASE LastChunk
  BY <1>7 DEF LastChunk
<1>8. CASE AppStep /\ ~LastChunk /\ ~SoftReset
  BY <1>1, <1>8 DEF AppStep, OtaStartRequest, ErasePage, SendStartAck, StartAckSent,
     OtaChunkRequest, ChunkAddress, WriteChunk, FillChunkAck, SendChunkAck, LoopEnd
<1>9. CASE (\E m \in Requests : Receive(m)) \/ ServeIpc
  BY <1>1, <1>9 DEF Receive, ServeIpc
<1> QED
  BY <1>1, <1>2, <1>3, <1>4, <1>5, <1>6, <1>7, <1>8, <1>9
     DEF Next, NetStep, SoftReset, Watchdog1, Watchdog0, PowerCycle, vars

\* STOPPING is never reported without the watchdog that ends it: no accepted
\* request, and no reset, separates the two (bootloader main.c:284 to 286).
THEOREM StoppingIsArmedAlways == Spec => []StoppingIsArmed
<1>1. Init => StoppingIsArmed
  BY DEF Init, StoppingIsArmed
<1>2. StoppingIsArmed /\ [Next]_vars => StoppingIsArmed'
  BY StoppingIsArmedStep
<1> QED
  BY <1>1, <1>2, PTL DEF Spec

-------------------------------------------------------------------------------
(* The calls between the cores *)

\* A pdu on its way answers what the bootloader is waiting for, and a halted network core
\* has asked the bootloader for the reset that ends it.
AnswersInStep ==
  /\ txPending => \/ appPc = "startWait" /\ tx_pdu.type = "START_ACK"
                  \/ appPc = "ackWait" /\ tx_pdu.type = "CHUNK_ACK"
  /\ netPc = "halted" => system_reset_requested

\* While the user image runs, the network core asks nothing of the bootloader and is in the
\* middle of nothing.
UserImageIsLeftAlone ==
  InUserImage => /\ netPc = "loop" /\ ~txPending
                 /\ ~ota_start_request /\ ~ota_chunk_request
                 /\ ~start_application /\ ~system_reset_requested

StepInv == AnswersInStep /\ UserImageIsLeftAlone
             /\ (appPc = "mark" => tx_pdu.type = "CHUNK_ACK")

\* The network core's steps on a request: none of them concerns a user image.
LEMMA RequestStep ==
  ASSUME StepInv, StatusAgrees, HandleRequest
  PROVE  StepInv'
<1> USE DEF StepInv
<1>1. UNCHANGED <<appPc, txPending, tx_pdu>> /\ netPc # "halted"
  BY DEF HandleRequest, HandleStart, HandleStop, HandleReset, HandleOtaStart, HandleOtaChunk,
         CopyChunk, VerifyChunk, HandleCalibration, HandleUnknown, Dequeue, bootVars, ipcVars
<1>2. InUserImage => status \notin {"Ready", "Programming"}
  BY DEF StatusAgrees
<1>3. netPc' = "halted" => system_reset_requested'
  BY DEF HandleRequest, HandleStart, HandleStop, HandleReset, HandleOtaStart, HandleOtaChunk,
         CopyChunk, VerifyChunk, HandleCalibration, HandleUnknown
<1>4. AnswersInStep'
  BY <1>1, <1>3 DEF AnswersInStep
<1>5. ASSUME InUserImage
      PROVE  /\ netPc' = "loop" /\ ~ota_start_request' /\ ~ota_chunk_request'
             /\ ~start_application' /\ ~system_reset_requested'
  <2>1. /\ netPc = "loop" /\ ~ota_start_request /\ ~ota_chunk_request
        /\ ~start_application /\ ~system_reset_requested
    BY <1>5 DEF UserImageIsLeftAlone
  <2>2. CASE HandleStart
    BY <1>2, <1>5, <2>1, <2>2 DEF HandleStart
  <2>3. CASE HandleStop \/ HandleReset \/ HandleUnknown
    BY <2>1, <2>3 DEF HandleStop, HandleReset, HandleUnknown, flagVars
  <2>4. CASE HandleOtaStart
    BY <1>2, <1>5, <2>1, <2>4 DEF HandleOtaStart, OtaAccepted
  <2>5. CASE HandleOtaChunk
    BY <1>2, <1>5, <2>1, <2>5 DEF HandleOtaChunk, OtaAccepted
  <2>6. CASE CopyChunk \/ VerifyChunk
    BY <2>1, <2>6 DEF CopyChunk, VerifyChunk
  <2>7. CASE HandleCalibration
    BY <1>2, <1>5, <2>1, <2>7 DEF HandleCalibration
  <2> QED
    BY <2>2, <2>3, <2>4, <2>5, <2>6, <2>7 DEF HandleRequest
<1>6. UserImageIsLeftAlone'
  BY <1>1, <1>5 DEF UserImageIsLeftAlone, InUserImage
<1> QED
  BY <1>1, <1>4, <1>6

\* The bootloader's steps.
LEMMA BootloaderStep ==
  ASSUME StepInv, AppStep, ~SoftReset
  PROVE  StepInv'
<1> USE DEF StepInv
<1>1. /\ ~InUserImage /\ ~InUserImage'
      /\ netPc' = netPc /\ system_reset_requested' = system_reset_requested
  BY DEF AppStep, OtaStartRequest, ErasePage, SendStartAck, StartAckSent, OtaChunkRequest,
         ChunkAddress, WriteChunk, FillChunkAck, SendChunkAck, LastChunk, LoopEnd, Goto,
         InUserImage, netVars, flagVars
<1>2. netPc' = "halted" => system_reset_requested'
  BY <1>1 DEF AnswersInStep
<1>3. ASSUME txPending'
      PROVE  \/ appPc' = "startWait" /\ tx_pdu'.type = "START_ACK"
             \/ appPc' = "ackWait" /\ tx_pdu'.type = "CHUNK_ACK"
  <2>1. CASE SendStartAck
    BY <2>1 DEF SendStartAck, Goto
  <2>2. CASE SendChunkAck
    BY <2>2 DEF SendChunkAck, Goto
  <2>3. ASSUME ~SendStartAck, ~SendChunkAck PROVE FALSE
    <3>1. txPending
      BY <1>3, <2>3 DEF AppStep, OtaStartRequest, ErasePage, StartAckSent, OtaChunkRequest,
           ChunkAddress, WriteChunk, FillChunkAck, LastChunk, LoopEnd, ipcVars
    <3>2. appPc \in {"startWait", "ackWait"}
      BY <3>1 DEF AnswersInStep
    <3> QED
      BY <2>3, <3>1, <3>2 DEF AppStep, OtaStartRequest, ErasePage, StartAckSent, OtaChunkRequest,
           ChunkAddress, WriteChunk, FillChunkAck, LastChunk, LoopEnd, Goto
  <2> QED
    BY <2>1, <2>2, <2>3
<1>4. appPc' = "mark" => tx_pdu'.type = "CHUNK_ACK"
  BY DEF AppStep, OtaStartRequest, ErasePage, SendStartAck, StartAckSent, OtaChunkRequest,
         ChunkAddress, WriteChunk, FillChunkAck, SendChunkAck, LastChunk, LoopEnd, Goto
<1> QED
  BY <1>1, <1>2, <1>3, <1>4 DEF AnswersInStep, UserImageIsLeftAlone

LEMMA StepInvStep ==
  ASSUME StepInv, StatusAgrees, [Next]_vars
  PROVE  StepInv'
<1>1. CASE HandleRequest
  BY <1>1, RequestStep
<1>2. CASE AppStep /\ ~SoftReset
  BY <1>2, BootloaderStep
<1>3. CASE ServeIpc
  <2>1. ~txPending' /\ UNCHANGED <<netPc, flagVars, appPc>> /\ appPc # "mark"
    BY <1>3 DEF ServeIpc, netVars, bootVars, StepInv, AnswersInStep
  <2> QED
    BY <2>1 DEF StepInv, AnswersInStep, UserImageIsLeftAlone, InUserImage, flagVars
<1>4. CASE (\E m \in Requests : Receive(m)) \/ UNCHANGED vars
  <2>1. UNCHANGED <<ipcVars, netPc, flagVars, appPc>>
    BY <1>4 DEF Receive, vars, netVars, bootVars
  <2> QED
    BY <2>1 DEF StepInv, AnswersInStep, UserImageIsLeftAlone, InUserImage, flagVars, ipcVars
<1>5. ASSUME NEW soft, Boot(soft) PROVE StepInv'
  <2>1. /\ ~txPending' /\ netPc' = "loop" /\ ~ota_start_request' /\ ~ota_chunk_request'
        /\ ~start_application' /\ ~system_reset_requested' /\ appPc' # "mark"
    BY <1>5 DEF Boot, ClearRam
  <2> QED
    BY <2>1 DEF StepInv, AnswersInStep, UserImageIsLeftAlone
<1> QED
  BY <1>1, <1>2, <1>3, <1>4, <1>5
     DEF Next, NetStep, SoftReset, Watchdog1, Watchdog0, PowerCycle

LEMMA StepInvariant == Spec => []StepInv
<1>1. Init => StepInv
  BY DEF Init, StepInv, AnswersInStep, UserImageIsLeftAlone, InUserImage
<1>2. StepInv /\ StatusAgrees /\ [Next]_vars => StepInv'
  BY StepInvStep
<1> QED
  BY <1>1, <1>2, StatusAgreesAlways, PTL DEF Spec

\* mari_node_tx() of the bootloader and the reset after a calibration: nothing is sent that
\* nobody waits for, and the network core never halts without having asked for the reset.  The
\* safety half of NoMutualWait.
THEOREM AnswersStayInStep == Spec => []AnswersInStep
<1>1. StepInv => AnswersInStep
  BY DEF StepInv
<1> QED
  BY <1>1, StepInvariant, PTL

\* Network core main.c:277-356: no packet, however late or interrupted by the boot, starts
\* anything for the bootloader while the user image runs.
THEOREM UserImageIsUndisturbed == Spec => []UserImageIsLeftAlone
<1>1. StepInv => UserImageIsLeftAlone
  BY DEF StepInv
<1> QED
  BY <1>1, StepInvariant, PTL

-------------------------------------------------------------------------------
(* The boot intent *)

\* The intent is written and consumed within one reset, and only for a START.
LaunchIntent == boot_intent = "UserImage" => start_application /\ appPc = "reset"

LEMMA LaunchIntentStep ==
  ASSUME TypeOK, LaunchIntent, [Next]_vars
  PROVE  LaunchIntent'
<1> USE DEF LaunchIntent
<1>1. CASE UNCHANGED <<boot_intent, start_application, appPc>>
  BY <1>1
<1>2. ASSUME NEW soft, Boot(soft) PROVE LaunchIntent'
  BY <1>2 DEF Boot
<1>3. CASE HandleStart
  BY <1>3 DEF HandleStart, Dequeue, bootVars
<1>4. CASE HandleRequest /\ ~HandleStart
  BY <1>4 DEF HandleRequest, HandleStop, HandleReset, HandleOtaStart, HandleOtaChunk,
     CopyChunk, VerifyChunk, HandleCalibration, HandleUnknown, Dequeue, bootVars, flagVars
<1>5. CASE LoopEnd
  BY <1>5 DEF LoopEnd, flagVars
<1>6. CASE AppStep /\ ~LoopEnd /\ ~SoftReset
  BY <1>6 DEF AppStep, OtaStartRequest, ErasePage, SendStartAck, StartAckSent,
     OtaChunkRequest, ChunkAddress, WriteChunk, FillChunkAck, SendChunkAck, LastChunk,
     Goto, bootVars, flagVars
<1>7. CASE (\E m \in Requests : Receive(m)) \/ ServeIpc
  BY <1>1, <1>7 DEF Receive, ServeIpc, bootVars, flagVars
<1> QED
  BY <1>1, <1>2, <1>3, <1>4, <1>5, <1>6, <1>7
     DEF Next, NetStep, SoftReset, Watchdog1, Watchdog0, PowerCycle, vars, bootVars,
     flagVars

LEMMA LaunchIntentAlways == Spec => []LaunchIntent
<1>1. Init => LaunchIntent
  BY DEF Init, LaunchIntent
<1>2. TypeInv /\ LaunchIntent /\ [Next]_vars => LaunchIntent'
  BY LaunchIntentStep DEF TypeInv
<1> QED
  BY <1>1, <1>2, TypeInvariant, PTL DEF Spec

\* The user image is only launched when a START was accepted since the last
\* reset: neither a watchdog nor the reset after a calibration launches it
\* (bootloader main.c:325 to 330).
THEOREM LaunchNeedsStart == Spec => LaunchOnlyIfAsked
<1>1. ASSUME LaunchIntent, [Next]_vars, ~InUserImage, InUserImage'
      PROVE  start_application
  <2> USE <1>1 DEF InUserImage
  <2>1. ~UNCHANGED appPc
    OBVIOUS
  <2>2. ~HandleRequest /\ ~ServeIpc
    BY <2>1 DEF HandleRequest, HandleStart, HandleStop, HandleReset, HandleOtaStart,
       HandleOtaChunk, CopyChunk, VerifyChunk, HandleCalibration, HandleUnknown, Dequeue,
       ServeIpc, bootVars
  <2>3. ASSUME NEW m \in Requests, Receive(m) PROVE FALSE
    BY <2>1, <2>3 DEF Receive, bootVars
  <2>4. CASE AppStep /\ ~SoftReset
    BY <2>1, <2>4 DEF AppStep, OtaStartRequest, ErasePage, SendStartAck, StartAckSent,
       OtaChunkRequest, ChunkAddress, WriteChunk, FillChunkAck, SendChunkAck, LastChunk,
       LoopEnd, Goto
  <2>5. ASSUME NEW soft, Boot(soft) PROVE start_application
    BY <2>5 DEF Boot, Launch, LaunchIntent
  <2> QED
    BY <2>1, <2>2, <2>3, <2>4, <2>5
       DEF Next, NetStep, SoftReset, Watchdog1, Watchdog0, PowerCycle, vars, bootVars
<1>2. LaunchIntent /\ [Next]_vars => [~InUserImage /\ InUserImage' => start_application]_vars
  BY <1>1
<1> QED
  BY <1>2, LaunchIntentAlways, PTL DEF Spec, LaunchOnlyIfAsked

-------------------------------------------------------------------------------
(* The erase before a transfer.  START_ACK means what its comment says as long *)
(* as every host announces images of the same number of pages: retries, late    *)
(* and duplicated announcements, interrupted transfers and resets included.     *)

OneImageSize(n) ==
  \A m \in Requests : m.type = "OTA_START" => PageCount(m.count) = n

ErasedBelow(n) == \A s \in Slots : PageOf(s) < n => flash[s] = Erased

\* ota_require_erase remembers the erase across announcements; while pages are
\* being erased, those still to do account for every slot that is not erased.
EraseInv(n) ==
  /\ chunk_count # 0 => PageCount(chunk_count) = n
  /\ ota_start_request => PageCount(chunk_count) = n
  /\ ~ota_require_erase /\ ~InUserImage => ErasedBelow(n)
  /\ appPc = "erase" =>
       \A s \in Slots : PageOf(s) < n => flash[s] = Erased \/ PageOf(s) \in pages
  /\ appPc = "startWait" => ~ota_require_erase

\* A slot below the count is on a page the round-up of bootloader main.c:398 counts.
LEMMA PageOfCount ==
  ASSUME NEW s \in Nat, NEW n \in Nat, s < n
  PROVE  PageOf(s) \in Nat /\ PageOf(s) < PageCount(n)
<1> DEFINE q == s \div PageSlots
           p == n \div PageSlots
<1>1. /\ q \in Nat /\ s % PageSlots \in 0 .. PageSlots - 1
      /\ s = PageSlots * q + (s % PageSlots)
  BY SizeAssumption
<1>2. /\ p \in Nat /\ n % PageSlots \in 0 .. PageSlots - 1
      /\ n = PageSlots * p + (n % PageSlots)
  BY SizeAssumption
<1>3. PageCount(n) = p + (IF n % PageSlots # 0 THEN 1 ELSE 0)
  BY DEF PageCount
<1>4. q <= p
  <2> SUFFICES ASSUME q >= p + 1 PROVE FALSE
    BY <1>1, <1>2
  <2> HIDE DEF q, p
  <2>1. PageSlots * q >= PageSlots * (p + 1)
    BY <1>1, <1>2, SizeAssumption
  <2>2. PageSlots * (p + 1) = PageSlots * p + PageSlots
    BY <1>2, SizeAssumption
  <2> QED
    BY <2>1, <2>2, <1>1, <1>2, SizeAssumption
<1>5. n % PageSlots = 0 => q # p
  <2> HIDE DEF q, p
  <2> QED
    BY <1>1, <1>2, SizeAssumption
<1> QED
  BY <1>1, <1>2, <1>3, <1>4, <1>5 DEF PageOf

LEMMA EraseInvStep ==
  ASSUME NEW n \in Nat, OneImageSize(n), TypeInv, EraseInv(n), [Next]_vars
  PROVE  EraseInv(n)'
<1> USE DEF EraseInv, ErasedBelow, InUserImage, PageCount, PageOf
<1>1. CASE UNCHANGED <<chunk_count, ota_start_request, ota_require_erase, appPc, pages,
                       flash>>
  BY <1>1
<1>2. ASSUME NEW soft, Boot(soft) PROVE EraseInv(n)'
  BY <1>2 DEF Boot, ClearRam
<1>3. CASE HandleOtaStart
  <2>1. OtaAccepted => PageCount(chunk_count') = n
    BY <1>3 DEF HandleOtaStart, AnnouncedCount, Dequeue, TypeInv, BufferFromAir,
       OneImageSize
  <2> QED
    BY <2>1, <1>3 DEF HandleOtaStart, Dequeue, bootVars
<1>4. CASE HandleRequest /\ ~HandleOtaStart
  BY <1>1, <1>4 DEF HandleRequest, HandleStart, HandleStop, HandleReset, HandleOtaChunk,
     CopyChunk, VerifyChunk, HandleCalibration, HandleUnknown, Dequeue, otaVars, bootVars,
     flagVars
<1>5. CASE OtaStartRequest
  <2>1. PagesToErase = IF ota_require_erase THEN 0 .. PageCount(chunk_count) - 1 ELSE {}
    BY DEF PagesToErase
  <2>2. \A s \in Slots : PageOf(s) \in Nat
    BY SizeAssumption DEF Slots
  <2> QED
    BY <2>1, <2>2, <1>5 DEF OtaStartRequest, Goto, otaVars
<1>6. ASSUME NEW p \in pages, ErasePage(p) PROVE EraseInv(n)'
  BY <1>6 DEF ErasePage, otaVars, flagVars
<1>7. CASE SendStartAck
  BY <1>7 DEF SendStartAck, Goto, otaVars, flagVars
<1>8. CASE WriteChunk
  BY <1>8 DEF WriteChunk, RequireErase, Goto, otaVars, flagVars
<1>9. CASE /\ AppStep /\ ~SoftReset /\ ~OtaStartRequest /\ ~SendStartAck /\ ~WriteChunk
           /\ ~\E p \in pages : ErasePage(p)
  BY <1>9 DEF AppStep, StartAckSent, OtaChunkRequest, ChunkAddress, FillChunkAck,
     SendChunkAck, LastChunk, LoopEnd, Goto, otaVars, flagVars
<1>10. CASE (\E m \in Requests : Receive(m)) \/ ServeIpc
  BY <1>1, <1>10 DEF Receive, ServeIpc, otaVars, bootVars, flagVars
<1> QED
  BY <1>1, <1>2, <1>3, <1>4, <1>5, <1>6, <1>7, <1>8, <1>9, <1>10
     DEF Next, NetStep, AppStep, SoftReset, Watchdog1, Watchdog0, PowerCycle, vars,
         otaVars, bootVars, flagVars

LEMMA EraseInvariant ==
  ASSUME NEW n \in Nat, OneImageSize(n)
  PROVE  Spec => []EraseInv(n)
<1>1. Init => EraseInv(n)
  BY DEF Init, EraseInv, InUserImage
<1>2. TypeInv /\ EraseInv(n) /\ [Next]_vars => EraseInv(n)'
  BY EraseInvStep
<1> QED
  BY <1>1, <1>2, TypeInvariant, PTL DEF Spec

\* "Notify erase is done" (bootloader main.c:409): while START_ACK goes out, every
\* slot of the announced image is erased, when all announced images have the same
\* number of pages.  MCDeviceErase shows that the condition is needed.
THEOREM StartAckTruthful ==
  ASSUME NEW n \in Nat, OneImageSize(n)
  PROVE  Spec => []StartAckMeansErased
<1>1. TypeInv /\ EraseInv(n) => StartAckMeansErased
  <2> SUFFICES ASSUME TypeInv, EraseInv(n), appPc = "startWait",
                      NEW s \in Slots, s < chunk_count
               PROVE  flash[s] = Erased
    BY DEF StartAckMeansErased
  <2>1. s \in Nat /\ chunk_count \in Nat /\ chunk_count # 0
    BY DEF Slots, TypeInv, TypeOK
  <2>2. PageOf(s) < n
    BY <2>1, PageOfCount DEF EraseInv
  <2> QED
    BY <2>2 DEF EraseInv, ErasedBelow, InUserImage
<1> QED
  BY <1>1, TypeInvariant, EraseInvariant, PTL

\* Under the same condition the flag that skips the erase is never cleared while
\* a slot of the image has been written: aborted and repeated transfers included.
THEOREM EraseFlagAlwaysSound ==
  ASSUME NEW n \in Nat, OneImageSize(n)
  PROVE  Spec => []EraseFlagSound
<1>1. PageCount(0) = 0
  BY SizeAssumption DEF PageCount
<1>2. TypeInv /\ EraseInv(n) => EraseFlagSound
  <2> SUFFICES ASSUME TypeInv, EraseInv(n), ~ota_require_erase, ~InUserImage,
                      NEW s \in Slots, PageOf(s) < PageCount(chunk_count)
               PROVE  flash[s] = Erased
    BY DEF EraseFlagSound
  <2>1. PageOf(s) \in Nat
    BY SizeAssumption DEF PageOf, Slots
  <2>2. chunk_count # 0
    BY <2>1, <1>1
  <2> QED
    BY <2>2 DEF EraseInv, ErasedBelow
<1> QED
  BY <1>2, TypeInvariant, EraseInvariant, PTL

-------------------------------------------------------------------------------
(* A host that paces itself.  When a packet only arrives once the robot has no  *)
(* work left, and every chunk of a slot that verifies has the same contents,    *)
(* the two cores implement ImageStore.                                         *)

OneContent ==
  \A s \in Slots, m1, m2 \in Requests :
    ValidChunk(m1, s) /\ ValidChunk(m2, s) => m1.data = m2.data

\* The application core has nothing of a transfer under way ...
Idle == appPc \in {"top", "chunk", "end", "user", "reset"}

\* ... and neither has it been asked for anything.
Free == Idle /\ ~txPending /\ ~ota_start_request /\ ~ota_chunk_request

Unasked == ~ota_start_request /\ ~ota_chunk_request

\* The chunk in the shared RAM was sent for the index beside it, which is in the image.
InImage == chunk_index < chunk_count
MeantHere == InImage /\ chunk \in Meant[chunk_index]
WrittenHere == InImage /\ flash[chunk_index] \in Meant[chunk_index]

ChunkAckHere == tx_pdu = [type |-> "CHUNK_ACK", index |-> chunk_index]

\* The network core works on one request at a time, the one in its buffer.
OneRequest ==
  /\ req_received => Free /\ netPc = "loop" /\ req_buffer \in Requests
  /\ netPc \in {"copy", "verify"} =>
       /\ Free /\ ~req_received
       /\ req_buffer \in Requests /\ req_buffer.type = "OTA_CHUNK"
       /\ chunk_index = req_buffer.index /\ InImage /\ last_chunk_acked # chunk_index
  /\ netPc = "verify" => chunk = req_buffer.data

\* What it then asks of the bootloader is the only thing under way.
OneTask ==
  /\ txPending => appPc \in {"startWait", "ackWait"}
  /\ ota_start_request => Idle /\ ~ota_chunk_request /\ last_chunk_acked = -1
  /\ ota_chunk_request => Idle /\ InImage /\ (last_chunk_acked # chunk_index => MeantHere)

\* The bootloader erases, writes and acks what it was asked for.
Working ==
  /\ appPc \in {"erase", "startWait"} => Unasked /\ last_chunk_acked = -1
  /\ appPc \in {"write", "program"} => Unasked /\ MeantHere /\ last_chunk_acked # chunk_index
  /\ appPc = "program" => writeIndex = chunk_index
  /\ appPc \in {"ack", "mark", "ackWait"} => Unasked /\ WrittenHere
  /\ appPc = "mark" => ChunkAckHere
  /\ appPc = "ackWait" /\ txPending => ChunkAckHere
  /\ appPc = "startWait" /\ txPending => tx_pdu.type = "START_ACK"

\* The chunk that is acked without being written again is in the flash.
LastWritten ==
  last_chunk_acked # -1 /\ chunk_count # 0 =>
    last_chunk_acked \in Slots /\ flash[last_chunk_acked] \in Meant[last_chunk_acked]

\* Once a transfer has been prepared, its pages hold nothing else.
OnlyMeant(n) ==
  chunk_count # 0 /\ ~ota_start_request /\ appPc # "erase" =>
    \A s \in Slots : PageOf(s) < n => flash[s] \in {Erased} \cup Meant[s]

PacedInv(n) == OneRequest /\ OneTask /\ Working /\ LastWritten /\ OnlyMeant(n) /\ NeverCorrupt

LEMMA MeantFacts ==
  ASSUME NEW s \in Slots
  PROVE  /\ Meant[s] = {m.data : m \in {r \in Requests : ValidChunk(r, s)}}
         /\ Meant[s] \subseteq Payload
         /\ OneContent => \A d, e \in Meant[s] : d = e
BY RequestAssumption DEF Meant, ValidChunk, OneContent

LEMMA SlotInImage ==
  ASSUME NEW n \in Nat, TypeInv, EraseInv(n), InImage
  PROVE  chunk_index \in Slots /\ chunk_count # 0 /\ PageOf(chunk_index) < n
<1>1. chunk_index \in Nat /\ chunk_count \in 0 .. NSlots /\ NSlots \in Nat
  BY SizeAssumption DEF TypeInv, TypeOK
<1>2. chunk_count \in Nat /\ chunk_count # 0
  BY <1>1 DEF InImage
<1>3. PageOf(chunk_index) < PageCount(chunk_count)
  BY <1>1, <1>2, PageOfCount DEF InImage
<1> QED
  BY <1>1, <1>2, <1>3 DEF Slots, InImage, EraseInv

\* Storing a verified chunk in a prepared page leaves that chunk in the slot.
LEMMA WriteIsWritten ==
  ASSUME NEW n \in Nat, OneContent, TypeInv, EraseInv(n), PacedInv(n), WriteChunk
  PROVE  /\ chunk_index \in Slots /\ chunk \in Meant[chunk_index]
         /\ flash' = [flash EXCEPT ![chunk_index] = Programmed(@, chunk)]
         /\ flash' = [flash EXCEPT ![chunk_index] = chunk]
<1>1. /\ appPc = "program" /\ writeIndex = chunk_index /\ InImage
      /\ chunk \in Meant[chunk_index] /\ ~ota_start_request
  BY DEF WriteChunk, Goto, PacedInv, Working, Unasked, MeantHere
<1>2. chunk_index \in Slots /\ chunk_count # 0 /\ PageOf(chunk_index) < n
  BY <1>1, SlotInImage
<1>3. flash[chunk_index] \in {Erased} \cup Meant[chunk_index]
  BY <1>1, <1>2 DEF PacedInv, OnlyMeant
<1>4. Programmed(flash[chunk_index], chunk) = chunk
  BY <1>1, <1>2, <1>3, MeantFacts DEF Programmed
<1>5. flash' = [flash EXCEPT ![chunk_index] = Programmed(@, chunk)]
  BY <1>1, <1>2 DEF WriteChunk
<1> QED
  BY <1>1, <1>2, <1>4, <1>5 DEF TypeInv, TypeOK

LEMMA PacedBoot ==
  ASSUME NEW n \in Nat, NEW soft \in BOOLEAN, PacedInv(n), Boot(soft)
  PROVE  PacedInv(n)'
<1>1. /\ ~req_received' /\ netPc' = "loop" /\ ~txPending' /\ ~ota_start_request'
      /\ ~ota_chunk_request' /\ appPc' \in {"top", "user"} /\ chunk_count' = 0
      /\ flash' = flash
  BY DEF Boot, ClearRam
<1>2. OneRequest' /\ OneTask' /\ Working'
  BY <1>1 DEF OneRequest, OneTask, Working
<1>3. LastWritten' /\ OnlyMeant(n)' /\ NeverCorrupt'
  BY <1>1 DEF LastWritten, OnlyMeant, NeverCorrupt, PacedInv
<1> QED
  BY <1>2, <1>3 DEF PacedInv

\* The network core only handles a request when the bootloader is free.
LEMMA PacedRequest ==
  ASSUME NEW n \in Nat, TypeInv, PacedInv(n), HandleRequest
  PROVE  PacedInv(n)'
<1> USE DEF PacedInv, Free, Idle, InImage, otaVars, ipcVars, netVars, bootVars, flagVars
<1>0. Free /\ UNCHANGED <<txPending, tx_pdu, appPc, writeIndex, flash>>
  BY DEF HandleRequest, HandleStart, HandleStop, HandleReset, HandleOtaStart, HandleOtaChunk,
     CopyChunk, VerifyChunk, HandleCalibration, HandleUnknown, Dequeue, OneRequest
<1>1. Working' /\ NeverCorrupt'
  BY <1>0 DEF Working, NeverCorrupt
<1>2. CASE HandleOtaStart
  <2>1. ~req_received' /\ netPc' = "loop" /\ ~ota_chunk_request'
    BY <1>0, <1>2 DEF HandleOtaStart, Dequeue
  <2>2. OneRequest' /\ OneTask' /\ LastWritten' /\ OnlyMeant(n)'
    BY <2>1, <1>0, <1>2 DEF HandleOtaStart, OneRequest, OneTask, LastWritten, OnlyMeant
  <2> QED
    BY <1>1, <2>2
<1>3. CASE HandleOtaChunk
  <2>1. /\ req_received /\ req_buffer \in Requests /\ req_buffer.type = "OTA_CHUNK"
        /\ ~req_received' /\ UNCHANGED <<chunk_count, chunk, last_chunk_acked,
                                         ota_start_request>>
    BY <1>3 DEF HandleOtaChunk, Dequeue, OneRequest
  <2>2. CASE ~OtaAccepted
    BY <1>0, <1>1, <1>3, <2>1, <2>2
       DEF HandleOtaChunk, OneRequest, OneTask, LastWritten, OnlyMeant
  <2>3. CASE OtaAccepted /\ IndexValid /\ last_chunk_acked # req_buffer.index
    <3>1. /\ chunk_index' = req_buffer.index /\ netPc' = "copy" /\ ~ota_chunk_request'
          /\ req_buffer' = req_buffer /\ chunk_index' < chunk_count'
          /\ last_chunk_acked' # chunk_index'
      BY <1>0, <1>3, <2>1, <2>3 DEF HandleOtaChunk, Dequeue, IndexValid
    <3> QED
      BY <1>0, <1>1, <2>1, <3>1 DEF OneRequest, OneTask, LastWritten, OnlyMeant
  <2>4. CASE OtaAccepted /\ ~(IndexValid /\ last_chunk_acked # req_buffer.index)
    <3>1. /\ chunk_index' = req_buffer.index /\ netPc' = "loop"
          /\ ota_chunk_request' =>
               chunk_index' < chunk_count' /\ last_chunk_acked' = chunk_index'
      BY <1>0, <1>3, <2>1, <2>4 DEF HandleOtaChunk, IndexValid
    <3> QED
      BY <1>0, <1>1, <2>1, <3>1 DEF OneRequest, OneTask, LastWritten, OnlyMeant
  <2> QED
    BY <2>2, <2>3, <2>4
<1>4. CASE CopyChunk
  BY <1>0, <1>1, <1>4 DEF CopyChunk, OneRequest, OneTask, LastWritten, OnlyMeant
<1>5. CASE VerifyChunk
  <2>1. /\ req_buffer \in Requests /\ req_buffer.type = "OTA_CHUNK" /\ ~req_received
        /\ chunk_index = req_buffer.index /\ chunk_index < chunk_count
        /\ chunk = req_buffer.data
    BY <1>5 DEF VerifyChunk, OneRequest
  <2>2. ota_chunk_request' => chunk \in Meant[chunk_index]
    <3>1. chunk_index \in Slots
      BY <2>1, SizeAssumption DEF TypeInv, TypeOK, Slots
    <3>2. ota_chunk_request' => req_buffer.sha = req_buffer.data
      BY <1>0, <1>5, <2>1 DEF VerifyChunk, DigestMatches
    <3> QED
      BY <2>1, <3>1, <3>2, MeantFacts DEF ValidChunk
  <2>3. /\ netPc' = "loop" /\ ~req_received'
        /\ UNCHANGED <<chunk_count, chunk_index, chunk, last_chunk_acked, ota_start_request>>
    BY <1>5, <2>1 DEF VerifyChunk
  <2> QED
    BY <1>0, <1>1, <2>1, <2>2, <2>3
       DEF OneRequest, OneTask, MeantHere, LastWritten, OnlyMeant
<1>6. CASE HandleStart \/ HandleStop \/ HandleReset \/ HandleCalibration \/ HandleUnknown
  <2>1. /\ ~req_received' /\ netPc' \in {"loop", "halted"}
        /\ UNCHANGED <<chunk_count, chunk_index, chunk, last_chunk_acked, ota_start_request,
                       ota_chunk_request>>
    BY <1>6 DEF HandleStart, HandleStop, HandleReset, HandleCalibration, HandleUnknown,
       Dequeue
  <2> QED
    BY <1>0, <1>1, <2>1 DEF OneRequest, OneTask, LastWritten, OnlyMeant
<1> QED
  BY <1>2, <1>3, <1>4, <1>5, <1>6 DEF HandleRequest

\* The bootloader's loop: each task is prepared by the one before it.
LEMMA PacedApp ==
  ASSUME NEW n \in Nat, OneContent, TypeInv, EraseInv(n), PacedInv(n), AppStep
  PROVE  PacedInv(n)'
<1> USE DEF PacedInv, Goto, otaVars, ipcVars, netVars, bootVars, flagVars
<1>1. CASE OtaStartRequest
  <2>1. OneRequest' /\ OneTask'
    BY <1>1 DEF OtaStartRequest, OneRequest, OneTask, Free, Idle, InImage, MeantHere
  <2>2. Working'
    BY <1>1 DEF OtaStartRequest, OneTask, Unasked, Working, Idle
  <2>3. LastWritten' /\ OnlyMeant(n)' /\ NeverCorrupt'
    BY <1>1 DEF OtaStartRequest, LastWritten, OnlyMeant, NeverCorrupt
  <2> QED
    BY <2>1, <2>2, <2>3
<1>2. ASSUME NEW p \in pages, ErasePage(p) PROVE PacedInv(n)'
  <2>1. /\ appPc = "erase" /\ appPc' = "erase" /\ last_chunk_acked' = -1
        /\ ~Free /\ ~ota_start_request' /\ ~ota_chunk_request' /\ ~txPending'
    BY <1>2 DEF ErasePage, Working, Unasked, OneTask, Free, Idle
  <2>2. ~req_received' /\ netPc' \notin {"copy", "verify"}
    BY <1>2, <2>1 DEF ErasePage, OneRequest
  <2>3. NeverCorrupt'
    BY <1>2 DEF ErasePage, NeverCorrupt
  <2> QED
    BY <2>1, <2>2, <2>3 DEF OneRequest, OneTask, Working, Unasked, LastWritten, OnlyMeant
<1>3. CASE SendStartAck
  <2>1. /\ appPc = "erase" /\ appPc' = "startWait" /\ last_chunk_acked' = -1
        /\ ~Free /\ ~ota_start_request' /\ ~ota_chunk_request'
        /\ tx_pdu'.type = "START_ACK" /\ flash' = flash
    BY <1>3 DEF SendStartAck, Working, Unasked, OneTask, Free, Idle
  <2>2. ~req_received' /\ netPc' \notin {"copy", "verify"}
    BY <1>3, <2>1 DEF SendStartAck, OneRequest
  <2>3. \A s \in Slots : PageOf(s) < n => flash'[s] = Erased
    BY <1>3, <2>1 DEF SendStartAck, EraseInv
  <2>4. NeverCorrupt'
    BY <2>1 DEF NeverCorrupt
  <2> QED
    BY <2>1, <2>2, <2>3, <2>4
       DEF OneRequest, OneTask, Working, Unasked, LastWritten, OnlyMeant
<1>4. CASE StartAckSent
  <2>1. OneRequest' /\ OneTask' /\ Working'
    BY <1>4 DEF StartAckSent, OneRequest, OneTask, Working, Unasked, Free, Idle
  <2>2. LastWritten' /\ OnlyMeant(n)' /\ NeverCorrupt'
    BY <1>4 DEF StartAckSent, LastWritten, OnlyMeant, NeverCorrupt
  <2> QED
    BY <2>1, <2>2
<1>5. CASE OtaChunkRequest
  <2>1. /\ ~Free /\ InImage /\ ~ota_start_request /\ ~txPending
        /\ last_chunk_acked # chunk_index => MeantHere
    BY <1>5 DEF OtaChunkRequest, OneTask, Free, Idle
  <2>2. last_chunk_acked = chunk_index => WrittenHere
    <3>1. chunk_index \in Slots /\ chunk_count # 0
      BY <2>1, SlotInImage
    <3>2. chunk_index # -1
      BY <3>1, SizeAssumption DEF Slots
    <3> QED
      BY <2>1, <3>1, <3>2 DEF LastWritten, WrittenHere
  <2>3. OneRequest' /\ OneTask'
    BY <1>5, <2>1 DEF OtaChunkRequest, OneRequest, OneTask
  <2>4. Working'
    BY <1>5, <2>1, <2>2
       DEF OtaChunkRequest, Working, Unasked, InImage, MeantHere, WrittenHere
  <2>5. LastWritten' /\ OnlyMeant(n)' /\ NeverCorrupt'
    BY <1>5 DEF OtaChunkRequest, LastWritten, OnlyMeant, NeverCorrupt
  <2> QED
    BY <2>3, <2>4, <2>5
<1>6. CASE ChunkAddress
  <2>1. OneRequest' /\ OneTask' /\ Working'
    BY <1>6 DEF ChunkAddress, OneRequest, OneTask, Working, Unasked, InImage, MeantHere,
       Free, Idle
  <2>2. LastWritten' /\ OnlyMeant(n)' /\ NeverCorrupt'
    BY <1>6 DEF ChunkAddress, LastWritten, OnlyMeant, NeverCorrupt
  <2> QED
    BY <2>1, <2>2
<1>7. CASE WriteChunk
  <2>1. /\ chunk_index \in Slots /\ chunk \in Meant[chunk_index]
        /\ flash' = [flash EXCEPT ![chunk_index] = chunk]
    BY <1>7, WriteIsWritten
  <2>2. flash \in [Slots -> Payload \cup {Erased, Garbage}]
    BY DEF TypeInv, TypeOK
  <2>3. /\ appPc = "program" /\ appPc' = "ack" /\ Unasked /\ InImage /\ ~txPending
        /\ last_chunk_acked # chunk_index
        /\ UNCHANGED <<chunk_count, chunk_index, chunk, last_chunk_acked, ota_start_request,
                       ota_chunk_request, txPending, tx_pdu, req_received, netPc, req_buffer>>
    BY <1>7 DEF WriteChunk, Working, OneTask, MeantHere
  <2>4. OneRequest' /\ OneTask'
    BY <2>3 DEF OneRequest, OneTask, Free, Idle, Unasked
  <2>5. Working'
    BY <2>1, <2>2, <2>3 DEF Working, Unasked, InImage, WrittenHere
  <2>6. LastWritten'
    BY <2>1, <2>2, <2>3 DEF LastWritten
  <2>7. OnlyMeant(n)'
    BY <2>1, <2>2, <2>3 DEF OnlyMeant
  <2>8. NeverCorrupt'
    BY <2>1, <2>2, MeantFacts DEF NeverCorrupt
  <2> QED
    BY <2>4, <2>5, <2>6, <2>7, <2>8
<1>8. CASE FillChunkAck
  <2>1. OneRequest' /\ OneTask' /\ Working'
    BY <1>8 DEF FillChunkAck, OneRequest, OneTask, Working, Unasked, InImage, WrittenHere,
       ChunkAckHere, Free, Idle
  <2>2. LastWritten' /\ OnlyMeant(n)' /\ NeverCorrupt'
    BY <1>8 DEF FillChunkAck, LastWritten, OnlyMeant, NeverCorrupt
  <2> QED
    BY <2>1, <2>2
<1>9. CASE SendChunkAck
  <2>1. chunk_index \in Slots /\ flash[chunk_index] \in Meant[chunk_index]
    BY <1>9, SlotInImage DEF SendChunkAck, Working, WrittenHere
  <2>2. OneRequest' /\ OneTask' /\ Working'
    BY <1>9 DEF SendChunkAck, OneRequest, OneTask, Working, Unasked, InImage, WrittenHere,
       ChunkAckHere, Free, Idle
  <2>3. LastWritten' /\ OnlyMeant(n)' /\ NeverCorrupt'
    BY <1>9, <2>1 DEF SendChunkAck, LastWritten, OnlyMeant, NeverCorrupt
  <2> QED
    BY <2>2, <2>3
<1>10. CASE LastChunk
  <2>1. OneRequest' /\ OneTask' /\ Working'
    BY <1>10 DEF LastChunk, OneRequest, OneTask, Working, Unasked, Free, Idle
  <2>2. LastWritten' /\ OnlyMeant(n)' /\ NeverCorrupt'
    BY <1>10 DEF LastChunk, LastWritten, OnlyMeant, NeverCorrupt
  <2> QED
    BY <2>1, <2>2
<1>11. CASE LoopEnd
  <2>1. OneRequest' /\ OneTask' /\ Working'
    BY <1>11 DEF LoopEnd, OneRequest, OneTask, Working, InImage, MeantHere, Free, Idle
  <2>2. LastWritten' /\ OnlyMeant(n)' /\ NeverCorrupt'
    BY <1>11 DEF LoopEnd, LastWritten, OnlyMeant, NeverCorrupt
  <2> QED
    BY <2>1, <2>2
<1>12. CASE SoftReset
  BY <1>12, PacedBoot DEF SoftReset
<1> QED
  BY <1>1, <1>2, <1>3, <1>4, <1>5, <1>6, <1>7, <1>8, <1>9, <1>10, <1>11, <1>12
     DEF AppStep

LEMMA PacedStep ==
  ASSUME NEW n \in Nat, StopAndWait, OneContent, TypeInv, EraseInv(n), PacedInv(n),
         [Next]_vars
  PROVE  PacedInv(n)'
<1> USE DEF PacedInv, otaVars, ipcVars, netVars, bootVars, flagVars
<1>1. CASE UNCHANGED vars
  BY <1>1 DEF vars, OneRequest, OneTask, Working, Unasked, InImage, MeantHere, WrittenHere,
     ChunkAckHere, Free, Idle, LastWritten, OnlyMeant, NeverCorrupt
<1>2. ASSUME NEW m \in Requests, Receive(m) PROVE PacedInv(n)'
  <2>1. Free /\ netPc = "loop" /\ req_buffer' = m
    BY <1>2 DEF Receive, Quiescent, Free, Idle
  <2>2. OneRequest'
    BY <1>2, <2>1 DEF Receive, OneRequest, Free, Idle
  <2>3. OneTask' /\ Working'
    BY <1>2 DEF Receive, OneTask, Working, Unasked, InImage, MeantHere, WrittenHere,
       ChunkAckHere, Idle
  <2>4. LastWritten' /\ OnlyMeant(n)' /\ NeverCorrupt'
    BY <1>2 DEF Receive, LastWritten, OnlyMeant, NeverCorrupt
  <2> QED
    BY <2>2, <2>3, <2>4
<1>3. CASE ServeIpc
  <2>1. OneRequest' /\ OneTask'
    BY <1>3 DEF ServeIpc, OneRequest, OneTask, Free, Idle, InImage, MeantHere
  <2>2. Working'
    BY <1>3 DEF ServeIpc, OneTask, Working, Unasked, InImage, MeantHere, WrittenHere
  <2>3. LastWritten' /\ OnlyMeant(n)' /\ NeverCorrupt'
    BY <1>3 DEF ServeIpc, LastWritten, OnlyMeant, NeverCorrupt
  <2> QED
    BY <2>1, <2>2, <2>3
<1>4. CASE HandleRequest
  BY <1>4, PacedRequest
<1>5. CASE AppStep
  BY <1>5, PacedApp
<1>6. CASE Watchdog1 \/ Watchdog0 \/ PowerCycle
  BY <1>6, PacedBoot DEF Watchdog1, Watchdog0, PowerCycle
<1> QED
  BY <1>1, <1>2, <1>3, <1>4, <1>5, <1>6 DEF Next, NetStep

LEMMA PacedInvariant ==
  ASSUME StopAndWait, NEW n \in Nat, OneImageSize(n), OneContent
  PROVE  Spec => []PacedInv(n)
<1>1. Init => PacedInv(n)
  BY DEF Init, PacedInv, OneRequest, OneTask, Working, LastWritten, OnlyMeant, NeverCorrupt
<1>2. TypeInv /\ EraseInv(n) /\ PacedInv(n) /\ [Next]_vars => PacedInv(n)'
  BY PacedStep
<1> QED
  BY <1>1, <1>2, TypeInvariant, EraseInvariant, PTL DEF Spec

\* Under a host that paces itself no slot is ever written twice with different contents,
\* nor with contents that failed verification: retries, aborted and repeated
\* transfers, resets and power cuts included (bootloader main.c:395 to 437).
THEOREM PacedNeverCorrupts ==
  ASSUME StopAndWait, NEW n \in Nat, OneImageSize(n), OneContent
  PROVE  Spec => []NeverCorrupt
BY PacedInvariant, PTL DEF PacedInv

\* "Notify chunk has been written" (bootloader main.c:426) is then true of every ack, and
\* no write leaves the announced image.
THEOREM PacedAcksAreTruthful ==
  ASSUME StopAndWait, NEW n \in Nat, OneImageSize(n), OneContent
  PROVE  Spec => [](AckedIsWritten /\ WriteInRange)
<1>1. TypeInv /\ EraseInv(n) /\ PacedInv(n) => AckedIsWritten
  <2> SUFFICES ASSUME TypeInv, EraseInv(n), PacedInv(n), txPending, tx_pdu.type = "CHUNK_ACK"
               PROVE  \E m \in Requests :
                        ValidChunk(m, tx_pdu.index) /\ flash[tx_pdu.index] = m.data
    BY DEF AckedIsWritten
  <2>1. WrittenHere /\ tx_pdu.index = chunk_index
    BY DEF PacedInv, OneTask, Working, ChunkAckHere
  <2>2. chunk_index \in Slots /\ flash[chunk_index] \in Meant[chunk_index]
    BY <2>1, SlotInImage DEF WrittenHere
  <2> QED
    BY <2>1, <2>2, MeantFacts
<1>2. PacedInv(n) => WriteInRange
  BY DEF PacedInv, Working, MeantHere, InImage, WriteInRange
<1> QED
  BY <1>1, <1>2, TypeInvariant, EraseInvariant, PacedInvariant, PTL

\* And the two cores together implement the abstract store: every step of theirs erases
\* a page, stores a verified chunk, confirms one that is stored, or changes nothing
\* the store knows of.
THEOREM PacedDeviceIsStore ==
  ASSUME StopAndWait, NEW n \in Nat, OneImageSize(n), OneContent
  PROVE  Spec => ImplementsStore
<1> USE DEF Store!Slots, Slots, Store!PageOf, PageOf, Store!Programmed, Programmed
<1>1. Init => Store!StoreInit
  <2>1. Meant \in [Slots -> SUBSET (Payload \cup {Erased, Garbage})]
    BY MeantFacts DEF Meant
  <2>2. Init => flash \in [Slots -> Payload \cup {Erased, Garbage}]
    BY ImageAssumption DEF Init
  <2> QED
    BY <2>1, <2>2 DEF Init, Store!StoreInit
<1>2. ASSUME TypeInv, EraseInv(n), PacedInv(n), [Next]_vars
      PROVE  [Store!StoreNext]_(Store!storeVars)
  <2> DEFINE confirmed == IF txPending /\ tx_pdu.type = "CHUNK_ACK" THEN tx_pdu.index ELSE -1
  <2> USE <1>2 DEF PacedInv, Goto, otaVars, ipcVars, netVars, bootVars, flagVars
  <2>1. CASE UNCHANGED <<flash, txPending, tx_pdu>>
    BY <2>1 DEF Store!storeVars
  <2>2. CASE flash' = flash /\ ~txPending'
    BY <2>2 DEF Store!StoreNext, Store!Forget
  <2>3. ASSUME NEW soft, Boot(soft) PROVE Store!StoreNext
    BY <2>2, <2>3 DEF Boot, ClearRam, Store!StoreNext, Store!Forget
  <2>4. CASE HandleRequest
    BY <2>1, <2>4 DEF HandleRequest, HandleStart, HandleStop, HandleReset, HandleOtaStart,
       HandleOtaChunk, CopyChunk, VerifyChunk, HandleCalibration, HandleUnknown, Dequeue
  <2>5. CASE ServeIpc
    BY <2>2, <2>5 DEF ServeIpc
  <2>6. ASSUME NEW p \in pages, ErasePage(p) PROVE [Store!StoreNext]_(Store!storeVars)
    <3>1. ~txPending /\ UNCHANGED <<txPending, tx_pdu>>
      BY <2>6 DEF ErasePage, OneTask
    <3>2. CASE p \in {PageOf(s) : s \in Slots}
      <4>1. Store!ErasePageOf(p)
        BY <2>6, <3>1 DEF ErasePage, Store!ErasePageOf
      <4> QED
        BY <3>1, <3>2, <4>1 DEF Store!StoreNext, Store!Change
    <3>3. CASE p \notin {PageOf(s) : s \in Slots}
      <4>1. flash' = flash
        BY <2>6, <3>3 DEF ErasePage, TypeInv, TypeOK
      <4> QED
        BY <2>1, <3>1, <4>1
    <3> QED
      BY <3>2, <3>3
  <2>7. CASE SendStartAck
    <3>1. flash' = flash /\ tx_pdu'.type = "START_ACK"
      BY <2>7 DEF SendStartAck
    <3> QED
      BY <3>1 DEF Store!StoreNext, Store!Forget
  <2>8. CASE WriteChunk
    <3>1. /\ chunk_index \in Slots /\ chunk \in Meant[chunk_index]
          /\ flash' = [flash EXCEPT ![chunk_index] = Programmed(@, chunk)]
      BY <2>8, WriteIsWritten
    <3>2. ~txPending /\ UNCHANGED <<txPending, tx_pdu>>
      BY <2>8 DEF WriteChunk, OneTask
    <3>3. chunk \in Payload \cup {Erased, Garbage}
      BY <3>1, MeantFacts
    <3> QED
      BY <3>1, <3>2, <3>3 DEF Store!StoreNext, Store!Change, Store!Store
  <2>9. CASE FillChunkAck
    BY <2>2, <2>9 DEF FillChunkAck, OneTask
  <2>10. CASE SendChunkAck
    <3>1. chunk_index \in Slots /\ flash[chunk_index] \in Meant[chunk_index]
      BY <2>10, SlotInImage DEF SendChunkAck, Working, WrittenHere
    <3>2. confirmed' = chunk_index /\ flash' = flash
      BY <2>10 DEF SendChunkAck, Working, ChunkAckHere
    <3> QED
      BY <3>1, <3>2 DEF Store!StoreNext, Store!Confirm
  <2>11. CASE OtaStartRequest \/ StartAckSent \/ OtaChunkRequest \/ ChunkAddress
              \/ LastChunk \/ LoopEnd
    BY <2>1, <2>11 DEF OtaStartRequest, StartAckSent, OtaChunkRequest, ChunkAddress,
       LastChunk, LoopEnd
  <2>12. ASSUME NEW m \in Requests, Receive(m) PROVE [Store!StoreNext]_(Store!storeVars)
    BY <2>1, <2>12 DEF Receive
  <2> QED
    BY <2>1, <2>3, <2>4, <2>5, <2>6, <2>7, <2>8, <2>9, <2>10, <2>11, <2>12
       DEF Next, NetStep, AppStep, SoftReset, Watchdog1, Watchdog0, PowerCycle, vars
<1> QED
  BY <1>1, <1>2, TypeInvariant, EraseInvariant, PacedInvariant, PTL
     DEF Spec, ImplementsStore, Store!StoreSpec

=============================================================================
