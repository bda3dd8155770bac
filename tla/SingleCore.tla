------------------------------- MODULE SingleCore -------------------------------
(***************************************************************************)
(* The bootloader of the single-core boards                                *)
(* (bootloader-single-core/Source/main.c): one main loop that handles a      *)
(* request and the flash work it asks for in the same iteration, and the    *)
(* radio interrupt that may overwrite the one request buffer between any two *)
(* reads of it.  pc names the part of the loop that comes next.              *)
(*                                                                         *)
(* paced is TRUE in a behaviour whose host waits until the robot has        *)
(* handled a packet before it sends the next one.                          *)
(***************************************************************************)
EXTENDS Flash

CONSTANTS
  Payload,    \* contents of a chunk
  OldImage,   \* contents of the flash before the first step
  Requests,   \* the packets that may reach the radio
  Counters,   \* what the reply to a metrics probe may leave in a count or an index
  Pacing      \* the hosts to look at: a subset of BOOLEAN

Kinds == {"START", "STOP", "OTA_START", "OTA_CHUNK", "PROBE", "OTHER"}

\* As in Device; "OTHER" stands for the types the loop does not know.
Packet == [type : Kinds, count : Nat, index : Nat,
           data : Payload \cup {Garbage}, sha : Payload \cup {Garbage}]

NoPacket == [type |-> "OTHER", count |-> 0, index |-> 0,
             data |-> Garbage, sha |-> Garbage]

NoSlot == -1

ASSUME PayloadAssumption == Erased \notin Payload /\ Garbage \notin Payload
ASSUME OldAssumption == OldImage \in [Slots -> Payload \cup {Erased}]
ASSUME PacketAssumption ==
  /\ Requests \subseteq Packet
  /\ \A m \in Requests : m.type = "OTA_START" => m.count <= NSlots
ASSUME CounterAssumption == Counters \subseteq 0 .. NSlots
ASSUME PacingAssumption == Pacing \subseteq BOOLEAN

VARIABLES
  paced,              \* the host waits for each packet to be handled
  pc,                 \* the next part of main()
  status,             \* _swarmit_vars.status
  chunk_count,        \* _swarmit_vars.ota.*
  chunk_index,
  chunk,
  last_chunk_acked,
  req_buffer,         \* _bootloader_vars.*
  req_received,
  metrics_received,
  ota_start_request,
  ota_chunk_request,
  ota_require_erase,
  pages,              \* pages the running erase still has to do
  connected,          \* the node has joined a gateway
  wdt,                \* the watchdog is running
  resetreas,          \* NRF_POWER->RESETREAS
  flash

otaVars  == <<chunk_count, chunk_index, chunk, last_chunk_acked>>
rxVars   == <<req_buffer, req_received, metrics_received>>
workVars == <<ota_start_request, ota_chunk_request, ota_require_erase, pages>>
envVars  == <<paced, connected, wdt, resetreas>>
vars     == <<pc, status, otaVars, rxVars, workVars, envVars, flash>>

Pcs == {"boot", "user", "top", "take", "copy", "verify", "metrics", "start",
        "erase", "startAck", "chunk", "write", "mark", "chunkAck"}

-------------------------------------------------------------------------------
(* Resets *)

\* RAM is zeroed and the boot code runs again.  The reasons accumulate in
\* RESETREAS until main() clears them; a soft reset leaves the watchdog running.
Restart(reasons) ==
  /\ pc' = "boot"
  /\ status' = "Ready"
  /\ chunk_count' = 0 /\ chunk_index' = 0 /\ chunk' = Garbage /\ last_chunk_acked' = 0
  /\ req_buffer' = NoPacket /\ req_received' = FALSE /\ metrics_received' = FALSE
  /\ ota_start_request' = FALSE /\ ota_chunk_request' = FALSE
  /\ ota_require_erase' = FALSE /\ pages' = {}
  /\ connected' = FALSE
  /\ resetreas' = reasons
  /\ UNCHANGED <<paced, flash>>

\* Lines 213 to 253: launch the user image, or get the bootloader ready.
Boot ==
  /\ pc = "boot"
  /\ resetreas' = {}
  /\ IF "SREQ" \in resetreas
       THEN /\ pc' = "user" /\ status' = "Running" /\ wdt' = TRUE
            /\ UNCHANGED ota_require_erase
       ELSE /\ pc' = "top" /\ status' = "Ready" /\ ota_require_erase' = TRUE
            /\ UNCHANGED wdt
  /\ UNCHANGED <<paced, connected, otaVars, rxVars, ota_start_request,
                 ota_chunk_request, pages, flash>>

Watchdog == wdt /\ wdt' = FALSE /\ Restart(resetreas \cup {"DOG"})

\* A fault of the user image ends in NVIC_SystemReset().
UserReset == pc = "user" /\ UNCHANGED wdt /\ Restart(resetreas \cup {"SREQ"})

PowerCycle == wdt' = FALSE /\ Restart({})

-------------------------------------------------------------------------------
(* The radio interrupt *)

Idle == pc = "top" /\ ~req_received /\ ~metrics_received

Reading == pc \in {"take", "copy", "verify"}

\* _handle_packet(): START and STOP are one byte long and leave the rest of the
\* buffer as it was.  The user image has its own vector table.
Receive(m) ==
  /\ pc \notin {"boot", "user"}
  /\ paced => Idle
  /\ req_buffer' = IF m.type \in {"START", "STOP"} /\ Reading
                     THEN [req_buffer EXCEPT !.type = m.type] ELSE m
  /\ req_received' = (req_received \/ m.type # "PROBE")
  /\ metrics_received' = (metrics_received \/ m.type = "PROBE")
  /\ UNCHANGED <<pc, status, otaVars, workVars, envVars, flash>>

\* MARI_CONNECTED and MARI_DISCONNECTED.
Link == /\ pc \notin {"boot", "user"}
        /\ connected' = ~connected
        /\ UNCHANGED <<pc, status, otaVars, rxVars, workVars, paced, wdt, resetreas, flash>>

-------------------------------------------------------------------------------
(* The main loop *)

\* Lines 272 and 273.
Top ==
  /\ pc = "top"
  /\ pc' = IF req_received THEN "take" ELSE "metrics"
  /\ req_received' = FALSE
  /\ UNCHANGED <<status, otaVars, req_buffer, metrics_received, workVars, envVars, flash>>

\* A request of type kind is in the buffer by the time it is looked at.  Contents
\* no line reads any more are forgotten.
Take(kind) ==
  /\ pc = "take" /\ req_buffer.type = kind
  /\ req_buffer' = IF pc' \in {"copy", "verify"} \/ req_received THEN req_buffer
                                                                  ELSE NoPacket
  /\ UNCHANGED <<req_received, metrics_received, paced, flash>>

HandleStart ==
  \/ /\ pc = "take" /\ req_buffer.type = "START" /\ status = "Ready"
     /\ UNCHANGED wdt /\ Restart(resetreas \cup {"SREQ"})
  \/ /\ status # "Ready"
     /\ pc' = "metrics" /\ Take("START")
     /\ UNCHANGED <<status, otaVars, workVars, connected, wdt, resetreas>>

\* STOP only arms the watchdog: nothing feeds it in the bootloader.
HandleStop ==
  /\ pc' = "metrics" /\ Take("STOP")
  /\ wdt' = (wdt \/ status \in {"Running", "Programming"})
  /\ UNCHANGED <<status, otaVars, workVars, connected, resetreas>>

OtaAccepted == status \in {"Ready", "Programming"}

\* Mutant: line 295 is missing.
Bug_ForgetAcked == UNCHANGED last_chunk_acked

ForgetAcked == last_chunk_acked' = -1

HandleOtaStart ==
  /\ pc' = "metrics" /\ Take("OTA_START")
  /\ IF OtaAccepted
       THEN /\ ForgetAcked
            /\ status' = "Programming"
            /\ chunk_count' = req_buffer.count
            /\ ota_start_request' = TRUE
       ELSE UNCHANGED <<last_chunk_acked, status, chunk_count, ota_start_request>>
  /\ UNCHANGED <<chunk_index, chunk, ota_chunk_request, ota_require_erase, pages,
                 connected, wdt, resetreas>>

\* Line 314.
IndexValid == req_buffer.index < chunk_count

\* Lines 306 to 320; a chunk that is already acked is not looked at again.
HandleOtaChunk ==
  /\ LET acked == last_chunk_acked = req_buffer.index IN
     IF OtaAccepted
       THEN /\ chunk_index' = req_buffer.index
            /\ pc' = IF IndexValid /\ ~acked THEN "copy" ELSE "metrics"
            /\ ota_chunk_request' = (IndexValid /\ acked)
       ELSE pc' = "metrics" /\ UNCHANGED <<chunk_index, ota_chunk_request>>
  /\ Take("OTA_CHUNK")
  /\ UNCHANGED <<status, chunk_count, chunk, last_chunk_acked, ota_start_request,
                 ota_require_erase, pages, connected, wdt, resetreas>>

HandleOther ==
  /\ pc' = "metrics"
  /\ Take("OTHER") \/ Take("PROBE")
  /\ UNCHANGED <<status, otaVars, workVars, connected, wdt, resetreas>>

\* Lines 322 and 323: the bytes that are in the buffer by now ...
CopyChunk ==
  /\ pc = "copy" /\ pc' = "verify"
  /\ chunk' = req_buffer.data
  /\ UNCHANGED <<status, chunk_count, chunk_index, last_chunk_acked, rxVars, workVars,
                 envVars, flash>>

\* Line 333.
DigestMatches == chunk \in Payload /\ req_buffer.sha = chunk

\* ... and lines 326 to 340: so is the digest they are compared with.
VerifyChunk ==
  /\ pc = "verify" /\ pc' = "metrics"
  /\ ota_chunk_request' = DigestMatches
  /\ req_buffer' = IF req_received THEN req_buffer ELSE NoPacket
  /\ UNCHANGED <<status, otaVars, req_received, metrics_received, ota_start_request,
                 ota_require_erase, pages, envVars, flash>>

\* Lines 347 to 359: the reply to a probe is written into the receive buffer, over
\* the body of a request that arrived after the probe.
MetricsReply ==
  /\ pc = "metrics" /\ pc' = "start"
  /\ metrics_received' = FALSE
  /\ \E n \in Counters :
       req_buffer' = IF metrics_received /\ req_received
                       THEN [NoPacket EXCEPT !.type = req_buffer.type,
                                             !.count = n, !.index = n]
                       ELSE IF req_received THEN req_buffer ELSE NoPacket
  /\ UNCHANGED <<status, otaVars, req_received, workVars, envVars, flash>>

\* Mutant: the last page is left out.
Bug_PagesToErase == IF ota_require_erase THEN 0 .. PageCount(chunk_count) - 2 ELSE {}

PagesToErase == IF ota_require_erase THEN 0 .. PageCount(chunk_count) - 1 ELSE {}

\* Lines 374 to 381.
OtaStartRequest ==
  /\ pc = "start"
  /\ pc' = IF ota_start_request THEN "erase" ELSE "chunk"
  /\ ota_start_request' = FALSE
  /\ pages' = IF ota_start_request THEN PagesToErase ELSE {}
  /\ UNCHANGED <<status, otaVars, rxVars, ota_chunk_request, ota_require_erase,
                 envVars, flash>>

ErasePage(p) ==
  /\ pc = "erase" /\ p \in pages /\ \A q \in pages : p <= q
  /\ pages' = pages \ {p}
  /\ flash' = [s \in Slots |-> IF PageOf(s) = p THEN Erased ELSE flash[s]]
  /\ UNCHANGED <<pc, status, otaVars, rxVars, ota_start_request, ota_chunk_request,
                 ota_require_erase, envVars>>

EraseDone ==
  /\ pc = "erase" /\ pages = {} /\ pc' = "startAck"
  /\ ota_require_erase' = FALSE
  /\ UNCHANGED <<status, otaVars, rxVars, ota_start_request, ota_chunk_request, pages,
                 envVars, flash>>

\* "while (!mari_node_is_connected()) {}", then the START_ACK.
SendStartAck ==
  /\ pc = "startAck" /\ connected /\ pc' = "chunk"
  /\ UNCHANGED <<status, otaVars, rxVars, workVars, envVars, flash>>

OtaChunkRequest ==
  /\ pc = "chunk"
  /\ pc' = IF ~ota_chunk_request THEN "top"
           ELSE IF last_chunk_acked # chunk_index THEN "write" ELSE "mark"
  /\ ota_chunk_request' = FALSE
  /\ UNCHANGED <<status, otaVars, rxVars, ota_start_request, ota_require_erase, pages,
                 envVars, flash>>

WriteChunk ==
  /\ pc = "write" /\ pc' = "mark"
  /\ flash' = [flash EXCEPT ![chunk_index] = Programmed(@, chunk)]
  /\ ota_require_erase' = TRUE
  /\ UNCHANGED <<status, otaVars, rxVars, ota_start_request, ota_chunk_request, pages,
                 envVars>>

\* Line 413, before the ack goes out.
MarkAcked ==
  /\ pc = "mark" /\ pc' = "chunkAck"
  /\ last_chunk_acked' = chunk_index
  /\ UNCHANGED <<status, chunk_count, chunk_index, chunk, rxVars, workVars, envVars,
                 flash>>

\* Lines 414 to 420.
SendChunkAck ==
  /\ pc = "chunkAck" /\ connected /\ pc' = "top"
  /\ status' = IF chunk_index = chunk_count - 1 THEN "Ready" ELSE status
  /\ UNCHANGED <<otaVars, rxVars, workVars, envVars, flash>>

Main ==
  \/ Boot \/ Top
  \/ HandleStart \/ HandleStop \/ HandleOtaStart \/ HandleOtaChunk \/ HandleOther
  \/ CopyChunk \/ VerifyChunk \/ MetricsReply
  \/ OtaStartRequest \/ (\E p \in pages : ErasePage(p)) \/ EraseDone \/ SendStartAck
  \/ OtaChunkRequest \/ WriteChunk \/ MarkAcked \/ SendChunkAck

-------------------------------------------------------------------------------
Init ==
  /\ paced \in Pacing
  /\ pc = "boot" /\ status = "Ready"
  /\ chunk_count = 0 /\ chunk_index = 0 /\ chunk = Garbage /\ last_chunk_acked = 0
  /\ req_buffer = NoPacket /\ req_received = FALSE /\ metrics_received = FALSE
  /\ ota_start_request = FALSE /\ ota_chunk_request = FALSE
  /\ ota_require_erase = FALSE /\ pages = {}
  /\ connected = FALSE /\ wdt = FALSE /\ resetreas = {}
  /\ flash = OldImage

Next ==
  \/ Main
  \/ \E m \in Requests : Receive(m)
  \/ Link \/ Watchdog \/ UserReset \/ PowerCycle

Spec == Init /\ [][Next]_vars

-------------------------------------------------------------------------------
(* Properties *)

TypeOK ==
  /\ paced \in BOOLEAN /\ connected \in BOOLEAN /\ wdt \in BOOLEAN
  /\ resetreas \subseteq {"SREQ", "DOG"}
  /\ pc \in Pcs /\ status \in {"Ready", "Running", "Programming"}
  /\ chunk_count \in 0 .. NSlots /\ chunk_index \in Nat
  /\ chunk \in Payload \cup {Garbage}
  /\ last_chunk_acked \in Nat \cup {-1}
  /\ req_buffer \in Packet
  /\ req_buffer.type = "OTA_START" => req_buffer.count <= NSlots
  /\ req_received \in BOOLEAN /\ metrics_received \in BOOLEAN
  /\ ota_start_request \in BOOLEAN /\ ota_chunk_request \in BOOLEAN
  /\ ota_require_erase \in BOOLEAN /\ pages \subseteq Nat
  /\ flash \in [Slots -> Payload \cup {Erased, Garbage}]

\* What the sent chunks mean for slot s: to a host that paces itself, the chunks sent
\* for it; otherwise any bytes with a matching digest, written over whatever is there.
Meant == [s \in Slots |->
            IF paced THEN {m.data : m \in {r \in Requests :
                             r.type = "OTA_CHUNK" /\ r.index = s /\ r.sha = r.data}}
                     ELSE Payload \cup {Garbage}]

Store == INSTANCE ImageStore
           WITH Contents  <- Payload \cup {Erased, Garbage},
                contents  <- flash,
                confirmed <- IF pc = "chunkAck" THEN chunk_index ELSE NoSlot,
                meant     <- Meant

\* The bootloader implements ImageStore: whatever packets, resets and lost links
\* come, the flash only changes by the erase and the write of a verified chunk, and
\* "Notify chunk has been written" (main.c:408) is only sent of a slot that holds one.
ImplementsStore == Store!StoreSpec

\* To a host that paces itself and sends one image no slot is ever written twice with
\* different contents: ota_require_erase never skips an erase (main.c:377, 405).
PacedNeverCorrupt == paced => \A s \in Slots : flash[s] # Garbage

\* "switch to user image if reset was not triggered by any wdt timeout" (main.c:212).
LaunchNotAfterWatchdog == [][pc = "boot" /\ pc' = "user" => "DOG" \notin resetreas]_vars
=============================================================================
