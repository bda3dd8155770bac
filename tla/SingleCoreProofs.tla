---------------------------- MODULE SingleCoreProofs ----------------------------
(***************************************************************************)
(* The single-core bootloader implements ImageStore for every host: one      *)
(* that sends whatever it likes whenever it likes, and one that paces itself *)
(* and sends one image, whose chunks then are what the store holds.          *)
(***************************************************************************)
EXTENDS SingleCore, TLAPS

\* The control state of the loop ...
Control ==
  /\ paced \in BOOLEAN /\ connected \in BOOLEAN /\ wdt \in BOOLEAN
  /\ resetreas \subseteq {"SREQ", "DOG"}
  /\ pc \in Pcs /\ status \in {"Ready", "Running", "Programming"}
  /\ req_received \in BOOLEAN /\ metrics_received \in BOOLEAN
  /\ ota_start_request \in BOOLEAN /\ ota_chunk_request \in BOOLEAN
  /\ ota_require_erase \in BOOLEAN

\* ... a packet that may be in the buffer ...
Receivable(m) == m \in Packet /\ (m.type = "OTA_START" => m.count <= NSlots)

\* ... and the transfer.
Transfer ==
  /\ chunk_count \in 0 .. NSlots /\ chunk_index \in Nat
  /\ chunk \in Payload \cup {Garbage}
  /\ last_chunk_acked \in Nat \cup {-1}
  /\ pages \subseteq Nat
  /\ flash \in [Slots -> Payload \cup {Erased, Garbage}]

LEMMA TypeParts == TypeOK <=> Control /\ Transfer /\ Receivable(req_buffer)
BY DEF TypeOK, Control, Transfer, Receivable

LEMMA ControlStep == Control /\ [Next]_vars => Control'
<1> SUFFICES ASSUME Control, [Next]_vars PROVE Control'
  OBVIOUS
<1> USE DEF Control, Pcs, otaVars, rxVars, workVars, envVars
<1>1. ASSUME NEW R, R \subseteq {"SREQ", "DOG"}, Restart(R), wdt' \in BOOLEAN PROVE Control'
  BY <1>1 DEF Restart
<1>2. CASE Watchdog
  BY <1>1, <1>2 DEF Watchdog
<1>3. CASE UserReset
  BY <1>1, <1>3 DEF UserReset
<1>4. CASE PowerCycle
  BY <1>1, <1>4 DEF PowerCycle
<1>5. CASE Boot
  BY <1>5 DEF Boot
<1>6. ASSUME NEW m \in Requests, Receive(m) PROVE Control'
  BY <1>6 DEF Receive
<1>7. CASE Link
  BY <1>7 DEF Link
<1>8. CASE Top
  BY <1>8 DEF Top
<1>9. CASE HandleStart
  BY <1>1, <1>9 DEF HandleStart, Take
<1>10. CASE HandleStop
  BY <1>10 DEF HandleStop, Take
<1>11. CASE HandleOther
  BY <1>11 DEF HandleOther, Take
<1>12. CASE HandleOtaStart
  BY <1>12 DEF HandleOtaStart, Take
<1>13. CASE HandleOtaChunk
  BY <1>13 DEF HandleOtaChunk, Take, IndexValid
<1>14. CASE CopyChunk
  BY <1>14 DEF CopyChunk
<1>15. CASE VerifyChunk
  BY <1>15 DEF VerifyChunk, DigestMatches
<1>16. CASE MetricsReply
  BY <1>16 DEF MetricsReply
<1>17. CASE OtaStartRequest
  BY <1>17 DEF OtaStartRequest
<1>18. ASSUME NEW p \in pages, ErasePage(p) PROVE Control'
  BY <1>18 DEF ErasePage
<1>19. CASE EraseDone
  BY <1>19 DEF EraseDone
<1>20. CASE SendStartAck
  BY <1>20 DEF SendStartAck
<1>21. CASE OtaChunkRequest
  BY <1>21 DEF OtaChunkRequest
<1>22. CASE WriteChunk
  BY <1>22 DEF WriteChunk
<1>23. CASE MarkAcked
  BY <1>23 DEF MarkAcked
<1>24. CASE SendChunkAck
  BY <1>24 DEF SendChunkAck
<1>25. CASE UNCHANGED vars
  BY <1>25 DEF vars
<1> QED
  BY <1>2, <1>3, <1>4, <1>5, <1>6, <1>7, <1>8, <1>9, <1>10, <1>11, <1>12, <1>13, <1>14, <1>15,
     <1>16, <1>17, <1>18, <1>19, <1>20, <1>21, <1>22, <1>23, <1>24, <1>25 DEF Next, Main

\* Whatever overwrites the buffer is receivable again: a packet of the host, the type of
\* one, the reply to a probe.
LEMMA BufferStep == Receivable(req_buffer) /\ [Next]_vars => Receivable(req_buffer')
<1> SUFFICES ASSUME Receivable(req_buffer), [Next]_vars PROVE Receivable(req_buffer')
  OBVIOUS
<1>1. Receivable(NoPacket)
  BY DEF Receivable, NoPacket, Packet, Kinds
<1>2. ASSUME NEW m \in Requests, Receive(m) PROVE Receivable(req_buffer')
  <2>1. Receivable(m)
    BY PacketAssumption DEF Receivable
  <2>2. m.type \in {"START", "STOP"} =>
          Receivable([req_buffer EXCEPT !.type = m.type])
    BY DEF Receivable, Packet, Kinds
  <2> QED
    BY <1>2, <2>1, <2>2 DEF Receive
<1>3. CASE MetricsReply
  <2>1. PICK k \in Counters :
          req_buffer' = IF metrics_received /\ req_received
                          THEN [NoPacket EXCEPT !.type = req_buffer.type,
                                                !.count = k, !.index = k]
                          ELSE IF req_received THEN req_buffer ELSE NoPacket
    BY <1>3 DEF MetricsReply
  <2>2. k \in Nat /\ k <= NSlots /\ req_buffer.type \in Kinds
    BY CounterAssumption, SizeAssumption DEF Receivable, Packet
  <2>3. Receivable([NoPacket EXCEPT !.type = req_buffer.type, !.count = k, !.index = k])
    BY <2>2 DEF Receivable, Packet, NoPacket
  <2> QED
    BY <1>1, <2>1, <2>3
<1>4. CASE req_buffer' \in {req_buffer, NoPacket}
  BY <1>1, <1>4
<1> QED
  BY <1>2, <1>3, <1>4
     DEF Next, Main, vars, otaVars, rxVars, workVars, envVars, Boot, Watchdog, UserReset,
         PowerCycle, Restart, Link, Top, HandleStart, HandleStop, HandleOtaStart,
         HandleOtaChunk, HandleOther, Take, CopyChunk, VerifyChunk, OtaStartRequest,
         ErasePage, EraseDone, SendStartAck, OtaChunkRequest, WriteChunk, MarkAcked,
         SendChunkAck

LEMMA TransferStep ==
  Transfer /\ Receivable(req_buffer) /\ [Next]_vars => Transfer'
<1> SUFFICES ASSUME Transfer, Receivable(req_buffer), [Next]_vars PROVE Transfer'
  OBVIOUS
<1> USE DEF Transfer, otaVars, rxVars, workVars, envVars
<1>1. ASSUME NEW R, Restart(R) PROVE Transfer'
  BY <1>1, SizeAssumption DEF Restart
<1>2. CASE UNCHANGED <<otaVars, pages, flash>>
  BY <1>2
<1>3. /\ req_buffer.index \in Nat /\ req_buffer.data \in Payload \cup {Garbage}
      /\ req_buffer.type = "OTA_START" => req_buffer.count \in 0 .. NSlots
  BY SizeAssumption DEF Receivable, Packet
<1>4. CASE HandleOtaStart
  BY <1>3, <1>4 DEF HandleOtaStart, Take, ForgetAcked
<1>5. CASE HandleOtaChunk
  BY <1>3, <1>5 DEF HandleOtaChunk, Take
<1>6. CASE CopyChunk
  BY <1>3, <1>6 DEF CopyChunk
<1>7. CASE OtaStartRequest
  BY <1>7 DEF OtaStartRequest, PagesToErase
<1>8. ASSUME NEW p \in pages, ErasePage(p) PROVE Transfer'
  BY <1>8 DEF ErasePage
<1>9. CASE WriteChunk
  <2>1. Programmed(flash[chunk_index], chunk) \in Payload \cup {Erased, Garbage}
    BY DEF Programmed
  <2> QED
    BY <1>9, <2>1 DEF WriteChunk
<1>10. CASE MarkAcked
  BY <1>10 DEF MarkAcked
<1>11. CASE HandleStart
  BY <1>1, <1>2, <1>11 DEF HandleStart, Take
<1> QED
  BY <1>1, <1>2, <1>4, <1>5, <1>6, <1>7, <1>8, <1>9, <1>10, <1>11
     DEF Next, Main, vars, Boot, Watchdog, UserReset, PowerCycle, Link, Top, Receive,
         HandleStop, HandleOther, Take, VerifyChunk, MetricsReply, EraseDone, SendStartAck,
         OtaChunkRequest, SendChunkAck

\* Every variable keeps its type, whatever is received and whenever: the announced
\* count never exceeds the flash when no host announces more than that.
THEOREM TypeCorrect == Spec => []TypeOK
<1>1. Init => TypeOK
  <2>1. Init => Receivable(req_buffer)
    BY DEF Init, Receivable, NoPacket, Packet, Kinds
  <2>2. Init => Control
    BY PacingAssumption DEF Init, Control, Pcs
  <2>3. Init => Transfer
    BY SizeAssumption, OldAssumption DEF Init, Transfer
  <2> QED
    BY <2>1, <2>2, <2>3, TypeParts
<1>2. TypeOK /\ [Next]_vars => TypeOK'
  <2>1. TypeOK' <=> (Control' /\ (Receivable(req_buffer))' /\ Transfer')
    BY TypeParts, PTL
  <2> QED
    BY <2>1, TypeParts, ControlStep, BufferStep, TransferStep
<1> QED
  BY <1>1, <1>2, PTL DEF Spec

-------------------------------------------------------------------------------
(* The work of the main loop, whichever host sends.  chunk_count, chunk_index  *)
(* and the flags belong to the loop: between the look at a request and the end *)
(* of the work it asks for, no interrupt touches them.                        *)

InImage == chunk_index < chunk_count
MeantHere == InImage /\ chunk \in Payload /\ chunk \in Meant[chunk_index]
WrittenHere == InImage /\ flash[chunk_index] \in Meant[chunk_index]

\* A request asks for an erase or for a write, not both, and is served before the
\* next one is looked at.
OneTask ==
  /\ ota_start_request =>
       pc \in {"metrics", "start"} /\ ~ota_chunk_request /\ last_chunk_acked = -1
  /\ ota_chunk_request =>
       /\ pc \in {"metrics", "start", "chunk"}
       /\ InImage /\ (last_chunk_acked # chunk_index => MeantHere)
  /\ pc \in {"copy", "verify"} => InImage /\ last_chunk_acked # chunk_index

Working ==
  /\ pc \in {"erase", "startAck"} => last_chunk_acked = -1
  /\ pc = "write" => MeantHere /\ last_chunk_acked # chunk_index
  /\ pc \in {"mark", "chunkAck"} => WrittenHere

\* The chunk that is acked again without being written again is in the flash.
LastWritten ==
  last_chunk_acked # -1 /\ chunk_count # 0 =>
    last_chunk_acked \in Slots /\ flash[last_chunk_acked] \in Meant[last_chunk_acked]

-------------------------------------------------------------------------------
(* A host that paces itself, and whose images have one size and one content.   *)

ValidChunk(m, s) == m.type = "OTA_CHUNK" /\ m.index = s /\ m.sha = m.data

OneImage(n) ==
  /\ \A m \in Requests : m.type = "OTA_START" => PageCount(m.count) = n
  /\ \A s \in Slots, m1, m2 \in Requests :
       ValidChunk(m1, s) /\ ValidChunk(m2, s) => m1.data = m2.data

\* The request that is worked on is still the one in the buffer.
OneRequest ==
  /\ req_received => pc = "top"
  /\ req_received \/ pc \in {"take", "copy", "verify"} => req_buffer \in Requests
  /\ pc \in {"copy", "verify"} =>
       req_buffer.type = "OTA_CHUNK" /\ req_buffer.index = chunk_index
  /\ pc = "verify" => chunk = req_buffer.data

ErasedBelow(n) == \A s \in Slots : PageOf(s) < n => flash[s] = Erased

\* ota_require_erase remembers the erase across announcements; while pages are
\* being erased, those still to do account for every slot that is not erased.
EraseSound(n) ==
  /\ chunk_count # 0 \/ ota_start_request => PageCount(chunk_count) = n
  /\ ~ota_require_erase /\ pc \notin {"boot", "user"} => ErasedBelow(n)
  /\ pc = "erase" =>
       \A s \in Slots : PageOf(s) < n => flash[s] = Erased \/ PageOf(s) \in pages

\* Once a transfer has been prepared, its pages hold nothing else.
OnlyMeant(n) ==
  chunk_count # 0 /\ ~ota_start_request /\ pc # "erase" =>
    \A s \in Slots : PageOf(s) < n => flash[s] \in {Erased} \cup Meant[s]

PacedInv(n) == OneRequest /\ EraseSound(n) /\ OnlyMeant(n)

LoopInv(n) ==
  /\ paced \in Pacing
  /\ OneTask /\ Working /\ LastWritten
  /\ PacedNeverCorrupt
  /\ paced => PacedInv(n)

\* What the sent chunks mean does not change.
LEMMA MeantFacts ==
  /\ \A s \in Slots : paced => Meant[s] = {m.data : m \in {r \in Requests : ValidChunk(r, s)}}
  /\ \A s \in Slots : ~paced => Meant[s] = Payload \cup {Garbage}
  /\ \A s \in Slots : Meant[s] \subseteq Payload \cup {Garbage}
<1>1. \A s \in Slots : paced => Meant[s] = {m.data : m \in {r \in Requests : ValidChunk(r, s)}}
  BY DEF Meant, ValidChunk
<1>2. \A s \in Slots : ~paced => Meant[s] = Payload \cup {Garbage}
  BY DEF Meant
<1>3. \A m \in Requests : m.data \in Payload \cup {Garbage}
  BY PacketAssumption DEF Packet
<1> QED
  BY <1>1, <1>2, <1>3

LEMMA PacedStays == [Next]_vars => paced' = paced /\ Meant' = Meant
<1>1. [Next]_vars => paced' = paced
  BY DEF Next, Main, vars, envVars, Boot, Watchdog, UserReset, PowerCycle, Restart, Receive,
     Link, Top, HandleStart, HandleStop, HandleOtaStart, HandleOtaChunk, HandleOther, Take,
     CopyChunk, VerifyChunk, MetricsReply, OtaStartRequest, ErasePage, EraseDone,
     SendStartAck, OtaChunkRequest, WriteChunk, MarkAcked, SendChunkAck
<1> QED
  BY <1>1 DEF Meant

\* A slot below the count is on a page the round-up of main.c:377 counts.
LEMMA PageOfCount ==
  ASSUME NEW s \in Nat, NEW n \in Nat, s < n
  PROVE  PageOf(s) \in Nat /\ PageOf(s) < PageCount(n)
<1> DEFINE q == s \div PageSlots
           p == n \div PageSlots
<1>1. /\ q \in Nat /\ s % PageSlots \in 0 .. PageSlots - 1
      /\ s = PageSlots * q + (s % PageSlots)
  BY SizeAssumption
<1>2. /\ p \in Nat /\ n % PageSlots \in 0 .. PageSlots - 1
      /\ n = PageSlots * p + (n % PageSlots)
  BY SizeAssumption
<1>3. q <= p /\ (n % PageSlots = 0 => q # p)
  <2> HIDE DEF q, p
  <2>1. q >= p + 1 => PageSlots * q >= PageSlots * p + PageSlots
    BY <1>1, <1>2, SizeAssumption
  <2> QED
    BY <2>1, <1>1, <1>2, SizeAssumption
<1> QED
  BY <1>1, <1>2, <1>3 DEF PageOf, PageCount

LEMMA SlotInImage ==
  ASSUME TypeOK, InImage
  PROVE  /\ chunk_index \in Slots /\ chunk_count # 0
         /\ PageOf(chunk_index) < PageCount(chunk_count)
<1>1. chunk_index \in Nat /\ chunk_count \in 0 .. NSlots /\ NSlots \in Nat
  BY SizeAssumption DEF TypeOK
<1>2. chunk_count \in Nat /\ chunk_count # 0 /\ chunk_index < chunk_count
  BY <1>1 DEF InImage
<1> QED
  BY <1>1, <1>2, PageOfCount DEF Slots

\* Storing a verified chunk leaves contents that were meant, and to a host that paces
\* itself that chunk.
LEMMA WriteIsWritten ==
  ASSUME NEW n \in Nat, TRUE \in Pacing => OneImage(n), TypeOK, LoopInv(n), WriteChunk
  PROVE  /\ chunk_index \in Slots /\ chunk \in Payload /\ chunk \in Meant[chunk_index]
         /\ flash' = [flash EXCEPT ![chunk_index] = Programmed(@, chunk)]
         /\ Programmed(flash[chunk_index], chunk) \in Meant[chunk_index]
         /\ paced => flash' = [flash EXCEPT ![chunk_index] = chunk]
<1>1. /\ chunk_index \in Slots /\ chunk \in Payload /\ chunk \in Meant[chunk_index]
      /\ chunk_count # 0 /\ PageOf(chunk_index) < PageCount(chunk_count)
      /\ pc = "write" /\ ~ota_start_request
  BY SlotInImage DEF WriteChunk, LoopInv, OneTask, Working, MeantHere
<1>2. flash' = [flash EXCEPT ![chunk_index] = Programmed(@, chunk)]
  BY DEF WriteChunk
<1>3. ASSUME ~paced PROVE Programmed(flash[chunk_index], chunk) \in Meant[chunk_index]
  BY <1>1, <1>3, MeantFacts DEF Programmed
<1>4. ASSUME paced PROVE Programmed(flash[chunk_index], chunk) = chunk
  <2>1. OneImage(n) /\ PacedInv(n)
    BY <1>4 DEF LoopInv
  <2>2. flash[chunk_index] \in {Erased} \cup Meant[chunk_index]
    BY <1>1, <2>1 DEF PacedInv, EraseSound, OnlyMeant
  <2>3. \A d, e \in Meant[chunk_index] : d = e
    BY <1>1, <1>4, <2>1, MeantFacts DEF OneImage
  <2> QED
    BY <1>1, <2>2, <2>3 DEF Programmed
<1> QED
  BY <1>1, <1>2, <1>3, <1>4

\* After a reset nothing is under way and nothing has been announced.
LEMMA RestartKeeps ==
  ASSUME NEW n \in Nat, LoopInv(n), NEW R, Restart(R)
  PROVE  LoopInv(n)'
<1>1. /\ pc' = "boot" /\ chunk_count' = 0 /\ ~req_received'
      /\ ~ota_start_request' /\ ~ota_chunk_request'
      /\ paced' = paced /\ flash' = flash
  BY DEF Restart
<1>2. OneTask' /\ Working' /\ LastWritten'
  BY <1>1 DEF OneTask, Working, LastWritten
<1>3. PacedInv(n)'
  BY <1>1 DEF PacedInv, OneRequest, EraseSound, OnlyMeant
<1> QED
  BY <1>1, <1>2, <1>3 DEF LoopInv, PacedNeverCorrupt

\* Steps that leave the transfer alone: reception, the link and the launch.
LEMMA QuietKeeps ==
  ASSUME NEW n \in Nat, LoopInv(n), Boot \/ Link \/ Top \/ \E m \in Requests : Receive(m)
  PROVE  LoopInv(n)'
<1> USE DEF otaVars, rxVars, workVars, envVars
<1>0. paced' = paced /\ Meant' = Meant
  BY PacedStays DEF Next, Main
<1>1. UNCHANGED <<otaVars, flash, ota_start_request, ota_chunk_request>>
  BY DEF Boot, Link, Top, Receive
<1>2. \/ pc' = pc /\ UNCHANGED <<ota_require_erase, pages>>
      \/ pc = "boot" /\ pc' = "user"
      \/ pc = "boot" /\ pc' = "top" /\ ota_require_erase'
      \/ pc = "top" /\ pc' \in {"take", "metrics"} /\ UNCHANGED <<ota_require_erase, pages>>
  BY DEF Boot, Link, Top, Receive
<1>3. OneTask' /\ Working' /\ LastWritten'
  BY <1>0, <1>1, <1>2
     DEF LoopInv, OneTask, Working, LastWritten, InImage, MeantHere, WrittenHere
<1>4. ASSUME paced PROVE PacedInv(n)'
  <2>1. EraseSound(n)' /\ OnlyMeant(n)'
    BY <1>0, <1>1, <1>2, <1>4
       DEF LoopInv, PacedInv, EraseSound, ErasedBelow, OnlyMeant
  <2>2. OneRequest'
    <3>1. OneRequest
      BY <1>4 DEF LoopInv, PacedInv
    <3>2. CASE Boot
      BY <3>1, <3>2 DEF Boot, OneRequest
    <3>3. CASE Link
      BY <3>1, <3>3 DEF Link, OneRequest
    <3>4. CASE Top
      BY <3>1, <3>4 DEF Top, OneRequest
    <3>5. ASSUME NEW m \in Requests, Receive(m) PROVE OneRequest'
      BY <3>1, <3>5, <1>4 DEF Receive, Idle, Reading, OneRequest
    <3> QED
      BY <3>2, <3>3, <3>4, <3>5
  <2> QED
    BY <2>1, <2>2 DEF PacedInv
<1> QED
  BY <1>0, <1>1, <1>3, <1>4 DEF LoopInv, PacedNeverCorrupt

\* The look at a request.  Nothing is under way when it is taken.
LEMMA TakeKeeps ==
  ASSUME NEW n \in Nat, TRUE \in Pacing => OneImage(n), TypeOK, LoopInv(n),
         \/ HandleStop \/ HandleOtaStart \/ HandleOtaChunk \/ HandleOther
         \/ HandleStart /\ pc' = "metrics"
  PROVE  LoopInv(n)'
<1> USE DEF otaVars, rxVars, workVars, envVars
<1>0. paced' = paced /\ Meant' = Meant
  BY PacedStays DEF Next, Main
<1>1. /\ pc = "take" /\ flash' = flash /\ ~ota_start_request /\ ~ota_chunk_request
      /\ req_received' = req_received /\ pc' \in {"copy", "metrics"}
      /\ UNCHANGED <<ota_require_erase, pages, chunk>>
      /\ pc' = "copy" => req_buffer' = req_buffer
  BY DEF HandleStart, Restart, HandleStop, HandleOtaStart, HandleOtaChunk, HandleOther, Take,
     LoopInv, OneTask
<1>2. ASSUME paced
      PROVE  OneImage(n) /\ OneRequest /\ EraseSound(n) /\ OnlyMeant(n) /\ ~req_received
  BY <1>1, <1>2 DEF LoopInv, PacedInv, OneRequest
<1>3. CASE UNCHANGED otaVars /\ pc' = "metrics" /\ ~ota_start_request' /\ ~ota_chunk_request'
  <2>1. OneTask' /\ Working' /\ LastWritten'
    BY <1>0, <1>1, <1>3 DEF LoopInv, OneTask, Working, LastWritten
  <2>2. ASSUME paced PROVE PacedInv(n)'
    BY <1>0, <1>1, <1>2, <1>3, <2>2
       DEF PacedInv, OneRequest, EraseSound, ErasedBelow, OnlyMeant
  <2> QED
    BY <1>0, <1>1, <2>1, <2>2 DEF LoopInv, PacedNeverCorrupt
<1>4. CASE HandleOtaStart /\ OtaAccepted
  <2>1. /\ pc' = "metrics" /\ last_chunk_acked' = -1 /\ ota_start_request'
        /\ chunk_count' = req_buffer.count /\ req_buffer.type = "OTA_START"
        /\ UNCHANGED <<chunk_index, ota_chunk_request>>
    BY <1>4 DEF HandleOtaStart, Take, ForgetAcked
  <2>2. OneTask' /\ Working' /\ LastWritten'
    BY <1>1, <2>1 DEF OneTask, Working, LastWritten
  <2>3. ASSUME paced PROVE PacedInv(n)'
    <3>1. PageCount(chunk_count') = n
      BY <1>1, <1>2, <2>1, <2>3 DEF OneRequest, OneImage
    <3> QED
      BY <1>1, <1>2, <2>1, <2>3, <3>1
         DEF PacedInv, OneRequest, EraseSound, ErasedBelow, OnlyMeant
  <2> QED
    BY <1>0, <1>1, <2>2, <2>3 DEF LoopInv, PacedNeverCorrupt
<1>5. CASE HandleOtaChunk /\ OtaAccepted
  <2>1. /\ req_buffer.type = "OTA_CHUNK" /\ chunk_index' = req_buffer.index
        /\ UNCHANGED <<chunk_count, last_chunk_acked, ota_start_request>>
        /\ pc' = "copy" =>
             InImage' /\ last_chunk_acked' # chunk_index' /\ ~ota_chunk_request'
        /\ ota_chunk_request' => InImage' /\ last_chunk_acked' = chunk_index'
    BY <1>5 DEF HandleOtaChunk, Take, IndexValid, InImage
  <2>2. OneTask' /\ Working' /\ LastWritten'
    BY <1>0, <1>1, <2>1 DEF LoopInv, OneTask, Working, LastWritten
  <2>3. ASSUME paced PROVE PacedInv(n)'
    BY <1>0, <1>1, <1>2, <2>1, <2>3
       DEF PacedInv, OneRequest, EraseSound, ErasedBelow, OnlyMeant
  <2> QED
    BY <1>0, <1>1, <2>2, <2>3 DEF LoopInv, PacedNeverCorrupt
<1>6. CASE HandleStart \/ HandleStop \/ HandleOther
  BY <1>1, <1>3, <1>6 DEF HandleStart, Restart, HandleStop, HandleOther
<1>7. CASE (HandleOtaStart \/ HandleOtaChunk) /\ ~OtaAccepted
  BY <1>1, <1>3, <1>7 DEF HandleOtaStart, HandleOtaChunk
<1> QED
  BY <1>4, <1>5, <1>6, <1>7

\* The chunk that was copied is only asked to be written if it is what was meant.
LEMMA VerifyKeeps ==
  ASSUME NEW n \in Nat, TypeOK, LoopInv(n), CopyChunk \/ VerifyChunk
  PROVE  LoopInv(n)'
<1> USE DEF otaVars, rxVars, workVars, envVars
<1>0. paced' = paced /\ Meant' = Meant
  BY PacedStays DEF Next, Main
<1>1. /\ pc \in {"copy", "verify"} /\ InImage /\ last_chunk_acked # chunk_index
      /\ ~ota_start_request /\ ~ota_chunk_request
  BY DEF CopyChunk, VerifyChunk, LoopInv, OneTask
<1>2. /\ UNCHANGED <<chunk_count, chunk_index, last_chunk_acked, req_received, ota_start_request,
                     ota_require_erase, pages, flash>>
      /\ pc' \in {"verify", "metrics"}
  BY DEF CopyChunk, VerifyChunk
<1>3. VerifyChunk => (ota_chunk_request' => chunk \in Payload /\ chunk \in Meant[chunk_index])
  <2> SUFFICES ASSUME VerifyChunk, ota_chunk_request'
               PROVE  chunk \in Payload /\ chunk \in Meant[chunk_index]
    OBVIOUS
  <2>1. chunk \in Payload /\ req_buffer.sha = chunk /\ pc = "verify"
    BY DEF VerifyChunk, DigestMatches
  <2>2. chunk_index \in Slots
    BY <1>1, SlotInImage
  <2>3. CASE ~paced
    BY <2>1, <2>2, <2>3, MeantFacts
  <2>4. CASE paced
    <3>1. req_buffer \in Requests /\ ValidChunk(req_buffer, chunk_index) /\ chunk = req_buffer.data
      BY <2>1, <2>4 DEF LoopInv, PacedInv, OneRequest, ValidChunk
    <3> QED
      BY <2>1, <2>2, <2>4, <3>1, MeantFacts
  <2> QED
    BY <2>3, <2>4
<1>4. OneTask' /\ Working' /\ LastWritten'
  <2>1. CASE CopyChunk
    BY <1>0, <1>1, <1>2, <2>1 DEF CopyChunk, LoopInv, OneTask, Working, LastWritten, InImage
  <2>2. CASE VerifyChunk
    BY <1>0, <1>1, <1>2, <1>3, <2>2
       DEF VerifyChunk, LoopInv, OneTask, Working, LastWritten, InImage, MeantHere
  <2> QED
    BY <2>1, <2>2
<1>5. ASSUME paced PROVE PacedInv(n)'
  <2>1. EraseSound(n)' /\ OnlyMeant(n)'
    BY <1>0, <1>1, <1>2, <1>5
       DEF LoopInv, PacedInv, EraseSound, ErasedBelow, OnlyMeant
  <2>2. OneRequest'
    BY <1>2, <1>5 DEF CopyChunk, VerifyChunk, LoopInv, PacedInv, OneRequest
  <2> QED
    BY <2>1, <2>2 DEF PacedInv
<1> QED
  BY <1>0, <1>2, <1>4, <1>5 DEF LoopInv, PacedNeverCorrupt

\* The reply to a probe, and the steps between one task and the next.
LEMMA BetweenKeeps ==
  ASSUME NEW n \in Nat, TypeOK, LoopInv(n),
         \/ MetricsReply \/ OtaStartRequest \/ EraseDone \/ SendStartAck
         \/ OtaChunkRequest \/ SendChunkAck
  PROVE  LoopInv(n)'
<1> USE DEF otaVars, rxVars, workVars, envVars
<1>0. paced' = paced /\ Meant' = Meant
  BY PacedStays DEF Next, Main
<1>1. /\ UNCHANGED <<otaVars, flash, req_received>>
      /\ pc \notin {"top", "take", "copy", "verify"} /\ pc' \notin {"take", "copy", "verify"}
  BY DEF MetricsReply, OtaStartRequest, EraseDone, SendStartAck, OtaChunkRequest, SendChunkAck
<1>2. LastWritten'
  BY <1>0, <1>1 DEF LoopInv, LastWritten
<1>3. OneTask' /\ Working'
  <2>1. CASE MetricsReply
    BY <1>0, <1>1, <2>1 DEF MetricsReply, LoopInv, OneTask, Working, InImage, MeantHere
  <2>2. CASE OtaStartRequest
    BY <1>0, <1>1, <2>2 DEF OtaStartRequest, LoopInv, OneTask, Working, InImage, MeantHere
  <2>3. CASE EraseDone
    BY <1>0, <1>1, <2>3 DEF EraseDone, LoopInv, OneTask, Working, InImage
  <2>4. CASE SendStartAck \/ SendChunkAck
    BY <1>0, <1>1, <2>4 DEF SendStartAck, SendChunkAck, LoopInv, OneTask, Working, InImage
  <2>5. CASE OtaChunkRequest
    <3>1. ota_chunk_request /\ last_chunk_acked = chunk_index => WrittenHere
      <4> SUFFICES ASSUME ota_chunk_request, last_chunk_acked = chunk_index PROVE WrittenHere
        OBVIOUS
      <4>1. InImage
        BY DEF LoopInv, OneTask
      <4>2. chunk_index \in Nat /\ chunk_count # 0
        BY <4>1, SlotInImage DEF TypeOK
      <4> QED
        BY <4>1, <4>2 DEF LoopInv, LastWritten, WrittenHere
    <3> QED
      BY <1>0, <1>1, <2>5, <3>1
         DEF OtaChunkRequest, LoopInv, OneTask, Working, InImage, MeantHere, WrittenHere
  <2> QED
    BY <2>1, <2>2, <2>3, <2>4, <2>5
<1>4. ASSUME paced PROVE PacedInv(n)'
  <2>1. OneRequest /\ EraseSound(n) /\ OnlyMeant(n)
    BY <1>4 DEF LoopInv, PacedInv
  <2>2. OneRequest'
    BY <1>1, <2>1 DEF OneRequest
  <2>3. EraseSound(n)' /\ OnlyMeant(n)'
    <3>1. CASE OtaStartRequest
      <4>1. \A s \in Slots : PageOf(s) < n /\ PageOf(s) \in Nat => PageOf(s) \in 0 .. n - 1
        OBVIOUS
      <4>2. \A s \in Slots : PageOf(s) \in Nat
        BY SizeAssumption DEF Slots, PageOf
      <4>3. pc' = "erase" =>
              pages' = IF ota_require_erase THEN 0 .. n - 1 ELSE {}
        BY <2>1, <3>1 DEF OtaStartRequest, PagesToErase, EraseSound
      <4>4. pc' \in {"erase", "chunk"} /\ UNCHANGED ota_require_erase /\ ~ota_start_request'
            /\ (pc' = "chunk" => ~ota_start_request) /\ pc = "start"
        BY <3>1 DEF OtaStartRequest
      <4>5. EraseSound(n)'
        BY <1>1, <2>1, <4>1, <4>2, <4>3, <4>4, <3>1 DEF EraseSound, ErasedBelow, OtaStartRequest
      <4>6. OnlyMeant(n)'
        BY <1>0, <1>1, <2>1, <4>4 DEF OnlyMeant
      <4> QED
        BY <4>5, <4>6
    <3>2. CASE EraseDone
      <4>1. pc = "erase" /\ pages = {} /\ pc' = "startAck" /\ UNCHANGED ota_start_request
        BY <3>2 DEF EraseDone
      <4>2. ErasedBelow(n)
        BY <2>1, <4>1 DEF EraseSound, ErasedBelow
      <4> QED
        BY <1>1, <2>1, <4>1, <4>2 DEF EraseSound, ErasedBelow, OnlyMeant
    <3>3. CASE MetricsReply \/ SendStartAck \/ OtaChunkRequest \/ SendChunkAck
      <4>1. /\ pc \notin {"boot", "user", "erase"} /\ pc' # "erase"
            /\ UNCHANGED <<ota_start_request, ota_require_erase>>
        BY <3>3 DEF MetricsReply, SendStartAck, OtaChunkRequest, SendChunkAck
      <4> QED
        BY <1>0, <1>1, <2>1, <4>1 DEF EraseSound, ErasedBelow, OnlyMeant
    <3> QED
      BY <3>1, <3>2, <3>3
  <2> QED
    BY <2>2, <2>3 DEF PacedInv
<1> QED
  BY <1>0, <1>1, <1>2, <1>3, <1>4 DEF LoopInv, PacedNeverCorrupt

\* The steps that change the flash, or say what it holds.
LEMMA FlashKeeps ==
  ASSUME NEW n \in Nat, TRUE \in Pacing => OneImage(n), TypeOK, LoopInv(n),
         (\E p \in pages : ErasePage(p)) \/ WriteChunk \/ MarkAcked
  PROVE  LoopInv(n)'
<1> USE DEF otaVars, rxVars, workVars, envVars
<1>0. paced' = paced /\ Meant' = Meant
  BY PacedStays DEF Next, Main
<1>1. ASSUME NEW p \in pages, ErasePage(p) PROVE LoopInv(n)'
  <2>1. /\ pc = "erase" /\ last_chunk_acked = -1 /\ ~ota_start_request /\ ~ota_chunk_request
        /\ flash' = [s \in Slots |-> IF PageOf(s) = p THEN Erased ELSE flash[s]]
        /\ pages' = pages \ {p}
        /\ UNCHANGED <<pc, otaVars, rxVars, ota_start_request, ota_chunk_request,
                       ota_require_erase>>
    BY <1>1 DEF ErasePage, LoopInv, OneTask, Working
  <2>2. OneTask' /\ Working' /\ LastWritten'
    BY <2>1 DEF LoopInv, OneTask, Working, LastWritten
  <2>3. PacedNeverCorrupt'
    BY <1>0, <2>1, ErasedAssumption DEF LoopInv, PacedNeverCorrupt
  <2>4. ASSUME paced PROVE PacedInv(n)'
    BY <1>0, <2>1, <2>4
       DEF LoopInv, PacedInv, OneRequest, EraseSound, ErasedBelow, OnlyMeant
  <2> QED
    BY <1>0, <2>2, <2>3, <2>4 DEF LoopInv
<1>2. CASE WriteChunk
  <2>1. /\ chunk_index \in Slots /\ chunk \in Payload /\ chunk \in Meant[chunk_index]
        /\ flash' = [flash EXCEPT ![chunk_index] = Programmed(@, chunk)]
        /\ Programmed(flash[chunk_index], chunk) \in Meant[chunk_index]
        /\ paced => flash' = [flash EXCEPT ![chunk_index] = chunk]
    BY <1>2, WriteIsWritten
  <2>2. flash \in [Slots -> Payload \cup {Erased, Garbage}]
    BY DEF TypeOK
  <2>3. /\ pc = "write" /\ pc' = "mark" /\ InImage /\ last_chunk_acked # chunk_index
        /\ ~ota_start_request /\ ~ota_chunk_request /\ ota_require_erase'
        /\ UNCHANGED <<otaVars, rxVars, ota_start_request, ota_chunk_request, pages>>
    BY <1>2 DEF WriteChunk, LoopInv, OneTask, Working, MeantHere
  <2>4. OneTask' /\ Working'
    BY <1>0, <2>1, <2>2, <2>3 DEF OneTask, Working, InImage, WrittenHere
  <2>5. LastWritten'
    BY <1>0, <2>1, <2>2, <2>3 DEF LoopInv, LastWritten
  <2>6. PacedNeverCorrupt'
    BY <1>0, <2>1, <2>2, PayloadAssumption DEF LoopInv, PacedNeverCorrupt
  <2>7. ASSUME paced PROVE PacedInv(n)'
    BY <1>0, <2>1, <2>2, <2>3, <2>7
       DEF LoopInv, PacedInv, OneRequest, EraseSound, OnlyMeant
  <2> QED
    BY <1>0, <2>4, <2>5, <2>6, <2>7 DEF LoopInv
<1>3. CASE MarkAcked
  <2>1. /\ pc = "mark" /\ pc' = "chunkAck" /\ last_chunk_acked' = chunk_index
        /\ ~ota_start_request /\ ~ota_chunk_request
        /\ UNCHANGED <<chunk_count, chunk_index, chunk, rxVars, workVars, flash>>
    BY <1>3 DEF MarkAcked, LoopInv, OneTask
  <2>2. chunk_index \in Slots /\ flash[chunk_index] \in Meant[chunk_index] /\ InImage
    BY <2>1, SlotInImage DEF LoopInv, Working, WrittenHere
  <2>3. OneTask' /\ Working' /\ LastWritten'
    BY <1>0, <2>1, <2>2 DEF OneTask, Working, LastWritten, InImage, WrittenHere
  <2>4. ASSUME paced PROVE PacedInv(n)'
    BY <1>0, <2>1, <2>4
       DEF LoopInv, PacedInv, OneRequest, EraseSound, ErasedBelow, OnlyMeant
  <2> QED
    BY <1>0, <2>1, <2>3, <2>4 DEF LoopInv, PacedNeverCorrupt
<1> QED
  BY <1>1, <1>2, <1>3

LEMMA LoopStep ==
  ASSUME NEW n \in Nat, TRUE \in Pacing => OneImage(n), TypeOK, LoopInv(n), [Next]_vars
  PROVE  LoopInv(n)'
<1>1. CASE UNCHANGED vars
  <2>1. paced' = paced /\ Meant' = Meant
    BY PacedStays
  <2> QED
    BY <1>1, <2>1
       DEF vars, otaVars, rxVars, workVars, envVars, LoopInv, OneTask, Working, LastWritten,
           PacedNeverCorrupt, PacedInv, OneRequest, EraseSound, ErasedBelow, OnlyMeant,
           InImage, MeantHere, WrittenHere
<1>2. CASE Watchdog \/ UserReset \/ PowerCycle
  BY <1>2, RestartKeeps DEF Watchdog, UserReset, PowerCycle
<1>3. CASE HandleStart
  BY <1>3, RestartKeeps, TakeKeeps DEF HandleStart
<1>4. CASE Boot \/ Link \/ Top \/ \E m \in Requests : Receive(m)
  BY <1>4, QuietKeeps
<1>5. CASE HandleStop \/ HandleOtaStart \/ HandleOtaChunk \/ HandleOther
  BY <1>5, TakeKeeps
<1>6. CASE CopyChunk \/ VerifyChunk
  BY <1>6, VerifyKeeps
<1>7. CASE \/ MetricsReply \/ OtaStartRequest \/ EraseDone \/ SendStartAck
           \/ OtaChunkRequest \/ SendChunkAck
  BY <1>7, BetweenKeeps
<1>8. CASE (\E p \in pages : ErasePage(p)) \/ WriteChunk \/ MarkAcked
  BY <1>8, FlashKeeps
<1> QED
  BY <1>1, <1>2, <1>3, <1>4, <1>5, <1>6, <1>7, <1>8 DEF Next, Main

LEMMA LoopInvariant ==
  ASSUME NEW n \in Nat, TRUE \in Pacing => OneImage(n)
  PROVE  Spec => []LoopInv(n)
<1>1. Init => LoopInv(n)
  BY OldAssumption, PayloadAssumption, ErasedAssumption
     DEF Init, LoopInv, OneTask, Working, LastWritten, PacedNeverCorrupt, PacedInv,
         OneRequest, EraseSound, OnlyMeant
<1>2. TypeOK /\ LoopInv(n) /\ [Next]_vars => LoopInv(n)'
  BY LoopStep
<1> QED
  BY <1>1, <1>2, TypeCorrect, PTL DEF Spec

\* To a host that paces itself and sends one image no slot is ever written twice with
\* different contents: ota_require_erase never skips an erase that is needed, aborted
\* and repeated transfers, watchdogs and power cuts included (main.c:377, 405).
THEOREM PacedNeverCorrupts ==
  ASSUME NEW n \in Nat, TRUE \in Pacing => OneImage(n)
  PROVE  Spec => []PacedNeverCorrupt
<1>1. LoopInv(n) => PacedNeverCorrupt
  BY DEF LoopInv
<1> QED
  BY <1>1, LoopInvariant, PTL

-------------------------------------------------------------------------------
(* The refinement                                                            *)

\* Every step of the loop erases a page, stores a chunk that was verified, confirms
\* one the flash holds (main.c:408), or changes nothing the store knows of.
THEOREM SingleCoreIsStore ==
  ASSUME NEW n \in Nat, TRUE \in Pacing => OneImage(n)
  PROVE  Spec => ImplementsStore
<1> USE DEF Store!Slots, Slots, Store!PageOf, PageOf, Store!Programmed, Programmed, NoSlot
<1>1. Init => Store!StoreInit
  <2>1. Meant \in [Slots -> SUBSET (Payload \cup {Erased, Garbage})]
    BY MeantFacts DEF Meant
  <2>2. Init => flash \in [Slots -> Payload \cup {Erased, Garbage}]
    BY OldAssumption DEF Init
  <2> QED
    BY <2>1, <2>2 DEF Init, Store!StoreInit
<1>2. ASSUME TypeOK, LoopInv(n), [Next]_vars
      PROVE  [Store!StoreNext]_(Store!storeVars)
  <2> USE <1>2 DEF otaVars, rxVars, workVars, envVars
  <2>0. Meant' = Meant
    BY PacedStays
  <2>1. CASE UNCHANGED <<flash, chunk_index, pc>>
    BY <2>0, <2>1 DEF Store!storeVars
  <2>2. CASE flash' = flash /\ pc' # "chunkAck"
    BY <2>0, <2>2 DEF Store!StoreNext, Store!Forget
  <2>3. ASSUME NEW R, Restart(R) PROVE [Store!StoreNext]_(Store!storeVars)
    BY <2>2, <2>3 DEF Restart
  <2>4. CASE Boot \/ Top \/ HandleStop \/ HandleOtaStart \/ HandleOtaChunk \/ HandleOther
             \/ CopyChunk \/ VerifyChunk \/ MetricsReply \/ OtaStartRequest \/ EraseDone
             \/ SendStartAck \/ OtaChunkRequest \/ SendChunkAck
    BY <2>2, <2>4 DEF Boot, Top, HandleStop, HandleOtaStart, HandleOtaChunk, HandleOther, Take,
       CopyChunk, VerifyChunk, MetricsReply, OtaStartRequest, EraseDone, SendStartAck,
       OtaChunkRequest, SendChunkAck
  <2>5. CASE HandleStart
    BY <2>2, <2>3, <2>5 DEF HandleStart, Take
  <2>6. ASSUME NEW p \in pages, ErasePage(p) PROVE [Store!StoreNext]_(Store!storeVars)
    <3>1. pc = "erase" /\ pc' = "erase"
      BY <2>6 DEF ErasePage
    <3>2. CASE p \in {PageOf(s) : s \in Slots}
      <4>1. Store!ErasePageOf(p)
        BY <2>0, <2>6, <3>1 DEF ErasePage, Store!ErasePageOf
      <4> QED
        BY <3>1, <3>2, <4>1 DEF Store!StoreNext, Store!Change
    <3>3. CASE p \notin {PageOf(s) : s \in Slots}
      <4>1. flash' = flash
        BY <2>6, <3>3 DEF ErasePage, TypeOK
      <4> QED
        BY <2>2, <3>1, <4>1
    <3> QED
      BY <3>2, <3>3
  <2>7. CASE WriteChunk
    <3>1. /\ chunk_index \in Slots /\ chunk \in Payload /\ chunk \in Meant[chunk_index]
          /\ flash' = [flash EXCEPT ![chunk_index] = Programmed(@, chunk)]
      BY <2>7, WriteIsWritten
    <3>2. pc = "write" /\ pc' = "mark"
      BY <2>7 DEF WriteChunk
    <3>3. Store!Store(chunk_index, chunk)
      BY <2>0, <3>1, <3>2 DEF Store!Store
    <3> QED
      BY <3>1, <3>2, <3>3 DEF Store!StoreNext, Store!Change
  <2>8. CASE MarkAcked
    <3>1. /\ pc = "mark" /\ pc' = "chunkAck" /\ chunk_index' = chunk_index /\ flash' = flash
      BY <2>8 DEF MarkAcked
    <3>2. chunk_index \in Slots /\ flash[chunk_index] \in Meant[chunk_index]
      BY <3>1, SlotInImage DEF LoopInv, Working, WrittenHere
    <3>3. Store!Confirm(chunk_index)
      BY <2>0, <3>1, <3>2 DEF Store!Confirm
    <3> QED
      BY <3>2, <3>3 DEF Store!StoreNext
  <2>9. CASE Link \/ \E m \in Requests : Receive(m)
    BY <2>1, <2>9 DEF Link, Receive
  <2>10. CASE UNCHANGED vars
    BY <2>1, <2>10 DEF vars
  <2>11. CASE Watchdog \/ UserReset \/ PowerCycle
    BY <2>3, <2>11 DEF Watchdog, UserReset, PowerCycle
  <2> QED
    BY <2>4, <2>5, <2>6, <2>7, <2>8, <2>9, <2>10, <2>11 DEF Next, Main
<1> QED
  BY <1>1, <1>2, TypeCorrect, LoopInvariant, PTL DEF Spec, ImplementsStore, Store!StoreSpec
=============================================================================
