--------------------------- MODULE OtaTransferProofs ---------------------------
(* What the controller may believe of a flash, for every number of robots and  *)
(* images, every number of retries and every loss, retransmission and reboot.  *)
EXTENDS OtaTransfer, TLAPS

\* An erasure for one image is one for all (bootloader main.c:398): what it means
\* that they are not is the subject of module Device.
SamePages == \A i, j \in Images : PageCount(Size[i]) = PageCount(Size[j])

-------------------------------------------------------------------------------
(* The invariant *)

Contents == Images \cup {OldImage, Erased, Garbage}

Typed ==
  /\ pc \in {"idle", "start", "transfer"}
  /\ image \in Images /\ addrs \subseteq Robots /\ receivers \subseteq Robots
  /\ success \subseteq Robots /\ settings \subseteq Robots /\ index \in Nat
  /\ pc = "transfer" => index \in Indexes(image)
  /\ acked \in [Robots -> SUBSET Nat]
  /\ down \in [Robots -> Seq(Request)] /\ up \in [Robots -> Seq(Answer)]
  /\ status \in [Robots -> Statuses]
  /\ chunk_count \in [Robots -> Nat] /\ last_chunk_acked \in [Robots -> Int]
  /\ ota_require_erase \in [Robots -> BOOLEAN]
  /\ flash \in [Robots -> [Slots -> Contents]]

\* Outside start_ota() and transfer() what they hold is forgotten.
Forgotten ==
  /\ pc # "start" => addrs = {}
  /\ pc # "transfer" => receivers = {} /\ index = 0 /\ \A r \in Robots : acked[r] = {}
  /\ pc # "idle" => success = {}

\* The packets of a link are those of this flash, its chunks behind its starts.
IsChunk(m) == m.type = "OTA_CHUNK" /\ m.data = image /\ m.index \in Indexes(image)
IsStart(m) == m.type = "OTA_START" /\ m.count = Size[image]
At(q) == 1 .. Len(q)
NoChunks(q) == \A j \in At(q) : IsStart(q[j])
NoStarts(q) == \A j \in At(q) : IsChunk(q[j])
LinkInv(r) ==
  /\ \A j \in At(down[r]) : IsChunk(down[r][j]) \/ IsStart(down[r][j])
  /\ \A j, k \in At(down[r]) : j < k /\ IsChunk(down[r][j]) => IsChunk(down[r][k])
  /\ pc = "start" => /\ NoChunks(down[r])
                     /\ \A j \in At(up[r]) : up[r][j].type = "START_ACK"

\* A robot in its bootloader that need not erase has nothing to erase.
ErasedInv(r) ==
  Listens(r) /\ ~ota_require_erase[r] =>
    \A i \in Images : \A s \in Indexes(i) : flash[r][s] = Erased

\* A robot whose answer to this flash's OTA_START counted, or still may.
Enrolled(r) ==
  \/ r \in addrs \cup receivers \cup success
  \/ pc = "start" /\ \E j \in At(up[r]) : up[r][j].type = "START_ACK"

\* It has nothing of another image, and what it acked last is written.
Prepared(r) ==
  /\ \A s \in Indexes(image) : flash[r][s] \in {Erased, image}
  /\ chunk_count[r] \in {0, Size[image]}
  /\ chunk_count[r] # 0 /\ last_chunk_acked[r] \in Indexes(image) =>
       flash[r][last_chunk_acked[r]] = image

\* A chunk whose ack counted, or still may, is written, for good: no OTA_START
\* is on its way any more.
Done(r, s) ==
  \/ s \in acked[r]
  \/ r \in receivers /\ \E j \in At(up[r]) : up[r][j] = [type |-> "CHUNK_ACK", index |-> s]
  \/ r \in success
Written(r) ==
  \A s \in Indexes(image) :
    Done(r, s) => /\ flash[r][s] = image /\ NoStarts(down[r])
                  /\ s = Size[image] - 1 => status[r] # "Programming"

RInv(r) ==
  /\ LinkInv(r) /\ ErasedInv(r)
  /\ Enrolled(r) => Prepared(r)
  /\ Written(r)
  /\ r \notin receivers => acked[r] = {}
  /\ acked[r] \subseteq Indexes(image)

IInv == Typed /\ Forgotten /\ \A r \in Robots : RInv(r)

-------------------------------------------------------------------------------
(* Links and pages *)

\* A link that takes a packet has it at its end; a full one has lost it.
LEMMA SendFacts ==
  ASSUME NEW S, NEW q \in Seq(S), NEW m \in S
  PROVE  /\ Send(q, m) \in Seq(S)
         /\ At(q) \subseteq At(Send(q, m))
         /\ \A j \in At(q) : Send(q, m)[j] = q[j]
         /\ \A j \in At(Send(q, m)) : j \in At(q) \/ (j = Len(q) + 1 /\ Send(q, m)[j] = m)
BY BoundAssumption DEF Send, At

\* A link that hands a packet over has the others left.
LEMMA TailFacts ==
  ASSUME NEW S, NEW q \in Seq(S), q # <<>>
  PROVE  /\ Tail(q) \in Seq(S) /\ 1 \in At(q) /\ Head(q) = q[1] /\ Head(q) \in S
         /\ \A j \in At(Tail(q)) : j + 1 \in At(q) /\ j + 1 > 1 /\ Tail(q)[j] = q[j + 1]
BY DEF At

\* The pages of a count hold every slot below it.
LEMMA PageFact ==
  ASSUME NEW n \in Nat, NEW s \in Nat, s < n
  PROVE  PageOf(s) < PageCount(n)
<1> DEFINE q == s \div PageSlots
           p == n \div PageSlots
<1>1. PageSlots \in Nat /\ PageSlots > 0  BY SizeAssumption
<1>2. /\ q \in Int /\ p \in Int
      /\ s = PageSlots * q + (s % PageSlots) /\ n = PageSlots * p + (n % PageSlots)
      /\ s % PageSlots \in 0 .. PageSlots - 1 /\ n % PageSlots \in 0 .. PageSlots - 1
  BY <1>1
<1> HIDE DEF p, q
<1>3. PageCount(n) = p + (IF n % PageSlots # 0 THEN 1 ELSE 0) /\ PageOf(s) = q
  BY DEF PageCount, PageOf, p, q
<1>4. q <= p  BY <1>1, <1>2, Z3
<1>5. n % PageSlots = 0 => q < p  BY <1>1, <1>2, Z3
<1> QED  BY <1>2, <1>3, <1>4, <1>5

\* The size of an image.
LEMMA SizeFacts ==
  ASSUME NEW i \in Images
  PROVE  /\ Size[i] \in Nat /\ Size[i] > 0 /\ Size[i] - 1 \in Indexes(i)
         /\ \A s \in Indexes(i) : s \in Nat /\ s < Size[i] /\ s \in Slots
BY SizesAssumption, SizeAssumption DEF Indexes, Slots

\* The invariant of a robot speaks of nothing but the flash and that robot.
LEMMA Frame ==
  ASSUME NEW r \in Robots, RInv(r), UNCHANGED <<pc, image, receivers, success>>,
         r \in addrs' <=> r \in addrs, acked'[r] = acked[r], down'[r] = down[r], up'[r] = up[r], status'[r] = status[r],
         chunk_count'[r] = chunk_count[r], last_chunk_acked'[r] = last_chunk_acked[r],
         ota_require_erase'[r] = ota_require_erase[r], flash'[r] = flash[r]
  PROVE  RInv(r)'
<1>1. LinkInv(r)'  BY DEF RInv, LinkInv, IsChunk, IsStart, NoChunks, At
<1>2. ErasedInv(r)'  BY DEF RInv, ErasedInv, Listens
<1>3. Enrolled(r)' => Prepared(r)'  BY DEF RInv, Enrolled, Prepared, At
<1>4. Written(r)'  BY DEF RInv, Written, Done, NoStarts, IsChunk, At
<1> QED  BY <1>1, <1>2, <1>3, <1>4 DEF RInv

\* A packet to some robots is the last on their links.
LEMMA TransmitFacts ==
  ASSUME Typed, NEW m \in Request, Transmit(m)
  PROVE  /\ down' \in [Robots -> Seq(Request)]
         /\ \A r \in Robots :
              /\ At(down[r]) \subseteq At(down'[r])
              /\ \A j \in At(down[r]) : down'[r][j] = down[r][j]
              /\ \A j \in At(down'[r]) :
                   j \in At(down[r]) \/ (j = Len(down[r]) + 1 /\ down'[r][j] = m)
<1>1. PICK heard \in SUBSET Destinations(target) :
        down' = [r \in Robots |-> IF r \in heard THEN Send(down[r], m) ELSE down[r]]
  BY DEF Transmit
<1>2. \A r \in Robots : down[r] \in Seq(Request)  BY DEF Typed
<1>3. \A r \in Robots : Send(down[r], m) \in Seq(Request)  BY <1>2, SendFacts
<1>4. down' \in [Robots -> Seq(Request)]  BY <1>1, <1>2, <1>3
<1>5. ASSUME NEW r \in Robots
      PROVE  /\ At(down[r]) \subseteq At(down'[r])
             /\ \A j \in At(down[r]) : down'[r][j] = down[r][j]
             /\ \A j \in At(down'[r]) :
                  j \in At(down[r]) \/ (j = Len(down[r]) + 1 /\ down'[r][j] = m)
  <2>1. CASE r \in heard
    <3>1. down'[r] = Send(down[r], m)  BY <1>1, <2>1
    <3>2. down[r] \in Seq(Request)  BY <1>2
    <3>3. /\ At(down[r]) \subseteq At(Send(down[r], m))
          /\ \A j \in At(down[r]) : Send(down[r], m)[j] = down[r][j]
          /\ \A j \in At(Send(down[r], m)) :
               j \in At(down[r]) \/ (j = Len(down[r]) + 1 /\ Send(down[r], m)[j] = m)
      BY <3>2, SendFacts
    <3> QED  BY <3>1, <3>3
  <2>2. CASE r \notin heard
    <3>1. down'[r] = down[r]  BY <1>1, <2>2
    <3> QED  BY <3>1
  <2> QED  BY <2>1, <2>2
<1> QED  BY <1>4, <1>5

-------------------------------------------------------------------------------
(* The controller *)

LEMMA InitInv == Init => IInv
<1> SUFFICES ASSUME Init PROVE IInv  OBVIOUS
<1>1. Typed
  <2>1. \A r \in Robots : down[r] = <<>> /\ up[r] = <<>>  BY DEF Init
  <2>2. down \in [Robots -> Seq(Request)] /\ up \in [Robots -> Seq(Answer)]  BY DEF Init
  <2>3. settings \subseteq Robots  BY TargetAssumption DEF Init
  <2>4. flash \in [Robots -> [Slots -> Contents]]  BY DEF Init, Contents
  <2> QED  BY <2>2, <2>3, <2>4 DEF Init, Typed, Statuses
<1>2. Forgotten  BY DEF Init, Forgotten
<1>3. ASSUME NEW r \in Robots PROVE RInv(r)
  <2>1. /\ down[r] = <<>> /\ up[r] = <<>> /\ ota_require_erase[r] /\ acked[r] = {}
        /\ r \notin addrs \cup receivers \cup success /\ pc = "idle"
    BY <1>3 DEF Init
  <2>2. At(down[r]) = {} /\ At(up[r]) = {}  BY <2>1 DEF At
  <2> QED  BY <2>1, <2>2 DEF RInv, LinkInv, ErasedInv, Enrolled, Written, Done
<1> QED  BY <1>1, <1>2, <1>3 DEF IInv

\* A flash begins with nothing on its way from the last one.
LEMMA StartFlashInv ==
  ASSUME IInv, SessionGap, NEW i \in Images, NEW devs \in Targets, NEW view \in SUBSET Robots,
         StartFlash(i, devs, view)
  PROVE  IInv'
<1>1. /\ pc = "idle" /\ pc' = "start" /\ image' = i /\ addrs' = {} /\ success' = {}
      /\ UNCHANGED <<settings, index, receivers, acked, down, up, robotVars>>
      /\ \A r \in Robots : down[r] = <<>> /\ up[r] = <<>>
  BY DEF StartFlash
<1>2. Typed'  BY <1>1 DEF IInv, Typed, robotVars
<1>3. Forgotten'  BY <1>1 DEF IInv, Forgotten
<1>4. ASSUME NEW r \in Robots PROVE RInv(r)'
  <2>1. /\ down'[r] = <<>> /\ up'[r] = <<>> /\ acked'[r] = {} /\ receivers' = {}
    BY <1>1 DEF IInv, Forgotten
  <2>2. At(down'[r]) = {} /\ At(up'[r]) = {}  BY <2>1 DEF At
  <2>3. ErasedInv(r)'  BY <1>1 DEF IInv, RInv, ErasedInv, Listens, robotVars
  <2> QED  BY <1>1, <2>1, <2>2, <2>3 DEF RInv, LinkInv, NoChunks, Enrolled, Written, Done
<1> QED  BY <1>2, <1>3, <1>4 DEF IInv

\* While OTA_STARTs go out there is no chunk and no ack of one.
LEMMA SendStartInv == ASSUME IInv, SendStart PROVE IInv'
<1> DEFINE m == [type |-> "OTA_START", count |-> Size[image], index |-> 0, data |-> image]
<1>1. /\ pc = "start" /\ Transmit(m)
      /\ UNCHANGED <<pc, settings, image, addrs, index, receivers, acked, success, up, robotVars>>
  BY DEF SendStart, sessionVars, transferVars
<1>2. m \in Request /\ IsStart(m)
  BY SizesAssumption, SizeAssumption DEF IInv, Typed, Request, Slots, IsStart
<1> HIDE DEF m
<1>3. down' \in [Robots -> Seq(Request)]  BY <1>1, <1>2, TransmitFacts DEF IInv
<1>4. Typed'  BY <1>1, <1>3 DEF IInv, Typed, robotVars
<1>5. Forgotten'  BY <1>1 DEF IInv, Forgotten
<1>6. ASSUME NEW r \in Robots PROVE RInv(r)'
  <2>1. RInv(r) /\ acked[r] = {} /\ receivers = {} /\ success = {}
    BY <1>1 DEF IInv, Forgotten
  <2>2. \A j \in At(down'[r]) : IsStart(down'[r][j])
    <3>1. \A j \in At(down[r]) : IsStart(down[r][j])  BY <1>1, <2>1 DEF RInv, LinkInv, NoChunks
    <3>2. \A j \in At(down'[r]) : down'[r][j] = m \/ (j \in At(down[r]) /\ down'[r][j] = down[r][j])
      BY <1>1, <1>2, TransmitFacts DEF IInv
    <3> QED  BY <1>2, <3>1, <3>2
  <2>3. \A j \in At(down'[r]) :
          down'[r][j].type = "OTA_START" /\ down'[r][j].count = Size[image']
    BY <1>1, <2>2 DEF IsStart
  <2>4. LinkInv(r)'
    BY <1>1, <2>1, <2>3 DEF RInv, LinkInv, NoChunks, IsStart, IsChunk
  <2>5. ErasedInv(r)'  BY <1>1, <2>1 DEF RInv, ErasedInv, Listens, robotVars
  <2>6. Enrolled(r)' => Prepared(r)'
    BY <1>1, <2>1 DEF RInv, Enrolled, Prepared, robotVars
  <2>7. Written(r)'  BY <1>1, <2>1 DEF Written, Done
  <2> QED  BY <1>1, <2>1, <2>4, <2>5, <2>6, <2>7 DEF RInv
<1> QED  BY <1>4, <1>5, <1>6 DEF IInv

\* Steps of the controller's loops that send and conclude nothing.
LEMMA HostQuiet ==
  ASSUME IInv,
         UNCHANGED <<pc, settings, image, addrs, receivers, acked, success, down, up, robotVars>>,
         index' = index \/ (pc = "transfer" /\ index' \in Indexes(image))
  PROVE  IInv'
<1>1. Typed'
  <2>1. index' \in Nat /\ (pc' = "transfer" => index' \in Indexes(image'))
    BY SizeFacts DEF IInv, Typed
  <2> QED  BY <2>1 DEF IInv, Typed, robotVars
<1>2. Forgotten'  BY DEF IInv, Forgotten
<1>3. ASSUME NEW r \in Robots PROVE RInv(r)'
  BY Frame DEF IInv, robotVars
<1> QED  BY <1>1, <1>2, <1>3 DEF IInv

LEMMA NextChunkInv == ASSUME IInv, NextChunk PROVE IInv'
<1>1. /\ pc = "transfer"
      /\ UNCHANGED <<pc, settings, image, addrs, receivers, acked, success, down, up, robotVars>>
      /\ index' = index \/ (index' = index + 1 /\ index + 1 \in Indexes(image))
  BY DEF NextChunk, ChunkDone, sessionVars, startVars
<1> QED  BY <1>1, HostQuiet

\* Who answered has prepared; nothing of a chunk is on its way yet.
LEMMA EndStartInv == ASSUME IInv, EndStart PROVE IInv'
<1>1. /\ pc = "start" /\ addrs' = {}
      /\ UNCHANGED <<settings, image, success, down, up, robotVars>>
      /\ \/ /\ pc' = "transfer" /\ receivers' = addrs /\ index' = 0
            /\ acked' = [r \in Robots |-> {}]
         \/ pc' = "idle" /\ UNCHANGED <<receivers, index, acked>>
  BY DEF EndStart, StartDone, sessionVars
<1>2. receivers = {} /\ success = {} /\ index = 0 /\ \A r \in Robots : acked[r] = {}
  BY <1>1 DEF IInv, Forgotten
<1>3. 0 \in Indexes(image)  BY SizeFacts DEF IInv, Typed, Indexes
<1>4. \A r \in Robots : acked'[r] = {}  BY <1>1, <1>2
<1>5. Typed'  BY <1>1, <1>2, <1>3 DEF IInv, Typed, robotVars
<1>6. Forgotten'  BY <1>1, <1>2, <1>4 DEF IInv, Forgotten
<1>7. ASSUME NEW r \in Robots PROVE RInv(r)'
  <2>1. RInv(r) /\ acked'[r] = {}  BY <1>4 DEF IInv
  <2>2. LinkInv(r)'
    BY <1>1, <2>1 DEF RInv, LinkInv, IsChunk, IsStart
  <2>3. ErasedInv(r)'  BY <1>1, <2>1 DEF RInv, ErasedInv, Listens, robotVars
  <2>4. Enrolled(r)' => Prepared(r)'
    BY <1>1, <1>2, <2>1 DEF RInv, Enrolled, Prepared, robotVars
  <2>5. \A j \in At(up'[r]) : up'[r][j].type = "START_ACK"
    BY <1>1, <2>1 DEF RInv, LinkInv
  <2>6. Written(r)'  BY <1>1, <1>2, <2>1, <2>5 DEF Written, Done
  <2> QED  BY <2>1, <2>2, <2>3, <2>4, <2>6 DEF RInv
<1> QED  BY <1>5, <1>6, <1>7 DEF IInv

\* A chunk goes behind whatever is on the link.
LEMMA SendChunkInv == ASSUME IInv, SendChunk PROVE IInv'
<1> DEFINE m == [type |-> "OTA_CHUNK", count |-> 0, index |-> index, data |-> image]
<1>1. /\ pc = "transfer" /\ Transmit(m)
      /\ UNCHANGED <<pc, settings, image, addrs, index, receivers, acked, success, up, robotVars>>
  BY DEF SendChunk, sessionVars, transferVars, startVars
<1>2. m \in Request /\ IsChunk(m) /\ ~IsStart(m)
  BY <1>1, SizeFacts, SizeAssumption DEF IInv, Typed, Request, IsChunk, IsStart
<1> HIDE DEF m
<1>3. down' \in [Robots -> Seq(Request)]  BY <1>1, <1>2, TransmitFacts DEF IInv
<1>4. Typed'  BY <1>1, <1>3 DEF IInv, Typed, robotVars
<1>5. Forgotten'  BY <1>1 DEF IInv, Forgotten
<1>6. ASSUME NEW r \in Robots PROVE RInv(r)'
  <2>1. RInv(r) /\ addrs = {} /\ success = {}  BY <1>1 DEF IInv, Forgotten
  <2>2. /\ At(down[r]) \subseteq At(down'[r])
        /\ \A j \in At(down[r]) : down'[r][j] = down[r][j]
        /\ \A j \in At(down'[r]) :
             j \in At(down[r]) \/ (j = Len(down[r]) + 1 /\ down'[r][j] = m)
    BY <1>1, <1>2, TransmitFacts DEF IInv
  <2>3. LinkInv(r)'
    <3>1. \A j \in At(down'[r]) : IsChunk(down'[r][j]) \/ IsStart(down'[r][j])
      BY <1>2, <2>1, <2>2 DEF RInv, LinkInv
    <3>2. ASSUME NEW j \in At(down'[r]), NEW k \in At(down'[r]), j < k, IsChunk(down'[r][j])
          PROVE  IsChunk(down'[r][k])
      <4>1. CASE k = Len(down[r]) + 1 /\ down'[r][k] = m  BY <4>1, <1>2
      <4>2. CASE k \in At(down[r])
        <5>1. j \in At(down[r])  BY <3>2, <4>2, <2>2 DEF At, IInv, Typed
        <5> QED  BY <3>2, <4>2, <5>1, <2>1, <2>2 DEF RInv, LinkInv
      <4> QED  BY <4>1, <4>2, <2>2
    <3> QED  BY <1>1, <3>1, <3>2 DEF LinkInv, IsChunk, IsStart
  <2>4. ErasedInv(r)'  BY <1>1, <2>1 DEF RInv, ErasedInv, Listens, robotVars
  <2>5. Enrolled(r)' => Prepared(r)'
    BY <1>1, <2>1 DEF RInv, Enrolled, Prepared, robotVars
  <2>6. Written(r)'
    <3>1. ASSUME NEW s \in Indexes(image), Done(r, s)'
          PROVE  /\ flash'[r][s] = image /\ NoStarts(down[r])'
                 /\ s = Size[image] - 1 => status'[r] # "Programming"
      <4>1. Done(r, s)  BY <1>1, <3>1 DEF Done
      <4>2. /\ flash[r][s] = image /\ NoStarts(down[r])
            /\ s = Size[image] - 1 => status[r] # "Programming"
        BY <4>1, <2>1 DEF RInv, Written
      <4>3. NoStarts(down[r])'
        BY <1>1, <1>2, <2>2, <4>2 DEF NoStarts, IsChunk
      <4> QED  BY <1>1, <4>2, <4>3 DEF robotVars
    <3> QED  BY <1>1, <3>1 DEF Written
  <2> QED  BY <1>1, <2>1, <2>3, <2>4, <2>5, <2>6 DEF RInv
<1> QED  BY <1>4, <1>5, <1>6 DEF IInv

\* Who acked every chunk has every chunk.
LEMMA EndTransferInv == ASSUME IInv, EndTransfer PROVE IInv'
<1>1. /\ pc = "transfer" /\ pc' = "idle" /\ success' = {r \in receivers : Succeeded(r)}
      /\ acked' = [r \in Robots |-> {}] /\ receivers' = {} /\ index' = 0
      /\ UNCHANGED <<settings, image, addrs, down, up, robotVars>>
  BY DEF EndTransfer, ChunkDone, sessionVars, startVars
<1>2. Typed'  BY <1>1 DEF IInv, Typed, robotVars
<1>3. Forgotten'  BY <1>1 DEF IInv, Forgotten
<1>4. ASSUME NEW r \in Robots PROVE RInv(r)'
  <2>1. RInv(r) /\ addrs = {}  BY <1>1 DEF IInv, Forgotten
  <2>2. LinkInv(r)'  BY <1>1, <2>1 DEF RInv, LinkInv, IsChunk, IsStart
  <2>3. ErasedInv(r)'  BY <1>1, <2>1 DEF RInv, ErasedInv, Listens, robotVars
  <2>4. Enrolled(r)' => Prepared(r)'
    BY <1>1, <2>1 DEF RInv, Enrolled, Prepared, robotVars
  <2>5. Written(r)'
    <3>1. ASSUME NEW s \in Indexes(image), Done(r, s)' PROVE Done(r, s)
      BY <1>1, <3>1 DEF Done, Succeeded
    <3> QED  BY <1>1, <2>1, <3>1 DEF RInv, Written, NoStarts, IsChunk, robotVars
  <2> QED  BY <1>1, <2>2, <2>3, <2>4, <2>5 DEF RInv
<1> QED  BY <1>2, <1>3, <1>4 DEF IInv

\* An answer moves from the link to what the controller holds.
LEMMA ReceiveAnswerInv == ASSUME IInv, NEW q \in Robots, ReceiveAnswer(q) PROVE IInv'
<1> DEFINE a == Head(up[q])
<1>1. /\ up[q] \in Seq(Answer) /\ up[q] # <<>> /\ up' = [up EXCEPT ![q] = Tail(@)]
      /\ addrs' = IF a.type = "START_ACK" /\ pc = "start" THEN addrs \cup {q} ELSE addrs
      /\ acked' = IF /\ a.type = "CHUNK_ACK" /\ pc = "transfer"
                     /\ q \in receivers /\ a.index \in Indexes(image)
                    THEN [acked EXCEPT ![q] = @ \cup {a.index}] ELSE acked
      /\ UNCHANGED <<pc, settings, image, index, receivers, success, down, robotVars>>
  BY DEF ReceiveAnswer, sessionVars, IInv, Typed
<1>2. /\ Tail(up[q]) \in Seq(Answer) /\ 1 \in At(up[q]) /\ a = up[q][1] /\ a \in Answer
      /\ \A j \in At(Tail(up[q])) : j + 1 \in At(up[q]) /\ Tail(up[q])[j] = up[q][j + 1]
  <2>1. up[q] \in Seq(Answer) /\ up[q] # <<>>  BY <1>1
  <2> QED  BY <2>1, TailFacts
<1> HIDE DEF a
<1>3. up \in [Robots -> Seq(Answer)] /\ acked \in [Robots -> SUBSET Nat]  BY DEF IInv, Typed
<1>4. /\ up' \in [Robots -> Seq(Answer)] /\ up'[q] = Tail(up[q])
      /\ \A r \in Robots \ {q} : up'[r] = up[r]
  BY <1>1, <1>2, <1>3
<1>5. /\ acked' \in [Robots -> SUBSET Nat]
      /\ \A r \in Robots \ {q} : acked'[r] = acked[r]
      /\ acked'[q] = acked[q] \/
           (/\ acked'[q] = acked[q] \cup {a.index} /\ a.type = "CHUNK_ACK"
            /\ pc = "transfer" /\ q \in receivers /\ a.index \in Indexes(image))
  BY <1>1, <1>2, <1>3, SizeFacts DEF IInv, Typed
<1>6. Typed'
  <2>1. addrs' \subseteq Robots  BY <1>1 DEF IInv, Typed
  <2> QED  BY <1>1, <1>4, <1>5, <2>1 DEF IInv, Typed, robotVars
<1>7. Forgotten'
  <2>1. pc # "transfer" => acked' = acked  BY <1>1
  <2>2. pc # "start" => addrs' = addrs  BY <1>1
  <2> QED  BY <1>1, <2>1, <2>2 DEF IInv, Forgotten
<1>8. ASSUME NEW r \in Robots \ {q} PROVE RInv(r)'
  <2>1. r \in addrs' <=> r \in addrs  BY <1>1, <1>8
  <2> QED  BY <1>1, <1>4, <1>5, <2>1, Frame DEF IInv, robotVars
<1>9. RInv(q)'
  <2>1. RInv(q)  BY DEF IInv
  <2>8. \A j \in At(up'[q]) : j + 1 \in At(up[q]) /\ up'[q][j] = up[q][j + 1]
    BY <1>2, <1>4
  <2>9. /\ \A j \in At(down[q]) : IsChunk(down[q][j]) \/ IsStart(down[q][j])
        /\ \A j, k \in At(down[q]) : j < k /\ IsChunk(down[q][j]) => IsChunk(down[q][k])
        /\ pc = "start" => /\ NoChunks(down[q])
                           /\ \A j \in At(up'[q]) : up'[q][j].type = "START_ACK"
    BY <2>1, <2>8 DEF RInv, LinkInv
  <2>2. LinkInv(q)'
    BY <1>1, <2>9 DEF LinkInv, NoChunks, IsChunk, IsStart
  <2>3. ErasedInv(q)'  BY <1>1, <2>1 DEF RInv, ErasedInv, Listens, robotVars
  <2>4. Enrolled(q)' => Enrolled(q)
    <3>1. q \in addrs' \ addrs => pc = "start" /\ 1 \in At(up[q]) /\ up[q][1].type = "START_ACK"
      BY <1>1, <1>2
    <3> QED  BY <1>1, <2>8, <3>1 DEF Enrolled
  <2>5. Enrolled(q)' => Prepared(q)'
    BY <1>1, <2>1, <2>4 DEF RInv, Prepared, robotVars
  <2>6. Written(q)'
    <3>1. ASSUME NEW s \in Indexes(image), Done(q, s)' PROVE Done(q, s)
      <4>1. CASE s \in acked'[q] /\ s \notin acked[q]
        <5>1. up[q][1] = [type |-> "CHUNK_ACK", index |-> s] /\ q \in receivers
          BY <4>1, <1>2, <1>5 DEF Answer
        <5> QED  BY <5>1, <1>2 DEF Done
      <4>2. CASE q \in receivers /\ \E j \in At(up'[q]) :
                   up'[q][j] = [type |-> "CHUNK_ACK", index |-> s]
        BY <4>2, <1>2, <1>4 DEF Done
      <4> QED  BY <1>1, <3>1, <4>1, <4>2 DEF Done
    <3> QED  BY <1>1, <2>1, <3>1 DEF RInv, Written, NoStarts, IsChunk, robotVars
  <2>7. acked'[q] \subseteq Indexes(image') /\ (q \notin receivers' => acked'[q] = {})
    BY <1>1, <1>5, <2>1 DEF RInv
  <2> QED  BY <2>2, <2>3, <2>5, <2>6, <2>7 DEF RInv
<1> QED  BY <1>6, <1>7, <1>8, <1>9 DEF IInv

-------------------------------------------------------------------------------
(* The robots *)

\* A robot takes the first packet of its link.
LEMMA PopFacts ==
  ASSUME Typed, NEW q \in Robots, down[q] # <<>>, down' = [down EXCEPT ![q] = Tail(@)]
  PROVE  /\ down' \in [Robots -> Seq(Request)]
         /\ \A r \in Robots \ {q} : down'[r] = down[r]
         /\ 1 \in At(down[q]) /\ Head(down[q]) = down[q][1] /\ Head(down[q]) \in Request
         /\ \A j \in At(down'[q]) :
              j + 1 \in At(down[q]) /\ j + 1 > 1 /\ j \in Nat /\ down'[q][j] = down[q][j + 1]
<1>1. down[q] \in Seq(Request) /\ down \in [Robots -> Seq(Request)]  BY DEF Typed
<1>2. /\ Tail(down[q]) \in Seq(Request)
      /\ 1 \in At(down[q]) /\ Head(down[q]) = down[q][1] /\ Head(down[q]) \in Request
      /\ \A j \in At(Tail(down[q])) :
           j + 1 \in At(down[q]) /\ j + 1 > 1 /\ Tail(down[q])[j] = down[q][j + 1]
  BY <1>1, TailFacts
<1>3. down'[q] = Tail(down[q])  BY <1>1
<1>4. \A j \in At(down'[q]) : j \in Nat  BY DEF At
<1> QED  BY <1>1, <1>2, <1>3, <1>4

\* And answers it, or its answer is lost.
LEMMA AnswerFacts ==
  ASSUME Typed, NEW q \in Robots, NEW a \in Answer, up' \in {up, [up EXCEPT ![q] = Send(@, a)]}
  PROVE  /\ up' \in [Robots -> Seq(Answer)]
         /\ \A r \in Robots \ {q} : up'[r] = up[r]
         /\ \A j \in At(up'[q]) :
              (j \in At(up[q]) /\ up'[q][j] = up[q][j]) \/ up'[q][j] = a
<1>1. up[q] \in Seq(Answer) /\ up \in [Robots -> Seq(Answer)]  BY DEF Typed
<1>2. /\ Send(up[q], a) \in Seq(Answer)
      /\ \A j \in At(up[q]) : Send(up[q], a)[j] = up[q][j]
      /\ \A j \in At(Send(up[q], a)) :
           j \in At(up[q]) \/ (j = Len(up[q]) + 1 /\ Send(up[q], a)[j] = a)
  BY <1>1, SendFacts
<1>3. CASE up' = up  BY <1>1, <1>3
<1>4. CASE up' = [up EXCEPT ![q] = Send(@, a)]
  <2>1. up'[q] = Send(up[q], a)  BY <1>1, <1>4
  <2>2. up' \in [Robots -> Seq(Answer)] /\ \A r \in Robots \ {q} : up'[r] = up[r]
    BY <1>1, <1>2, <1>4
  <2> QED  BY <1>2, <2>1, <2>2
<1> QED  BY <1>3, <1>4

\* What is left of a link is as ordered as it was, and behind a chunk there are
\* only chunks.
LEMMA PopLink ==
  ASSUME IInv, NEW q \in Robots, down[q] # <<>>, down' = [down EXCEPT ![q] = Tail(@)],
         UNCHANGED <<pc, image>>,
         pc = "start" => \A j \in At(up'[q]) : up'[q][j].type = "START_ACK"
  PROVE  /\ LinkInv(q)'
         /\ IsChunk(Head(down[q])) \/ IsStart(Head(down[q]))
         /\ pc = "start" => IsStart(Head(down[q]))
         /\ IsChunk(Head(down[q])) \/ NoStarts(down[q]) => NoStarts(down[q])'
<1>1. /\ 1 \in At(down[q]) /\ Head(down[q]) = down[q][1]
      /\ \A j \in At(down'[q]) :
           j + 1 \in At(down[q]) /\ j + 1 > 1 /\ j \in Nat /\ down'[q][j] = down[q][j + 1]
  BY PopFacts DEF IInv
<1>2. LinkInv(q)  BY DEF IInv, RInv
<1>3. \A j \in At(down'[q]) : IsChunk(down'[q][j]) \/ IsStart(down'[q][j])
  BY <1>1, <1>2 DEF LinkInv
<1>4. ASSUME NEW j \in At(down'[q]), NEW k \in At(down'[q]), j < k, IsChunk(down'[q][j])
      PROVE  IsChunk(down'[q][k])
  <2>1. j + 1 \in At(down[q]) /\ k + 1 \in At(down[q]) /\ j + 1 < k + 1
    BY <1>1, <1>4
  <2> QED  BY <1>1, <1>2, <1>4, <2>1 DEF LinkInv
<1>5. pc = "start" => NoChunks(down[q]) /\ \A j \in At(down'[q]) : IsStart(down'[q][j])
  BY <1>1, <1>2 DEF LinkInv, NoChunks
<1>6. LinkInv(q)'  BY <1>3, <1>4, <1>5 DEF LinkInv, NoChunks, IsChunk, IsStart
<1>7. IsChunk(Head(down[q])) \/ NoStarts(down[q]) => \A j \in At(down'[q]) : IsChunk(down'[q][j])
  BY <1>1, <1>2 DEF LinkInv, NoStarts
<1>8. IsChunk(Head(down[q])) \/ NoStarts(down[q]) => NoStarts(down[q])'
  BY <1>7 DEF NoStarts, IsChunk
<1> QED  BY <1>1, <1>2, <1>5, <1>6, <1>8 DEF LinkInv, NoChunks

\* A step of robot q leaves the others as they are.
LEMMA RobotFrame ==
  ASSUME IInv, NEW q \in Robots, UNCHANGED hostVars,
         \A r \in Robots \ {q} :
           /\ down'[r] = down[r] /\ up'[r] = up[r] /\ status'[r] = status[r]
           /\ chunk_count'[r] = chunk_count[r] /\ last_chunk_acked'[r] = last_chunk_acked[r]
           /\ ota_require_erase'[r] = ota_require_erase[r] /\ flash'[r] = flash[r],
         down' \in [Robots -> Seq(Request)], up' \in [Robots -> Seq(Answer)],
         status' \in [Robots -> Statuses], chunk_count' \in [Robots -> Nat],
         last_chunk_acked' \in [Robots -> Int], ota_require_erase' \in [Robots -> BOOLEAN],
         flash' \in [Robots -> [Slots -> Contents]],
         LinkInv(q)', ErasedInv(q)', Enrolled(q)' => Prepared(q)', Written(q)'
  PROVE  IInv'
<1>1. UNCHANGED <<pc, settings, image, addrs, index, receivers, acked, success>>
  BY DEF hostVars, sessionVars, startVars, transferVars
<1>2. Typed'  BY <1>1 DEF IInv, Typed, Contents
<1>3. Forgotten'  BY <1>1 DEF IInv, Forgotten
<1>4. RInv(q)'  BY <1>1 DEF IInv, RInv, Indexes
<1>5. \A r \in Robots \ {q} : RInv(r)'  BY <1>1, Frame DEF IInv
<1> QED  BY <1>2, <1>3, <1>4, <1>5 DEF IInv

LEMMA IgnoreInv == ASSUME IInv, NEW q \in Robots, Ignore(q) PROVE IInv'
<1>1. /\ down[q] # <<>> /\ down' = [down EXCEPT ![q] = Tail(@)]
      /\ UNCHANGED <<hostVars, up, robotVars>>
  BY DEF Ignore
<1>2. UNCHANGED <<pc, image, addrs, receivers, acked, success>>
  BY <1>1 DEF hostVars, sessionVars, startVars, transferVars
<1>3. RInv(q) /\ Typed  BY DEF IInv
<1>4. LinkInv(q)' /\ (NoStarts(down[q]) => NoStarts(down[q])')
  <2>1. pc = "start" => \A j \in At(up'[q]) : up'[q][j].type = "START_ACK"
    BY <1>1, <1>3 DEF RInv, LinkInv
  <2> QED  BY <1>1, <1>2, <2>1, PopLink
<1>5. ErasedInv(q)'  BY <1>1, <1>3 DEF RInv, ErasedInv, Listens, robotVars
<1>6. Enrolled(q)' => Prepared(q)'
  BY <1>1, <1>2, <1>3 DEF RInv, Enrolled, Prepared, robotVars
<1>7. Written(q)'
  <2>1. \A s : Done(q, s)' => Done(q, s)  BY <1>1, <1>2 DEF Done
  <2> QED  BY <1>1, <1>2, <1>3, <1>4, <2>1 DEF RInv, Written, robotVars
<1>8. down' \in [Robots -> Seq(Request)] /\ \A r \in Robots \ {q} : down'[r] = down[r]
  BY <1>1, <1>3, PopFacts
<1> QED  BY <1>1, <1>3, <1>4, <1>5, <1>6, <1>7, <1>8, RobotFrame DEF Typed, robotVars

\* A restart and a launch keep the flash and forget the transfer.
LEMMA RestartInv == ASSUME IInv, NEW q \in Robots, Reboot(q) \/ Launch(q) PROVE IInv'
<1>1. /\ UNCHANGED <<hostVars, down, up, flash>>
      /\ chunk_count' = [chunk_count EXCEPT ![q] = 0]
      /\ last_chunk_acked' = [last_chunk_acked EXCEPT ![q] = 0]
      /\ \/ /\ status' = [status EXCEPT ![q] = "Ready"]
            /\ ota_require_erase' = [ota_require_erase EXCEPT ![q] = TRUE]
         \/ /\ status' = [status EXCEPT ![q] = "Running"]
            /\ ota_require_erase' = [ota_require_erase EXCEPT ![q] = FALSE]
  BY DEF Reboot, Launch, ClearRam
<1>2. UNCHANGED <<pc, image, addrs, receivers, acked, success>>
  BY <1>1 DEF hostVars, sessionVars, startVars, transferVars
<1>3. RInv(q) /\ Typed  BY DEF IInv
<1>4. /\ chunk_count'[q] = 0 /\ status'[q] \in {"Ready", "Running"}
      /\ status'[q] = "Ready" => ota_require_erase'[q]
  BY <1>1, <1>3 DEF Typed
<1>5. LinkInv(q)'  BY <1>1, <1>2, <1>3 DEF RInv, LinkInv, NoChunks, IsChunk, IsStart
<1>6. ErasedInv(q)'  BY <1>4 DEF ErasedInv, Listens
<1>7. Enrolled(q)' => Prepared(q)'
  BY <1>1, <1>2, <1>3, <1>4 DEF RInv, Enrolled, Prepared
<1>8. Written(q)'
  <2>1. \A s : Done(q, s)' => Done(q, s)  BY <1>1, <1>2 DEF Done
  <2> QED  BY <1>1, <1>2, <1>3, <1>4, <2>1 DEF RInv, Written, NoStarts, IsChunk
<1>9. /\ status' \in [Robots -> Statuses] /\ chunk_count' \in [Robots -> Nat]
      /\ last_chunk_acked' \in [Robots -> Int] /\ ota_require_erase' \in [Robots -> BOOLEAN]
  <2>1. /\ status \in [Robots -> Statuses] /\ chunk_count \in [Robots -> Nat]
        /\ last_chunk_acked \in [Robots -> Int] /\ ota_require_erase \in [Robots -> BOOLEAN]
        /\ "Ready" \in Statuses /\ "Running" \in Statuses
    BY <1>3 DEF Typed, Statuses
  <2>2. status' \in [Robots -> Statuses]  BY <1>1, <2>1
  <2>3. chunk_count' \in [Robots -> Nat] /\ last_chunk_acked' \in [Robots -> Int]
    BY <1>1, <2>1
  <2>4. ota_require_erase' \in [Robots -> BOOLEAN]  BY <1>1, <2>1
  <2> QED  BY <2>2, <2>3, <2>4
<1>10. \A r \in Robots \ {q} :
         /\ status'[r] = status[r] /\ chunk_count'[r] = chunk_count[r]
         /\ last_chunk_acked'[r] = last_chunk_acked[r]
         /\ ota_require_erase'[r] = ota_require_erase[r]
  BY <1>1, <1>3 DEF Typed
<1> QED  BY <1>1, <1>3, <1>5, <1>6, <1>7, <1>8, <1>9, <1>10, RobotFrame DEF Typed

\* OTA_START: the robot is prepared, erased now or before.
LEMMA HandleOtaStartInv ==
  ASSUME SamePages, IInv, NEW q \in Robots, HandleOtaStart(q) PROVE IInv'
<1> DEFINE n == Head(down[q]).count
           a == [type |-> "START_ACK", index |-> 0]
<1>1. /\ down[q] # <<>> /\ Head(down[q]).type = "OTA_START" /\ Listens(q)
      /\ status' = [status EXCEPT ![q] = "Programming"]
      /\ last_chunk_acked' = [last_chunk_acked EXCEPT ![q] = -1]
      /\ chunk_count' = [chunk_count EXCEPT ![q] = n]
      /\ flash' = IF ota_require_erase[q]
                    THEN [flash EXCEPT ![q] = ErasePages(@, PageCount(n))] ELSE flash
      /\ ota_require_erase' = [ota_require_erase EXCEPT ![q] = FALSE]
      /\ down' = [down EXCEPT ![q] = Tail(@)]
      /\ up' \in {up, [up EXCEPT ![q] = Send(@, a)]}
      /\ UNCHANGED hostVars
  BY DEF HandleOtaStart, Answers, NoneAcked
<1>2. UNCHANGED <<pc, image, addrs, receivers, acked, success>>
  BY <1>1 DEF hostVars, sessionVars, startVars, transferVars
<1>3. RInv(q) /\ Typed  BY DEF IInv
<1>4. a \in Answer  BY SizeAssumption DEF Answer, Slots
<1>5. /\ up' \in [Robots -> Seq(Answer)] /\ \A r \in Robots \ {q} : up'[r] = up[r]
      /\ \A j \in At(up'[q]) : (j \in At(up[q]) /\ up'[q][j] = up[q][j]) \/ up'[q][j] = a
  BY <1>1, <1>3, <1>4, AnswerFacts
<1>6. /\ down' \in [Robots -> Seq(Request)] /\ \A r \in Robots \ {q} : down'[r] = down[r]
      /\ 1 \in At(down[q]) /\ Head(down[q]) = down[q][1]
  BY <1>1, <1>3, PopFacts
<1>7. pc = "start" => \A j \in At(up'[q]) : up'[q][j].type = "START_ACK"
  BY <1>3, <1>5 DEF RInv, LinkInv
<1>8. LinkInv(q)' /\ (IsChunk(Head(down[q])) \/ IsStart(Head(down[q])))
  BY <1>1, <1>2, <1>7, PopLink
<1>9. n = Size[image] /\ ~IsChunk(Head(down[q]))  BY <1>1, <1>8 DEF IsChunk, IsStart
<1> HIDE DEF n, a
<1>10. /\ flash' \in [Robots -> [Slots -> Contents]]
       /\ \A r \in Robots \ {q} : flash'[r] = flash[r]
       /\ \A i \in Images : \A s \in Indexes(i) : flash'[q][s] = Erased
  <2>1. flash \in [Robots -> [Slots -> Contents]] /\ flash[q] \in [Slots -> Contents]
    BY <1>3 DEF Typed
  <2>2. CASE ota_require_erase[q]
    <3>1. flash' = [flash EXCEPT ![q] = ErasePages(flash[q], PageCount(n))]
      BY <1>1, <2>2
    <3>2. ErasePages(flash[q], PageCount(n)) \in [Slots -> Contents]
      BY <2>1 DEF ErasePages, Contents
    <3>3. ASSUME NEW i \in Images, NEW s \in Indexes(i)
          PROVE  ErasePages(flash[q], PageCount(n))[s] = Erased
      <4>1. s \in Slots /\ s \in Nat /\ s < Size[i] /\ Size[i] \in Nat
        BY SizeFacts
      <4>2. PageOf(s) < PageCount(Size[i])  BY <4>1, PageFact
      <4>3. PageCount(Size[i]) = PageCount(n)  BY <1>3, <1>9 DEF SamePages, Typed
      <4> QED  BY <4>1, <4>2, <4>3 DEF ErasePages
    <3> QED  BY <2>1, <3>1, <3>2, <3>3
  <2>3. CASE ~ota_require_erase[q]
    <3>1. flash' = flash  BY <1>1, <2>3
    <3> QED  BY <1>1, <1>3, <2>1, <2>3, <3>1 DEF RInv, ErasedInv
  <2> QED  BY <2>2, <2>3
<1>11. /\ status' \in [Robots -> Statuses] /\ chunk_count' \in [Robots -> Nat]
       /\ last_chunk_acked' \in [Robots -> Int] /\ ota_require_erase' \in [Robots -> BOOLEAN]
  BY <1>1, <1>3, <1>9, SizeFacts DEF Typed, Statuses
<1>12. \A r \in Robots \ {q} :
         /\ status'[r] = status[r] /\ chunk_count'[r] = chunk_count[r]
         /\ last_chunk_acked'[r] = last_chunk_acked[r]
         /\ ota_require_erase'[r] = ota_require_erase[r]
  BY <1>1, <1>3 DEF Typed
<1>13. ErasedInv(q)'  BY <1>10 DEF ErasedInv
<1>14. Prepared(q)'
  <2>1. chunk_count'[q] = Size[image] /\ last_chunk_acked'[q] = -1
    BY <1>1, <1>3, <1>9 DEF Typed
  <2>2. -1 \notin Indexes(image)  BY DEF Indexes
  <2> QED  BY <1>2, <1>3, <1>10, <2>1, <2>2 DEF Prepared, Typed
<1>15. Written(q)'
  <2>1. ASSUME NEW s \in Indexes(image), Done(q, s)' PROVE FALSE
    <3>1. Done(q, s)
      <4>1. a # [type |-> "CHUNK_ACK", index |-> s]  BY DEF a
      <4> QED  BY <1>2, <1>5, <2>1, <4>1 DEF Done
    <3>2. NoStarts(down[q])  BY <1>3, <3>1 DEF RInv, Written
    <3> QED  BY <1>6, <1>9, <3>2 DEF NoStarts
  <2> QED  BY <1>2, <2>1 DEF Written
<1> QED
  BY <1>1, <1>5, <1>6, <1>8, <1>10, <1>11, <1>12, <1>13, <1>14, <1>15, RobotFrame

\* OTA_CHUNK: what is acked is written, and the last one ends PROGRAMMING.
LEMMA HandleOtaChunkInv ==
  ASSUME IInv, NEW q \in Robots, HandleOtaChunk(q) PROVE IInv'
<1> DEFINE m == Head(down[q])
           i == m.index
           a == [type |-> "CHUNK_ACK", index |-> i]
<1>1. /\ down[q] # <<>> /\ m.type = "OTA_CHUNK" /\ Listens(q) /\ i < chunk_count[q]
      /\ flash' = IF last_chunk_acked[q] # i
                    THEN [flash EXCEPT ![q][i] = Programmed(@, m.data)] ELSE flash
      /\ ota_require_erase' =
           [ota_require_erase EXCEPT ![q] = (last_chunk_acked[q] # i) \/ @]
      /\ last_chunk_acked' = [last_chunk_acked EXCEPT ![q] = i]
      /\ status' = IF i = chunk_count[q] - 1 THEN [status EXCEPT ![q] = "Ready"] ELSE status
      /\ down' = [down EXCEPT ![q] = Tail(@)]
      /\ up' \in {up, [up EXCEPT ![q] = Send(@, a)]}
      /\ UNCHANGED <<hostVars, chunk_count>>
  BY DEF HandleOtaChunk, Answers, IsLast
<1>2. UNCHANGED <<pc, image, addrs, receivers, acked, success>>
  BY <1>1 DEF hostVars, sessionVars, startVars, transferVars
<1>3. RInv(q) /\ Typed  BY DEF IInv
<1>4. /\ down' \in [Robots -> Seq(Request)] /\ \A r \in Robots \ {q} : down'[r] = down[r]
      /\ 1 \in At(down[q]) /\ m = down[q][1] /\ m \in Request
  BY <1>1, <1>3, PopFacts
<1>5. ~IsStart(m) /\ IsChunk(m) /\ pc # "start"
  <2>1. ~IsStart(m)  BY <1>1 DEF IsStart
  <2> QED  BY <1>3, <1>4, <2>1 DEF RInv, LinkInv, NoChunks
<1>6. LinkInv(q)' /\ NoStarts(down[q])'
  BY <1>1, <1>2, <1>5, PopLink
<1>7. /\ m.data = image /\ i \in Indexes(image) /\ i \in Slots /\ i \in Nat /\ image \in Images
      /\ \A s \in Indexes(image) : s \in Slots
  BY <1>3, <1>5, SizeFacts DEF IsChunk, Typed
<1>8. a \in Answer  BY <1>7 DEF Answer
<1>9. /\ up' \in [Robots -> Seq(Answer)] /\ \A r \in Robots \ {q} : up'[r] = up[r]
      /\ \A j \in At(up'[q]) : (j \in At(up[q]) /\ up'[q][j] = up[q][j]) \/ up'[q][j] = a
  BY <1>1, <1>3, <1>8, AnswerFacts
<1> HIDE DEF i, m
<1>10. /\ flash' \in [Robots -> [Slots -> Contents]]
       /\ \A r \in Robots \ {q} : flash'[r] = flash[r]
       /\ \A s \in Slots : s # i => flash'[q][s] = flash[q][s]
       /\ last_chunk_acked[q] # i => flash'[q][i] = Programmed(flash[q][i], image)
       /\ last_chunk_acked[q] = i => flash'[q][i] = flash[q][i]
  <2>1. flash \in [Robots -> [Slots -> Contents]]  BY <1>3 DEF Typed
  <2>2. Programmed(flash[q][i], image) \in Contents  BY <1>7 DEF Programmed, Contents
  <2> QED  BY <1>1, <1>7, <2>1, <2>2
<1>11. /\ status' \in [Robots -> Statuses] /\ chunk_count' \in [Robots -> Nat]
       /\ last_chunk_acked' \in [Robots -> Int] /\ ota_require_erase' \in [Robots -> BOOLEAN]
  <2>1. /\ status \in [Robots -> Statuses] /\ chunk_count \in [Robots -> Nat]
        /\ last_chunk_acked \in [Robots -> Int] /\ ota_require_erase \in [Robots -> BOOLEAN]
        /\ "Ready" \in Statuses
    BY <1>3 DEF Typed, Statuses
  <2>2. status' \in [Robots -> Statuses]  BY <1>1, <2>1
  <2>3. last_chunk_acked' \in [Robots -> Int]  BY <1>1, <1>7, <2>1
  <2>4. ota_require_erase' \in [Robots -> BOOLEAN]  BY <1>1, <2>1
  <2> QED  BY <1>1, <2>1, <2>2, <2>3, <2>4
<1>12. \A r \in Robots \ {q} :
         /\ status'[r] = status[r] /\ chunk_count'[r] = chunk_count[r]
         /\ last_chunk_acked'[r] = last_chunk_acked[r]
         /\ ota_require_erase'[r] = ota_require_erase[r]
  BY <1>1, <1>3 DEF Typed
<1>13. /\ last_chunk_acked'[q] = i /\ chunk_count'[q] = chunk_count[q]
       /\ i = chunk_count[q] - 1 => status'[q] = "Ready"
       /\ status'[q] \in {status[q], "Ready"}
       /\ ~ota_require_erase'[q] => last_chunk_acked[q] = i /\ ~ota_require_erase[q]
  BY <1>1, <1>3 DEF Typed
<1>14. ErasedInv(q)'
  <2>1. ASSUME Listens(q)', ~ota_require_erase'[q], NEW j \in Images, NEW s \in Indexes(j)
        PROVE  flash'[q][s] = Erased
    <3>1. last_chunk_acked[q] = i /\ ~ota_require_erase[q]  BY <1>13, <2>1
    <3>2. flash[q][s] = Erased  BY <1>1, <1>3, <3>1 DEF RInv, ErasedInv
    <3>3. s \in Slots  BY SizeFacts
    <3> QED  BY <1>10, <3>1, <3>2, <3>3
  <2> QED  BY <2>1 DEF ErasedInv
<1>15. Enrolled(q)' => Prepared(q)'
  <2>1. SUFFICES ASSUME Enrolled(q)' PROVE Prepared(q)'  OBVIOUS
  <2>2. Enrolled(q)  BY <1>2, <1>5, <2>1 DEF Enrolled
  <2>3. Prepared(q)  BY <1>3, <2>2 DEF RInv
  <2>4. chunk_count[q] # 0  BY <1>1, <1>7, <1>3 DEF Typed
  <2>5. flash'[q][i] = image
    BY <1>7, <1>10, <2>3, <2>4 DEF Prepared, Programmed
  <2>6. \A s \in Indexes(image) : flash'[q][s] \in {Erased, image}
    BY <1>7, <1>10, <2>3, <2>5 DEF Prepared
  <2> QED  BY <1>2, <1>13, <2>3, <2>5, <2>6 DEF Prepared
<1>16. Written(q)'
  <2>1. ASSUME NEW s \in Indexes(image), Done(q, s)'
        PROVE  /\ flash'[q][s] = image
               /\ s = Size[image] - 1 => status'[q] # "Programming"
    <3>1. CASE Done(q, s)
      <4>1. /\ flash[q][s] = image
            /\ s = Size[image] - 1 => status[q] # "Programming"
        BY <1>3, <3>1 DEF RInv, Written
      <4>2. Programmed(image, image) = image  BY DEF Programmed
      <4>3. flash'[q][s] = image  BY <1>7, <1>10, <4>1, <4>2
      <4> QED  BY <1>13, <4>1, <4>3
    <3>2. CASE ~Done(q, s)
      <4>1. s = i /\ q \in receivers
        BY <1>2, <1>9, <2>1, <3>2 DEF Done
      <4>2. Prepared(q)  BY <1>3, <4>1 DEF RInv, Enrolled
      <4>3. chunk_count[q] = Size[image] /\ chunk_count[q] # 0
        BY <1>1, <1>3, <1>7, <4>2 DEF Prepared, Typed
      <4>4. flash'[q][i] = image
        BY <1>7, <1>10, <4>2, <4>3 DEF Prepared, Programmed
      <4> QED  BY <1>13, <4>1, <4>3, <4>4
    <3> QED  BY <3>1, <3>2
  <2> QED  BY <1>2, <1>6, <2>1 DEF Written
<1> QED
  BY <1>1, <1>4, <1>6, <1>9, <1>10, <1>11, <1>12, <1>14, <1>15, <1>16, RobotFrame

-------------------------------------------------------------------------------
(* The theorems *)

LEMMA StepInv == ASSUME SessionGap, SamePages, IInv, [Next]_vars PROVE IInv'
<1>1. CASE \E i \in Images, devs \in Targets, view \in SUBSET Robots : StartFlash(i, devs, view)
  BY <1>1, StartFlashInv
<1>2. CASE SendStart  BY <1>2, SendStartInv
<1>3. CASE EndStart  BY <1>3, EndStartInv
<1>4. CASE SendChunk  BY <1>4, SendChunkInv
<1>5. CASE NextChunk  BY <1>5, NextChunkInv
<1>6. CASE EndTransfer  BY <1>6, EndTransferInv
<1>7. CASE NextStart
  <2>1. UNCHANGED <<pc, settings, image, addrs, receivers, acked, success, down, up, robotVars,
                    index>>
    BY <1>7 DEF NextStart, sessionVars, startVars, transferVars
  <2> QED  BY <2>1, HostQuiet
<1>8. CASE \E r \in Robots : ReceiveAnswer(r)  BY <1>8, ReceiveAnswerInv
<1>9. CASE \E r \in Robots : RobotStep(r)
  BY <1>9, HandleOtaStartInv, HandleOtaChunkInv, IgnoreInv, RestartInv DEF RobotStep
<1>10. CASE UNCHANGED vars
  <2>1. UNCHANGED <<pc, settings, image, addrs, receivers, acked, success, down, up, robotVars,
                    index>>
    BY <1>10 DEF vars, hostVars, sessionVars, startVars, transferVars
  <2> QED  BY <2>1, HostQuiet
<1> QED
  BY <1>1, <1>2, <1>3, <1>4, <1>5, <1>6, <1>7, <1>8, <1>9, <1>10 DEF Next, ControllerStep

LEMMA Invariance == ASSUME SessionGap, SamePages PROVE Spec => []IInv
<1>1. Init => IInv  BY InitInv
<1>2. IInv /\ [Next]_vars => IInv'  BY StepInv
<1> QED  BY <1>1, <1>2, PTL DEF Spec

\* controller.py's chunk acks: what the controller counts as acked, and no longer
\* retransmits, is in the flash, through every loss, retransmission and reboot.
THEOREM AckedChunksAreFlashed == ASSUME SessionGap, SamePages PROVE Spec => []AckedIsFlashed
<1>1. IInv => AckedIsFlashed
  BY DEF IInv, RInv, Written, Done, AckedIsFlashed
<1> QED  BY <1>1, Invariance, PTL

\* The "success" of webserver.py:427: the robot holds the whole image.
THEOREM SuccessIsFlashed == ASSUME SessionGap, SamePages PROVE Spec => []SuccessMeansFlashed
<1>1. IInv => SuccessMeansFlashed
  BY DEF IInv, Typed, RInv, Written, Done, SuccessMeansFlashed
<1> QED  BY <1>1, Invariance, PTL

\* And it has left PROGRAMMING.
THEOREM SuccessIsStartable == ASSUME SessionGap, SamePages PROVE Spec => []SuccessMeansStartable
<1>1. IInv => SuccessMeansStartable
  BY SizeFacts DEF IInv, Typed, RInv, Written, Done, SuccessMeansStartable
<1> QED  BY <1>1, Invariance, PTL

-------------------------------------------------------------------------------
(* Whom a flash is for *)

\* When the settings name robots, every turn is of a listed one, and so is every
\* packet and every answer.
Aimed ==
  settings # {} =>
    /\ pc # "idle" => target \in listed /\ target # Broadcast /\ queue \subseteq listed
    /\ addrs \cup receivers \subseteq listed /\ listed \subseteq Robots
    /\ \A r \in Robots \ listed : down[r] = <<>> /\ up[r] = <<>>

LEMMA AimedInit == Init => Aimed
BY DEF Init, Aimed

LEMMA AimedStart ==
  ASSUME IInv, Aimed, SessionGap, NEW i \in Images, NEW devs \in Targets,
         NEW view \in SUBSET Robots, StartFlash(i, devs, view)
  PROVE  Aimed'
<1>1. /\ pc = "idle" /\ listed' = (IF devs = {} THEN settings ELSE devs)
      /\ Turn(IF listed' = {} THEN {Broadcast} ELSE listed')
      /\ addrs' = {} /\ UNCHANGED <<settings, receivers, down, up>>
      /\ \A r \in Robots : down[r] = <<>> /\ up[r] = <<>>
  BY DEF StartFlash
<1>2. receivers = {} /\ settings \subseteq Robots  BY <1>1 DEF IInv, Forgotten, Typed
<1>3. listed' \subseteq Robots /\ (settings # {} => listed' # {})
  BY <1>1, <1>2, TargetAssumption
<1>4. settings # {} => target' \in listed' /\ target' # Broadcast /\ queue' \subseteq listed'
  BY <1>1, <1>3, NameAssumption DEF Turn
<1> QED  BY <1>1, <1>2, <1>3, <1>4 DEF Aimed

\* The destinations of what is sent.
LEMMA AimedSend ==
  ASSUME IInv, Aimed, NEW m \in Request, Transmit(m), pc # "idle",
         UNCHANGED <<pc, settings, listed, target, queue, addrs, receivers, up>>
  PROVE  Aimed'
<1> SUFFICES ASSUME settings # {}, NEW r \in Robots \ listed PROVE down'[r] = <<>>
  BY DEF Aimed
<1>1. Destinations(target) = {target} /\ target # r /\ down[r] = <<>>
  BY DEF Aimed, Destinations
<1> QED  BY <1>1 DEF Transmit

LEMMA AimedStep == ASSUME SessionGap, IInv, Aimed, [Next]_vars PROVE Aimed'
<1>1. CASE \E i \in Images, devs \in Targets, view \in SUBSET Robots : StartFlash(i, devs, view)
  BY <1>1, AimedStart
<1>2. CASE SendStart
  <2>1. [type |-> "OTA_START", count |-> Size[image], index |-> 0, data |-> image] \in Request
    BY SizesAssumption, SizeAssumption DEF IInv, Typed, Request, Slots
  <2> QED  BY <1>2, <2>1, AimedSend DEF SendStart, sessionVars, transferVars
<1>3. CASE SendChunk
  <2>1. [type |-> "OTA_CHUNK", count |-> 0, index |-> index, data |-> image] \in Request
    BY <1>3, SizeFacts, SizeAssumption DEF SendChunk, IInv, Typed, Request
  <2> QED  BY <1>3, <2>1, AimedSend DEF SendChunk, sessionVars, transferVars, startVars
<1>4. CASE EndStart
  <2>1. /\ pc = "start" /\ addrs' = {} /\ UNCHANGED <<settings, listed, down, up>>
        /\ \/ /\ pc' = "transfer" /\ receivers' = addrs /\ Turn(ChunkDestinations(addrs))
           \/ pc' = "idle" /\ UNCHANGED receivers
    BY <1>4 DEF EndStart, StartDone, sessionVars
  <2>2. addrs \subseteq Robots  BY DEF IInv, Typed
  <2> QED  BY <2>1, <2>2, NameAssumption DEF Aimed, Turn, ChunkDestinations
<1>5. CASE NextStart
  <2>1. /\ Turn(queue) /\ pc = "start" /\ queue \subseteq queue
        /\ UNCHANGED <<pc, settings, listed, addrs, receivers, down, up>>
    BY <1>5 DEF NextStart, StartDone, sessionVars, startVars, transferVars
  <2> QED  BY <2>1, NameAssumption DEF Aimed, Turn
<1>6. CASE NextChunk
  <2>1. /\ Turn(queue) \/ Turn(ChunkDestinations(receivers))
        /\ pc = "transfer" /\ UNCHANGED <<pc, settings, listed, addrs, receivers, down, up>>
    BY <1>6 DEF NextChunk, ChunkDone, sessionVars, startVars
  <2> QED  BY <2>1, NameAssumption DEF Aimed, Turn, ChunkDestinations
<1>7. CASE EndTransfer
  <2>1. /\ pc' = "idle" /\ receivers' = {} /\ UNCHANGED <<settings, listed, addrs, down, up>>
    BY <1>7 DEF EndTransfer, sessionVars, startVars
  <2> QED  BY <2>1 DEF Aimed
<1>8. ASSUME NEW q \in Robots, ReceiveAnswer(q) PROVE Aimed'
  <2>1. /\ up[q] # <<>> /\ up' = [up EXCEPT ![q] = Tail(@)] /\ up \in [Robots -> Seq(Answer)]
        /\ addrs' \in {addrs, addrs \cup {q}}
        /\ UNCHANGED <<pc, settings, listed, target, queue, receivers, down>>
    BY <1>8 DEF ReceiveAnswer, sessionVars, turnVars, IInv, Typed
  <2>2. settings # {} => q \in listed  BY <2>1 DEF Aimed
  <2> QED  BY <2>1, <2>2 DEF Aimed
<1>9. ASSUME NEW q \in Robots, RobotStep(q) PROVE Aimed'
  <2>1. UNCHANGED <<pc, settings, listed, target, queue, addrs, receivers>>
    BY <1>9 DEF RobotStep, HandleOtaStart, HandleOtaChunk, Ignore, Reboot, Launch, ClearRam,
                hostVars, sessionVars, startVars, transferVars, turnVars
  <2>2. CASE UNCHANGED <<down, up>>  BY <2>1, <2>2 DEF Aimed
  <2>3. CASE /\ down[q] # <<>>
             /\ \A r \in Robots \ {q} : down'[r] = down[r] /\ up'[r] = up[r]
    <3>1. settings # {} => q \in listed  BY <2>3 DEF Aimed
    <3> QED  BY <2>1, <2>3, <3>1 DEF Aimed
  <2>4. CASE HandleOtaStart(q) \/ HandleOtaChunk(q) \/ Ignore(q)
    <3>1. /\ down[q] # <<>> /\ down' = [down EXCEPT ![q] = Tail(@)]
          /\ up' = up \/ \E a : up' = [up EXCEPT ![q] = Send(@, a)]
          /\ down \in [Robots -> Seq(Request)] /\ up \in [Robots -> Seq(Answer)]
      BY <2>4 DEF HandleOtaStart, HandleOtaChunk, Ignore, Answers, IInv, Typed
    <3> QED  BY <2>3, <3>1
  <2> QED  BY <1>9, <2>2, <2>4 DEF RobotStep, Reboot, Launch, ClearRam
<1>10. CASE UNCHANGED vars
  BY <1>10 DEF vars, hostVars, sessionVars, startVars, transferVars, turnVars, Aimed
<1> QED
  BY <1>1, <1>2, <1>3, <1>4, <1>5, <1>6, <1>7, <1>8, <1>9, <1>10 DEF Next, ControllerStep

\* controller.py:824 to 836: when the settings name the robots of the testbed
\* user, a flash writes on the robots it is for and on no other.
THEOREM UnicastIsIsolated == ASSUME SessionGap, SamePages PROVE Spec => UnicastIsolates
<1>1. Init => IInv /\ Aimed  BY InitInv, AimedInit
<1>2. IInv /\ Aimed /\ [Next]_vars => (IInv /\ Aimed)'  BY StepInv, AimedStep
<1>3. ASSUME IInv, Aimed, [Next]_vars, settings # {}, NEW r \in Robots, flash'[r] # flash[r]
      PROVE  r \in listed
  <2>1. down[r] # <<>>
    <3>1. PICK q \in Robots : HandleOtaStart(q) \/ HandleOtaChunk(q)
      BY <1>3 DEF Next, ControllerStep, StartFlash, SendStart, NextStart, EndStart, SendChunk,
                  NextChunk, EndTransfer, ReceiveAnswer, RobotStep, Ignore, Reboot, Launch,
                  ClearRam, robotVars, vars
    <3>2. /\ down[q] # <<>> /\ flash \in [Robots -> [Slots -> Contents]]
          /\ flash' = flash \/ \E c : flash' = [flash EXCEPT ![q] = c]
      <4>1. CASE HandleOtaStart(q)  BY <1>3, <4>1 DEF HandleOtaStart, IInv, Typed
      <4>2. CASE HandleOtaChunk(q)
        <5>1. /\ down[q] # <<>>
              /\ flash' = flash \/ \E i, d : flash' = [flash EXCEPT ![q][i] = d]
          BY <4>2 DEF HandleOtaChunk
        <5>2. flash' = flash \/ \E c : flash' = [flash EXCEPT ![q] = c]
          BY <5>1
        <5> QED  BY <1>3, <5>1, <5>2 DEF IInv, Typed
      <4> QED  BY <3>1, <4>1, <4>2
    <3>3. \A x \in Robots \ {q} : flash'[x] = flash[x]  BY <3>2
    <3> QED  BY <1>3, <3>2, <3>3
  <2> QED  BY <1>3, <2>1 DEF Aimed
<1>4. IInv /\ Aimed /\ [Next]_vars =>
        [settings # {} => \A r \in Robots : flash'[r] # flash[r] => r \in listed]_vars
  BY <1>3
<1> QED  BY <1>1, <1>2, <1>4, PTL DEF Spec, UnicastIsolates

-------------------------------------------------------------------------------
(* Every flash comes to an end: what the controller's thread counts down, whatever *)
(* is lost and whichever flash the packets on the links belong to.  Neither        *)
(* SessionGap nor SamePages is assumed.                                           *)

HostTyped ==
  /\ pc \in {"idle", "start", "transfer"}
  /\ settings \in Settings /\ image \in Images
  /\ listed \subseteq Robots /\ ready \subseteq Robots
  /\ target \in Robots \cup {Broadcast} /\ queue \subseteq Robots
  /\ retries \in 0 .. MaxRetries + 1
  /\ addrs \subseteq Robots /\ missed \subseteq Robots /\ asked \subseteq Robots
  /\ index \in Slots /\ receivers \subseteq Robots /\ success \subseteq Robots
  /\ pc = "transfer" => index \in Indexes(image)
  /\ acked \in [Robots -> SUBSET Slots]
  /\ flashes \in 0 .. MaxFlashes

LinksTyped == down \in [Robots -> Seq(Request)] /\ up \in [Robots -> Seq(Answer)]

RobotsTyped ==
  /\ status \in [Robots -> Statuses]
  /\ chunk_count \in [Robots -> 0 .. NSlots]
  /\ last_chunk_acked \in [Robots -> Slots \cup {-1}]
  /\ ota_require_erase \in [Robots -> BOOLEAN]
  /\ flash \in [Robots -> [Slots -> Images \cup {OldImage, Erased, Garbage}]]

\* A flash for the robots of a user has a robot to send to.
HasTarget ==
  /\ pc = "start" => (settings # {} => listed # {})
  /\ pc = "transfer" => (settings # {} => receivers # {})

HostInv == HostTyped /\ HasTarget

\* A call ends, or the loop over the chunks, the loop over the destinations or the
\* count of the attempts goes one step on.
Advances ==
  \/ pc = "start" /\ pc' # "start"
  \/ pc = "transfer" /\ pc' = "idle"
  \/ /\ pc' = pc /\ image' = image
     /\ \/ index < index' /\ index' < Size[image]
        \/ index' = index /\ queue' \subseteq queue /\ queue' # queue
        \/ /\ index' = index /\ queue' = queue
           /\ retries < retries' /\ retries' <= MaxRetries + 1

\* No answer, robot or reboot takes it back, and no step of the thread is in vain.
FlashAdvances ==
  [][/\ ControllerStep => Advances
     /\ pc # "idle" => Advances \/ UNCHANGED <<pc, image, index, queue, retries>>]_vars

\* Fact about the loops over destinations: the one that is served is not among the
\* others.
LEMMA TurnFacts ==
  ASSUME NEW dests, Turn(dests)
  PROVE  target' \in dests /\ queue' \subseteq dests /\ target' \notin queue'
BY DEF Turn

\* A step of the controller's thread.
LEMMA ControllerAdvances ==
  ASSUME HostInv, ControllerStep
  PROVE  HostInv' /\ Advances
<1> USE DEF HostInv, sessionVars, startVars, transferVars, turnVars
<1>0. /\ MaxRetries \in Nat /\ 0 \in Slots /\ 0 \in 0 .. MaxRetries + 1
      /\ Size[image] \in Nat /\ Size[image] > 0 /\ index \in Nat
      /\ \A s \in Indexes(image) : s \in Nat /\ s < Size[image] /\ s \in Slots
  BY BoundAssumption, SizeAssumption, SizeFacts DEF HostTyped, Slots
<1>1. CASE SendStart
  <2>1. /\ retries' = retries + 1 /\ retries <= MaxRetries
        /\ asked' = asked \cup Destinations(target)
        /\ UNCHANGED <<pc, settings, image, listed, ready, addrs, missed, index, receivers,
                       acked, success, target, queue, flashes>>
    BY <1>1 DEF SendStart, NextTry, MayTry
  <2>2. Destinations(target) \subseteq Robots
    BY DEF Destinations, HostTyped
  <2>3. retries' \in 0 .. MaxRetries + 1 /\ retries < retries' /\ retries' <= MaxRetries + 1
    BY <1>0, <2>1 DEF HostTyped
  <2>4. HostTyped' /\ HasTarget'
    BY <2>1, <2>2, <2>3 DEF HostTyped, HasTarget, Indexes
  <2> QED
    BY <2>1, <2>3, <2>4 DEF Advances
<1>2. CASE NextStart
  <2>1. /\ target' \in queue /\ queue' = queue \ {target'} /\ pc = "start"
        /\ UNCHANGED <<pc, settings, image, listed, ready, addrs, missed, asked, index,
                       receivers, acked, success, retries, flashes>>
    BY <1>2 DEF NextStart, StartDone, Turn
  <2>2. HostTyped' /\ HasTarget'
    BY <2>1 DEF HostTyped, HasTarget
  <2> QED
    BY <2>1, <2>2 DEF Advances
<1>3. CASE EndStart
  <2>1. /\ pc = "start" /\ queue = {} /\ missed' = listed \ addrs /\ retries' = 0
        /\ addrs' = {} /\ UNCHANGED <<settings, image, listed, ready, asked, success, flashes>>
    BY <1>3 DEF EndStart, StartDone
  <2>2. CASE missed' = {}
    <3>1. /\ pc' = "transfer" /\ receivers' = addrs /\ index' = 0
          /\ acked' = [r \in Robots |-> {}]
          /\ target' \in ChunkDestinations(addrs) /\ queue' \subseteq ChunkDestinations(addrs)
          /\ target' \notin queue'
      BY <1>3, <2>2, TurnFacts DEF EndStart
    <3>2. /\ ChunkDestinations(addrs) \subseteq Robots \cup {Broadcast}
          /\ queue' \subseteq Robots
      BY <3>1 DEF ChunkDestinations, HostTyped
    <3>3. settings # {} => addrs # {}
      BY <2>1, <2>2 DEF HasTarget
    <3>4. 0 \in Indexes(image)
      BY <1>0 DEF Indexes
    <3>5. HasTarget'
      BY <2>1, <3>1, <3>3 DEF HasTarget
    <3>6. /\ acked' \in [Robots -> SUBSET Slots] /\ index' \in Slots
          /\ index' \in Indexes(image') /\ retries' \in 0 .. MaxRetries + 1
      BY <1>0, <2>1, <3>1, <3>4 DEF Indexes
    <3>7. HostTyped'
      BY <2>1, <2>2, <3>1, <3>2, <3>6 DEF HostTyped
    <3> QED
      BY <2>1, <3>1, <3>5, <3>7 DEF Advances
  <2>3. CASE missed' # {}
    <3>1. /\ pc' = "idle" /\ target' = Broadcast
          /\ UNCHANGED <<receivers, index, acked, queue>>
      BY <1>3, <2>3 DEF EndStart
    <3>2. HostTyped' /\ HasTarget'
      BY <1>0, <2>1, <3>1 DEF HostTyped, HasTarget
    <3> QED
      BY <2>1, <3>1, <3>2 DEF Advances
  <2> QED
    BY <2>2, <2>3
<1>4. CASE SendChunk
  <2>1. /\ retries' = retries + 1 /\ retries <= MaxRetries
        /\ UNCHANGED <<pc, settings, image, listed, ready, addrs, missed, asked, index,
                       receivers, acked, success, target, queue, flashes>>
    BY <1>4 DEF SendChunk, NextTry, MayTry
  <2>2. retries' \in 0 .. MaxRetries + 1 /\ retries < retries' /\ retries' <= MaxRetries + 1
    BY <1>0, <2>1 DEF HostTyped
  <2>3. HostTyped' /\ HasTarget'
    BY <2>1, <2>2 DEF HostTyped, HasTarget, Indexes
  <2> QED
    BY <2>1, <2>2, <2>3 DEF Advances
<1>5. CASE NextChunk
  <2>1. /\ retries' = 0 /\ pc = "transfer"
        /\ UNCHANGED <<pc, settings, image, listed, ready, addrs, missed, asked, receivers,
                       acked, success, flashes>>
    BY <1>5 DEF NextChunk, ChunkDone
  <2>2. CASE queue # {}
    <3>1. target' \in queue /\ queue' = queue \ {target'} /\ index' = index
      BY <1>5, <2>2 DEF NextChunk, Turn
    <3>2. HostTyped' /\ HasTarget'
      BY <1>0, <2>1, <3>1 DEF HostTyped, HasTarget, Indexes
    <3> QED
      BY <2>1, <3>1, <3>2 DEF Advances
  <2>3. CASE queue = {}
    <3>1. /\ index + 1 \in Indexes(image) /\ index' = index + 1
          /\ target' \in ChunkDestinations(receivers)
          /\ queue' \subseteq ChunkDestinations(receivers) /\ target' \notin queue'
      BY <1>5, <2>3, TurnFacts DEF NextChunk
    <3>2. /\ ChunkDestinations(receivers) \subseteq Robots \cup {Broadcast}
          /\ queue' \subseteq Robots
      BY <3>1 DEF ChunkDestinations, HostTyped
    <3>3. index' \in Slots /\ index' \in Indexes(image') /\ index < index' /\ index' < Size[image]
      BY <1>0, <2>1, <3>1 DEF Indexes
    <3>4. HostTyped' /\ HasTarget'
      BY <1>0, <2>1, <3>1, <3>2, <3>3 DEF HostTyped, HasTarget
    <3> QED
      BY <2>1, <3>3, <3>4 DEF Advances
  <2> QED
    BY <2>2, <2>3
<1>6. CASE EndTransfer
  <2>1. /\ pc = "transfer" /\ pc' = "idle" /\ success' \subseteq receivers
        /\ acked' = [r \in Robots |-> {}] /\ receivers' = {} /\ target' = Broadcast
        /\ index' = 0 /\ retries' = 0
        /\ UNCHANGED <<settings, image, listed, ready, addrs, missed, asked, queue, flashes>>
    BY <1>6 DEF EndTransfer, ChunkDone
  <2>2. acked' \in [Robots -> SUBSET Slots] /\ success' \subseteq Robots
    BY <2>1 DEF HostTyped
  <2>3. HostTyped' /\ HasTarget'
    BY <1>0, <2>1, <2>2 DEF HostTyped, HasTarget
  <2> QED
    BY <2>1, <2>3 DEF Advances
<1> QED
  BY <1>1, <1>2, <1>3, <1>4, <1>5, <1>6 DEF ControllerStep

\* A flash begins, or an answer comes in: neither takes back what was counted.
LEMMA OthersWait ==
  ASSUME HostInv, [Next]_vars, ~ControllerStep
  PROVE  HostInv' /\ (pc # "idle" => UNCHANGED <<pc, image, index, queue, retries>>)
<1> USE DEF HostInv
<1>1. ASSUME NEW i \in Images, NEW devs \in Targets, NEW view \in SUBSET Robots,
             StartFlash(i, devs, view)
      PROVE  HostInv' /\ pc = "idle"
  <2>1. /\ pc = "idle" /\ pc' = "start" /\ flashes < MaxFlashes /\ flashes' = flashes + 1
        /\ image' = i /\ listed' = (IF devs = {} THEN settings ELSE devs)
        /\ ready' = (IF listed' = {} THEN view ELSE {})
        /\ retries' = 0 /\ addrs' = {} /\ missed' = {} /\ asked' = {} /\ success' = {}
        /\ UNCHANGED <<settings, index, receivers, acked>>
    BY <1>1 DEF StartFlash
  <2>2. settings \subseteq Robots /\ devs \subseteq Robots
    BY TargetAssumption DEF HostTyped
  <2>3. target' \in Robots \cup {Broadcast} /\ queue' \subseteq Robots
    <3>1. Turn(IF listed' = {} THEN {Broadcast} ELSE listed')
      BY <1>1 DEF StartFlash
    <3>2. /\ target' \in (IF listed' = {} THEN {Broadcast} ELSE listed')
          /\ queue' \subseteq (IF listed' = {} THEN {Broadcast} ELSE listed')
          /\ target' \notin queue'
      BY <3>1, TurnFacts
    <3> QED
      BY <2>1, <2>2, <3>2
  <2>4. flashes' \in 0 .. MaxFlashes /\ retries' \in 0 .. MaxRetries + 1
    BY <2>1, BoundAssumption DEF HostTyped
  <2>5. HostTyped'
    BY <2>1, <2>2, <2>3, <2>4 DEF HostTyped
  <2>6. HasTarget'
    BY <2>1 DEF HasTarget
  <2> QED
    BY <2>1, <2>5, <2>6
<1>2. ASSUME NEW r \in Robots, ReceiveAnswer(r)
      PROVE  HostInv' /\ UNCHANGED <<pc, image, index, queue, retries>>
  <2>1. /\ addrs' \in {addrs, addrs \cup {r}}
        /\ \/ acked' = acked
           \/ \E a \in Indexes(image) : acked' = [acked EXCEPT ![r] = @ \cup {a}]
        /\ UNCHANGED <<pc, settings, image, listed, ready, target, queue, retries, missed,
                       asked, index, receivers, success, flashes>>
    BY <1>2 DEF ReceiveAnswer, sessionVars, turnVars
  <2>2. \A a \in Indexes(image) : a \in Slots
    BY SizeFacts DEF HostTyped
  <2>3. acked' \in [Robots -> SUBSET Slots]
    BY <2>1, <2>2 DEF HostTyped
  <2>4. HostTyped' /\ HasTarget'
    BY <2>1, <2>3 DEF HostTyped, HasTarget, Indexes
  <2> QED
    BY <2>1, <2>4
<1>3. ASSUME UNCHANGED hostVars
      PROVE  HostInv' /\ UNCHANGED <<pc, image, index, queue, retries>>
  <2>1. UNCHANGED <<pc, settings, image, listed, ready, target, queue, retries, addrs,
                    missed, asked, index, receivers, acked, success, flashes>>
    BY <1>3 DEF hostVars, sessionVars, startVars, transferVars, turnVars
  <2>2. HostTyped' /\ HasTarget'
    BY <2>1 DEF HostTyped, HasTarget, Indexes
  <2> QED
    BY <2>1, <2>2
<1>4. ASSUME NEW r \in Robots, RobotStep(r) PROVE UNCHANGED hostVars
  BY <1>4 DEF RobotStep, HandleOtaStart, HandleOtaChunk, Ignore, Reboot, Launch, ClearRam
<1>5. CASE UNCHANGED vars
  BY <1>3, <1>5 DEF vars
<1> QED
  BY <1>1, <1>2, <1>3, <1>4, <1>5 DEF Next

LEMMA HostInit == Init => HostInv
<1> SUFFICES ASSUME Init PROVE HostInv
  OBVIOUS
<1>1. 0 \in Slots /\ 0 \in 0 .. MaxRetries + 1 /\ 0 \in 0 .. MaxFlashes
  BY SizeAssumption, BoundAssumption DEF Slots
<1> QED
  BY <1>1 DEF Init, HostInv, HostTyped, HasTarget

\* What is safety in "a flash always comes to an end" (FlashEnds): each step of the
\* thread ends a call or brings its end nearer, in an order with no infinite descent when
\* the robots are finitely many, and no answer, reboot or late packet takes it back
\* (start_ota() and transfer(), controller.py).
THEOREM FlashesAdvance == Spec => FlashAdvances
<1>1. HostInv /\ [Next]_vars => HostInv'
  BY ControllerAdvances, OthersWait
<1>2. HostInv /\ [Next]_vars =>
        [/\ ControllerStep => Advances
         /\ pc # "idle" => Advances \/ UNCHANGED <<pc, image, index, queue, retries>>]_vars
  BY ControllerAdvances, OthersWait
<1> QED
  BY <1>1, <1>2, HostInit, PTL DEF Spec, FlashAdvances

\* When the settings name robots, a flash that is under way is for some: no transfer
\* starts for nobody, so the thread always has a packet to send or a loop to end.
THEOREM FlashesHaveATarget == Spec => []HasTarget
<1>1. HostInv /\ [Next]_vars => HostInv'
  BY ControllerAdvances, OthersWait
<1>2. HostInv => HasTarget
  BY DEF HostInv
<1> QED
  BY <1>1, <1>2, HostInit, PTL DEF Spec

-------------------------------------------------------------------------------
(* The type of the links and of the robots *)

\* Fact about the packets of the controller: they are requests.
LEMMA TransmitTyped ==
  ASSUME LinksTyped, NEW m \in Request, Transmit(m)
  PROVE  down' \in [Robots -> Seq(Request)]
<1>1. \A r \in Robots : down[r] \in Seq(Request) /\ Send(down[r], m) \in Seq(Request)
  BY SendFacts DEF LinksTyped
<1> QED
  BY <1>1 DEF Transmit

LEMMA LinksStep == HostTyped /\ LinksTyped /\ RobotsTyped /\ [Next]_vars => LinksTyped'
<1> SUFFICES ASSUME HostTyped, LinksTyped, RobotsTyped, [Next]_vars PROVE LinksTyped'
  OBVIOUS
<1>1. CASE SendStart
  <2> DEFINE m == [type |-> "OTA_START", count |-> Size[image], index |-> 0, data |-> image]
  <2>1. Size[image] \in 0 .. NSlots /\ 0 \in Slots /\ image \in Images
    BY SizesAssumption, SizeAssumption DEF HostTyped, Slots
  <2>2. m \in Request
    BY <2>1 DEF Request
  <2>3. Transmit(m) /\ up' = up
    BY <1>1 DEF SendStart
  <2> HIDE DEF m
  <2> QED
    BY <2>2, <2>3, TransmitTyped DEF LinksTyped
<1>2. CASE SendChunk
  <2> DEFINE m == [type |-> "OTA_CHUNK", count |-> 0, index |-> index, data |-> image]
  <2>1. 0 \in 0 .. NSlots /\ index \in Slots /\ image \in Images
    BY SizeAssumption DEF HostTyped
  <2>2. m \in Request
    BY <2>1 DEF Request
  <2>3. Transmit(m) /\ up' = up
    BY <1>2 DEF SendChunk
  <2> HIDE DEF m
  <2> QED
    BY <2>2, <2>3, TransmitTyped DEF LinksTyped
<1>3. ASSUME NEW r \in Robots, ReceiveAnswer(r) PROVE LinksTyped'
  <2>1. up[r] # <<>> /\ up' = [up EXCEPT ![r] = Tail(@)] /\ down' = down
    BY <1>3 DEF ReceiveAnswer
  <2>2. up[r] \in Seq(Answer) /\ up \in [Robots -> Seq(Answer)]
    BY DEF LinksTyped
  <2>3. Tail(up[r]) \in Seq(Answer)
    BY <2>1, <2>2, TailFacts
  <2> QED
    BY <2>1, <2>2, <2>3 DEF LinksTyped
<1>4. ASSUME NEW r \in Robots, down[r] # <<>>, down' = [down EXCEPT ![r] = Tail(@)],
             up' = up \/ \E a \in Answer : up' = [up EXCEPT ![r] = Send(@, a)]
      PROVE  LinksTyped'
  <2>1. /\ down[r] \in Seq(Request) /\ down \in [Robots -> Seq(Request)]
        /\ up[r] \in Seq(Answer) /\ up \in [Robots -> Seq(Answer)]
    BY DEF LinksTyped
  <2>2. Tail(down[r]) \in Seq(Request) /\ \A a \in Answer : Send(up[r], a) \in Seq(Answer)
    BY <1>4, <2>1, TailFacts, SendFacts
  <2> QED
    BY <1>4, <2>1, <2>2 DEF LinksTyped
<1>5. ASSUME NEW r \in Robots, HandleOtaStart(r) PROVE LinksTyped'
  <2>1. [type |-> "START_ACK", index |-> 0] \in Answer
    BY SizeAssumption DEF Answer, Slots
  <2> QED
    BY <1>4, <1>5, <2>1 DEF HandleOtaStart, Answers
<1>6. ASSUME NEW r \in Robots, HandleOtaChunk(r) PROVE LinksTyped'
  <2>1. down[r] # <<>> /\ down[r] \in Seq(Request)
    BY <1>6 DEF HandleOtaChunk, LinksTyped
  <2>2. Head(down[r]).index \in Slots
    <3>1. Head(down[r]) \in Request
      BY <2>1, TailFacts
    <3> QED
      BY <3>1 DEF Request
  <2>3. [type |-> "CHUNK_ACK", index |-> Head(down[r]).index] \in Answer
    BY <2>2 DEF Answer
  <2> QED
    BY <1>4, <1>6, <2>3 DEF HandleOtaChunk, Answers
<1>7. ASSUME NEW r \in Robots, Ignore(r) PROVE LinksTyped'
  BY <1>4, <1>7 DEF Ignore
<1>8. CASE UNCHANGED <<down, up>>
  BY <1>8 DEF LinksTyped
<1> QED
  BY <1>1, <1>2, <1>3, <1>5, <1>6, <1>7, <1>8
     DEF Next, ControllerStep, StartFlash, NextStart, EndStart, NextChunk, EndTransfer,
         RobotStep, Reboot, Launch, ClearRam, vars

LEMMA RobotsStep == LinksTyped /\ RobotsTyped /\ [Next]_vars => RobotsTyped'
<1> SUFFICES ASSUME LinksTyped, RobotsTyped, [Next]_vars PROVE RobotsTyped'
  OBVIOUS
<1>0. ASSUME NEW r \in Robots, down[r] # <<>>
      PROVE  Head(down[r]).count \in 0 .. NSlots /\ Head(down[r]).index \in Slots
             /\ Head(down[r]).data \in Images
  <2>1. down[r] \in Seq(Request)
    BY DEF LinksTyped
  <2>2. Head(down[r]) \in Request
    BY <1>0, <2>1, TailFacts
  <2> QED
    BY <2>2 DEF Request
<1>1. ASSUME NEW r \in Robots, HandleOtaStart(r) PROVE RobotsTyped'
  <2> DEFINE n == Head(down[r]).count
  <2>1. /\ status' = [status EXCEPT ![r] = "Programming"]
        /\ last_chunk_acked' = [last_chunk_acked EXCEPT ![r] = -1]
        /\ chunk_count' = [chunk_count EXCEPT ![r] = n]
        /\ flash' = flash \/ flash' = [flash EXCEPT ![r] = ErasePages(@, PageCount(n))]
        /\ ota_require_erase' = [ota_require_erase EXCEPT ![r] = FALSE]
    BY <1>1 DEF HandleOtaStart, NoneAcked
  <2>2. n \in 0 .. NSlots
    BY <1>0, <1>1 DEF HandleOtaStart
  <2>3. flash' \in [Robots -> [Slots -> Images \cup {OldImage, Erased, Garbage}]]
    <3>1. ErasePages(flash[r], PageCount(n)) \in [Slots -> Images \cup {OldImage, Erased, Garbage}]
      BY DEF ErasePages, RobotsTyped
    <3> QED
      BY <2>1, <3>1 DEF RobotsTyped
  <2> HIDE DEF n
  <2> QED
    BY <2>1, <2>2, <2>3 DEF RobotsTyped, Statuses
<1>2. ASSUME NEW r \in Robots, HandleOtaChunk(r) PROVE RobotsTyped'
  <2> DEFINE i == Head(down[r]).index
             d == Head(down[r]).data
  <2>1. i \in Slots /\ d \in Images
    BY <1>0, <1>2 DEF HandleOtaChunk
  <2>2. /\ status' \in {status, [status EXCEPT ![r] = "Ready"]}
        /\ last_chunk_acked' = [last_chunk_acked EXCEPT ![r] = i]
        /\ chunk_count' = chunk_count
        /\ flash' = flash \/ flash' = [flash EXCEPT ![r][i] = Programmed(@, d)]
        /\ \E b \in BOOLEAN : ota_require_erase' = [ota_require_erase EXCEPT ![r] = b]
    BY <1>2 DEF HandleOtaChunk, RobotsTyped
  <2>3. flash' \in [Robots -> [Slots -> Images \cup {OldImage, Erased, Garbage}]]
    <3>1. Programmed(flash[r][i], d) \in Images \cup {OldImage, Erased, Garbage}
      BY <2>1 DEF Programmed
    <3> HIDE DEF i, d
    <3> QED
      BY <2>1, <2>2, <3>1 DEF RobotsTyped
  <2> HIDE DEF i, d
  <2> QED
    BY <2>1, <2>2, <2>3 DEF RobotsTyped, Statuses
<1>3. ASSUME NEW r \in Robots, Reboot(r) \/ Launch(r) PROVE RobotsTyped'
  <2>1. 0 \in Slots /\ 0 \in 0 .. NSlots
    BY SizeAssumption DEF Slots
  <2>2. /\ status' \in {[status EXCEPT ![r] = "Ready"], [status EXCEPT ![r] = "Running"]}
        /\ \E b \in BOOLEAN : ota_require_erase' = [ota_require_erase EXCEPT ![r] = b]
        /\ chunk_count' = [chunk_count EXCEPT ![r] = 0]
        /\ last_chunk_acked' = [last_chunk_acked EXCEPT ![r] = 0] /\ flash' = flash
    BY <1>3 DEF Reboot, Launch, ClearRam
  <2>3. status' \in [Robots -> Statuses] /\ ota_require_erase' \in [Robots -> BOOLEAN]
    BY <2>2 DEF RobotsTyped, Statuses
  <2> QED
    BY <2>1, <2>2, <2>3 DEF RobotsTyped
<1>4. CASE UNCHANGED robotVars
  BY <1>4 DEF robotVars, RobotsTyped
<1> QED
  BY <1>1, <1>2, <1>3, <1>4
     DEF Next, ControllerStep, StartFlash, SendStart, NextStart, EndStart, SendChunk,
         NextChunk, EndTransfer, ReceiveAnswer, RobotStep, Ignore, vars

\* Every variable keeps its type, also when packets of an earlier flash are still on the
\* links: an attempt is never counted past the limit, an index never past the image.
THEOREM TypeCorrect == Spec => []TypeOK
<1> DEFINE Typing == HostInv /\ LinksTyped /\ RobotsTyped
<1>1. Init => Typing
  <2>1. Init => LinksTyped
    BY DEF Init, LinksTyped
  <2>2. Init => RobotsTyped
    BY SizeAssumption DEF Init, RobotsTyped, Statuses, Slots
  <2> QED
    BY <2>1, <2>2, HostInit
<1>2. Typing /\ [Next]_vars => Typing'
  BY ControllerAdvances, OthersWait, LinksStep, RobotsStep DEF HostInv
<1>3. Typing => TypeOK
  BY DEF HostInv, HostTyped, LinksTyped, RobotsTyped, TypeOK
<1> QED
  BY <1>1, <1>2, <1>3, PTL DEF Spec
===============================================================================
