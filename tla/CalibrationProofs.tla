--------------------------- MODULE CalibrationProofs ---------------------------
(* The matrices, the network and the positions of a robot for every number of  *)
(* slots, copies, uploads and power losses, and whatever is lost, repeated,    *)
(* torn, reset or measured.                                                    *)
EXTENDS Localization, TLAPS

Page == [magic : BOOLEAN, has_net_id : BOOLEAN, net_id : {NetId, NoNetId}, count : Int,
         homographies : [Indexes -> Int]]
Request == [upload : Nat \ {0}, index : Indexes, count : Counts]

Typed ==
  /\ upload \in Nat \ {0} /\ index \in Indexes /\ count \in Counts
  /\ flash \in Page /\ config \in Page
  /\ written \in Nat
  /\ req \in Request \cup {NoPacket}

\* The newest upload that can be in a page: that of the packet still to be
\* handled, or else the host's.
Newest == IF req = NoPacket THEN upload ELSE req.upload

\* Nothing in a page is newer, and nothing is older than its matrix 0.
Bounded(c) == \A i \in Indexes : c.homographies[i] <= Newest
Ordered(c) ==
  c.homographies[0] > 0 =>
    \A i \in Indexes : c.homographies[i] > 0 => c.homographies[i] >= c.homographies[0]

\* What OneSession says of a page that a commit completed.
Last(c) == c.homographies[c.count - 1]
Whole(c) ==
  c.count \in Counts /\ Last(c) > 0 /\ c.homographies[0] = Last(c) =>
    \A i \in Indexes : c.homographies[i] > 0 /\ i < c.count => c.homographies[i] = Last(c)

\* What is in flash is the configuration being committed, as far as it got.
HeaderLength == 4
Prefix ==
  netPc = "write" =>
    /\ flash.count = IF written < HeaderLength THEN Slots + 1 ELSE config.count
    /\ \A i \in Indexes :
         flash.homographies[i] = IF written <= HeaderLength + i THEN Erased
                                 ELSE config.homographies[i]

IInv ==
  /\ Typed
  /\ req = NoPacket \/ req.upload <= upload
  /\ Bounded(flash) /\ Bounded(config)
  /\ Ordered(flash) /\ Ordered(config)
  /\ Whole(flash)
  /\ netPc \in {"erase", "write"} => Whole(config)
  /\ Prefix

\* Fact about the slots: there is a first one.
LEMMA SlotFacts ==
  /\ Slots \in Nat /\ Slots > 0 /\ 0 \in Indexes
  /\ \A i \in Indexes : i \in Nat /\ i < Slots
  /\ \A n \in Counts : n \in Nat /\ n > 0 /\ n <= Slots /\ n - 1 \in Indexes
  /\ Slots + 1 \notin Counts
BY CalibrationAssumption DEF Indexes, Counts

\* Fact about an erased page: it has no matrices.
LEMMA VirginFacts ==
  /\ Virgin \in Page /\ Virgin.count = Slots + 1
  /\ \A i \in Indexes : Virgin.homographies[i] = Erased
BY SlotFacts DEF Virgin, Page, Erased

\* Fact about dotbot-provision: its pages satisfy the invariant.
LEMMA ProvisionedFacts ==
  ASSUME NEW n \in {0, Slots}
  PROVE  /\ Provisioned(n) \in Page
         /\ \A i \in Indexes : Provisioned(n).homographies[i] \in {Zero, Baked}
BY SlotFacts DEF Provisioned, Page, Zero, Baked

\* The first state: every matrix there is is Baked.
LEMMA InitInv == CalInit => IInv
<1> SUFFICES ASSUME CalInit PROVE IInv  OBVIOUS
<1>1. /\ upload = 1 /\ req = NoPacket /\ netPc = "off" /\ config = Virgin
      /\ index = 0 /\ count = 1 /\ written = 0
  BY DEF CalInit, Baked
<1>2. /\ flash \in Page
      /\ \A i \in Indexes : flash.homographies[i] \in {Erased, Zero, Baked}
  <2>1. CASE flash = Virgin  BY <2>1, VirginFacts
  <2>2. CASE \E n \in {0, Slots} : flash = Provisioned(n)  BY <2>2, ProvisionedFacts
  <2> QED  BY <2>1, <2>2 DEF CalInit
<1>3. config \in Page /\ \A i \in Indexes : config.homographies[i] = Erased
  BY <1>1, VirginFacts
<1>4. Typed  BY <1>1, <1>2, <1>3, SlotFacts DEF Typed, Counts
<1>5. Bounded(flash) /\ Bounded(config)
  BY <1>1, <1>2, <1>3 DEF Bounded, Newest, Erased, Zero, Baked
<1>6. Ordered(flash) /\ Ordered(config)
  BY <1>2, <1>3, SlotFacts DEF Ordered, Erased, Zero, Baked
<1>7. Whole(flash)
  <2>1. ASSUME flash.count \in Counts, Last(flash) > 0, flash.homographies[0] = Last(flash),
               NEW i \in Indexes, flash.homographies[i] > 0
        PROVE  flash.homographies[i] = Last(flash)
    <3>1. flash.homographies[i] = Baked  BY <1>2, <2>1 DEF Erased, Zero, Baked
    <3>2. Last(flash) = Baked  BY <1>2, <2>1, SlotFacts DEF Last, Erased, Zero, Baked
    <3> QED  BY <3>1, <3>2
  <2> QED  BY <2>1 DEF Whole
<1> QED  BY <1>1, <1>4, <1>5, <1>6, <1>7 DEF IInv, Prefix

\* Steps that touch neither a page nor a packet.
LEMMA Quiet ==
  ASSUME IInv, UNCHANGED <<hostVars, flash, config, req>>, written' \in Nat,
         netPc' \in {"erase", "write"} => netPc' = netPc /\ written' = written
  PROVE  IInv'
<1>1. Typed'  BY DEF IInv, Typed, hostVars
<1>2. Newest' = Newest  BY DEF Newest, hostVars
<1>3. Bounded(flash)' /\ Bounded(config)'  BY <1>2 DEF IInv, Bounded
<1>4. Ordered(flash)' /\ Ordered(config)'  BY DEF IInv, Ordered
<1>5. Whole(flash)'  BY DEF IInv, Whole, Last
<1>6. netPc' \in {"erase", "write"} => Whole(config)'  BY DEF IInv, Whole, Last
<1>7. Prefix'  BY DEF IInv, Prefix
<1> QED  BY <1>1, <1>3, <1>4, <1>5, <1>6, <1>7 DEF IInv, hostVars

\* The host moves on: what is newest only grows.
LEMMA HostInv == IInv /\ (Upload \/ Transmit) => IInv'
<1> SUFFICES ASSUME IInv, Upload \/ Transmit PROVE IInv'  OBVIOUS
<1>1. UNCHANGED <<flash, config, netPc, written>>
  BY DEF Upload, Transmit, netVars
<1>2. /\ upload' \in Nat \ {0} /\ index' \in Indexes /\ count' \in Counts
      /\ req' \in Request \cup {NoPacket}
      /\ req' = NoPacket \/ req'.upload <= upload'
      /\ Newest' >= Newest
  <2>1. CASE Upload
    <3>1. upload' = upload + 1 /\ index' = 0 /\ count' \in Counts /\ req' = req
      BY <2>1 DEF Upload, netVars
    <3> QED  BY <3>1, SlotFacts DEF IInv, Typed, Newest, Request
  <2>2. CASE Transmit
    <3>1. /\ upload' = upload /\ count' = count /\ req = NoPacket
          /\ req' = NoPacket \/ req' = [upload |-> upload, index |-> index, count |-> count]
          /\ index' = index \/ (index < count - 1 /\ index' = index + 1)
      BY <2>2 DEF Transmit
    <3>2. index' \in Indexes  BY <3>1, CalibrationAssumption DEF IInv, Typed, Indexes, Counts
    <3>3. req' \in Request \cup {NoPacket}  BY <3>1 DEF IInv, Typed, Request
    <3>4. Newest = upload /\ Newest' = upload
      BY <3>1 DEF Newest, NoPacket
    <3>5. req' = NoPacket \/ req'.upload <= upload'
      BY <3>1 DEF IInv, Typed
    <3> QED  BY <3>1, <3>2, <3>3, <3>4, <3>5 DEF IInv, Typed
  <2> QED  BY <2>1, <2>2
<1>3. Typed'  BY <1>1, <1>2 DEF IInv, Typed
<1>4. Newest \in Int /\ Newest' \in Int
  BY <1>2, <1>3 DEF IInv, Typed, Newest, Request
<1>5. Bounded(flash)' /\ Bounded(config)'
  <2>1. ASSUME NEW i \in Indexes
        PROVE  flash'.homographies[i] <= Newest' /\ config'.homographies[i] <= Newest'
    BY <1>1, <1>2, <1>4 DEF IInv, Bounded, Typed, Page
  <2> QED  BY <2>1 DEF Bounded
<1>6. Ordered(flash)' /\ Ordered(config)'  BY <1>1 DEF IInv, Ordered
<1>7. Whole(flash)' /\ (netPc' \in {"erase", "write"} => Whole(config)')
  BY <1>1 DEF IInv, Whole, Last
<1>8. Prefix'  BY <1>1 DEF IInv, Prefix
<1> QED  BY <1>2, <1>3, <1>5, <1>6, <1>7, <1>8 DEF IInv

\* What a packet does to a page: its own slot, and after index 0 zeroes elsewhere.
LEMMA ReceivedFacts ==
  ASSUME NEW c \in Page, NEW p \in Request
  PROVE  /\ Received(c, p) \in Page
         /\ Received(c, p).count = p.count
         /\ \A i \in Indexes :
              Received(c, p).homographies[i] =
                IF i = p.index THEN p.upload
                ELSE IF p.index = 0 THEN Zero ELSE c.homographies[i]
<1> DEFINE h == [i \in Indexes |-> IF i = p.index THEN p.upload
                                   ELSE IF p.index = 0 THEN Zero ELSE c.homographies[i]]
<1>1. Received(c, p) = [c EXCEPT !.count = p.count, !.homographies = h]
  BY DEF Received
<1>2. h \in [Indexes -> Int]  BY DEF Request, Zero, Page
<1>3. p.count \in Int  BY SlotFacts DEF Request
<1>5. \A i \in Indexes :
        h[i] = IF i = p.index THEN p.upload
               ELSE IF p.index = 0 THEN Zero ELSE c.homographies[i]
  OBVIOUS
<1> HIDE DEF h
<1>4. /\ Received(c, p) \in Page
      /\ Received(c, p).count = p.count /\ Received(c, p).homographies = h
  BY <1>1, <1>2, <1>3 DEF Page
<1> QED  BY <1>4, <1>5

\* A packet: its matrix is the newest of the page, so a last index closes a
\* page whose matrix 0 is as new only if everything in it is.
LEMMA ReceiveInv == IInv /\ HandleCalibration => IInv'
<1> SUFFICES ASSUME IInv, HandleCalibration PROVE IInv'  OBVIOUS
<1>1. /\ netPc = "loop" /\ req \in Request /\ req' = NoPacket /\ req.upload <= upload
      /\ UNCHANGED <<upload, index, count, flash, written>>
  BY DEF HandleCalibration, hostVars, IInv, Typed
<1>2. /\ Newest = req.upload /\ Newest' = upload /\ upload \in Int
      /\ req.upload \in Int /\ req.upload > 0 /\ req.index \in Indexes /\ req.count \in Counts
  BY <1>1 DEF Newest, Request, IInv, Typed, HandleCalibration
<1>3. \/ config' = config /\ netPc' = "loop"
      \/ /\ config' = Received(config, req)
         /\ netPc' = IF req.index = req.count - 1 THEN "erase" ELSE "loop"
  BY <1>1 DEF HandleCalibration
<1> DEFINE new == Received(config, req)
<1>4. /\ new \in Page /\ new.count = req.count
      /\ \A i \in Indexes :
           new.homographies[i] = IF i = req.index THEN req.upload
                                 ELSE IF req.index = 0 THEN Zero ELSE config.homographies[i]
  BY <1>1, ReceivedFacts DEF IInv, Typed
<1> HIDE DEF new
<1>5. config \in Page /\ flash \in Page /\ \A i \in Indexes :
        /\ config.homographies[i] \in Int /\ config.homographies[i] <= req.upload
        /\ flash.homographies[i] \in Int /\ flash.homographies[i] <= req.upload
  BY <1>2 DEF IInv, Typed, Page, Bounded
<1>6. \A i \in Indexes : new.homographies[i] \in Int /\ new.homographies[i] <= req.upload
  BY <1>2, <1>4, <1>5 DEF Zero
<1>7. config.homographies[0] > 0 =>
        \A i \in Indexes :
          config.homographies[i] > 0 => config.homographies[i] >= config.homographies[0]
  BY DEF IInv, Ordered
<1>8. new.homographies[0] > 0 =>
        \A i \in Indexes :
          new.homographies[i] > 0 => new.homographies[i] >= new.homographies[0]
  <2>1. CASE req.index = 0
    <3>1. \A i \in Indexes : i # 0 => new.homographies[i] = 0  BY <2>1, <1>4 DEF Zero
    <3> QED  BY <3>1, <1>6, SlotFacts
  <2>2. CASE req.index # 0
    <3>1. new.homographies[0] = config.homographies[0]  BY <2>2, <1>4, SlotFacts
    <3>2. \A i \in Indexes : new.homographies[i] \in {req.upload, config.homographies[i]}
      BY <2>2, <1>4
    <3> QED  BY <3>1, <3>2, <1>2, <1>5, <1>7, SlotFacts
  <2> QED  BY <2>1, <2>2
<1>9. ASSUME req.index = req.count - 1  PROVE Whole(new)
  <2>1. /\ new.count - 1 = req.index /\ Last(new) = req.upload
    BY <1>2, <1>4, <1>9, SlotFacts DEF Last
  <2>2. ASSUME new.homographies[0] = Last(new), NEW i \in Indexes, new.homographies[i] > 0
        PROVE  new.homographies[i] = Last(new)
    <3>1. new.homographies[i] >= new.homographies[0]
      BY <1>2, <1>8, <2>1, <2>2
    <3> QED  BY <3>1, <1>2, <1>6, <2>1, <2>2
  <2> QED  BY <2>2 DEF Whole
<1>10. Typed'  BY <1>1, <1>3, <1>4 DEF new, IInv, Typed
<1>11. Bounded(flash)' /\ Bounded(config)'
  <2>1. \A i \in Indexes : flash'.homographies[i] <= Newest'
    BY <1>1, <1>2, <1>5
  <2>2. \A i \in Indexes : config'.homographies[i] <= Newest'
    BY <1>1, <1>2, <1>3, <1>5, <1>6 DEF new
  <2> QED  BY <2>1, <2>2 DEF Bounded
<1>12. Ordered(flash)' /\ Ordered(config)'
  BY <1>1, <1>3, <1>7, <1>8 DEF new, IInv, Ordered
<1>13. Whole(flash)'  BY <1>1 DEF IInv, Whole, Last
<1>14. netPc' \in {"erase", "write"} => Whole(config)'
  <2>1. netPc' \in {"erase", "write"} => config' = new /\ req.index = req.count - 1
    BY <1>3 DEF new
  <2> QED  BY <2>1, <1>9 DEF Whole, Last
<1>15. Prefix'  BY <1>3 DEF Prefix
<1> QED  BY <1>1, <1>10, <1>11, <1>12, <1>13, <1>14, <1>15 DEF IInv

\* The first four steps of the write, field by field.
LEMMA HeaderWrite ==
  ASSUME WriteConfig, written \in Nat, written < 4
  PROVE  \/ written = 0 /\ flash' = [flash EXCEPT !.magic = config.magic]
         \/ written = 1 /\ flash' = [flash EXCEPT !.has_net_id = config.has_net_id]
         \/ written = 2 /\ flash' = [flash EXCEPT !.net_id = config.net_id]
         \/ written = 3 /\ flash' = [flash EXCEPT !.count = config.count]
<1>1. Len(Header) = 4  BY DEF Header
<1>2. flash' = [flash EXCEPT ![Header[written + 1]] = config[Header[written + 1]]]
  BY <1>1 DEF WriteConfig
<1>3. CASE written = 0
  <2>1. Header[written + 1] = "magic"  BY <1>3 DEF Header
  <2> QED  BY <1>2, <1>3, <2>1
<1>4. CASE written = 1
  <2>1. Header[written + 1] = "has_net_id"  BY <1>4 DEF Header
  <2> QED  BY <1>2, <1>4, <2>1
<1>5. CASE written = 2
  <2>1. Header[written + 1] = "net_id"  BY <1>5 DEF Header
  <2> QED  BY <1>2, <1>5, <2>1
<1>6. CASE written = 3
  <2>1. Header[written + 1] = "count"  BY <1>6 DEF Header
  <2> QED  BY <1>2, <1>6, <2>1
<1> QED  BY <1>3, <1>4, <1>5, <1>6

\* The commit: the page is erased and takes over the configuration field by field.
LEMMA CommitInv == IInv /\ (EraseConfig \/ WriteConfig) => IInv'
<1> SUFFICES ASSUME IInv, EraseConfig \/ WriteConfig PROVE IInv'  OBVIOUS
<1>1. UNCHANGED <<upload, index, count, req>> /\ netPc' = "write"
  BY DEF EraseConfig, WriteConfig, hostVars
<1>2. /\ Newest' = Newest /\ Newest \in Int /\ Newest > 0
      /\ config \in Page /\ flash \in Page /\ Whole(config)
  BY <1>1 DEF Newest, IInv, Typed, Request, EraseConfig, WriteConfig
<1>3. \A i \in Indexes :
        /\ config.homographies[i] \in Int /\ config.homographies[i] <= Newest
        /\ flash.homographies[i] \in Int
  BY <1>2 DEF IInv, Page, Bounded
<1>4. /\ config' \in Page /\ flash' \in Page /\ written' \in Nat
      /\ config'.homographies = config.homographies /\ config'.count = config.count
      /\ Prefix'
  <2>1. CASE EraseConfig
    <3>1. /\ written' = 0 /\ flash' = Virgin
          /\ config' = [config EXCEPT !.magic = TRUE]
      BY <2>1 DEF EraseConfig, Stamped
    <3>2. /\ config' \in Page /\ config'.homographies = config.homographies
          /\ config'.count = config.count
      BY <3>1, <1>2 DEF Page
    <3>3. Prefix'
      BY <3>1, VirginFacts, SlotFacts DEF Prefix, HeaderLength
    <3> QED  BY <3>1, <3>2, <3>3, VirginFacts
  <2>2. CASE WriteConfig
    <3>1. /\ netPc = "write" /\ written' = written + 1 /\ config' = config /\ written \in Nat
          /\ written < Slots + 4
      <4>1. Len(Header) = 4  BY DEF Header
      <4> QED  BY <2>2, <4>1, SlotFacts DEF WriteConfig, IInv, Typed, Fields
    <3>2. /\ flash.count = IF written < 4 THEN Slots + 1 ELSE config.count
          /\ \A i \in Indexes :
               flash.homographies[i] = IF written <= 4 + i THEN Erased
                                       ELSE config.homographies[i]
      BY <3>1 DEF IInv, Prefix, HeaderLength
    <3>3. CASE written < 4
      <4>1. \/ written = 0 /\ flash' = [flash EXCEPT !.magic = config.magic]
            \/ written = 1 /\ flash' = [flash EXCEPT !.has_net_id = config.has_net_id]
            \/ written = 2 /\ flash' = [flash EXCEPT !.net_id = config.net_id]
            \/ written = 3 /\ flash' = [flash EXCEPT !.count = config.count]
        BY <2>2, <3>1, <3>3, HeaderWrite
      <4>2. /\ flash' \in Page /\ flash'.homographies = flash.homographies
            /\ flash'.count = IF written < 3 THEN flash.count ELSE config.count
        BY <4>1, <1>2 DEF Page
      <4>3. \A i \in Indexes : i \in Nat  BY SlotFacts
      <4>4. Prefix'
        BY <3>1, <3>2, <3>3, <4>2, <4>3 DEF Prefix, HeaderLength
      <4> QED  BY <3>1, <4>2, <4>4, <1>2
    <3>4. CASE written >= 4
      <4> DEFINE k == written - 4
      <4>1. k \in Indexes /\ \A i \in Indexes : i \in Nat
        BY <3>1, <3>4, SlotFacts DEF Indexes
      <4>2. flash' = [flash EXCEPT !.homographies[k] = config.homographies[k]]
        BY <2>2, <3>1, <3>4 DEF WriteConfig, Header
      <4>3. flash' = [flash EXCEPT !.homographies =
                        [flash.homographies EXCEPT ![k] = config.homographies[k]]]
        BY <4>2
      <4>4. /\ flash' \in Page /\ flash'.count = flash.count
            /\ \A i \in Indexes :
                 flash'.homographies[i] = IF i = k THEN config.homographies[k]
                                          ELSE flash.homographies[i]
        BY <4>1, <4>3, <1>2 DEF Page
      <4>5. Prefix'
        BY <3>1, <3>2, <3>4, <4>1, <4>4 DEF Prefix, HeaderLength
      <4> QED  BY <3>1, <4>4, <4>5, <1>2
    <3> QED  BY <3>1, <3>3, <3>4
  <2> QED  BY <2>1, <2>2
<1>5. /\ flash'.count \in Counts => flash'.count = config'.count
      /\ \A i \in Indexes : flash'.homographies[i] \in {Erased, config.homographies[i]}
  BY <1>1, <1>4, SlotFacts DEF Prefix
<1>6. Typed'  BY <1>1, <1>4 DEF IInv, Typed
<1>7. Bounded(flash)' /\ Bounded(config)'
  BY <1>2, <1>3, <1>4, <1>5 DEF Bounded, Erased
<1>8. Ordered(config)'  BY <1>4 DEF IInv, Ordered
<1>9. Ordered(flash)'
  <2>1. ASSUME NEW i \in Indexes, flash'.homographies[0] > 0, flash'.homographies[i] > 0
        PROVE  flash'.homographies[i] >= flash'.homographies[0]
    <3>1. /\ flash'.homographies[0] = config.homographies[0]
          /\ flash'.homographies[i] = config.homographies[i]
      BY <2>1, <1>5, SlotFacts DEF Erased
    <3> QED  BY <3>1, <2>1 DEF IInv, Ordered
  <2> QED  BY <2>1 DEF Ordered
<1>10. Whole(config)'  BY <1>2, <1>4 DEF Whole, Last
<1>11. Whole(flash)'
  <2>1. ASSUME flash'.count \in Counts, Last(flash') > 0, flash'.homographies[0] = Last(flash'),
               NEW i \in Indexes, flash'.homographies[i] > 0, i < flash'.count
        PROVE  flash'.homographies[i] = Last(flash')
    <3>1. config.count = flash'.count /\ flash'.count - 1 \in Indexes
      BY <2>1, <1>4, <1>5, SlotFacts
    <3>2. /\ Last(flash') = Last(config)
          /\ flash'.homographies[0] = config.homographies[0]
          /\ flash'.homographies[i] = config.homographies[i]
      BY <2>1, <3>1, <1>5, SlotFacts DEF Last, Erased
    <3> QED  BY <2>1, <3>1, <3>2, <1>2 DEF Whole
  <2> QED  BY <2>1 DEF Whole, Last
<1> QED  BY <1>1, <1>4, <1>6, <1>7, <1>8, <1>9, <1>10, <1>11 DEF IInv

\* RAM is initialised again, or loaded from the page: the configuration is as
\* good as the page.
LEMMA ReloadInv ==
  ASSUME IInv, UNCHANGED <<hostVars, flash>>, config' \in {flash, Virgin},
         req' \in {req, NoPacket}, written' \in Nat, netPc' \notin {"erase", "write"}
  PROVE  IInv'
<1>1. config' \in Page /\ flash \in Page
  BY VirginFacts DEF IInv, Typed
<1>2. Typed'  BY <1>1 DEF IInv, Typed, hostVars
<1>3. req' = NoPacket \/ req'.upload <= upload'  BY DEF IInv, hostVars
<1>4. Newest \in Int /\ Newest > 0 /\ Newest' \in Int /\ Newest' >= Newest
  BY <1>2 DEF IInv, Typed, Newest, Request, hostVars
<1>5. \A i \in Indexes : flash.homographies[i] \in Int /\ flash.homographies[i] <= Newest
  BY <1>1 DEF Page, IInv, Bounded
<1>6. Bounded(flash)' /\ Bounded(config)'
  <2>1. \A i \in Indexes : flash'.homographies[i] <= Newest'  BY <1>4, <1>5
  <2>2. \A i \in Indexes : config'.homographies[i] <= Newest'
    BY <1>4, <1>5, VirginFacts DEF Erased
  <2> QED  BY <2>1, <2>2 DEF Bounded
<1>7. Ordered(flash)' /\ Ordered(config)'
  <2>1. Ordered(flash)'  BY DEF IInv, Ordered
  <2>2. CASE config' = flash  BY <2>2 DEF IInv, Ordered
  <2>3. CASE config' = Virgin  BY <2>1, <2>3, VirginFacts, SlotFacts DEF Ordered, Erased
  <2> QED  BY <2>1, <2>2, <2>3
<1>8. Whole(flash)'  BY DEF IInv, Whole, Last
<1>9. Prefix'  BY DEF Prefix
<1> QED  BY <1>2, <1>3, <1>6, <1>7, <1>8, <1>9 DEF IInv

\* Every step preserves the invariant.
LEMMA StepInv == IInv /\ [CalNext]_calVars => IInv'
<1> SUFFICES ASSUME IInv, [CalNext]_calVars PROVE IInv'  OBVIOUS
<1>0. written \in Nat  BY DEF IInv, Typed
<1>1. CASE Upload \/ Transmit  BY <1>1, HostInv
<1>2. CASE HandleCalibration  BY <1>2, ReceiveInv
<1>3. CASE EraseConfig \/ WriteConfig  BY <1>3, CommitInv
<1>4. CASE LoadConfig  BY <1>0, <1>4, ReloadInv DEF LoadConfig, Loaded
<1>5. CASE SoftReset \/ WatchdogReset \/ PowerLoss
  <2>1. PICK u : Restart(u)  BY <1>5 DEF SoftReset, WatchdogReset, PowerLoss
  <2> QED  BY <2>1, ReloadInv DEF Restart
<1>6. CASE SignalCalibration  BY <1>0, <1>6, Quiet DEF SignalCalibration
<1>7. CASE Halt  BY <1>7, Quiet DEF Halt
<1>8. CASE HandleStart  BY <1>0, <1>8, Quiet DEF HandleStart, netVars
<1>9. CASE ReleaseNetwork  BY <1>0, <1>9, Quiet DEF ReleaseNetwork
<1>10. CASE LeaveStart  BY <1>0, <1>10, Quiet DEF LeaveStart, netVars
<1>11. CASE InitLocalization
  <2>1. UNCHANGED <<hostVars, flash, config, req, written, netPc>>
    BY <1>11 DEF InitLocalization, netVars
  <2> QED  BY <1>0, <2>1, Quiet
<1>12. CASE UNCHANGED calVars
  <2>1. UNCHANGED <<hostVars, flash, config, req, written, netPc>>
    BY <1>12 DEF calVars, netVars
  <2> QED  BY <1>0, <2>1, Quiet
<1> QED
  BY <1>1, <1>2, <1>3, <1>4, <1>5, <1>6, <1>7, <1>8, <1>9, <1>10, <1>11, <1>12
  DEF CalNext, NetStep, AppStep, Resets

\* What the invariant says of the page is the property.
LEMMA WholeIsOneSession == IInv => OneSession
<1> SUFFICES ASSUME IInv, Calibrated(flash), Last(flash) > 0,
                    flash.homographies[0] = Last(flash),
                    NEW i \in 0 .. flash.count - 1, flash.homographies[i] > 0
             PROVE  flash.homographies[i] = Last(flash)
  BY DEF OneSession, Last
<1>1. flash.count \in Counts  BY DEF Calibrated
<1>2. i \in Indexes /\ i < flash.count
  BY <1>1, CalibrationAssumption DEF Indexes, Counts
<1> QED  BY <1>1, <1>2 DEF IInv, Whole

-------------------------------------------------------------------------------
(* The network *)

\* A page, or its copy, that sends the robot to its network.
Belongs(c) == IF home = NetId THEN c.has_net_id /\ c.net_id = NetId ELSE ~c.has_net_id
Trusted(c) == home = NetId => c.magic

\* What the write has put back of the fields that name the network.
Restored ==
  /\ IF written >= 1 THEN flash.magic ELSE ~flash.magic
  /\ IF written >= 2 THEN flash.has_net_id = config.has_net_id ELSE ~flash.has_net_id
  /\ written >= 3 => flash.net_id = config.net_id

NetInv ==
  /\ home \in {NetId, DefaultNetId}
  /\ appPc = "reset" => netPc = "off"
  /\ ~torn =>
       /\ netPc # "write" => Belongs(flash) /\ Trusted(flash)
       /\ netPc \notin {"off", "load"} => Belongs(config) /\ mari_net_id = home
       /\ netPc = "write" => config.magic /\ Restored

LEMMA NetInit == CalInit => NetInv
<1> SUFFICES ASSUME CalInit PROVE NetInv  OBVIOUS
<1>2. /\ home \in {NetId, DefaultNetId} /\ netPc = "off"
      /\ flash \in IF home = NetId THEN {Provisioned(0), Provisioned(Slots)} ELSE {Virgin}
  BY DEF CalInit
<1>3. Belongs(flash) /\ Trusted(flash)
  BY <1>2 DEF Belongs, Trusted, Provisioned, Virgin
<1> QED  BY <1>2, <1>3 DEF NetInv

\* Steps that touch neither the page nor the network.
LEMMA NetQuiet ==
  ASSUME NetInv, UNCHANGED <<home, flash, config, mari_net_id, written, netPc, torn>>,
         appPc' = "reset" => appPc = "reset"
  PROVE  NetInv'
BY DEF NetInv, Belongs, Trusted, Restored

\* A reset: what is in flash is all there is, and torn if a write was under way.
LEMMA NetRestart == ASSUME NetInv, NEW u, Restart(u)  PROVE NetInv'
BY DEF NetInv, Restart, Belongs, Trusted

\* The boot reads the page and joins the network it names.
LEMMA NetLoad == IInv /\ NetInv /\ LoadConfig => NetInv'
<1> SUFFICES ASSUME IInv, NetInv, LoadConfig, ~torn PROVE NetInv'
  BY DEF NetInv, LoadConfig, appVars
<1>1. /\ netPc = "load" /\ netPc' = "loop" /\ config' = flash /\ flash' = flash /\ home' = home
      /\ mari_net_id' = IF flash.magic /\ flash.has_net_id THEN flash.net_id ELSE DefaultNetId
      /\ appPc' = appPc
  BY DEF LoadConfig, Loaded, appVars
<1>2. Belongs(flash) /\ Trusted(flash) /\ home \in {NetId, DefaultNetId}
  BY <1>1 DEF NetInv
<1>3. mari_net_id' = home  BY <1>1, <1>2 DEF Belongs, Trusted
<1> QED  BY <1>1, <1>2, <1>3 DEF NetInv, Belongs, Trusted

\* A packet changes only matrices.
LEMMA NetReceive == IInv /\ NetInv /\ HandleCalibration => NetInv'
<1> SUFFICES ASSUME IInv, NetInv, HandleCalibration PROVE NetInv'  OBVIOUS
<1>1. /\ netPc = "loop" /\ netPc' \in {"loop", "erase"} /\ config \in Page
      /\ UNCHANGED <<home, flash, mari_net_id, torn, appPc>>
  BY DEF HandleCalibration, IInv, Typed, appVars
<1>2. config'.has_net_id = config.has_net_id /\ config'.net_id = config.net_id
  BY <1>1 DEF HandleCalibration, Received, Page
<1> QED  BY <1>1, <1>2 DEF NetInv, Belongs, Trusted

\* The commit: what the erasure takes away the write puts back, unless torn.
LEMMA NetCommit == IInv /\ NetInv /\ (EraseConfig \/ WriteConfig \/ Halt) => NetInv'
<1> SUFFICES ASSUME IInv, NetInv, EraseConfig \/ WriteConfig \/ Halt, ~torn PROVE NetInv'
  BY DEF NetInv, EraseConfig, WriteConfig, Halt, appVars
<1>1. /\ config \in Page /\ flash \in Page /\ written \in Nat
      /\ UNCHANGED <<home, mari_net_id, torn, appPc>> /\ netPc \in {"erase", "write"}
      /\ appPc # "reset" /\ home \in {NetId, DefaultNetId} /\ Belongs(config) /\ mari_net_id = home
  BY DEF IInv, Typed, NetInv, EraseConfig, WriteConfig, Halt, appVars
<1>2. CASE EraseConfig
  <2>1. /\ netPc' = "write" /\ written' = 0 /\ flash' = Virgin
        /\ config' = [config EXCEPT !.magic = TRUE]
    BY <1>2 DEF EraseConfig, Stamped
  <2>2. /\ config'.magic /\ config'.has_net_id = config.has_net_id
        /\ config'.net_id = config.net_id
    BY <1>1, <2>1 DEF Page
  <2>3. ~flash'.magic /\ ~flash'.has_net_id  BY <2>1 DEF Virgin
  <2> QED  BY <1>1, <2>1, <2>2, <2>3 DEF NetInv, Belongs, Restored
<1>3. CASE WriteConfig
  <2>1. /\ netPc = "write" /\ netPc' = "write" /\ written' = written + 1 /\ config' = config
    BY <1>3 DEF WriteConfig
  <2>2. config.magic /\ Restored  BY <1>1, <2>1 DEF NetInv
  <2>3. ASSUME written < 4 PROVE Restored'
    <3>1. \/ written = 0 /\ flash' = [flash EXCEPT !.magic = config.magic]
          \/ written = 1 /\ flash' = [flash EXCEPT !.has_net_id = config.has_net_id]
          \/ written = 2 /\ flash' = [flash EXCEPT !.net_id = config.net_id]
          \/ written = 3 /\ flash' = [flash EXCEPT !.count = config.count]
      BY <1>1, <1>3, <2>3, HeaderWrite
    <3> QED  BY <1>1, <2>1, <2>2, <2>3, <3>1 DEF Restored, Page
  <2>4. ASSUME written >= 4 PROVE Restored'
    <3>1. flash' = [flash EXCEPT !.homographies[written - 4] = config.homographies[written - 4]]
      BY <1>1, <1>3, <2>4 DEF WriteConfig, Header
    <3>2. /\ flash'.magic = flash.magic /\ flash'.has_net_id = flash.has_net_id
          /\ flash'.net_id = flash.net_id
      BY <1>1, <3>1 DEF Page
    <3> QED  BY <1>1, <2>1, <2>2, <2>4, <3>2 DEF Restored
  <2>5. Restored'  BY <1>1, <2>3, <2>4
  <2> QED  BY <1>1, <2>1, <2>2, <2>5 DEF NetInv, Belongs
<1>4. CASE Halt
  <2>1. netPc = "write" /\ netPc' = "halt" /\ written >= 3 /\ UNCHANGED <<config, flash>>
    <3>1. Fields = 4 + Slots  BY SlotFacts DEF Fields, Header
    <3> QED  BY <1>4, <3>1, SlotFacts DEF Halt
  <2>2. flash.magic /\ flash.has_net_id = config.has_net_id /\ flash.net_id = config.net_id
    BY <1>1, <2>1 DEF NetInv, Restored
  <2> QED  BY <1>1, <2>1, <2>2 DEF NetInv, Belongs, Trusted
<1> QED  BY <1>2, <1>3, <1>4

LEMMA NetStepInv == IInv /\ NetInv /\ [CalNext]_calVars => NetInv'
<1> SUFFICES ASSUME IInv, NetInv, [CalNext]_calVars PROVE NetInv'  OBVIOUS
<1>1. CASE LoadConfig  BY <1>1, NetLoad
<1>2. CASE HandleCalibration  BY <1>2, NetReceive
<1>3. CASE EraseConfig \/ WriteConfig \/ Halt  BY <1>3, NetCommit
<1>4. CASE SoftReset \/ WatchdogReset \/ PowerLoss
  BY <1>4, NetRestart DEF SoftReset, WatchdogReset, PowerLoss
<1>5. CASE ReleaseNetwork
  BY <1>5 DEF ReleaseNetwork, NetInv, Belongs, Trusted
<1>6. CASE Upload \/ Transmit \/ SignalCalibration \/ HandleStart
  BY <1>6, NetQuiet DEF Upload, Transmit, SignalCalibration, HandleStart, netVars, appVars
<1>7. CASE LeaveStart
  BY <1>7, NetQuiet DEF LeaveStart, netVars
<1>8. CASE InitLocalization
  <2>1. UNCHANGED <<home, flash, config, mari_net_id, written, netPc, torn, appPc>>
    BY <1>8 DEF InitLocalization, netVars
  <2> QED  BY <2>1, NetQuiet
<1>9. CASE UNCHANGED calVars
  <2>1. UNCHANGED <<home, flash, config, mari_net_id, written, netPc, torn, appPc>>
    BY <1>9 DEF calVars, netVars, appVars
  <2> QED  BY <2>1, NetQuiet
<1> QED
  BY <1>1, <1>2, <1>3, <1>4, <1>5, <1>6, <1>7, <1>8, <1>9
  DEF CalNext, NetStep, AppStep, Resets

-------------------------------------------------------------------------------
(* The commit takes effect *)

MatricesOf(page) == IF Calibrated(page) THEN Matrices(page) ELSE NoMatrices

\* Once the network core waits for the reset, the page holds the configuration, and the
\* reset is asked of a bootloader that will do it.
CommitIsWritten ==
  netPc = "halt" =>
    flash = config /\ Calibrated(flash) /\ appPc = "READY" /\ system_reset_requested

\* A robot that is up locates itself with the matrices of its page, or is about to.
UsesItsPage ==
  netPc = "loop" /\ appPc \in {"READY", "RUNNING"} /\ ~InUse =>
    appPc = "READY" /\ app = NoMatrices /\ (signal \/ lh2_calibration_ready)

\* The matrices are on their way from the page to the localisation, which only the user
\* image never waits for.
Pending == appPc # "RUNNING" /\ (signal \/ lh2_calibration_ready)

UseInv ==
  /\ netPc \in {"erase", "write", "halt"} => appPc = "READY"
  /\ netPc \in {"erase", "write"} => config.count \in Counts
  /\ netPc = "write" => config.magic /\ Restored
  /\ CommitIsWritten
  /\ netPc = "off" <=> appPc = "reset"
  /\ netPc = "load" => appPc = "wait"
  /\ netPc \in {"off", "load"} =>
       shared = NoMatrices /\ app = NoMatrices /\ ~signal /\ ~lh2_calibration_ready
  /\ netPc = "loop" => /\ shared = MatricesOf(flash)
                       /\ app = shared \/ (app = NoMatrices /\ Pending)

\* The write has put back every field, and then it is the configuration.
LEMMA HaltFacts ==
  ASSUME IInv, UseInv, Halt
  PROVE  flash = config /\ Calibrated(flash)
<1>1. /\ netPc = "write" /\ flash \in Page /\ config \in Page /\ written = 4 + Slots
      /\ config.count \in Counts /\ config.magic /\ Restored
  <2>1. Fields = 4 + Slots  BY SlotFacts DEF Fields, Header
  <2> QED  BY <2>1 DEF Halt, IInv, Typed, UseInv
<1>2. /\ flash.magic = config.magic /\ flash.has_net_id = config.has_net_id
      /\ flash.net_id = config.net_id
  <2>1. flash.magic /\ flash.has_net_id = config.has_net_id /\ flash.net_id = config.net_id
    BY <1>1, SlotFacts DEF Restored
  <2> QED  BY <1>1, <2>1 DEF Page
<1>3. flash.count = config.count
  BY <1>1, SlotFacts DEF IInv, Prefix, HeaderLength
<1>4. \A i \in Indexes : flash.homographies[i] = config.homographies[i]
  BY <1>1, SlotFacts DEF IInv, Prefix, HeaderLength
<1>5. flash.homographies = config.homographies
  BY <1>1, <1>4 DEF Page
<1>6. flash = config
  <2>1. ASSUME NEW c \in Page
        PROVE  c = [magic |-> c.magic, has_net_id |-> c.has_net_id, net_id |-> c.net_id,
                    count |-> c.count, homographies |-> c.homographies]
    BY DEF Page
  <2> QED
    BY <1>1, <1>2, <1>3, <1>5, <2>1, Zenon
<1> QED
  BY <1>1, <1>6 DEF Calibrated

\* The write, field by field.
LEMMA UseWrite == IInv /\ UseInv /\ WriteConfig => UseInv'
<1> SUFFICES ASSUME IInv, UseInv, WriteConfig PROVE UseInv'
  OBVIOUS
<1>1. /\ netPc = "write" /\ netPc' = "write" /\ written' = written + 1 /\ config' = config
      /\ written \in Nat /\ flash \in Page /\ config \in Page /\ appPc' = appPc
      /\ config.magic /\ Restored
  BY DEF WriteConfig, IInv, Typed, UseInv, appVars
<1>2. ASSUME written < 4 PROVE Restored'
  <2>1. \/ written = 0 /\ flash' = [flash EXCEPT !.magic = config.magic]
        \/ written = 1 /\ flash' = [flash EXCEPT !.has_net_id = config.has_net_id]
        \/ written = 2 /\ flash' = [flash EXCEPT !.net_id = config.net_id]
        \/ written = 3 /\ flash' = [flash EXCEPT !.count = config.count]
    BY <1>1, <1>2, HeaderWrite
  <2> QED  BY <1>1, <1>2, <2>1 DEF Restored, Page
<1>3. ASSUME written >= 4 PROVE Restored'
  <2>1. flash' = [flash EXCEPT !.homographies[written - 4] = config.homographies[written - 4]]
    BY <1>1, <1>3 DEF WriteConfig, Header
  <2>2. /\ flash'.magic = flash.magic /\ flash'.has_net_id = flash.has_net_id
        /\ flash'.net_id = flash.net_id
    BY <1>1, <2>1 DEF Page
  <2> QED  BY <1>1, <1>3, <2>2 DEF Restored
<1>4. Restored'  BY <1>1, <1>2, <1>3
<1> QED  BY <1>1, <1>4 DEF UseInv, CommitIsWritten

\* Every step of the two cores.
LEMMA UseStep == IInv /\ UseInv /\ [CalNext]_calVars => UseInv'
<1> SUFFICES ASSUME IInv, UseInv, [CalNext]_calVars PROVE UseInv'
  OBVIOUS
<1>1. CASE Upload \/ Transmit \/ HandleStart
  <2>1. UNCHANGED <<flash, config, netPc, written, signal, shared, appPc, app,
                    system_reset_requested, lh2_calibration_ready>>
    BY <1>1 DEF Upload, Transmit, HandleStart, netVars, appVars
  <2> QED
    BY <2>1 DEF UseInv, CommitIsWritten, Restored, Calibrated, MatricesOf, Matrices, Pending
<1>2. CASE LoadConfig
  <2>1. /\ netPc = "load" /\ netPc' = "loop" /\ flash' = flash /\ UNCHANGED appVars
        /\ shared' = IF Calibrated(flash) THEN Matrices(flash) ELSE shared
        /\ signal' = Calibrated(flash)
    BY <1>2 DEF LoadConfig
  <2>2. shared' = MatricesOf(flash)' /\ (shared' = NoMatrices \/ signal')
    BY <2>1 DEF UseInv, MatricesOf, Calibrated, Matrices
  <2>3. appPc' = "wait" /\ app' = NoMatrices
    BY <2>1 DEF UseInv, appVars
  <2> QED
    BY <2>1, <2>2, <2>3 DEF UseInv, CommitIsWritten, Pending
<1>3. CASE SignalCalibration
  <2>1. /\ netPc = "loop" /\ UNCHANGED <<netPc, flash, shared, appPc, app>>
        /\ lh2_calibration_ready'
    BY <1>3 DEF SignalCalibration
  <2> QED
    BY <2>1 DEF UseInv, CommitIsWritten, Pending, MatricesOf, Calibrated, Matrices
<1>4. CASE HandleCalibration
  <2>1. /\ netPc = "loop" /\ UNCHANGED <<flash, shared, appPc, app, signal, lh2_calibration_ready>>
        /\ netPc' \in {"loop", "erase"}
        /\ netPc' = "erase" => appPc = "READY" /\ config' = Received(config, req)
        /\ req \in Request /\ config \in Page
    BY <1>4 DEF HandleCalibration, appVars, IInv, Typed
  <2>2. netPc' = "erase" => config'.count \in Counts
    BY <2>1, ReceivedFacts DEF Request
  <2> QED
    BY <2>1, <2>2 DEF UseInv, CommitIsWritten, Pending, MatricesOf, Calibrated, Matrices
<1>5. CASE EraseConfig
  <2>1. /\ netPc = "erase" /\ netPc' = "write" /\ written' = 0 /\ flash' = Virgin
        /\ config' = [config EXCEPT !.magic = TRUE] /\ appPc' = appPc /\ config \in Page
    BY <1>5 DEF EraseConfig, Stamped, appVars, IInv, Typed
  <2>2. config'.magic /\ config'.count = config.count
    BY <2>1 DEF Page
  <2>3. Restored'
    BY <2>1 DEF Restored, Virgin
  <2> QED
    BY <2>1, <2>2, <2>3 DEF UseInv, CommitIsWritten
<1>6. CASE WriteConfig  BY <1>6, UseWrite
<1>7. CASE Halt
  <2>1. /\ netPc = "write" /\ netPc' = "halt" /\ system_reset_requested'
        /\ UNCHANGED <<flash, config, appPc>>
    BY <1>7 DEF Halt, AskReset
  <2>2. flash = config /\ Calibrated(flash)
    BY <1>7, HaltFacts
  <2> QED
    BY <2>1, <2>2 DEF UseInv, CommitIsWritten, Calibrated
<1>8. CASE ReleaseNetwork
  <2>1. /\ appPc = "reset" /\ appPc' = "wait" /\ netPc' = "load"
        /\ UNCHANGED <<shared, app, signal, lh2_calibration_ready>>
    BY <1>8 DEF ReleaseNetwork
  <2> QED
    BY <2>1 DEF UseInv, CommitIsWritten
<1>9. CASE LeaveStart
  <2>1. /\ appPc = "wait" /\ netPc = "loop" /\ UNCHANGED <<flash, netVars, lh2_calibration_ready>>
        /\ \/ appPc' = "READY" /\ app' = app
           \/ appPc' = "RUNNING" /\ app' = IF shared.count \in Counts THEN shared ELSE app
    BY <1>9 DEF LeaveStart
  <2>2. netPc' = netPc /\ shared' = shared /\ signal' = signal
    BY <2>1 DEF netVars
  <2>3. shared.count \notin Counts => shared = NoMatrices
    BY <2>1 DEF UseInv, MatricesOf, Matrices, Calibrated
  <2>4. shared = MatricesOf(flash)'
    BY <2>1 DEF UseInv, MatricesOf, Matrices, Calibrated
  <2> QED
    BY <2>1, <2>2, <2>3, <2>4 DEF UseInv, CommitIsWritten, Pending
<1>10. CASE InitLocalization
  <2>1. /\ appPc = "READY" /\ app' = shared /\ UNCHANGED <<flash, netVars, appPc,
                                                          system_reset_requested>>
    BY <1>10 DEF InitLocalization
  <2>2. UNCHANGED <<config, netPc, written, signal, shared>>
    BY <2>1 DEF netVars
  <2> QED
    BY <2>1, <2>2 DEF UseInv, CommitIsWritten, Restored, Calibrated, MatricesOf, Matrices
<1>11. CASE SoftReset \/ WatchdogReset \/ PowerLoss
  <2>1. /\ appPc' = "reset" /\ netPc' = "off" /\ shared' = NoMatrices /\ app' = NoMatrices
        /\ signal' = FALSE /\ lh2_calibration_ready' = FALSE
    BY <1>11 DEF SoftReset, WatchdogReset, PowerLoss, Restart
  <2> QED
    BY <2>1 DEF UseInv, CommitIsWritten
<1>12. CASE UNCHANGED calVars
  <2>1. UNCHANGED <<flash, config, netPc, written, signal, shared, appPc, app,
                    system_reset_requested, lh2_calibration_ready>>
    BY <1>12 DEF calVars, netVars, appVars
  <2> QED
    BY <2>1 DEF UseInv, CommitIsWritten, Restored, Calibrated, MatricesOf, Matrices, Pending
<1> QED
  BY <1>1, <1>2, <1>3, <1>4, <1>5, <1>6, <1>7, <1>8, <1>9, <1>10, <1>11, <1>12
     DEF CalNext, NetStep, AppStep, Resets

-------------------------------------------------------------------------------
(* Types *)

Values == Erased .. Baked + Uploads
TypedPage == [magic : BOOLEAN, has_net_id : BOOLEAN, net_id : {NetId, NoNetId},
              count : 0 .. Slots + 1, homographies : [Indexes -> Values]]
TypedRequest == [upload : Baked .. Baked + Uploads, index : Indexes, count : Counts]

HostTyped ==
  /\ upload \in Baked .. Baked + Uploads /\ index \in Indexes /\ copy \in 0 .. Copies
  /\ count \in Counts /\ req \in TypedRequest \cup {NoPacket}
PagesTyped == flash \in TypedPage /\ config \in TypedPage /\ written \in 0 .. Fields
PartsTyped ==
  /\ netPc \in {"off", "load", "loop", "erase", "write", "halt"}
  /\ appPc \in {"reset", "wait", "READY", "RUNNING"}

CalTyped == HostTyped /\ PagesTyped /\ PartsTyped

LEMMA TypedFacts ==
  /\ Fields = 4 + Slots /\ Uploads \in Nat /\ Copies \in Nat /\ Copies > 0
  /\ \A u \in Baked .. Baked + Uploads : u \in Values
  /\ Zero \in Values /\ Erased \in Values /\ Baked \in Values
  /\ 1 .. Slots \subseteq 0 .. Slots + 1 /\ Slots + 1 \in 0 .. Slots + 1
  /\ Virgin \in TypedPage
<1>1. /\ Fields = 4 + Slots /\ Uploads \in Nat /\ Copies \in Nat /\ Copies > 0
      /\ \A u \in Baked .. Baked + Uploads : u \in Values
      /\ Zero \in Values /\ Erased \in Values /\ Baked \in Values
      /\ 1 .. Slots \subseteq 0 .. Slots + 1 /\ Slots + 1 \in 0 .. Slots + 1
  BY CalibrationAssumption DEF Fields, Header, Values, Zero, Erased, Baked
<1> QED
  BY <1>1 DEF Virgin, TypedPage

LEMMA CalTypedInit == CalInit => CalTyped
<1> SUFFICES ASSUME CalInit PROVE CalTyped
  OBVIOUS
<1>1. HostTyped
  BY SlotFacts, TypedFacts DEF CalInit, HostTyped, Counts, Baked
<1>2. ASSUME NEW n \in {0, Slots} PROVE Provisioned(n) \in TypedPage
  BY SlotFacts, TypedFacts DEF Provisioned, TypedPage
<1>3. flash \in TypedPage
  BY <1>2, TypedFacts DEF CalInit
<1>4. PagesTyped
  BY <1>3, TypedFacts, SlotFacts DEF CalInit, PagesTyped
<1> QED
  BY <1>1, <1>4 DEF CalInit, CalTyped, PartsTyped

LEMMA HostTypedStep == CalTyped /\ [CalNext]_calVars => HostTyped'
<1> SUFFICES ASSUME HostTyped, [CalNext]_calVars PROVE HostTyped'
  BY DEF CalTyped
<1>1. CASE Upload
  <2>1. /\ upload < Baked + Uploads /\ upload' = upload + 1 /\ index' = 0 /\ copy' = 1
        /\ count' \in Counts /\ req' = req
    BY <1>1 DEF Upload, netVars
  <2>2. upload' \in Baked .. Baked + Uploads /\ copy' \in 0 .. Copies
    BY <2>1, TypedFacts DEF HostTyped, Baked
  <2> QED
    BY <2>1, <2>2, SlotFacts DEF HostTyped
<1>2. CASE Transmit
  <2>1. /\ copy > 0 /\ upload' = upload /\ count' = count
        /\ req' = req \/ req' = [upload |-> upload, index |-> index, count |-> count]
        /\ \/ copy < Copies /\ copy' = copy + 1 /\ index' = index
           \/ index < count - 1 /\ copy' = 1 /\ index' = index + 1
           \/ copy' = 0 /\ index' = index
    BY <1>2 DEF Transmit
  <2>2. copy' \in 0 .. Copies
    BY <2>1, TypedFacts DEF HostTyped
  <2>3. index' \in Indexes
    BY <2>1, CalibrationAssumption DEF HostTyped, Indexes, Counts
  <2>4. req' \in TypedRequest \cup {NoPacket}
    BY <2>1 DEF HostTyped, TypedRequest
  <2> QED
    BY <2>1, <2>2, <2>3, <2>4 DEF HostTyped
<1>3. CASE HandleCalibration
  BY <1>3 DEF HandleCalibration, HostTyped, hostVars
<1>4. CASE SoftReset \/ WatchdogReset \/ PowerLoss
  BY <1>4 DEF SoftReset, WatchdogReset, PowerLoss, Restart, HostTyped, hostVars
<1>5. CASE \/ LoadConfig \/ SignalCalibration \/ EraseConfig \/ WriteConfig \/ Halt \/ HandleStart
           \/ AppStep \/ UNCHANGED calVars
  <2>1. UNCHANGED <<upload, index, copy, count, req>>
    BY <1>5 DEF LoadConfig, SignalCalibration, EraseConfig, WriteConfig, Halt, HandleStart, AppStep,
                ReleaseNetwork, LeaveStart, InitLocalization, calVars, hostVars, netVars
  <2> QED
    BY <2>1 DEF HostTyped
<1> QED
  BY <1>1, <1>2, <1>3, <1>4, <1>5 DEF CalNext, NetStep, Resets

LEMMA PagesTypedStep == CalTyped /\ [CalNext]_calVars => PagesTyped'
<1> SUFFICES ASSUME CalTyped, [CalNext]_calVars PROVE PagesTyped'
  OBVIOUS
<1>0. flash \in TypedPage /\ config \in TypedPage /\ written \in 0 .. Fields
  BY DEF CalTyped, PagesTyped
<1>1. CASE LoadConfig
  BY <1>0, <1>1 DEF LoadConfig, Loaded, PagesTyped
<1>2. CASE HandleCalibration
  <2>1. /\ UNCHANGED <<flash, written>> /\ req \in TypedRequest
        /\ config' = config \/ config' = Received(config, req)
    BY <1>2 DEF HandleCalibration, CalTyped, HostTyped
  <2> DEFINE h == [i \in Indexes |-> IF i = req.index THEN req.upload
                                     ELSE IF req.index = 0 THEN Zero ELSE config.homographies[i]]
  <2>2. Received(config, req) = [config EXCEPT !.count = req.count, !.homographies = h]
    BY DEF Received
  <2>3. h \in [Indexes -> Values]
    BY <1>0, <2>1, TypedFacts DEF TypedRequest, TypedPage
  <2>4. req.count \in 0 .. Slots + 1
    BY <2>1, TypedFacts DEF TypedRequest, Counts
  <2> HIDE DEF h
  <2>5. Received(config, req) \in TypedPage
    BY <1>0, <2>2, <2>3, <2>4 DEF TypedPage
  <2> QED
    BY <1>0, <2>1, <2>5 DEF PagesTyped
<1>3. CASE EraseConfig
  <2>1. written' = 0 /\ flash' = Virgin /\ config' = [config EXCEPT !.magic = TRUE]
    BY <1>3 DEF EraseConfig, Stamped
  <2>2. config' \in TypedPage
    BY <1>0, <2>1 DEF TypedPage
  <2> QED
    BY <2>1, <2>2, TypedFacts, SlotFacts DEF PagesTyped
<1>4. CASE WriteConfig
  <2>1. written < Fields /\ written' = written + 1 /\ config' = config /\ written \in Nat
    BY <1>0, <1>4, TypedFacts, SlotFacts DEF WriteConfig
  <2>2. written' \in 0 .. Fields
    BY <1>0, <2>1, TypedFacts, SlotFacts
  <2>3. CASE written < 4
    <3>1. \/ flash' = [flash EXCEPT !.magic = config.magic]
          \/ flash' = [flash EXCEPT !.has_net_id = config.has_net_id]
          \/ flash' = [flash EXCEPT !.net_id = config.net_id]
          \/ flash' = [flash EXCEPT !.count = config.count]
      BY <1>4, <2>1, <2>3, HeaderWrite
    <3>2. flash' \in TypedPage
      BY <1>0, <3>1 DEF TypedPage
    <3> QED
      BY <1>0, <2>1, <2>2, <3>2 DEF PagesTyped
  <2>4. CASE written >= 4
    <3> DEFINE k == written - 4
    <3>1. k \in Indexes
      BY <2>1, <2>4, TypedFacts, SlotFacts DEF Indexes
    <3>2. flash' = [flash EXCEPT !.homographies =
                      [flash.homographies EXCEPT ![k] = config.homographies[k]]]
      BY <1>4, <2>1, <2>4 DEF WriteConfig, Header
    <3>3. [flash.homographies EXCEPT ![k] = config.homographies[k]] \in [Indexes -> Values]
      BY <1>0, <3>1 DEF TypedPage
    <3>4. flash' \in TypedPage
      BY <1>0, <3>2, <3>3 DEF TypedPage
    <3> QED
      BY <1>0, <2>1, <2>2, <3>4 DEF PagesTyped
  <2> QED
    BY <2>1, <2>3, <2>4
<1>5. CASE Halt
  BY <1>0, <1>5, TypedFacts, SlotFacts DEF Halt, PagesTyped
<1>6. CASE SoftReset \/ WatchdogReset \/ PowerLoss
  BY <1>0, <1>6, TypedFacts, SlotFacts
     DEF SoftReset, WatchdogReset, PowerLoss, Restart, PagesTyped
<1>7. CASE \/ Upload \/ Transmit \/ SignalCalibration \/ HandleStart \/ AppStep
           \/ UNCHANGED calVars
  <2>1. UNCHANGED <<flash, config, written>>
    BY <1>7 DEF Upload, Transmit, SignalCalibration, HandleStart, AppStep,
                ReleaseNetwork, LeaveStart, InitLocalization, calVars, netVars
  <2> QED
    BY <1>0, <2>1 DEF PagesTyped
<1> QED
  BY <1>1, <1>2, <1>3, <1>4, <1>5, <1>6, <1>7 DEF CalNext, NetStep, Resets

LEMMA PartsTypedStep == CalTyped /\ [CalNext]_calVars => PartsTyped'
<1> SUFFICES ASSUME PartsTyped, [CalNext]_calVars PROVE PartsTyped'
  BY DEF CalTyped
<1>1. CASE NetStep
  BY <1>1 DEF NetStep, LoadConfig, SignalCalibration, HandleCalibration, EraseConfig, WriteConfig,
              Halt, PartsTyped, appVars
<1>2. CASE AppStep
  BY <1>2 DEF AppStep, ReleaseNetwork, LeaveStart, InitLocalization, PartsTyped, netVars
<1>3. CASE Resets
  BY <1>3 DEF Resets, SoftReset, WatchdogReset, PowerLoss, Restart, PartsTyped
<1>4. CASE Upload \/ Transmit \/ HandleStart \/ UNCHANGED calVars
  BY <1>4 DEF Upload, Transmit, HandleStart, calVars, PartsTyped, netVars, appVars
<1> QED
  BY <1>1, <1>2, <1>3, <1>4 DEF CalNext

LEMMA CalTypedStep == CalTyped /\ [CalNext]_calVars => CalTyped'
BY HostTypedStep, PagesTypedStep, PartsTypedStep DEF CalTyped

-------------------------------------------------------------------------------
(* The localisation *)

\* A step of the localisation is a step of the calibration or leaves it alone,
\* so that what holds of one holds of both.
LEMMA Composed == [Next]_vars => [CalNext]_calVars
<1> SUFFICES ASSUME [Next]_vars PROVE CalNext \/ UNCHANGED calVars  OBVIOUS
<1>1. CASE CoreStep \/ Elsewhere
  BY <1>1 DEF CoreStep, Elsewhere, CalNext, AppStep
<1>2. CASE Located  BY <1>2 DEF Located, CalNext, AppStep
<1>3. CASE LoopReset \/ Sudden  BY <1>3 DEF LoopReset, Sudden, CalNext, Resets
<1>4. CASE HandleIsr \/ LoopStep \/ Tick \/ KeepAlive \/ HandleCapture
  BY <1>4 DEF HandleIsr, LoopStep, Process, Capture, Position, Tick, KeepAlive, HandleCapture
<1>5. CASE UNCHANGED vars  BY <1>5 DEF vars
<1> QED  BY <1>1, <1>2, <1>3, <1>4, <1>5 DEF Next

\* The reference of the filter is the position that is reported.
PosInv ==
  /\ fix \subseteq Int
  /\ coordinates \in Int /\ previous_position \in Int
  /\ previous_position = current_position

\* Steps that measure nothing and report nothing.
LEMMA PosQuiet == ASSUME PosInv, UNCHANGED positionVars, fix' \in {fix, {}}  PROVE PosInv'
BY DEF PosInv, positionVars

\* A measurement leaves the position alone.
LEMMA PosMeasure == ASSUME PosInv, UNCHANGED positionVars, ProcessData  PROVE PosInv'
<1>1. fix' \subseteq Int  BY LocalizationAssumption DEF ProcessData, PosInv
<1> QED  BY <1>1 DEF PosInv, positionVars

\* The filter: a new position is near the old one or the first.
LEMMA PosFilter ==
  ASSUME PosInv, GetPosition
  PROVE  /\ PosInv'
         /\ current_position' # current_position =>
              \/ current_position = 0
              \/ Distance(current_position', current_position) <= Threshold
<1>1. CASE app.count = 0  BY <1>1, PosQuiet DEF GetPosition, positionVars, PosInv
<1>2. CASE app.count # 0
  <2>1. /\ fix' = {} /\ coordinates' = Point /\ previous_position' = Previous
        /\ current_position' = IF Valid THEN Point ELSE current_position
    BY <1>2 DEF GetPosition
  <2>2. Point \in Int  BY DEF Point, PosInv
  <2>3. Reference \in Int /\ (previous_position # 0 => Reference = previous_position)
        /\ (previous_position = 0 => Reference = Point)
    BY <2>2 DEF Reference, PosInv
  <2>4. CASE Valid
    <3>1. Previous = Point  BY <2>4 DEF Previous
    <3>2. PosInv'  BY <2>1, <2>2, <2>4, <3>1 DEF PosInv
    <3>3. \/ current_position = 0
          \/ Distance(current_position', current_position) <= Threshold
      BY <2>1, <2>2, <2>3, <2>4, LocalizationAssumption DEF Valid, Distance, PosInv
    <3> QED  BY <3>2, <3>3
  <2>5. CASE ~Valid
    <3>1. Previous = previous_position
      <4>1. Point >= 0 => Distance(Reference, Point) > Threshold
        BY <2>2, <2>3, <2>5, LocalizationAssumption DEF Valid, Distance
      <4>2. Point >= 0 => previous_position # 0
        BY <2>2, <2>3, <4>1, LocalizationAssumption DEF Distance
      <4> QED  BY <2>3, <2>5, <4>2 DEF Previous
    <3> QED  BY <2>1, <2>2, <2>5, <3>1 DEF PosInv
  <2> QED  BY <2>4, <2>5
<1> QED  BY <1>1, <1>2

\* Every step of the robot.
LEMMA PosStep ==
  ASSUME PosInv, [Next]_vars
  PROVE  /\ PosInv'
         /\ current_position' # current_position /\ appPc' # "reset" =>
              \/ current_position = 0
              \/ Distance(current_position', current_position) <= Threshold
<1>1. CASE Position \/ KeepAlive
  <2>1. CASE GetPosition  BY <2>1, PosFilter
  <2>2. CASE UNCHANGED <<fix, positionVars>>
    BY <2>2, PosQuiet DEF positionVars
  <2> QED  BY <1>1, <2>1, <2>2 DEF Position, KeepAlive
<1>2. CASE Process \/ HandleIsr
  <2>1. ProcessData /\ UNCHANGED positionVars  BY <1>2 DEF Process, HandleIsr
  <2> QED  BY <2>1, PosMeasure DEF positionVars
<1>3. CASE CoreStep \/ Elsewhere \/ Located \/ Capture \/ Tick \/ HandleCapture \/ UNCHANGED vars
  <2>1. UNCHANGED positionVars /\ fix' \in {fix, {}}
    BY <1>3 DEF CoreStep, Elsewhere, Located, Capture, GetRawCounts, Tick, HandleCapture, vars,
                locVars
  <2> QED  BY <2>1, PosQuiet DEF positionVars
<1>4. CASE LoopReset \/ Sudden
  <2>1. Cleared /\ appPc' = "reset"
    BY <1>4 DEF LoopReset, Sudden, SoftReset, WatchdogReset, PowerLoss, Restart
  <2> QED  BY <2>1 DEF Cleared, PosInv
<1> QED  BY <1>1, <1>2, <1>3, <1>4 DEF Next, LoopStep

\* The localisation's own variables.
LocTyped ==
  /\ fix \in {{}} \cup {{p} : p \in Fixes}
  /\ coordinates \in Int /\ previous_position \in Int /\ current_position \in Int
  /\ loopPc \in {"process", "capture", "position"}

LEMMA LocMeasure == LocTyped /\ ProcessData => fix' \in {{}} \cup {{p} : p \in Fixes}
BY DEF LocTyped, ProcessData

LEMMA LocStep == LocTyped /\ PosInv' /\ [Next]_vars => LocTyped'
<1> SUFFICES ASSUME LocTyped, PosInv', [Next]_vars PROVE LocTyped'
  OBVIOUS
<1>1. /\ coordinates' \in Int /\ previous_position' \in Int /\ current_position' \in Int
  BY DEF PosInv
<1>2. fix' \in {{}} \cup {{p} : p \in Fixes}
  <2>1. CASE Process \/ HandleIsr
    BY <2>1, LocMeasure DEF Process, HandleIsr
  <2>2. CASE Position \/ KeepAlive \/ Capture \/ Tick \/ HandleCapture
    BY <2>2 DEF LocTyped, Position, KeepAlive, GetPosition, Capture, GetRawCounts, Tick, HandleCapture
  <2>3. CASE CoreStep \/ Elsewhere \/ Located \/ UNCHANGED vars
    BY <2>3 DEF LocTyped, CoreStep, Elsewhere, Located, vars, locVars
  <2>4. CASE LoopReset \/ Sudden
    BY <2>4 DEF LoopReset, Sudden, Cleared
  <2> QED
    BY <2>1, <2>2, <2>3, <2>4 DEF Next, LoopStep
<1>3. loopPc' \in {"process", "capture", "position"}
  <2>1. CASE LoopStep
    BY <2>1 DEF LoopStep, Process, Capture, Position, After
  <2>2. CASE \/ CoreStep \/ Elsewhere \/ Located \/ HandleIsr \/ Tick \/ KeepAlive \/ HandleCapture
             \/ UNCHANGED vars
    BY <2>2 DEF LocTyped, CoreStep, Elsewhere, Located, HandleIsr, Tick, KeepAlive, HandleCapture,
                vars, locVars
  <2>3. CASE LoopReset \/ Sudden
    BY <2>3 DEF LoopReset, Sudden, Cleared
  <2> QED
    BY <2>1, <2>2, <2>3 DEF Next
<1> QED
  BY <1>1, <1>2, <1>3 DEF LocTyped

\* localization.c:65-76: a reported position is within the threshold of the one
\* before, or the first, whatever is measured, rejected or read twice.
THEOREM PositionsDoNotJump == Spec => NoJump
<1>1. Init => PosInv  BY DEF Init, PosInv
<1>2. PosInv /\ [Next]_vars => PosInv'  BY PosStep
<1>3. PosInv /\ [Next]_vars =>
        [current_position' # current_position /\ appPc' # "reset" =>
           \/ current_position = 0
           \/ Distance(current_position', current_position) <= Threshold]_vars
  BY PosStep
<1> QED  BY <1>1, <1>2, <1>3, PTL DEF Spec, NoJump

LEMMA Invariance == Spec => [](IInv /\ NetInv /\ UseInv)
<1>1. Init => IInv /\ NetInv  BY InitInv, NetInit DEF Init
<1>2. Init => UseInv
  BY DEF Init, CalInit, UseInv, CommitIsWritten
<1>3. IInv /\ NetInv /\ UseInv /\ [Next]_vars => (IInv /\ NetInv /\ UseInv)'
  BY Composed, StepInv, NetStepInv, UseStep
<1> QED  BY <1>1, <1>2, <1>3, PTL DEF Spec

\* main.c:381-384: no matrix of another session survives behind a first and a
\* last matrix of the same upload, whatever was lost, repeated or torn.
THEOREM CommitIsOneSession == Spec => []OneSession
BY WholeIsOneSession, Invariance, PTL

\* _commit_config_and_reboot writes the whole page again: every calibration leaves the robot
\* in the network it was provisioned for, unless a reset tears a commit.
THEOREM NetworkIsKept == Spec => []NetIdKept
<1>1. NetInv => NetIdKept  BY DEF NetInv, NetIdKept
<1> QED  BY <1>1, Invariance, PTL

\* The page is written to its last field before the robot restarts, and the reset is asked of
\* a bootloader that grants it, so that no calibration is left half in use.  The safety half
\* of CommitTakesEffect.
THEOREM CommitIsComplete == Spec => []CommitIsWritten
<1>1. UseInv => CommitIsWritten  BY DEF UseInv
<1> QED  BY <1>1, Invariance, PTL

\* _load_config, LH2_CALIBRATION_READY and localization_init: a robot that is up has the matrices
\* of its page, not those of an older one and none when the page has none; the bootloader may
\* still have to take them over, a user image has them from the start.
THEOREM MatricesAreThePages == Spec => []UsesItsPage
<1>1. UseInv => UsesItsPage
  BY DEF UseInv, UsesItsPage, InUse, MatricesOf, Pending
<1> QED  BY <1>1, Invariance, PTL

\* Of the upload, both cores, the page, its copy in RAM and the positions.
THEOREM TypeCorrect == Spec => []TypeOK
<1>1. Init => CalTyped /\ LocTyped
  BY CalTypedInit DEF Init, LocTyped
<1>2. CalTyped /\ LocTyped /\ PosInv /\ [Next]_vars => (CalTyped /\ LocTyped)'
  BY Composed, CalTypedStep, LocStep, PosStep
<1>3. CalTyped /\ LocTyped => TypeOK
  BY DEF CalTyped, HostTyped, PagesTyped, PartsTyped, TypedPage, Values, LocTyped, TypeOK, CalTypeOK
<1>4. Init => PosInv  BY DEF Init, PosInv
<1>5. PosInv /\ [Next]_vars => PosInv'  BY PosStep
<1> QED
  BY <1>1, <1>2, <1>3, <1>4, <1>5, PTL DEF Spec
===============================================================================
