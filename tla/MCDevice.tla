------------------------------- MODULE MCDevice -------------------------------
(* Small instances of Device: the packets and the flash contents.             *)
EXTENDS Device

Command(kind) == [NoPacket EXCEPT !.type = kind]
OtaStart(n)   == [NoPacket EXCEPT !.type = "OTA_START", !.count = n]
\* A chunk of the image tagged d; the digest is that of the bytes of sha.
OtaChunk(i, d, h) == [type |-> "OTA_CHUNK", count |-> 0, index |-> i,
                      data |-> d, sha |-> h]
Calibration(i, n) == [NoPacket EXCEPT !.type = "LH2_CALIBRATION",
                                      !.index = i, !.count = n]

Commands == {Command(k) : k \in {"START", "STOP", "RESET"}}
Noise    == {Command("OTHER")}

\* One image of two chunks over flash that holds an older image.
Payload2  == {"old", "a0", "a1", "bad"}
Old2      == [s \in Slots |-> "old"]
ImageA    == {OtaStart(2), OtaChunk(0, "a0", "a0"), OtaChunk(1, "a1", "a1")}
BadChunk  == {OtaChunk(0, "bad", "a0")}
FarChunk  == {OtaChunk(2, "a0", "a0")}
Commit    == {Calibration(0, 1)}

\* Everything a host sends, for runs with StopAndWait.
AllRequests == Commands \cup Noise \cup ImageA \cup BadChunk \cup FarChunk \cup Commit

\* For the runs in which packets arrive at any time: chunk 0 never gets through.
FreeRequests == Commands \cup Noise \cup {OtaStart(2), OtaChunk(1, "a1", "a1")} \cup Commit

\* Two images whose page counts differ.
TwoSizes == {OtaStart(1), OtaStart(2)}
=============================================================================
