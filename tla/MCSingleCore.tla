----------------------------- MODULE MCSingleCore -----------------------------
(* A small instance of SingleCore: one image of two chunks over an older one.  *)
EXTENDS SingleCore

Request(kind) == [NoPacket EXCEPT !.type = kind]
OtaChunk(i, d, h) == [type |-> "OTA_CHUNK", count |-> 0, index |-> i,
                      data |-> d, sha |-> h]

MCPayload  == {"old", "a0", "a1", "bad"}
MCOld      == [s \in Slots |-> "old"]
MCRequests == {Request(k) : k \in {"START", "STOP", "PROBE"}}
                \cup {[Request("OTA_START") EXCEPT !.count = 2],
                      OtaChunk(0, "a0", "a0"), OtaChunk(1, "a1", "a1"),
                      OtaChunk(0, "bad", "a0"), OtaChunk(2, "a0", "a0")}
=============================================================================
