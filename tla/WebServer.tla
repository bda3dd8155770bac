------------------------------- MODULE WebServer ------------------------------
(***************************************************************************)
(* The write endpoints of swarmit/testbed/webserver.py: handlers that take  *)
(* one asyncio lock, run a controller call on a thread of the pool and      *)
(* release the lock.  /flash/stream also overrides the controller's OTA     *)
(* settings while it holds the lock, and loses it when its client           *)
(* disconnects: the thread of its transfer goes on without a handler.       *)
(*                                                                         *)
(* What start_ota() and transfer() do with the robots is module             *)
(* OtaTransfer; here each is one call that installs its data in the         *)
(* controller when it starts and returns at some later time.                *)
(***************************************************************************)
EXTENDS Naturals, Sequences, FiniteSets, SequencesExt

CONSTANTS
  Clients,      \* each has one request at a time
  None,
  Default,      \* the controller's own OTA settings
  Overrides,    \* values a /flash/stream may ask for instead
  MaxFlashes    \* bound: flashes asked for in a behaviour

ASSUME ValueAssumption == None \notin Clients /\ None \notin Overrides \cup {Default}
ASSUME FlashBound == MaxFlashes \in Nat

VARIABLES
  phase,        \* phase[c]: where the handler of c's request is
  request,      \* request[c]
  gone,         \* gone[c]: the stream's client left while start_ota() ran
  holder,       \* controller_lock
  waiters,      \* the handlers waiting for it, in order
  settings,     \* controller.settings.ota_timeout and ota_max_retries
  saved,        \* saved[c]: what the stream of c restores on exit
  flashes,      \* flashes asked for so far; a flash is known by its number
  flashOf,      \* flashOf[c]: the flash of c's request
  chunksOf,     \* the flash controller.chunks and start_ota_data belong to
  tableOf,      \* the flash controller.transfer_data belongs to
  transfers     \* the flashes whose transfer() runs on a thread

vars == <<phase, request, gone, holder, waiters, settings, saved, flashes, flashOf,
          chunksOf, tableOf, transfers>>

Phases == {"idle", "waiting", "command", "start", "transfer"}

(***************************************************************************)
(* /flash/stream with or without overrides, /flash, and "command" for       *)
(* /start, /stop, /message, /reset, /lh2_calibration and /lh2_capture.      *)
(***************************************************************************)
Request == [kind : {"stream"}, override : Overrides \cup {None}]
             \cup [kind : {"flash", "command"}, override : {None}]

NoRequest == [kind |-> "command", override |-> None]

Streams(c) == request[c].kind = "stream"

-------------------------------------------------------------------------------
\* The request has been checked and its handler asks for the lock.
Post(c, r) ==
  /\ phase[c] = "idle"
  /\ phase' = [phase EXCEPT ![c] = "waiting"]
  /\ request' = [request EXCEPT ![c] = r]
  /\ waiters' = Append(waiters, c)
  /\ IF r.kind = "command"
       THEN UNCHANGED <<flashes, flashOf>>
       ELSE /\ flashes < MaxFlashes
            /\ flashes' = flashes + 1
            /\ flashOf' = [flashOf EXCEPT ![c] = flashes + 1]
  /\ UNCHANGED <<gone, holder, settings, saved, chunksOf, tableOf, transfers>>

\* Mutant: the handlers do not wait for each other.
Bug_LockFree == TRUE

LockFree == holder = None

\* asyncio.Lock is fair: the first waiter that is still there gets it.
Acquire(c) ==
  /\ waiters # <<>> /\ Head(waiters) = c /\ LockFree
  /\ holder' = c
  /\ waiters' = Tail(waiters)

\* A call of the controller other than a flash.
StartCommand(c) ==
  /\ Acquire(c) /\ request[c].kind = "command"
  /\ phase' = [phase EXCEPT ![c] = "command"]
  /\ UNCHANGED <<request, gone, settings, saved, flashes, flashOf, chunksOf, tableOf,
                 transfers>>

\* Mutant: the overrides of the request are ignored.
Bug_Effective(r) == settings

Effective(r) == IF r.override = None THEN settings ELSE r.override

\* start_ota() on a thread: it replaces the chunks and the acks of the flash before.
StartFlash(c) ==
  /\ Acquire(c) /\ request[c].kind # "command"
  /\ phase' = [phase EXCEPT ![c] = "start"]
  /\ saved' = [saved EXCEPT ![c] = IF Streams(c) THEN settings ELSE None]
  /\ settings' = Effective(request[c])
  /\ chunksOf' = flashOf[c]
  /\ UNCHANGED <<request, gone, flashes, flashOf, tableOf, transfers>>

\* Mutant: the settings are not restored when the client is gone.
Bug_Restored(c) == IF Streams(c) /\ ~gone[c] THEN saved[c] ELSE settings

Restored(c) == IF Streams(c) THEN saved[c] ELSE settings

\* Mutant: a handler that fails keeps the lock.
Bug_Unlock(c, failed) == IF failed THEN c ELSE None

Unlock(c, failed) == None

\* The handler ends, normally or with an error, through its finally clauses.
Finish(c, failed) ==
  /\ phase' = [phase EXCEPT ![c] = "idle"]
  /\ request' = [request EXCEPT ![c] = NoRequest]
  /\ gone' = [gone EXCEPT ![c] = FALSE]
  /\ settings' = Restored(c)
  /\ saved' = [saved EXCEPT ![c] = None]
  /\ flashOf' = [flashOf EXCEPT ![c] = 0]
  /\ holder' = Unlock(c, failed)

CommandReturns(c) ==
  /\ phase[c] = "command"
  /\ Finish(c, FALSE)
  /\ UNCHANGED <<waiters, flashes, chunksOf, tableOf, transfers>>

\* start_ota() missed a robot or raised an exception, or it returned to a handler
\* that was cancelled while it ran.
FlashFails(c) ==
  /\ phase[c] = "start"
  /\ Finish(c, TRUE)
  /\ UNCHANGED <<waiters, flashes, chunksOf, tableOf, transfers>>

\* transfer() on a thread: it replaces transfer_data.
StartTransfer(c) ==
  /\ phase[c] = "start" /\ ~gone[c]
  /\ phase' = [phase EXCEPT ![c] = "transfer"]
  /\ tableOf' = flashOf[c]
  /\ transfers' = transfers \cup {flashOf[c]}
  /\ UNCHANGED <<request, gone, holder, waiters, settings, saved, flashes, flashOf,
                 chunksOf>>

TransferReturns(c) ==
  /\ phase[c] = "transfer"
  /\ transfers' = transfers \ {flashOf[c]}
  /\ Finish(c, FALSE)
  /\ UNCHANGED <<waiters, flashes, chunksOf, tableOf>>

(***************************************************************************)
(* The client of a stream disconnects and the handler is cancelled.  While  *)
(* it waits for the lock it leaves the queue.  While start_ota() runs the   *)
(* cancellation waits for the thread.  While the transfer runs the handler  *)
(* is asleep between two looks at the progress: it ends at once.            *)
(***************************************************************************)
\* c leaves the queue, wherever it stands.
Left(c) == \E i \in DOMAIN waiters : waiters[i] = c /\ waiters' = RemoveAt(waiters, i)

LeaveQueue(c) ==
  /\ Streams(c) /\ phase[c] = "waiting"
  /\ phase' = [phase EXCEPT ![c] = "idle"]
  /\ request' = [request EXCEPT ![c] = NoRequest]
  /\ flashOf' = [flashOf EXCEPT ![c] = 0]
  /\ Left(c)
  /\ UNCHANGED <<gone, holder, settings, saved, flashes, chunksOf, tableOf,
                 transfers>>

LeaveStart(c) ==
  /\ Streams(c) /\ phase[c] = "start"
  /\ gone' = [gone EXCEPT ![c] = TRUE]
  /\ UNCHANGED <<phase, request, holder, waiters, settings, saved, flashes, flashOf,
                 chunksOf, tableOf, transfers>>

LeaveTransfer(c) ==
  /\ Streams(c) /\ phase[c] = "transfer"
  /\ Finish(c, FALSE)
  /\ UNCHANGED <<waiters, flashes, chunksOf, tableOf, transfers>>

\* The transfer of a handler that is gone ends.
AbandonedReturns(f) ==
  /\ f \in transfers /\ \A c \in Clients : flashOf[c] # f
  /\ transfers' = transfers \ {f}
  /\ UNCHANGED <<phase, request, gone, holder, waiters, settings, saved, flashes,
                 flashOf, chunksOf, tableOf>>

-------------------------------------------------------------------------------
Init ==
  /\ phase = [c \in Clients |-> "idle"]
  /\ request = [c \in Clients |-> NoRequest]
  /\ gone = [c \in Clients |-> FALSE]
  /\ holder = None /\ waiters = <<>>
  /\ settings = Default /\ saved = [c \in Clients |-> None]
  /\ flashes = 0 /\ flashOf = [c \in Clients |-> 0]
  /\ chunksOf = 0 /\ tableOf = 0 /\ transfers = {}

Enter(c) == StartCommand(c) \/ StartFlash(c)

Return(c) ==
  CommandReturns(c) \/ FlashFails(c) \/ StartTransfer(c) \/ TransferReturns(c)

Leave(c) == LeaveQueue(c) \/ LeaveStart(c) \/ LeaveTransfer(c)

Next ==
  \/ \E c \in Clients : (\E r \in Request : Post(c, r)) \/ Enter(c) \/ Return(c) \/ Leave(c)
  \/ \E f \in transfers : AbandonedReturns(f)

Spec == Init /\ [][Next]_vars

\* The event loop runs, and every call of the controller returns: its loops
\* count their attempts.
FairSpec == Spec /\ \A c \in Clients : WF_vars(Enter(c)) /\ WF_vars(Return(c))

-------------------------------------------------------------------------------
TypeOK ==
  /\ phase \in [Clients -> Phases]
  /\ request \in [Clients -> Request]
  /\ gone \in [Clients -> BOOLEAN]
  /\ holder \in Clients \cup {None}
  /\ waiters \in Seq(Clients)
  /\ settings \in Overrides \cup {Default}
  /\ saved \in [Clients -> Overrides \cup {Default, None}]
  /\ flashes \in 0 .. MaxFlashes
  /\ flashOf \in [Clients -> 0 .. flashes]
  /\ chunksOf \in 0 .. flashes /\ tableOf \in 0 .. flashes
  /\ transfers \subseteq 1 .. flashes

\* What a handler tells its client is about its own flash: the controller's chunks and
\* table of acks are the ones its own calls installed, also while abandoned transfers
\* of earlier streams go on (webserver.py:402 to 433 reads them while it waits).
ReportsOwnFlash ==
  \A c \in Clients :
    /\ phase[c] \in {"start", "transfer"} => chunksOf = flashOf[c]
    /\ phase[c] = "transfer" => tableOf = flashOf[c]

\* "apply the request's overrides (if any), restore on exit.  Safe under
\* controller_lock" (webserver.py:334 to 336): a flash that is being waited for runs
\* with the settings its request asked for, or with the server's own.
OverrideInForce ==
  \A c \in Clients : phase[c] \in {"start", "transfer"} =>
    settings = IF request[c].override = None THEN Default ELSE request[c].override

\* Whenever nobody holds the lock the server's own settings are back, whichever way
\* the streams before ended.
SettingsRestored == holder = None => settings = Default

\* Every request is answered, whatever the clients before it did: the lock is released
\* on every path.
Answered == \A c \in Clients : phase[c] = "waiting" ~> phase[c] = "idle"

-------------------------------------------------------------------------------
\* "This is intentional: only one OTA at a time" (webserver.py:85 to 86).
OneTransferAtATime == Cardinality(transfers) <= 1
=============================================================================
