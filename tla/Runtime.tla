------------------------------- MODULE Runtime -------------------------------
(* A robot that runs a user image: the loop of the image and its interrupts,  *)
(* the entry points of the secure bootloader it calls (cmse_implib.c), the    *)
(* main loop and the radio interrupt of the network core, the hardware mutex  *)
(* they share, and the faults and watchdogs that end the run.  A handshake of *)
(* ipc_network_call is one step on each side; IpcCall has it in full.         *)
EXTENDS Integers, Sequences, FiniteSets

CONSTANTS
  Images,      \* [calls, handlers]: the loop of a user image, its interrupt handlers
  Calibrated,  \* the images that run on a robot with LH2 matrices
  Payload      \* bodies of logs and packets

NetCalls == {"send_data", "send_raw", "init_rng", "read_rng"}
Calls == NetCalls \cup {"delay", "keep_alive", "log", "get_position"}
Nothing == "nothing"
Pointer == "pointer"     \* the bytes of an address, where a packet was meant
Blank == [length |-> Nothing, content |-> Nothing]

ASSUME ImageAssumption ==
  \A u \in Images : u.calls \in Seq(Calls) /\ u.calls # <<>>
ASSUME PayloadAssumption == {Nothing, Pointer} \cap Payload = {}
ASSUME ModeAssumption == Calibrated \subseteq Images

VARIABLES
  user,          \* the image, for the whole run
  at,            \* index of the call the user image is in
  pc,            \* and the part of it
  isr,           \* its IPC interrupt runs
  timer_running, \* _timer_running of the sample
  located,       \* _localization_data_available
  handed,        \* what the image handed to the entry point it is in
  mutex,         \* who holds NRF_MUTEX MUTEX[0]
  log,           \* shared, as two halves written one after the other
  tx_pdu,
  ipc_req, net_ack, ipc_log_received, data_received, stop_received, radio_rx,
  netPc,         \* the part of the network core's main loop
  netIsr,        \* its radio interrupt: "none", "lock" or "store"
  event,         \* the log event in notification_buffer
  hungry,        \* the period of WDT0 is over unless it is fed
  wdt1           \* WDT1 runs

userVars  == <<at, pc, timer_running, handed>>
flagVars  == <<ipc_req, net_ack, ipc_log_received, data_received, stop_received, radio_rx>>
bufVars   == <<log, tx_pdu>>
netVars   == <<netPc, netIsr, event>>
dogVars   == <<hungry, wdt1>>
vars == <<user, userVars, isr, located, mutex, flagVars, bufVars, netVars, dogVars>>

Call == user.calls[at]

-------------------------------------------------------------------------------
(* The user image and the entry points.  Its interrupts come between any two  *)
(* steps; a spinning handler never gives the processor back.                  *)

Running == pc \notin {"boot", "spin"}
AppRuns == Running /\ ~isr

\* The call returns: on to the next one of the loop.
Return ==
  /\ pc' = "enter" /\ handed' = Nothing
  /\ at' = IF at = Len(user.calls) THEN 1 ELSE at + 1

\* delay_ms: sleep until the timer's interrupt clears the flag.
Delay ==
  /\ AppRuns /\ Call = "delay"
  /\ \/ pc = "enter" /\ timer_running' = TRUE /\ pc' = "sleep" /\ UNCHANGED <<at, handed>>
     \/ pc = "sleep" /\ ~timer_running /\ Return /\ UNCHANGED timer_running
  /\ UNCHANGED <<user, isr, located, mutex, flagVars, bufVars, netVars, dogVars>>

\* swarmit_keep_alive feeds WDT0 first; the position is stored only if there is
\* a new one and it passes the filter.
KeepAlive ==
  /\ AppRuns /\ pc = "enter" /\ Call = "keep_alive"
  /\ hungry' = FALSE
  /\ Return \/ (located /\ pc' = "lock" /\ UNCHANGED <<at, handed>>)
  /\ UNCHANGED <<user, timer_running, isr, located, mutex, flagVars, bufVars,
                 netVars, wdt1>>

\* swarmit_log_data refuses what does not fit, swarmit_localization_get_position
\* does not.
EnterLocked ==
  /\ AppRuns /\ pc = "enter" /\ Call \in {"log", "get_position"}
  /\ (Call = "log" /\ Return) \/ (pc' = "lock" /\ UNCHANGED <<at, handed>>)
  /\ UNCHANGED <<user, timer_running, isr, located, mutex, flagVars, bufVars,
                 netVars, dogVars>>

\* `while (NRF_MUTEX_NS->MUTEX[0]) {}`: reading zero takes it.
Bug_Acquire(who) == mutex' = who
Acquire(who) == mutex = "free" /\ mutex' = who

Lock ==
  /\ AppRuns /\ pc = "lock" /\ Acquire("app") /\ pc' = "first"
  /\ UNCHANGED <<user, at, timer_running, handed, isr, located, flagVars, bufVars,
                 netVars, dogVars>>

\* A log is written length first; positions are not told apart.
First ==
  /\ AppRuns /\ pc = "first" /\ pc' = "second"
  /\ IF Call = "log" THEN \E v \in Payload : handed' = v /\ log' = [log EXCEPT !.length = v]
                     ELSE UNCHANGED <<handed, log>>
  /\ UNCHANGED <<user, at, timer_running, isr, located, mutex, flagVars, tx_pdu,
                 netVars, dogVars>>

Second ==
  /\ AppRuns /\ pc = "second" /\ pc' = "unlock"
  /\ log' = IF Call = "log" THEN [log EXCEPT !.content = handed] ELSE log
  /\ UNCHANGED <<user, at, timer_running, handed, isr, located, mutex, flagVars,
                 tx_pdu, netVars, dogVars>>

\* mutex_unlock, and the signal that a log is there.
Unlock ==
  /\ AppRuns /\ pc = "unlock" /\ mutex' = "free" /\ Return
  /\ ipc_log_received' = (ipc_log_received \/ Call = "log")
  /\ UNCHANGED <<user, timer_running, isr, located, ipc_req, net_ack,
                 data_received, stop_received, radio_rx, bufVars, netVars, dogVars>>

\* swarmit_send_data_packet copies from &packet, the address of its parameter;
\* swarmit_send_raw_data copies the packet.
Sent(call, v) == IF call = "send_data" THEN Pointer ELSE v

\* The calls that go through the network core.
EnterCall ==
  /\ AppRuns /\ pc = "enter" /\ Call \in {"send_data", "send_raw", "init_rng", "read_rng"}
  /\ IF Call \in {"send_data", "send_raw"}
       THEN \E v \in Payload : handed' = v /\ tx_pdu' = Sent(Call, v)
       ELSE UNCHANGED <<handed, tx_pdu>>
  /\ ipc_req' = Call /\ pc' = "ack"
  /\ UNCHANGED <<user, at, timer_running, isr, located, mutex, net_ack, ipc_log_received,
                 data_received, stop_received, radio_rx, log, netVars, dogVars>>

AwaitAck ==
  /\ AppRuns /\ pc = "ack" /\ net_ack /\ net_ack' = FALSE /\ Return
  /\ UNCHANGED <<user, timer_running, isr, located, mutex, ipc_req,
                 ipc_log_received, data_received, stop_received, radio_rx, bufVars, netVars,
                 dogVars>>

AppStep == Delay \/ KeepAlive \/ EnterLocked \/ Lock \/ First \/ Second \/ Unlock
             \/ EnterCall \/ AwaitAck

\* The vector table: a handler the image does not define is Dummy_Handler,
\* which spins.
Handled(irq) == irq \in user.handlers

TimerInterrupt ==
  /\ AppRuns /\ timer_running /\ timer_running' = FALSE
  /\ pc' = IF Handled("TIMER0") THEN pc ELSE "spin"
  /\ UNCHANGED <<user, at, handed, isr, located, mutex, flagVars, bufVars, netVars,
                 dogVars>>

\* LH2 is started at launch on a calibrated robot; its interrupt belongs to
\* the user image, which passes it on to swarmit_localization_handle_isr.
LighthouseInterrupt ==
  /\ AppRuns /\ user \in Calibrated
  /\ IF Handled("SPIM4") THEN located' \in BOOLEAN /\ UNCHANGED pc
                         ELSE pc' = "spin" /\ UNCHANGED located
  /\ UNCHANGED <<user, at, timer_running, handed, isr, mutex, flagVars, bufVars,
                 netVars, dogVars>>

\* swarmit_ipc_isr gives the image's callback a pointer to rx_pdu, which it
\* reads without the mutex.
RadioInterrupt ==
  /\ AppRuns /\ radio_rx
  /\ IF Handled("IPC") THEN radio_rx' = FALSE /\ isr' = TRUE /\ UNCHANGED pc
                       ELSE pc' = "spin" /\ UNCHANGED <<radio_rx, isr>>
  /\ UNCHANGED <<user, at, timer_running, handed, located, mutex, ipc_req, net_ack,
                 ipc_log_received, data_received, stop_received, bufVars, netVars, dogVars>>

Callback ==
  /\ Running /\ isr /\ isr' = FALSE
  /\ UNCHANGED <<user, userVars, located, mutex, flagVars, bufVars, netVars, dogVars>>

\* A fault of the user image ends in a HardFaultHandler or SecureFaultHandler
\* that spins; a breakpoint is skipped.
UserFault ==
  /\ Running /\ pc' = "spin" /\ isr' = FALSE
  /\ UNCHANGED <<user, at, timer_running, handed, located, mutex, flagVars, bufVars,
                 netVars, dogVars>>

-------------------------------------------------------------------------------
(* The network core: one pass of its main loop looks at its flags in turn.    *)

NetRuns == netIsr = "none" /\ netPc # "spin" /\ pc # "boot"
Bug_Idle == ~stop_received /\ ipc_req = Nothing /\ ~ipc_log_received
Idle == ~stop_received /\ ipc_req = Nothing /\ ~data_received /\ ~ipc_log_received

Wake ==
  /\ NetRuns /\ netPc = "top" /\ ~Idle /\ netPc' = "request"
  /\ UNCHANGED <<user, userVars, isr, located, mutex, flagVars, bufVars, netIsr,
                 event, dogVars>>

\* STOP: the signal starts WDT1 without the application core.
Request ==
  /\ NetRuns /\ netPc = "request" /\ netPc' = "ipc"
  /\ stop_received' = FALSE /\ wdt1' = (wdt1 \/ stop_received)
  /\ UNCHANGED <<user, userVars, isr, located, mutex, ipc_req, net_ack, ipc_log_received,
                 data_received, radio_rx, bufVars, netIsr, event, hungry>>

Serve ==
  /\ NetRuns /\ netPc = "ipc" /\ netPc' = "data"
  /\ net_ack' = (net_ack \/ ipc_req # Nothing)
  /\ ipc_req' = Nothing
  /\ UNCHANGED <<user, userVars, isr, located, mutex, ipc_log_received, data_received,
                 stop_received, radio_rx, bufVars, netIsr, event, dogVars>>

Forward ==
  /\ NetRuns /\ netPc = "data" /\ netPc' = "log"
  /\ data_received' = FALSE /\ radio_rx' = (radio_rx \/ data_received)
  /\ UNCHANGED <<user, userVars, isr, located, mutex, ipc_req, net_ack, ipc_log_received,
                 stop_received, bufVars, netIsr, event, dogVars>>

TakeLog ==
  /\ NetRuns /\ netPc = "log"
  /\ netPc' = IF ipc_log_received THEN "lock" ELSE "top"
  /\ ipc_log_received' = FALSE
  /\ UNCHANGED <<user, userVars, isr, located, mutex, ipc_req, net_ack, data_received,
                 stop_received, radio_rx, bufVars, netIsr, event, dogVars>>

\* The log is copied into notification_buffer under the mutex, and sent
\* once it is free.
CopyLog ==
  /\ NetRuns
  /\ \/ netPc = "lock" /\ Acquire("main") /\ netPc' = "length" /\ UNCHANGED event
     \/ /\ netPc = "length" /\ netPc' = "content"
        /\ event' = [event EXCEPT !.length = log.length] /\ UNCHANGED mutex
     \/ /\ netPc = "content" /\ netPc' = "unlock"
        /\ event' = [event EXCEPT !.content = log.content] /\ UNCHANGED mutex
     \/ netPc = "unlock" /\ mutex' = "free" /\ netPc' = "top" /\ event' = Blank
  /\ UNCHANGED <<user, userVars, isr, located, flagVars, bufVars, netIsr,
                 dogVars>>

NetStep == Wake \/ Request \/ Serve \/ Forward \/ TakeLog \/ CopyLog

\* A packet for the user image, which takes none once it is STOPPING.
Arrive ==
  /\ NetRuns /\ ~wdt1 /\ netIsr' = "lock"
  /\ UNCHANGED <<user, userVars, isr, located, mutex, flagVars, bufVars, netPc, event, dogVars>>

ArriveStop ==
  /\ NetRuns /\ ~stop_received /\ stop_received' = TRUE
  /\ UNCHANGED <<user, userVars, isr, located, mutex, ipc_req, net_ack, ipc_log_received,
                 data_received, radio_rx, bufVars, netVars, dogVars>>

\* _handle_packet, in the radio interrupt: the main loop waits for its end,
\* also while it holds the mutex the interrupt spins on.
StorePacket ==
  /\ pc # "boot" /\ netIsr = "lock" /\ Acquire("isr") /\ netIsr' = "store"
  /\ UNCHANGED <<user, userVars, isr, located, flagVars, bufVars, netPc, event, dogVars>>

PacketStored ==
  /\ pc # "boot" /\ netIsr = "store" /\ mutex' = "free" /\ netIsr' = "none"
  /\ data_received' = TRUE
  /\ UNCHANGED <<user, userVars, isr, located, ipc_req, net_ack, ipc_log_received,
                 stop_received, radio_rx, bufVars, netPc, event, dogVars>>

\* A fault of the network core: its handler spins and no watchdog guards it.
NetFault ==
  /\ NetRuns /\ netPc' = "spin"
  /\ UNCHANGED <<user, userVars, isr, located, mutex, flagVars, bufVars, netIsr,
                 event, dogVars>>

-------------------------------------------------------------------------------
(* Watchdogs *)

\* WDT0 was started at launch; its period passes but for the last feed.
Starve ==
  /\ pc # "boot" /\ hungry' = TRUE
  /\ UNCHANGED <<user, userVars, isr, located, mutex, flagVars, bufVars, netVars, wdt1>>

\* Either watchdog resets the chip, which comes up in the bootloader.
Bug_Bite == wdt1
Bite == hungry \/ wdt1

\* What a launch finds: both cores fresh, the shared data cleared.
Fresh(start) ==
  /\ at' = 1 /\ pc' = start /\ isr' = FALSE
  /\ timer_running' = FALSE /\ located' = FALSE /\ handed' = Nothing
  /\ mutex' = "free" /\ log' = Blank /\ tx_pdu' = Nothing
  /\ ipc_req' = Nothing /\ net_ack' = FALSE /\ ipc_log_received' = FALSE
  /\ data_received' = FALSE /\ stop_received' = FALSE /\ radio_rx' = FALSE
  /\ netPc' = "top" /\ netIsr' = "none"
  /\ event' = Blank
  /\ hungry' = FALSE /\ wdt1' = FALSE
  /\ UNCHANGED user

WatchdogReset == pc # "boot" /\ Bite /\ Fresh("boot")

\* Somebody sends START again.
Launch == pc = "boot" /\ Fresh("enter")

Init ==
  /\ user \in Images
  /\ at = 1 /\ pc = "enter" /\ isr = FALSE
  /\ timer_running = FALSE /\ located = FALSE /\ handed = Nothing
  /\ mutex = "free" /\ log = Blank /\ tx_pdu = Nothing
  /\ ipc_req = Nothing /\ net_ack = FALSE /\ ipc_log_received = FALSE
  /\ data_received = FALSE /\ stop_received = FALSE /\ radio_rx = FALSE
  /\ netPc = "top" /\ netIsr = "none"
  /\ event = Blank
  /\ hungry = FALSE /\ wdt1 = FALSE

Next ==
  \/ AppStep \/ TimerInterrupt \/ LighthouseInterrupt \/ RadioInterrupt \/ Callback \/ UserFault
  \/ NetStep \/ Arrive \/ ArriveStop \/ StorePacket \/ PacketStored \/ NetFault
  \/ Starve \/ WatchdogReset \/ Launch

\* Both processors execute, the timer fires, interrupts end and time passes.
\* Nothing makes packets arrive or somebody start the image again.
Fairness ==
  /\ WF_vars(AppStep) /\ WF_vars(TimerInterrupt) /\ WF_vars(RadioInterrupt)
  /\ WF_vars(Callback) /\ SF_vars(NetStep) /\ SF_vars(StorePacket) /\ WF_vars(PacketStored)
  /\ WF_vars(Starve) /\ WF_vars(WatchdogReset)

Spec == Init /\ [][Next]_vars /\ Fairness

-------------------------------------------------------------------------------
(* Properties *)

TypeOK ==
  /\ at \in 1 .. Len(user.calls)
  /\ pc \in {"boot", "spin", "enter", "sleep", "lock", "first", "second", "unlock", "ack"}
  /\ isr \in BOOLEAN
  /\ mutex \in {"free", "app", "main", "isr"}
  /\ netPc \in {"top", "request", "ipc", "data", "log", "lock", "length", "content", "unlock",
                "spin"}
  /\ netIsr \in {"none", "lock", "store"}
  /\ hungry \in BOOLEAN

\* A log event carries one log, never the length of one and the bytes of another
\* (ipc.c's mutex around both copies).  Not part of it is the size of the frame,
\* which is read after the unlock.
LogsAreWhole ==
  netPc = "unlock" => event.length = event.content

\* What the network core is about to send for the user image is the packet it
\* was handed (cmse_implib.h).
SentIsHanded == ipc_req \in {"send_data", "send_raw"} => tx_pdu = handed

\* A network core that spins in its interrupt on the mutex its own main loop
\* holds (NET 478), or in a fault handler, takes a user image down with it that
\* calls it: the image waits in one of its calls, stops feeding WDT0 and the
\* robot restarts.  An image that never calls it runs on, out of STOP's reach.
CallsNet == \E i \in DOMAIN user.calls : user.calls[i] \in NetCalls
DeadlockEnds ==
  CallsNet /\ ((netIsr = "lock" /\ mutex = "main") \/ netPc = "spin") ~> pc = "boot"

\* A user image that hangs, by a fault or an interrupt it does not handle, and
\* one whose STOP was taken, ends in the bootloader.
HangEnds == pc = "spin" \/ wdt1 ~> pc = "boot"

\* A packet in rx_pdu is announced to the user image, for the main loop never
\* goes to sleep on it (NET 248), unless a core has failed, has been reset, or
\* the two wait for the mutex as above.
PacketsAreAnnounced ==
  data_received ~> \/ radio_rx \/ pc \in {"spin", "boot"} \/ netPc = "spin"
                   \/ netIsr = "lock" /\ mutex = "main"
===============================================================================
