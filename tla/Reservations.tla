----------------------------- MODULE Reservations -----------------------------
(* The reservation of the testbed: the table of slots and its trigger         *)
(* (model.py), /issue_jwt and the check of a token (webserver.py), and one     *)
(* dashboard that asks for slots, takes tokens and tells its user whether the  *)
(* token it holds is active (App.tsx, CalendarPage.tsx, Login.tsx).            *)
EXTENDS Integers

CONSTANTS
  Slot,      \* length of a reservation
  Starts,    \* times asked for
  Zones,     \* UTC offsets clients write them with; the dashboard uses 0
  MaxDelay,  \* of setTimeout: 2^31 - 1 ms; a longer one runs out at once
  Horizon,   \* bound on time
  Issues     \* bound on the dashboard's requests

ASSUME ReservationsAssumption ==
  /\ Slot \in Nat \ {0} /\ Starts \subseteq Nat /\ Zones \subseteq Int /\ 0 \in Zones
  /\ MaxDelay \in Nat /\ Horizon \in Nat /\ Issues \in Nat

VARIABLES
  now,
  records,          \* jwt_records: a token is known by its start and offset
  requests,         \* POST /issue_jwt of the dashboard, not yet handled
  replies,          \* tokens on their way to the dashboard
  issues,           \* requests left
  token,            \* the state of usePersistedToken: a set of at most one
  tokenActiveness,
  timers            \* setTimeout(checkActiveness) of this page

serverVars == <<records>>
pageVars   == <<token, tokenActiveness, timers>>
reservationVars == <<now, records, requests, replies, issues, pageVars>>

Records == [nbf : Starts, zone : Zones]
Exp(r) == r.nbf + Slot

-------------------------------------------------------------------------------
(* The server *)

\* AwareDateTime: SQLite keeps the date and the time as written, without offset.
Stored(r) == r.nbf + r.zone

\* The trigger prevent_overlap compares what is stored.
Bug_Overlaps(new, r) == Stored(new) < Stored(r) + Slot /\ Stored(new) > Stored(r)
Overlaps(new, r) == Stored(new) < Stored(r) + Slot /\ Stored(new) + Slot > Stored(r)

Free(new) == \A r \in records : ~Overlaps(new, r)

\* verify_jwt.
Accepts(r) == r.nbf <= now /\ now < Exp(r)

\* issue_token for another client, "Timeslot already full" included.
IssueToken ==
  /\ \E r \in Records : Free(r) /\ records' = records \cup {r}
  /\ UNCHANGED <<now, requests, replies, issues, pageVars>>

\* For the dashboard; a refusal only shows a message.
HandleRequest ==
  \E s \in requests :
    LET r == [nbf |-> s, zone |-> 0] IN
      /\ requests' = requests \ {s}
      /\ IF Free(r) THEN records' = records \cup {r} /\ replies' = replies \cup {r}
                    ELSE UNCHANGED <<records, replies>>
      /\ UNCHANGED <<now, issues, pageVars>>

-------------------------------------------------------------------------------
(* The dashboard *)

Activeness(t) ==
  IF now < t.nbf THEN "NotValidYet" ELSE IF now > Exp(t) THEN "Expired" ELSE "Active"

Delay(d) == IF d > MaxDelay THEN 0 ELSE d

\* When the effect looks at token t again, if it does.
Bug_NextCheck(t) == IF now < t.nbf THEN {now + Delay(t.nbf - now)} ELSE {}
NextCheck(t) ==
  CASE Activeness(t) = "NotValidYet" -> {now + Delay(t.nbf - now)}
    [] Activeness(t) = "Active" -> {now + Delay(Exp(t) - now)}
    [] OTHER -> {}

\* checkActiveness, called with the timers ts still running.
CheckActiveness(t, ts) ==
  /\ tokenActiveness' = Activeness(t)
  /\ timers' = ts \cup {[at |-> a, of |-> t, canceled |-> FALSE] : a \in NextCheck(t)}

\* The clean-up of the effect: its timers still run out, but do nothing.
Bug_Canceled(ts) == ts
Canceled(ts) == {[t EXCEPT !.canceled = TRUE] : t \in ts}

SetToken(t) == token' = {t} /\ CheckActiveness(t, Canceled(timers))

\* Without a token the effect returns early: tokenActiveness stays what it was.
ClearToken == token' = {} /\ timers' = Canceled(timers) /\ UNCHANGED tokenActiveness

Fire ==
  \E t \in timers :
    /\ t.at <= now
    /\ IF t.canceled THEN timers' = timers \ {t} /\ UNCHANGED tokenActiveness
                     ELSE CheckActiveness(t.of, timers \ {t})
    /\ UNCHANGED <<now, records, requests, replies, issues, token>>

\* handleIssue drops the token first.  The button comes back as soon as the
\* records are read again: two requests may be under way.
HandleIssue ==
  /\ issues > 0 /\ issues' = issues - 1
  /\ \E s \in Starts : requests' = requests \cup {s}
  /\ ClearToken
  /\ UNCHANGED <<now, records, replies>>

Response ==
  \E r \in replies : /\ replies' = replies \ {r} /\ SetToken(r)
                     /\ UNCHANGED <<now, records, requests, issues>>

\* handleVerify: a token that was issued, whenever it is valid.
HandleVerify ==
  /\ \E r \in records : SetToken(r)
  /\ UNCHANGED <<now, records, requests, replies, issues>>

\* The page is loaded again, with the token of localStorage; replies are lost.
Reload ==
  /\ replies' = {} /\ UNCHANGED <<now, records, requests, issues, token>>
  /\ IF token = {} THEN tokenActiveness' = "NoToken" /\ timers' = {}
                   ELSE \E t \in token : CheckActiveness(t, {})

Clock == /\ now < Horizon /\ now' = now + 1
         /\ UNCHANGED <<records, requests, replies, issues, pageVars>>

ReservationInit ==
  /\ now = 0 /\ records = {} /\ requests = {} /\ replies = {} /\ issues = Issues
  /\ token = {} /\ tokenActiveness = "NoToken" /\ timers = {}

ReservationNext ==
  \/ IssueToken \/ HandleRequest \/ Fire \/ HandleIssue \/ Response \/ HandleVerify
  \/ Reload \/ Clock

\* Time passes and timers run out.
ReservationFairness == WF_reservationVars(Clock) /\ WF_reservationVars(Fire)

ReservationSpec ==
  ReservationInit /\ [][ReservationNext]_reservationVars /\ ReservationFairness

-------------------------------------------------------------------------------
(* Properties *)

ReservationTypeOK ==
  /\ now \in 0 .. Horizon /\ issues \in 0 .. Issues
  /\ records \subseteq Records /\ replies \subseteq records /\ token \subseteq records
  /\ requests \subseteq Starts
  /\ tokenActiveness \in {"NoToken", "NotValidYet", "Active", "Expired"}

\* The server accepts one reservation at a time, whoever asked for the slots and
\* in whatever order, as long as all of them wrote their times with one offset.
ExclusiveSlot ==
  \A r, s \in records : r.zone = s.zone /\ Accepts(r) /\ Accepts(s) => r = s

\* What the dashboard shows is about the token it holds: not the timer of a token
\* that was replaced, dropped or reloaded tells its user that it is active before
\* it is, or expired before it is.
ShowsOwnToken ==
  \A t \in token : /\ tokenActiveness = "Active" => t.nbf <= now
                   /\ tokenActiveness = "Expired" => Exp(t) < now

\* A user is told in the end that the token is over, unless it is replaced: also
\* when the last check comes in the very second of the end, and when the delay of
\* a far reservation is more than a timer can hold.
ExpiryIsShown ==
  \A r \in Records :
    (token = {r}) ~> (token # {r} \/ tokenActiveness = "Expired")
===============================================================================
