---------------------------- MODULE ReminderJob -----------------------------
(***************************************************************************)
(* The job that reminds passengers of their pickup, in a thread of the     *)
(* scheduler, beside the handlers that plan, move, cancel and carry them.  *)
(* It is triggered at every tick, one run at a time, and takes up the rows *)
(* that link a booking with a route.  Dates and pickup times are Indian,   *)
(* the job compares them with the date and the time of day in UTC: to the  *)
(* job every pickup is Skew later than it is.                              *)
(***************************************************************************)
EXTENDS Integers, FiniteSets

CONSTANTS
    Bookings, Routes,
    Day,             \* ticks of a day
    Times,           \* bound: which bookings come on which routes, and when that day
    Dates, MaxNow,   \* bounds: dates, and the last tick
    Skew,            \* IST - UTC
    Window,          \* schedule_reminder_minutes
    MaxRun,          \* bound: ticks that a run may last
    MaxFaults,       \* bound: restarts and database errors
    None

\* The rows that link a booking with a route.
Links == DOMAIN Times

ASSUME LinksAssumption  == IsFiniteSet(Links) /\ Links \subseteq Bookings \X Routes
ASSUME WindowAssumption ==
    /\ {Day, Window} \subseteq Nat \ {0} /\ {Skew, MaxNow} \subseteq Nat
    /\ Times \in [Links -> SUBSET (0..(Day - 1))] /\ Dates \subseteq Nat
ASSUME BoundAssumption  == {MaxRun, MaxFaults} \subseteq Nat

VARIABLES
    now,         \* the clock of the server, UTC
    date,        \* booking_date
    status,      \* of the booking
    pickup,      \* of the link, None: there is none with a time, a vehicle and a driver
    marked,      \* bookings whose reminder_sent_at is set
    reminders,   \* how often each was reminded
    most,        \* on how many routes each was at a time, at most
    waited,      \* how long each has been due
    job,         \* the run, None: there is none
    trigger,     \* the tick's trigger was not served yet
    faults

tripVars == <<now, date, status, pickup, most>>
vars == <<tripVars, marked, reminders, waited, job, trigger, faults>>

Job == [left : SUBSET Links, sent : Links \union {None}, broken : BOOLEAN, age : 0..MaxRun]

ASSUME NoneIsNew == None \notin Links \union Job \union Nat

\* The columns and the run hold what they may.
TypeOK ==
    /\ now \in 0..MaxNow
    /\ date \in [Bookings -> Dates]
    /\ status \in [Bookings -> {"REQUEST", "SCHEDULED", "CANCELLED", "gone"}]
    /\ pickup \in [Links -> 0..(Day - 1) \union {None}]
    /\ marked \in SUBSET Bookings
    /\ reminders \in [Bookings -> Nat]
    /\ most \in [Bookings -> Nat]
    /\ waited \in [Bookings -> Nat]
    /\ job \in Job \union {None}
    /\ trigger \in BOOLEAN
    /\ faults \in 0..MaxFaults

Init ==
    /\ now = 0
    /\ date \in [Bookings -> Dates]
    /\ status = [b \in Bookings |-> "REQUEST"]
    /\ pickup = [l \in Links |-> None]
    /\ marked = {}
    /\ reminders = [b \in Bookings |-> 0]
    /\ most = [b \in Bookings |-> 0]
    /\ waited = [b \in Bookings |-> 0]
    /\ job = None
    /\ trigger = FALSE
    /\ faults = 0

-----------------------------------------------------------------------------
RowsOf(b, rows) == {l \in rows : l[1] = b}
Planned(b)      == {l \in RowsOf(b, Links) : pickup[l] # None}

\* now < pickup <= now + Window, by the job's clock
InWindow(l) ==
    LET at == date[l[1]] * Day + pickup[l]
    IN  now < at /\ at <= now + Window

\* _find_candidates: a row for each link, of the bookings of today (in UTC)
Candidate(l) ==
    /\ status[l[1]] = "SCHEDULED" /\ l[1] \notin marked
    /\ date[l[1]] = now \div Day
    /\ pickup[l] # None /\ InWindow(l)

Candidates == {l \in Links : Candidate(l)}
Due(b)     == \E l \in Candidates : l[1] = b

\* Whoever stops being due has waited for nothing.
Waiting == waited' = [b \in Bookings |-> IF Due(b)' THEN waited[b] ELSE 0]

Handler == UNCHANGED <<now, date, reminders, job, trigger, faults>> /\ Waiting

\* The office plans a booking, on a second route too, takes it off a route again
\* (as some handlers do, leaving it SCHEDULED), or moves the pickup; so do the
\* driver's pings.
Plan(l, t) ==
    LET b == l[1] IN
    /\ status[b] \in {"REQUEST", "SCHEDULED"} /\ pickup[l] = None
    /\ status' = [status EXCEPT ![b] = "SCHEDULED"]
    /\ pickup' = [pickup EXCEPT ![l] = t]
    /\ most' = [most EXCEPT ![b] = IF Cardinality(Planned(b)') > @
                                   THEN Cardinality(Planned(b)') ELSE @]
    /\ UNCHANGED marked /\ Handler

Unplan(l, s) ==
    /\ pickup[l] # None /\ status[l[1]] = "SCHEDULED"
    /\ status' = [status EXCEPT ![l[1]] = s]
    /\ pickup' = [pickup EXCEPT ![l] = None]
    /\ UNCHANGED <<most, marked>> /\ Handler

MovePickup(l, t) ==
    /\ pickup[l] \notin {None, t} /\ status[l[1]] = "SCHEDULED"
    /\ pickup' = [pickup EXCEPT ![l] = t]
    /\ UNCHANGED <<status, most, marked>> /\ Handler

\* cancel_booking, and update_booking, which reopens a cancelled booking and
\* leaves its mark as it is
Cancel(b) ==
    /\ status[b] = "REQUEST"
    /\ status' = [status EXCEPT ![b] = "CANCELLED"]
    /\ UNCHANGED <<pickup, most, marked>> /\ Handler

Reopen(b) ==
    /\ status[b] = "CANCELLED"
    /\ status' = [status EXCEPT ![b] = "REQUEST"]
    /\ UNCHANGED <<pickup, most, marked>> /\ Handler

\* The passenger is picked up or missed.
Leave(b) ==
    /\ Planned(b) # {} /\ status[b] = "SCHEDULED"
    /\ status' = [status EXCEPT ![b] = "gone"]
    /\ UNCHANGED <<pickup, most, marked>> /\ Handler

-----------------------------------------------------------------------------
\* Mutant: a trigger starts a run beside the one that goes on.
StartRunAnyway ==
    /\ trigger
    /\ trigger' = FALSE
    /\ job' = [left |-> Candidates, sent |-> None, broken |-> FALSE, age |-> 0]
    /\ UNCHANGED <<tripVars, marked, reminders, waited, faults>>

\* Mutant: a run takes one candidate.
StartRunOne ==
    /\ trigger
    /\ trigger' = FALSE
    /\ job' = IF job # None THEN job
              ELSE IF Candidates = {} THEN None
              ELSE [left |-> {CHOOSE l \in Candidates : TRUE}, sent |-> None,
                    broken |-> FALSE, age |-> 0]
    /\ UNCHANGED <<tripVars, marked, reminders, waited, faults>>

\* run_reminder_job; with a run that goes on, the trigger is skipped.
StartRun ==
    /\ trigger
    /\ trigger' = FALSE
    /\ job' = IF job # None THEN job
              ELSE IF Candidates = {} THEN None
              ELSE [left |-> Candidates, sent |-> None, broken |-> FALSE, age |-> 0]
    /\ UNCHANGED <<tripVars, marked, reminders, waited, faults>>

\* The candidate is not read again.  Once the database has failed, the session
\* of the run is of no use: a reminder may still go out, a mark does not.
Remind(l) ==
    /\ job # None /\ job.sent = None /\ l \in job.left
    /\ \/ /\ reminders' = [reminders EXCEPT ![l[1]] = @ + 1]
          /\ job' = [job EXCEPT !.left = @ \ {l}, !.sent = IF job.broken THEN None ELSE l]
       \/ /\ job.broken
          /\ job' = [job EXCEPT !.left = @ \ {l}]
          /\ UNCHANGED reminders
    /\ UNCHANGED <<tripVars, marked, waited, trigger, faults>>

\* _mark_sent, or an error of the database.
MarkSent ==
    /\ job # None /\ job.sent # None
    /\ \/ /\ marked' = marked \union {job.sent[1]}
          /\ job' = [job EXCEPT !.sent = None]
          /\ UNCHANGED faults
       \/ /\ faults < MaxFaults /\ faults' = faults + 1
          /\ job' = [job EXCEPT !.sent = None, !.broken = TRUE]
          /\ UNCHANGED marked
    /\ UNCHANGED <<tripVars, reminders, trigger>> /\ Waiting

EndRun ==
    /\ job # None /\ job.left = {} /\ job.sent = None
    /\ job' = None
    /\ UNCHANGED <<tripVars, marked, reminders, waited, trigger, faults>>

Restart ==
    /\ faults < MaxFaults /\ faults' = faults + 1
    /\ job' = None
    /\ UNCHANGED <<tripVars, marked, reminders, waited, trigger>>

\* Triggers are served in time, and a run is over after MaxRun ticks.
Tick ==
    /\ ~trigger /\ now < MaxNow
    /\ job # None => job.age < MaxRun
    /\ trigger' = TRUE
    /\ now' = now + 1
    /\ job' = IF job = None THEN None ELSE [job EXCEPT !.age = @ + 1]
    /\ UNCHANGED <<date, status, pickup, most, marked, reminders, faults>>
    /\ waited' = [b \in Bookings |-> IF Due(b) /\ Due(b)' THEN waited[b] + 1 ELSE 0]

Next ==
    \/ \E b \in Bookings : Cancel(b) \/ Reopen(b) \/ Leave(b)
    \/ \E l \in Links :
           \/ Remind(l)
           \/ \E s \in {"REQUEST", "SCHEDULED"} : Unplan(l, s)
           \/ \E t \in Times[l] : Plan(l, t) \/ MovePickup(l, t)
    \/ StartRun \/ MarkSent \/ EndRun \/ Restart
    \/ Tick

Spec == Init /\ [][Next]_vars

-----------------------------------------------------------------------------
\* A booking is reminded of in one run, once for each route that it is on at the
\* time, whatever becomes of it in the meantime and however often it is planned
\* again ("don't spam"); a further run does so only after a restart or an error
\* between a reminder and its mark.
RemindedOnce == \A b \in Bookings : reminders[b] <= most[b] * (1 + faults)

\* Without them no candidate is passed over: who stays one is reminded while a
\* run that came too early ends and the one after it lasts, and no booking that
\* comes and goes in the meantime makes anyone wait longer.
NobodyPassedOver == faults = 0 => \A b \in Bookings : waited[b] <= 2 * MaxRun + 1

\* A run takes up bookings whose pickup is "within (now, now + reminder_minutes]".
CandidatesInWindow ==
    [][job = None /\ job' # None =>
           \A l \in job'.left : date[l[1]] * Day + pickup[l] - Skew - now \in 1..Window]_vars
=============================================================================
