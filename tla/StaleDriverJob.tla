--------------------------- MODULE StaleDriverJob ---------------------------
(***************************************************************************)
(* The job that tells the admins of a driver on duty who sends no more     *)
(* pings.  It runs in a thread of the scheduler, one run at a time; when   *)
(* each route was last told of is kept in the process (_last_alert_at).    *)
(***************************************************************************)
EXTENDS Naturals

CONSTANTS
    Routes,
    Threshold,       \* stale_driver_threshold_minutes
    Cooldown,        \* _ALERT_COOLDOWN_MINUTES
    MaxRun,          \* bound: ticks that a run may last
    MaxFaults,       \* bound: restarts and database errors
    None

VARIABLES
    duty,        \* routes that are ONGOING
    admins,      \* an admin of the tenant is logged in
    silent,      \* time since the last ping or the start of the duty
    stamp,       \* time since _last_alert_at, Cooldown: or none
    gap,         \* time since the check that led to the last alert
    job,         \* the routes that a run has found and not dealt with
    trigger,     \* the tick's trigger was not served yet
    faults

vars == <<duty, admins, silent, stamp, gap, job, trigger, faults>>

LongAgo == Cooldown + MaxRun

\* The variables stay in their ranges.
TypeOK ==
    /\ duty \in SUBSET Routes
    /\ admins \in BOOLEAN
    /\ silent \in [Routes -> 0..Threshold]
    /\ stamp \in [Routes -> 0..Cooldown]
    /\ gap \in [Routes -> 0..LongAgo]
    /\ job \in [left : SUBSET Routes, age : 0..MaxRun] \union {None}
    /\ trigger \in BOOLEAN
    /\ faults \in 0..MaxFaults

Init ==
    /\ duty = {}
    /\ admins \in BOOLEAN
    /\ silent = [r \in Routes |-> 0]
    /\ stamp = [r \in Routes |-> Cooldown]
    /\ gap = [r \in Routes |-> LongAgo]
    /\ job = None
    /\ trigger = FALSE
    /\ faults = 0

-----------------------------------------------------------------------------
\* start_duty stamps actual_start_time, a ping its row of the trail; a duty ends
\* or its route is deleted.
StartDuty(r) ==
    /\ r \notin duty
    /\ duty' = duty \union {r}
    /\ silent' = [silent EXCEPT ![r] = 0]
    /\ UNCHANGED <<admins, stamp, gap, job, trigger, faults>>

Ping(r) ==
    /\ r \in duty
    /\ silent' = [silent EXCEPT ![r] = 0]
    /\ UNCHANGED <<duty, admins, stamp, gap, job, trigger, faults>>

EndDuty(r) ==
    /\ r \in duty
    /\ duty' = duty \ {r}
    /\ UNCHANGED <<admins, silent, stamp, gap, job, trigger, faults>>

AdminsComeAndGo ==
    /\ admins' = ~admins
    /\ UNCHANGED <<duty, silent, stamp, gap, job, trigger, faults>>

-----------------------------------------------------------------------------
\* Mutant: the cooldown is not looked up.
StaleAnyway == {r \in duty : silent[r] >= Threshold}

\* Routes that a run finds: silent for the threshold and
\* not told of lately.
Stale == {r \in duty : silent[r] >= Threshold /\ stamp[r] >= Cooldown}

\* With a run that goes on, the trigger is skipped.
StartRun ==
    /\ trigger
    /\ trigger' = FALSE
    /\ job' = IF job # None THEN job
              ELSE IF Stale = {} THEN None ELSE [left |-> Stale, age |-> 0]
    /\ UNCHANGED <<duty, admins, silent, stamp, gap, faults>>

\* Mutant: nobody is told, and the stamp is set.
AlertNobody(r) ==
    /\ job # None /\ r \in job.left
    /\ job' = [job EXCEPT !.left = @ \ {r}]
    /\ stamp' = [stamp EXCEPT ![r] = IF job.age < Cooldown THEN job.age ELSE Cooldown]
    /\ UNCHANGED <<duty, admins, silent, gap, trigger, faults>>

\* _alert_admins: the time of the check is stamped, whether anyone is logged in
\* and whether the push arrives.  An error of the database leaves no stamp.
AlertAdmins(r) ==
    /\ job # None /\ r \in job.left
    /\ job' = [job EXCEPT !.left = @ \ {r}]
    /\ \/ /\ stamp' = [stamp EXCEPT ![r] = IF job.age < Cooldown THEN job.age ELSE Cooldown]
          /\ gap' = IF admins THEN [gap EXCEPT ![r] = job.age] ELSE gap
          /\ UNCHANGED faults
       \/ faults < MaxFaults /\ faults' = faults + 1 /\ UNCHANGED <<stamp, gap>>
    /\ UNCHANGED <<duty, admins, silent, trigger>>

EndRun ==
    /\ job # None /\ job.left = {}
    /\ job' = None
    /\ UNCHANGED <<duty, admins, silent, stamp, gap, trigger, faults>>

\* The stamps are gone with the process.
Restart ==
    /\ faults < MaxFaults /\ faults' = faults + 1
    /\ job' = None
    /\ stamp' = [r \in Routes |-> Cooldown]
    /\ UNCHANGED <<duty, admins, silent, gap, trigger>>

Later(f, most) == [r \in Routes |-> IF f[r] < most THEN f[r] + 1 ELSE most]

\* Triggers are served in time, and a run is over after MaxRun ticks.
Tick ==
    /\ ~trigger
    /\ job # None => job.age < MaxRun
    /\ trigger' = TRUE
    /\ silent' = Later(silent, Threshold)
    /\ stamp' = Later(stamp, Cooldown)
    /\ gap' = Later(gap, LongAgo)
    /\ job' = IF job = None THEN None ELSE [job EXCEPT !.age = @ + 1]
    /\ UNCHANGED <<duty, admins, faults>>

Run == StartRun \/ EndRun \/ \E r \in Routes : AlertAdmins(r)

Next ==
    \/ \E r \in Routes : StartDuty(r) \/ Ping(r) \/ EndDuty(r)
    \/ AdminsComeAndGo \/ Run \/ Restart \/ Tick

\* Time goes on, and the scheduler's thread runs.
Fairness == WF_vars(Tick) /\ WF_vars(Run)

Spec == Init /\ [][Next]_vars

-----------------------------------------------------------------------------
\* "A new alert is suppressed if the previous one was sent within the last 10
\* minutes": until a restart forgets them, two alerts of a route come from checks
\* that are so far apart, however late each goes out and whoever is logged in.
Alerted(r) == job # None /\ job' # None /\ r \in job.left \ job'.left
AlertsSpaced ==
    [][\A r \in Routes :
           faults' = 0 /\ Alerted(r) => gap[r] >= Cooldown + job.age]_vars

\* A driver who stays silent is noticed again and again, as long as an admin is
\* there, whatever was restarted or failed before.
SilentNoticed ==
    \A r \in Routes :
        <>[](r \in duty /\ silent[r] = Threshold /\ admins) => []<>(gap[r] <= MaxRun)
=============================================================================
