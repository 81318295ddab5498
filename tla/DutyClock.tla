------------------------------ MODULE DutyClock ------------------------------
(***************************************************************************)
(* The clock of a duty: when it started and ended, what delay it is tagged *)
(* with, and whether its driver has rested before the next one.            *)
(*                                                                         *)
(* Time is counted in units, Day of them a day; wall clocks in India are   *)
(* Ist ahead of UTC, and now is UTC.  start_duty stores a time with a zone,*)
(* which the database turns into its own (variable zone), end_duty stores  *)
(* the Indian wall clock, and the vehicle assignment asks for the rest of  *)
(* a driver by the UTC clock.                                              *)
(***************************************************************************)
EXTENDS Integers, Sequences, SequencesExt, FiniteSets, FiniteSetsExt

CONSTANTS Routes, Drivers,
          Plan,        \* for each route, when its stops are due, in order (Indian time)
          Estimated,   \* estimated_total_time of a route
          Day, Ist,
          MaxDuty,     \* driver_max_duty_minutes
          Enforce,     \* driver_rest_enforcement is "block"
          Grace, DriverGrace, EmployeeGrace,
          MaxNow,      \* bound: the clock
          None

VARIABLES
    now,
    zone,        \* how far the time zone of the database is ahead of UTC: 0 or Ist
    driver,      \* assigned_driver_id
    start,       \* actual_start_time, as stored
    finish,      \* actual_end_time, as stored
    reached,     \* when each stop got its actual_pick_up_time (Indian time)
    tag          \* what tag_trip_delay left on the route

vars == <<now, zone, driver, start, finish, reached, tag>>

Times == 0..(MaxNow + Ist)
Tag   == [minutes : Int, type : {"LATE", "EARLY", "ON_TIME"},
          category : {"NONE", "DRIVER_DELAY", "EMPLOYEE_DELAY", "TRAFFIC_DELAY"}]

\* The columns hold what they may, and a route that ended has started.
TypeOK ==
    /\ now \in 0..MaxNow /\ zone \in {0, Ist}
    /\ driver \in [Routes -> Drivers \union {None}]
    /\ start \in [Routes -> Times \union {None}]
    /\ finish \in [Routes -> Times \union {None}]
    /\ \A r \in Routes : reached[r] \in [DOMAIN Plan[r] -> Times \union {None}]
    /\ tag \in [Routes -> Tag \union {None}]
    /\ \A r \in Routes : finish[r] # None => start[r] # None

Unreached(r) == [i \in DOMAIN Plan[r] |-> None]

Init ==
    /\ now = 0 /\ zone \in {0, Ist}
    /\ driver = [r \in Routes |-> None]
    /\ start = [r \in Routes |-> None]
    /\ finish = [r \in Routes |-> None]
    /\ reached = [r \in Routes |-> Unreached(r)]
    /\ tag = [r \in Routes |-> None]

-----------------------------------------------------------------------------
\* --- check_rest ----------------------------------------------------------------

\* The duties of a driver that have begun before the moment at, cut to the day
\* before it; one that goes on lasts until then.
Busy(d, at) ==
    LET mine == {r \in Routes : driver[r] = d /\ start[r] # None /\ start[r] < at}
        End(r) == IF finish[r] = None THEN at ELSE finish[r]
    IN  {<<Max({start[r], at - Day}), Min({End(r), at})>> : r \in mine}
Intervals(d, at) == {s \in Busy(d, at) : s[2] > s[1]}

\* The segments in the order of their starts.
ByStart(segments) ==
    CHOOSE order \in [1..Cardinality(segments) -> segments] :
        /\ \A i, j \in DOMAIN order : i < j => order[i][1] <= order[j][1]
        /\ \A s \in segments : \E i \in DOMAIN order : order[i] = s

\* Mutant: a segment that ends within the one before it shortens it.
ExtendShort(merged, s) ==
    IF merged # <<>> /\ s[1] <= Last(merged)[2]
    THEN [merged EXCEPT ![Len(merged)] = <<Last(merged)[1], s[2]>>]
    ELSE Append(merged, s)

\* A segment that overlaps or touches the last one extends it.
Extend(merged, s) ==
    IF merged # <<>> /\ s[1] <= Last(merged)[2]
    THEN [merged EXCEPT ![Len(merged)] = <<Last(merged)[1], Max({Last(merged)[2], s[2]})>>]
    ELSE Append(merged, s)

Merged(segments) == FoldLeft(Extend, <<>>, ByStart(segments))

\* The longest of the gaps before, between and after the merged segments.
RestGap(d, at) ==
    LET m == Merged(Intervals(d, at))
    IN  IF m = <<>> THEN Day
        ELSE Max({m[1][1] - (at - Day), at - Last(m)[2]}
                 \union {m[i + 1][1] - m[i][2] : i \in 1..(Len(m) - 1)})

CheckRest(d, at) == RestGap(d, at) >= Day - MaxDuty

\* What the report of duty hours blames a driver for: duties begun without rest.
RestViolations(d) ==
    {r \in Routes : driver[r] = d /\ finish[r] # None /\ ~CheckRest(d, start[r])}

\* --- tag_trip_delay ----------------------------------------------------------------

DelayType(minutes) ==
    IF minutes > Grace THEN "LATE" ELSE IF minutes < -Grace THEN "EARLY" ELSE "ON_TIME"

\* The times of a stop are stored as hours and minutes: a delay knows no date.
StopDelay(r, i) == (reached[r][i] % Day) - (Plan[r][i] % Day)
LateStops(r, grace) ==
    {i \in DOMAIN Plan[r] : reached[r][i] # None /\ StopDelay(r, i) > grace}

ClassifyDelayCategory(r, type) ==
    IF type # "LATE" THEN "NONE"
    ELSE IF 1 \in LateStops(r, DriverGrace) THEN "DRIVER_DELAY"
    ELSE IF LateStops(r, EmployeeGrace) # {} THEN "EMPLOYEE_DELAY"
    ELSE "TRAFFIC_DELAY"

\* The delay of a route that ends at the stored time end.
TripDelay(r, end) ==
    LET minutes == end - (start[r] + Estimated[r])
        type    == DelayType(minutes)
    IN  [minutes |-> minutes, type |-> type, category |-> ClassifyDelayCategory(r, type)]

-----------------------------------------------------------------------------
\* assign_vehicle_to_route, whatever the route has become, asks for the rest of
\* the driver until now; nothing happens when the assignment stays the same.
AssignDriver(r, d) ==
    /\ driver[r] # d
    /\ Enforce => CheckRest(d, now)
    /\ driver' = [driver EXCEPT ![r] = d]
    /\ UNCHANGED <<now, zone, start, finish, reached, tag>>

StartDuty(r) ==
    /\ driver[r] # None /\ start[r] = None
    /\ \A q \in Routes : driver[q] = driver[r] => ~(start[q] # None /\ finish[q] = None)
    /\ start' = [start EXCEPT ![r] = now + zone]
    /\ UNCHANGED <<now, zone, driver, finish, reached, tag>>

\* A pickup, or a no-show even before or after the duty, writes the wall clock of
\* the stop, and may do so again.
ReachStop(r, i) ==
    /\ driver[r] # None
    /\ reached' = [reached EXCEPT ![r][i] = now + Ist]
    /\ UNCHANGED <<now, zone, driver, start, finish, tag>>

EndDuty(r) ==
    /\ start[r] # None /\ finish[r] = None
    /\ finish' = [finish EXCEPT ![r] = now + Ist]
    /\ tag' = [tag EXCEPT ![r] = TripDelay(r, now + Ist)]
    /\ UNCHANGED <<now, zone, driver, start, reached>>

\* A deleted route takes its hours with it.
DeleteRoute(r) ==
    /\ driver' = [driver EXCEPT ![r] = None]
    /\ start' = [start EXCEPT ![r] = None]
    /\ finish' = [finish EXCEPT ![r] = None]
    /\ reached' = [reached EXCEPT ![r] = Unreached(r)]
    /\ tag' = [tag EXCEPT ![r] = None]
    /\ UNCHANGED <<now, zone>>

Tick ==
    /\ now < MaxNow /\ now' = now + 1
    /\ UNCHANGED <<zone, driver, start, finish, reached, tag>>

Next ==
    \/ Tick
    \/ \E r \in Routes :
           \/ \E d \in Drivers : AssignDriver(r, d)
           \/ StartDuty(r)
           \/ \E i \in DOMAIN Plan[r] : ReachStop(r, i)
           \/ EndDuty(r)
           \/ DeleteRoute(r)

Spec == Init /\ [][Next]_vars

-----------------------------------------------------------------------------
\* The longest stretch of the day before at in which none of the duties of d, each
\* from From(r) to To(r), takes place: the definition that check_rest computes.
LongestFree(d, at, From(_), To(_)) ==
    LET free == {t \in (at - Day)..(at - 1) :
                    \A r \in Routes : driver[r] = d /\ start[r] # None =>
                        t < From(r) \/ t >= To(r)}
    IN  Max({n \in 0..Day : \E t \in (at - Day)..(at - n) : t..(t + n - 1) \subseteq free})

\* A driver's rest before any moment is what it is by definition, however his duties
\* overlap, enclose or touch one another, and the report blames him accordingly.
FreeAsStored(d, at) ==
    LongestFree(d, at, LAMBDA r : start[r],
                LAMBDA r : IF finish[r] = None THEN Max({at, start[r]}) ELSE finish[r])
RestExact ==
    \A d \in Drivers :
        /\ \A at \in Times : RestGap(d, at) = FreeAsStored(d, at)
        /\ \A r \in Routes : driver[r] = d /\ finish[r] # None =>
               (r \in RestViolations(d)) = (FreeAsStored(d, start[r]) < Day - MaxDuty)

\* Both times of a stop fall on one date.
SameDate(r, i) == reached[r][i] # None => reached[r][i] \div Day = Plan[r][i] \div Day
Late(r, i, grace) == reached[r][i] # None /\ reached[r][i] - Plan[r][i] > grace

\* With a database that keeps Indian time, the delay of a route is that of its duty;
\* it has a cause exactly when the route is late, and the driver is the cause
\* when he is late at the first stop, unless a stop was reached across midnight.
DelayTagged ==
    \A r \in Routes : zone = Ist /\ finish[r] = None /\ finish'[r] # None =>
        /\ tag'[r].minutes = now + Ist - start[r] - Estimated[r]
        /\ (tag'[r].category = "NONE") = (now + Ist <= start[r] + Estimated[r] + Grace)
        /\ (\A i \in DOMAIN Plan[r] : SameDate(r, i)) =>
               /\ tag'[r].category = "DRIVER_DELAY" => Late(r, 1, DriverGrace)
               /\ tag'[r].category = "TRAFFIC_DELAY" =>
                      \A i \in DOMAIN Plan[r] : ~Late(r, i, EmployeeGrace)

\* services/driver_duty_hours_service.py:62 says "Check whether *driver_id* has had
\* enough rest by *proposed_start_dt*": who has had it, by the duties as they took
\* place, passes the check of an assignment made now.
RestJudged ==
    \A d \in Drivers :
        LongestFree(d, now, LAMBDA r : start[r] - zone,
                    LAMBDA r : IF finish[r] = None THEN now ELSE finish[r] - Ist)
            >= Day - MaxDuty
        => CheckRest(d, now)
=============================================================================
