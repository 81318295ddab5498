---------------------------- MODULE LiveLocation ----------------------------
(***************************************************************************)
(* One driver on the map.  Starting a duty, pinging a position and ending  *)
(* a duty are coroutines without an await before their commit; what they   *)
(* leave to do runs afterwards in worker threads, the tasks of one request *)
(* in order and the tasks of several requests side by side: the driver's   *)
(* node in Firebase, and the arrival notice of the next stop.  Meanwhile   *)
(* the office regroups: it deletes the link rows of a route and inserts new*)
(* ones, and takes stops off for routes of other drivers.  (The pickup     *)
(* times, the last task of a ping, are moved in module ReminderJob.)       *)
(***************************************************************************)
EXTENDS Naturals, FiniteSets

CONSTANTS
    Routes,          \* routes
    Stops,           \* bookings
    Plans,           \* bound: what there is at first (routes and stops, edition, faults)
    HasPlace,        \* stops with pickup coordinates
    MaxRequests,     \* bound: requests whose tasks are not finished
    MaxRegroups,     \* bound: how often the office regroups a route
    MaxFaults,       \* bound: errors of Firebase or FCM, restarts
    None

Slots  == 1..MaxRequests
Places == 1..Cardinality(Stops)

VARIABLES
    StopsOf,     \* the driver's routes, and the stop at each order_id of each
    edition,     \* how often the link rows of each route were written again
    duty,        \* the status of each route
    rider,       \* the passenger of each stop
    notified,    \* link rows whose geofence_notified_at is set
    node,        \* drivers/<tenant>/<vendor>/<driver> in Firebase
    tasks,       \* what requests have left to do, None: free
    told,        \* arrival notices that went out for each link row
    peak,        \* the most requests that had tasks at a time
    faults

linkVars == <<StopsOf, edition>>
dbVars == <<linkVars, duty, rider, notified>>
vars == <<dbVars, node, tasks, told, peak, faults>>

Legs == {"init", "push", "geofence", "mark", "arrive", "look", "clear"}
Node == [active : BOOLEAN, route : Routes]
\* What a route may be linked with: a stop at some of the places.
Links == UNION {[P -> Stops] : P \in SUBSET Places}

\* A link row: its route, the edition it was written in, and its stop.
Rows == Routes \X (0..MaxRegroups) \X Stops
Task == [at : Legs, route : Routes, row : Rows \union {None}]
Statuses == {"DRIVER_ASSIGNED", "ONGOING", "COMPLETED", "taken", "deleted"}

\* The columns, the node and the tasks hold what they may.
TypeOK ==
    /\ DOMAIN StopsOf \subseteq Routes /\ StopsOf \in [DOMAIN StopsOf -> Links]
    /\ edition \in [Routes -> 0..MaxRegroups]
    /\ duty \in [DOMAIN StopsOf -> Statuses]
    /\ rider \in [Stops -> {"waiting", "settled"}]
    /\ notified \subseteq Rows
    /\ node \in Node \union {None}
    /\ tasks \in [Slots -> Task \union {None}]
    /\ told \in [Rows -> Nat]
    /\ peak \in 0..MaxRequests
    /\ faults \in 0..MaxFaults

Init ==
    /\ \E p \in Plans : /\ StopsOf = p.stops
                        /\ edition = [r \in Routes |-> p.edition]
                        /\ faults = p.faults
    /\ duty = [r \in DOMAIN StopsOf |-> "DRIVER_ASSIGNED"]
    /\ rider = [b \in Stops |-> "waiting"]
    /\ notified = {}
    /\ node = None
    /\ tasks = [k \in Slots |-> None]
    /\ told = [w \in Rows |-> 0]
    /\ peak = 0

-----------------------------------------------------------------------------
Ongoing == {r \in DOMAIN StopsOf : duty[r] = "ONGOING"}
On(r)   == {StopsOf[r][i] : i \in DOMAIN StopsOf[r]}

\* A response is sent, and its tasks wait for a worker thread.
Leave(at, r) ==
    \E k \in Slots :
        /\ tasks[k] = None /\ \A j \in Slots : j < k => tasks[j] # None
        /\ tasks' = [tasks EXCEPT ![k] = [at |-> at, route |-> r, row |-> None]]
        /\ peak' = LET n == 1 + Cardinality({j \in Slots : tasks[j] # None})
                    IN  IF n > peak THEN n ELSE peak

\* --- the requests ----------------------------------------------------------

StartDuty(r) ==
    /\ duty[r] = "DRIVER_ASSIGNED"
    /\ Ongoing = {}
    /\ duty' = [duty EXCEPT ![r] = "ONGOING"]
    /\ Leave("init", r)
    /\ UNCHANGED <<linkVars, rider, notified, node, told, faults>>

\* The row of the trail is inserted; the rest is left to the tasks.
UpdateDriverLocation(r) ==
    /\ duty[r] = "ONGOING"
    /\ Leave("push", r)
    /\ UNCHANGED <<dbVars, node, told, faults>>

EndDuty(r) ==
    /\ duty[r] = "ONGOING"
    /\ \A b \in On(r) : rider[b] = "settled"
    /\ duty' = [duty EXCEPT ![r] = "COMPLETED"]
    /\ Leave("look", r)
    /\ UNCHANGED <<linkVars, rider, notified, node, told, faults>>

\* Mutant: every route of the driver is synchronised.
SyncDriversAll(r) ==
    /\ Leave("init", r)
    /\ UNCHANGED <<dbVars, node, told, faults>>

\* sync_all_active_drivers_to_firebase: the node again, for an ongoing route.
SyncDrivers(r) ==
    /\ duty[r] = "ONGOING"
    /\ Leave("init", r)
    /\ UNCHANGED <<dbVars, node, told, faults>>

\* The passenger is picked up and dropped, or missed, or cancels: one step here,
\* no task tells those who are aboard from those who are not expected.
Settle(b) ==
    /\ rider[b] = "waiting"
    /\ rider' = [rider EXCEPT ![b] = "settled"]
    /\ UNCHANGED <<linkVars, duty, notified, node, tasks, told, peak, faults>>

\* The office gives an ongoing route to another driver, or deletes it with its
\* link rows (or merges it into a new one); neither touches the node.
OfficeTakes(r) ==
    /\ duty[r] = "ONGOING"
    /\ \/ duty' = [duty EXCEPT ![r] = "taken"] /\ UNCHANGED StopsOf
       \/ duty' = [duty EXCEPT ![r] = "deleted"] /\ StopsOf' = [StopsOf EXCEPT ![r] = <<>>]
    /\ UNCHANGED <<edition, rider, notified, node, tasks, told, peak, faults>>

\* The stops S are unlinked from route q: the others keep their order_id.
Without(q, S) == [i \in {j \in DOMAIN StopsOf[q] : StopsOf[q][j] \notin S} |-> StopsOf[q][i]]

\* update_route, update_route_bookings: whatever its status, the link rows of the
\* route are deleted and new ones inserted, with no mark; stops that come from
\* other routes are unlinked there (one trip per shift) or not.
Regroup(r, stops) ==
    /\ duty[r] # "deleted" /\ \A q \in Routes : edition[q] < MaxRegroups
    /\ \E moved \in {{}, {stops[i] : i \in DOMAIN stops}} :
           StopsOf' = [q \in DOMAIN StopsOf |-> IF q = r THEN stops ELSE Without(q, moved)]
    /\ edition' = [edition EXCEPT ![r] = @ + 1]
    /\ UNCHANGED <<duty, rider, notified, node, tasks, told, peak, faults>>

\* Stops go to a route of another driver: create_route_from_bookings, or update_route
\* there.  The other link rows stay as they are.
MoveAway(S) ==
    /\ StopsOf' = [q \in DOMAIN StopsOf |-> Without(q, S)]
    /\ UNCHANGED <<edition, duty, rider, notified, node, tasks, told, peak, faults>>

-----------------------------------------------------------------------------
\* --- the tasks, in their order ---------------------------------------------

At(k, leg)  == tasks[k] # None /\ tasks[k].at = leg
Done(k)     == tasks' = [tasks EXCEPT ![k] = None]
Go(k, leg)  == tasks' = [tasks EXCEPT ![k].at = leg]
Waiting(b)  == rider[b] = "waiting"
Ahead(r)    == {i \in Places : i \in DOMAIN StopsOf[r] /\ Waiting(StopsOf[r][i])}
Fault       == faults < MaxFaults /\ faults' = faults + 1
NoFault     == UNCHANGED faults

\* Mutant: a node that is there keeps its flag and its route.
WriteNodeKept(r) ==
    \/ node' = (IF node = None THEN [active |-> TRUE, route |-> r] ELSE node) /\ NoFault
    \/ UNCHANGED node /\ Fault

\* Firebase takes the node, or fails, which is only logged.  Whether the node
\* is there makes no difference: it is set or updated to the same.
WriteNode(r) ==
    \/ node' = [active |-> TRUE, route |-> r] /\ NoFault
    \/ UNCHANGED node /\ Fault

InitializeNode(k) ==
    /\ At(k, "init")
    /\ WriteNode(tasks[k].route)
    /\ Done(k)
    /\ UNCHANGED <<dbVars, told, peak>>

PushLocation(k) ==
    /\ At(k, "push")
    /\ WriteNode(tasks[k].route)
    /\ Go(k, "geofence")
    /\ UNCHANGED <<dbVars, told, peak>>

\* clear_driver_location_from_firebase reads the node first: without one there
\* is nothing to clear.
ClearLook(k) ==
    /\ At(k, "look")
    /\ \/ node = None /\ Done(k) /\ NoFault
       \/ node # None /\ Go(k, "clear") /\ NoFault
       \/ Done(k) /\ Fault
    /\ UNCHANGED <<dbVars, node, told, peak>>

ClearNode(k) ==
    /\ At(k, "clear")
    /\ \/ node' = [node EXCEPT !.active = FALSE] /\ NoFault
       \/ UNCHANGED node /\ Fault
    /\ Done(k)
    /\ UNCHANGED <<dbVars, told, peak>>

\* The first stop of some that a route has left.
FirstOf(r, left) ==
    IF left = {} THEN None ELSE StopsOf[r][CHOOSE i \in left : \A j \in left : i <= j]

\* The link row that a route has of a stop now, and the rows that there are.
RowOf(r, b) == <<r, edition[r], b>>
Linked == UNION {{RowOf(r, b) : b \in On(r)} : r \in DOMAIN StopsOf}

\* Mutant: the check looks at the first stop that waits, notified or not.
NextStopAny(r) ==
    LET b == FirstOf(r, Ahead(r)) IN IF RowOf(r, b) \in notified THEN None ELSE b

\* The next stop: the first that waits and was not notified.
NextStop(r) == FirstOf(r, {i \in Ahead(r) : RowOf(r, StopsOf[r][i]) \notin notified})

\* _run_geofence_check reads; it goes on only inside the radius of that stop, that
\* is, if the position of the ping is near.
GeofenceCheck(k, near) ==
    LET r == tasks[k].route
        b == NextStop(r)
    IN  /\ At(k, "geofence")
        /\ IF b # None /\ b \in HasPlace /\ near
           THEN tasks' = [tasks EXCEPT ![k].at = "mark", ![k].row = RowOf(r, b)]
           ELSE Done(k)
        /\ UNCHANGED <<dbVars, node, told, peak, faults>>

\* Mutant: the mark is not written.
GeofenceMarkNever(k) ==
    /\ At(k, "mark")
    /\ Go(k, "arrive")
    /\ UNCHANGED <<dbVars, node, told, peak, faults>>

\* The mark is committed before the notice goes out; a row that is gone cannot be
\* updated, and the check ends there.
GeofenceMark(k) ==
    /\ At(k, "mark")
    /\ IF tasks[k].row \in Linked
       THEN notified' = notified \union {tasks[k].row} /\ Go(k, "arrive")
       ELSE UNCHANGED notified /\ Done(k)
    /\ UNCHANGED <<linkVars, duty, rider, node, told, peak, faults>>

NotifyArriving(k) ==
    /\ At(k, "arrive")
    /\ \/ told' = [told EXCEPT ![tasks[k].row] = @ + 1] /\ NoFault
       \/ UNCHANGED told /\ Fault
    /\ Done(k)
    /\ UNCHANGED <<dbVars, node, peak>>

\* The process is restarted: the tasks are gone, the rows and the node are not.
Restart ==
    /\ Fault
    /\ tasks' = [k \in Slots |-> None]
    /\ UNCHANGED <<dbVars, node, told, peak>>

-----------------------------------------------------------------------------
\* The orders in which a route may stop.
Orders ==
    UNION {{f \in [1..n -> Stops] : \A i, j \in 1..n : f[i] = f[j] => i = j} :
           n \in 0..Cardinality(Stops)}

RunTask(k) ==
    \/ InitializeNode(k) \/ PushLocation(k) \/ ClearLook(k) \/ ClearNode(k)
    \/ (\E near \in BOOLEAN : GeofenceCheck(k, near)) \/ GeofenceMark(k) \/ NotifyArriving(k)

Next ==
    \/ \E r \in DOMAIN StopsOf :
           \/ StartDuty(r) \/ UpdateDriverLocation(r) \/ EndDuty(r)
           \/ SyncDrivers(r) \/ OfficeTakes(r)
           \/ \E stops \in Orders : Regroup(r, stops)
    \/ \E S \in (SUBSET Stops) \ {{}} : MoveAway(S)
    \/ \E r \in DOMAIN StopsOf : \E b \in On(r) : Settle(b)
    \/ \E k \in Slots : RunTask(k)
    \/ Restart

\* A check against the stop b that finds the driver there.
Arrived(b) ==
    \E k \in Slots :
        tasks[k] # None /\ b = NextStop(tasks[k].route) /\ GeofenceCheck(k, TRUE)

\* Worker threads run every task, the driver on duty goes on pinging, and a driver
\* who is checked against a stop again and again is there at times.
Fairness ==
    /\ \A k \in Slots : WF_vars(RunTask(k))
    /\ SF_vars(\E r \in Ongoing : UpdateDriverLocation(r))
    /\ \A b \in Stops : SF_vars(Arrived(b))

Spec == Init /\ [][Next]_vars

-----------------------------------------------------------------------------
\* A link row leads to one notice ("prevents duplicates"): to more only by pings
\* that are handled at the same time, never by one that comes later, whatever
\* failed, was restarted or regrouped in between.  (New link rows tell again.)
ArrivalsBounded == \A w \in Rows : told[w] <= peak

Quiet == \A k \in Slots : tasks[k] = None

\* No fault, and no ongoing route was taken away.
Calm == faults = 0 /\ \A r \in DOMAIN StopsOf : duty[r] \notin {"taken", "deleted"}

\* A driver who is not on duty is off the map, however duties, pings and
\* synchronisations followed each other, as long as the tasks of one request
\* were done before the next.
OffTheMap == Calm /\ peak <= 1 /\ Quiet /\ Ongoing = {} => node = None \/ ~node.active

\* Whatever overlapped, failed or was cleared late: a driver who stays on a
\* duty is on the map with it, in the end.
OnTheMap ==
    \A r \in Routes :
        <>[](Ongoing = {r}) => <>[](node = [active |-> TRUE, route |-> r])

\* A passenger who keeps waiting for a driver who keeps coming by is marked, and
\* stays so, as long as the stops before have coordinates or are done with.
Reachable(r, b) ==
    \E i \in DOMAIN StopsOf[r] :
        /\ StopsOf[r][i] = b
        /\ \A j \in DOMAIN StopsOf[r] :
               j <= i => StopsOf[r][j] \in HasPlace \/ ~Waiting(StopsOf[r][j])
EveryoneNoticed ==
    \A b \in Stops :
        <>[](Waiting(b) /\ \E r \in Ongoing : Reachable(r, b)) =>
            <>[](\E r \in Ongoing : RowOf(r, b) \in notified)
=============================================================================
