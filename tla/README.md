# Fleet manager: a TLA+ verification project

The program is a FastAPI backend for employee transport: employees book seats
for a shift, the transport office groups the bookings into routes and gives
each route a vendor, a vehicle with its driver, and an escort; the driver picks
up and drops the passengers.  The state lives in PostgreSQL; Redis keeps
tokens, sessions and copies of master data, Firebase mirrors live locations,
and a few things live in the memory of the process.

This directory holds TLA+ modules for the parts of it where state is changed by
several actors at once, or by one actor in steps that can fail, TLC
configurations that check them on small instances, and TLAPS proofs for any
number of rows.  Paths in this file are relative to the repository or to its
`app/` directory.

## 1. The system

### Components

| Component | State it keeps | Operations | Hard behaviour |
|---|---|---|---|
| Booking desk (`routes/booking_router.py`) | rows of `bookings` | create, bulk create, update (re-book, other shift), cancel | duplicate checks without a constraint; worker threads next to the event loop; a status that is stale when it is overwritten |
| Transport office (`routes/route_management.py`, `utils/trip_enforcement.py`) | `route_management`, `route_management_bookings`, booking status | create routes, merge, update, update bookings, new route, delete, bulk delete, assign vendor (single, bulk), vehicle, escort, dispatch | one booking on two routes; a plan that ages while it is committed cluster by cluster; reassignments in any order |
| Driver duty (`routes/app_driver_router.py`, `services/dark_hour_boarding_service.py`) | route and booking status, `escort_boarded` | start duty, board escort, pick up, no-show, drop, end duty, location | order of stops, a duty that cannot end, one duty at a time |
| Employee app (`routes/app_employee_router.py`) | booking status | QR scan at a nodal point | races with the driver and with a cancellation |
| Device sessions (`services/session_manager.py`, `session_cache.py`, `unified_notification_service.py`) | `user_sessions`, the cached push token | register, logout, push, clean-up | two logins at once; a token cached again after a logout |
| Authentication (`routes/auth_router.py`, `common_utils/auth`) | opaque tokens and sessions in Redis, JWTs in clients | logins, tenant choice and switch, OTP, refresh, introspection | several keys with different lifetimes; revocation against what is looked up again |
| Roles and permissions (`routes/iam`, `crud/iam`) | permissions, policies, roles, packages | create, update, delete | a package that shrinks under what was checked against it |
| Alerts (`routes/alert_router.py`, `routes/alert_config_router.py`, `services/notification_service.py`) | `alerts`, configurations, notifications, tasks in memory | trigger, acknowledge, escalate, close, delete, notify | people who act at once; an alert or its configuration deleted under a task |
| Announcements (`routes/announcement_router.py`, `crud/announcement.py`) | announcements, recipient rows | draft, publish, read, cancel | two publications at once, a publication cut off |
| Chat (`routes/chat_router.py`, `services/chat_service.py`, `crud/chat.py`, `firebase/chat.py`) | sessions, messages, their Firebase nodes | open, send, history, language | a mirror written in the background, from what was read before; a driver who is replaced |
| Live location (`services/geofence_service.py`, `eta_service.py`, `speed_violation_service.py`, `firebase/driver_location.py`) | marks on the stops, the Firebase node | background tasks of a ping | tasks of two requests side by side; a push after the duty |
| Scheduled jobs (`services/scheduler_service.py`, `reminder_service.py`, `stale_driver_service.py`) | `reminder_sent_at`, a cooldown in memory | reminder job, stale-driver job | a job next to the office; a crash between message and mark; clocks |
| Duty hours and delays (`utils/delay_tagging.py`, `services/delay_classification_service.py`, `driver_duty_hours_service.py`) | times of a duty, its tag | start, end, tag, rest of a driver, report | three clocks; overlapping duties; midnight |
| Cache of master data (`utils/cache_manager.py`) | Redis entries | read through, drop, refill | a late reader fills what a writer has dropped |
| Fleet and contracts (`routes/vehicle_router.py`, `routes/contract_router.py`, `services/contract_service.py`) | vehicles, contracts, slabs | edits, cost of a trip | two tables that must fit, edited from two sides |
| Staff and nodal points (`routes/employee_router.py`, `routes/nodal_point_router.py`) | employees, points, who walks where | single and bulk edits | a rollback that takes more than its row; bulk against a hand-made choice |
| Optimiser and clustering (`services/optimal_route_generation.py`, `clustering_algorithm.py`) | none | order of stops, clusters | floating-point search |
| Other master data, senders of messages, reviews, reports, monitoring, seed, migrations | their own rows | CRUD on a row, or I/O | little |

`routes/route_grouping.py`, the only code that clears
`route_management.is_active`, belongs to a router that is not mounted.

### How the components interact

All interaction is through rows and keys.  A booking is created by the desk
(`REQUEST`), planned by the office (`SCHEDULED` and a link row), driven by the
driver (`ONGOING`, `COMPLETED`, `NO_SHOW`) and may be cancelled or reopened by
the employee at any moment.  A route is created by the office (`PLANNED`),
staffed (`VENDOR_ASSIGNED`, `DRIVER_ASSIGNED`), driven (`ONGOING`) and ended
(`COMPLETED`); only the office deletes it.  The jobs and the background tasks
read these rows and mark them.  Hardly anything locks: the assignments of
vendors and vehicles take their routes with `with_for_update()`
(`routes/route_management.py:1731`, `1859`, `1903`), on the event loop, where
they exclude one another anyway; there is no version check, the isolation is
PostgreSQL's READ COMMITTED, and ORM updates by primary key write the columns
whose value the request has changed.

Who runs next to whom matters.  `main.py:202` starts one uvicorn process, so
one event loop:

* handlers declared `async def` (all of the office, the driver and the employee
  app, the logins, `update_booking`) use the blocking SQLAlchemy session, and
  most have no `await` before their commit.  They exclude one another.
* handlers declared `def` (`create_booking`, `bulk_book_all_employees`,
  `cancel_booking`, contracts, employees, announcements, nodal points) run in
  worker threads, next to each other and next to whatever the event loop does.
* background tasks of a request run after it, in order: plain functions in a
  worker thread, coroutines on the loop.  A restart forgets them.
* the scheduler runs its jobs in threads of its own, one run of a job at a time.

`docs/SCALING_GUIDE.md:162` describes three replicas.  With them the first
point fails, and everything below that relies on it (`LoopIdle` in the modules)
has to be asked again.

### What makes each component correct

* Desk: an employee has one booking for a shift and a date; a routed booking
  does not change its shift; a cancelled booking is not on its way.
* Office: a booking is on one route (when the tenant asks for it); no link
  without its route; a planned booking is still plannable when its cluster is
  saved; the staff columns agree with the status; the status never goes back;
  regrouping never takes a travelling passenger back to planning.
* Driver: a pickup happens on a duty and with the escort on board; an escort
  counts as boarded only on a duty; a duty can always be ended.
* Sessions and tokens: one active session for a user and a platform; a token
  that was replaced or revoked stays refused; who is switched off is out, in the end.
* Roles: what was granted is what a holder gets; tenants do not share policies.
* Alerts: an end is final, escalations come before it, nobody on the list is
  skipped.  Announcements: no push more often than the faults and overlaps explain.
* Chat: the pushes follow the driver, once the new one has been there; one
  warning; the apps see what the tables say.
* Location and jobs: a link row leads to one notice, and in the end everybody is
  noticed; the node follows the duty; a reminder is not repeated in a later run
  and nobody whom the job takes for a candidate is passed over;
  alerts about a silent driver keep their distance and do not stop.
* Cache: what it answers is out of date by a lifetime at most, and without
  overlaps not at all.
* Fleet, contracts, staff, points, clocks: rows of two tables fit each other; a
  cost and a rest are what they are by definition; nobody in a file is lost in
  silence; a choice by hand stands.

The hazards of the code, each at its line and with the properties that watch
it, are listed in `PROJECT.json`.

## 2. The modules

| Module | Models |
|---|---|
| `TripState` | the shared rows of a trip: variables, initial state, type invariant, the two conditional status updates every handler uses |
| `EmployeeDesk` | an employee's calls on a single booking |
| `RouteOffice` | every handler of `route_management.py` that changes state |
| `DriverApp` | the duty handlers and the QR scan |
| `FleetTrips` | composes the three; the properties; the refinement mapping |
| `BookingLifecycle` | abstract: what the status of a booking promises |
| `DutyDay` | `FleetTrips` with an end of office hours and a driver who keeps working; liveness |
| `BookingDesk` | the duplicate checks of the desk, call by call |
| `DeviceSessions` | the device sessions of a user, the cached push token, and the callers that use both |
| `SessionRegistry` | abstract: what `user_sessions` promises |
| `AccessTokens` | opaque tokens, sessions, JWTs, OTPs and their lifetimes |
| `RoleRegistry` | permissions, policies, roles and packages |
| `AlertDesk` | alerts, their configurations and the tasks that notify |
| `AlertLifecycle` | abstract: what an alert promises |
| `AnnouncementDesk` | the publication of an announcement |
| `LiveLocation` | the tasks of a driver's requests: the node and the arrival notices |
| `ChatDesk` | the chat of one booking and its mirror in Firebase |
| `StaleDriverJob`, `ReminderJob` | the two scheduled jobs |
| `DutyClock` | the times of a duty, its delay, the rest of its driver |
| `MasterCache` | a key of the cache, with all that fills and drops it |
| `FleetRegistry`, `SlabTable` | vehicles and contracts; the slabs and the cost of a trip |
| `StaffRoll`, `NodalDesk` | employees and their bulk upload; nodal points |
| `SignIn` | `DeviceSessions` and `AccessTokens`, side by side |
| `TripWatch` | `LiveLocation` and `StaleDriverJob`, side by side |
| `Office` | the desk, the cache, roles, fleet, slabs, staff, points and clocks, side by side |
| `Notices` | alerts, announcements, reminders and the chat, side by side |
| `MCFleetTrips`, `MCDutyDay`, `MCBookingDesk`, `MCSignIn`, `MCTripWatch`, `MCOffice`, `MCNotices` | the constants of the runs |
| `FleetTrips_proofs`, `BookingDesk_proofs`, `SignIn_proofs`, `TripWatch_proofs`, `MasterCache_proofs`, `Office_proofs`, `Notices_proofs` | theorems |

The trip modules are composed because their handlers write the same rows, and
so are the callers of `DeviceSessions`.  The parts of `SignIn`, `TripWatch`,
`Office` and `Notices` read nothing of each other in the code either: a product
of them would only multiply states.  Each of these modules has a variable
(`focus`, `watch`) that the initial state sets and nothing changes; the part it
names moves, the others do not.  They declare the constants of all their parts
and assume of them what the proofs need, so that a theorem about such a module
holds for every instance, the one of its run among them.

### The trip modules and the code

Everything concerns one tenant, one shift and one date.  `Bookings` are the
rows that may be created, `Routes` are slots: deleting a row frees its slot, so
a slot stands for any number of routes in turn.

| Variable | Column |
|---|---|
| `bookingStatus[b]` | `bookings.status`; `Absent` before the insert |
| `cancelling` | the `cancel_booking` calls between their check and their commit |
| `plan` | the bookings a `create_routes` call has read and not yet placed |
| `routeStatus[r]` | `route_management.status`; `Absent` when there is no row |
| `orderId[r][b]` | `route_management_bookings.order_id`; 0 when there is no row |
| `assignedVendor`, `assignedVehicle`, `assignedDriver`, `assignedEscort` | the columns of these names, `None` for NULL |
| `escortOtp[r]` | `escort_otp`, identified with the escort it was texted to |
| `escortBoarded[r]` | `escort_boarded` |

Each handler is one action, named after it.  A handler that reads, decides and
commits on the event loop is atomic with respect to all others but the worker
threads.  The only worker-thread call that changes a row which exists is
`cancel_booking`, hence `CancelRead` and `CancelCommit`.  A commit of a
cancellation that falls inside another handler has the effect it would have
just before or just after it, because both write `status` by primary key or with
a condition that the database evaluates on the row it finds; the exception is
boarding at a nodal point, which checks `SCHEDULED` on the row it read and then
overwrites a cancellation.  `ConfirmBoarding` therefore lets the step also
consume the cancellation in flight.  `create_routes` commits once for each
cluster: `SelectUnrouted`, then `SaveCluster` or `SkipCluster` for each part
of the plan, with worker threads in between and, because it never awaits,
nothing else (`LoopIdle`).

Left out of the trip modules: the values of passenger OTPs (a wrong OTP refuses
the call; a booking added after the dispatch has none, see the hazards), the
estimated times and distances, the driver's position check, audit entries,
notifications, delay tags.  A call that is refused, for these or for a status,
changes nothing and is no step.  The dark-hour rule
(`dark_hour_boarding_service.py`) is a constant set of bookings that it blocks
without an escort on board; when the rule itself raises an error the code lets
the trip start, which is not modelled.  The optimiser is modelled by what the
handlers use: any order of the bookings it was given, or no route at all.  In
manual mode the order comes from the request and may repeat
(`ManualOrders`).  The vehicle of a driver, the vendor of both and the tenant's
flags are constants of a run.

### The booking desk and the code

`rows` is the table in the order of `booking_id`, restricted to one date;
`call[c]` is what a request in flight has decided and not yet committed.  A
read action holds the whole check of its handler, a commit action its
write.  `create_booking` refuses a slot with any row (and books a date that a
request repeats once, line 206), `bulk_book_all_employees`
only a slot with a row that is not cancelled, `update_booking` checks the slot only when
the request names a shift, and reopens a cancelled row either way.
`update_booking` is a coroutine: `LoopIdle` keeps it apart from itself and from
the office (`Route`), not from the worker threads.

### The device sessions and the code

One user.  `Devices` are push tokens, each of a platform (`PlatformOf`);
`Sessions` are the rows of `user_sessions`, taken in the order of `session_id`.

| Variable | In the code |
|---|---|
| `device[s]` | who registered row `s`; `None` before the insert |
| `active` | rows with `is_active`; the code clears `fcm_token` in all others |
| `cachedToken`, `cachedPlatform` | the Redis keys `fcm:<type>:<id>` and `platform:<type>:<id>` |
| `dead` | tokens FCM refuses; they only die |
| `task[c]` | the call that caller `c` has under way: its kind, its next step, and what it holds in local variables |

The endpoints `register-token` and `logout` are coroutines without an `await`:
the caller `Loop` does one of them at a time.  Pushes are also sent by worker
threads (`send_to_user`, `send_to_users_batch`, the chat), so each access of a
thread to the database, to Redis or to FCM is a step, and so is each of the
loop.  A push sent by a coroutine is the special case of a thread that runs while
the loop rests.  The deletion of the keys is one step with the query before
it: what can happen in between is also reached when the keys expire.  Redis
calls catch their errors, so a write of a key may have no effect (`SetToken`);
a commit may fail.  `OldSessions` is the query of a login, `RegisterCommit` the
one commit that ends the old row and inserts the new, guarded by the partial
unique index that the migration creates.

`SessionRegistry` says that each platform has the device of its last login or
none.  `DeviceSessions` implements it under `Current`, the device of the active
row: the window between what a login or a clean-up has read and what it commits
never shows, because the rows to end are named by `session_id`.

Left out: `update_last_activity` and `cleanup_expired_sessions`, which nothing
calls; the keys `session:<id>`, which nothing reads; the other columns.  A batch
to several users is one of these pushes for each of them.

### Access tokens and roles

A login hands out a JWT that carries an opaque token, and writes two keys: what
the token stands for (`meta`, in the code `opaque_token_metadata:<token>`) and,
for employees, drivers and escorts, which token the account uses (`session`, in
the code `<kind>_session:<account>`).  `jwts` are the tokens in clients' hands,
`known` who holds a refresh token, `otp` and `preAuth` the codes of a person
with several tenants.  Every handler has no `await` between its reads and its
writes and is one action.  `Accepted` is `validate_oauth2_token`, whose only
side effects are in `Revalidate`.  Time is counted in ticks (`Tick`).  A login
stores the metadata before it sets the session key
(`routes/auth_router.py:652-654`), with the same lifetime, so the metadata is gone
first: a session that has no tick left stays until it lapses in a step of its own
(`Lapse`), and any handler may come in between.  Introspection is the one that
matters there: it finds the session, stores the metadata again for all that the
JWT has left, and cuts the session to 900 seconds.  `restored` remembers the
accounts it happened to, for the property alone.  The lifetimes in a run keep the
order of the deployment's (`docker-compose.yml:63` sets `TOKEN_EXPIRY_HOURS` to 1,
a JWT lives 24 hours): a code and a shortened session expire first, the metadata
of a vendor's user no later, then the session, and the JWT last, long after it.
The copy of a token that is kept in memory when Redis fails is never read, and
passwords change no token.

`RoleRegistry` keeps the rows of permissions, policies, roles and packages as
sets; a handler is one action, with the caller's tenant (or the system's
administrator) as a parameter.  `reduced` remembers the tenants whose package
lost a permission, for the property alone.

### Alerts and announcements

`AlertDesk`: the alert endpoints are atomic and leave a task in `tasks`.  A task
reads its alert and its configuration when it starts (`TaskStart`), then deals
with one recipient after the other and lets the loop go at each e-mail
(`TaskMailed`); `told` is the table of notifications.  A configuration is
created in a thread by a check and an insert (`CreateConfigCheck`,
`CreateConfigInsert`), and may change or go while a task runs.  Who
acknowledged and closed an alert is left out, and so are the statuses
`IN_PROGRESS` and `RESOLVED`, which no code assigns.  `AlertLifecycle` is what
the API promises; `AlertDesk` implements it under `Life`, the status without
the two kinds of end.

`AnnouncementDesk`: `publish` runs in a thread and is three steps: the recipient
rows in an open transaction (`Publish`), the push to all devices (`Push`,
`PushFails`; the logout of a device that is gone commits that transaction), and
the commit of the outcome, filled into the rows in the order of their ids
(`PublishCommit`).  `rows` is the table as a function of the ids.  A row shows to
others when its transaction is committed; `Restart` undoes what is open.  `pushed`
and `peak` count for the property.

`ChatDesk`: a call reads the session row when it begins (`seen`) and works with
that copy to its end: the ORM reads no row again after a commit
(`database/session.py:19`).  What it will do follows from what it read, so a
call is a list of steps (`todo`): `OpenChat`, `SendMessage`, `GetMessages` and
`SetLanguage` give the list for each endpoint, in the order of the code, first
those of the handler and then those that a send leaves to the background; each
step is an action.  A message has its row (`noted`, the translation) and its
Firebase node (`node`, `shown`).  A failed write to Firebase is logged and
the call goes on (`FirebaseFails`).  `came`, `crossed`, `overlapped` and `due`
only serve the properties: `PushedToDriver`, `WarnedOnce` and `MirrorMatches`.

### A driver on the map, and the scheduled jobs

`LiveLocation`: `tasks[k]` is what a request has left to do after its commit: write the node
of a duty that began, push a position and look for the next stop, or clear the
node.  A check of the geofence is three steps, look, mark, notify
(`GeofenceCheck`, `GeofenceMark`, `NotifyArriving`), with other requests' tasks
in between.  All that a check needs of the position is whether it is `near` the
next stop.  `OfficeTakes` is the office that reassigns or deletes an ongoing
route.  `Regroup` is `update_route` and `update_route_bookings`, which look at no
status: they delete the link rows of a route and insert new ones, in an order of
their own, with stops added (and taken off other routes) or removed; `MoveAway`
is the same where the stops go to a route of another driver.  The mark of a
notice, `geofence_notified_at`, is a column of the link row, so a row is named by
its route, its stop and the `edition` it was written in, and a new one has no mark.

`ReminderJob` and `StaleDriverJob`: a run is a list of rows found by a query and
dealt with one by one, in a thread next to the handlers: `StartRun` reads, then
a step for each row (`Remind`, `MarkSent`; in `StaleDriverJob` all in `Run`).
`trigger` is the scheduler's pending run: at most one waits.  Times are ticks.
In `ReminderJob` a booking has its `date` and each row that links it with a route
a `pickup`, which the office and the pings move; both are Indian.  The query
returns a candidate for each link row, so a booking on two routes is in a run
twice.  It asks for the bookings of the date it is in UTC and for pickups in the
window after the time it is in UTC (`Candidate`); `now` is that clock, and it runs
past midnight.  `Skew` is the 5½ hours by which the pickups are ahead of it.  The
cooldown of `StaleDriverJob` (`stamp`) is in the memory of the process, `gap`
and `waited` only measure.

### The clocks of a duty

`DutyClock` keeps the columns as they are stored: a start with a zone, which the
database turns into its own (`zone`), an end as naive Indian time, and the rest
that is asked for by the UTC clock.  `EndDuty` tags the delay of the route in the
same step, from the times at which the stops were reached; `CheckRest` and
`RestViolations` merge the duties of a driver as
`driver_duty_hours_service.py` does, with a fold (`Extend`) over the intervals
in some order of their starts (`ByStart`): the result does not depend on how
intervals that start together are ordered.

### The cache

`MasterCache` is one key.  `row` numbers the versions of what it caches,
`since` tells how long ago each was replaced.  A request is a list of steps that
its thread still has to take (`calls[t].todo`): read the row, drop the key, fill
it, insert a default row, commit.  The handlers differ in that list, and each is
an operator named after it; those on the event loop take their steps at once
(`Short`).  A step that fails in Redis has no effect and no consequence, as in
the code.  `unannounced` remembers that a handler changed the row and left the
key alone, as some do.

### Fleet, contracts, staff and points

`FleetRegistry`: requests about contracts check and commit in threads; a vehicle
is edited on the event loop, except that an update with files awaits them
between its checks and its commit.  `calls` holds what a request has read and
will write.

`SlabTable`: an edit validates the chain of active slabs as its transaction sees
it, then commits (`Commit`); `CalculateProgressiveCost` is the fold over the
slabs in order.  Kilometres are whole numbers, for which the tolerance of the
code's comparisons makes no difference.

`StaffRoll`: `BulkCreateEmployees` validates a whole file, `AddRow` and `FailRow`
go through it row by row in one transaction, `BulkCommit` ends it.  A name stands
for the columns that make a person unique.  A file is a list of names, each
with a flag whether the row passes the database's other checks.

`NodalDesk`: a request reads points and rows, and writes at its commit the
columns that it changed.  `BulkLook` and `BulkTake` are the loop of the bulk
assignment.  Distances are an order of the points for each employee; `Placed`
are the employees whose home has coordinates.

### The abstract specification of the trips

`BookingLifecycle` has one variable, the status of each booking: the office
moves groups between `REQUEST` and `SCHEDULED`, the employee and the driver
move one booking.  `FleetTrips` implements it under
`status <- bookingStatus` (`ImplementsLifecycle`): every handler, with its link
rows, staff and escorts forgotten, is one of these moves or changes no status.
That is the content: a merge or a deletion never produces a mixed step, for
example scheduling some bookings and releasing others, and never touches a
passenger who travels.  What the lifecycle does not promise is as telling:
`Board` and `Deliver` have hardly a guard, because the code has none
(section 5).

## 3. What TLC checks

Counts are with `-workers 2` on a small machine; the longest run takes about three
minutes there.

| Run | Instance | Properties | States |
|---|---|---|---|
| `trips_regroup` | 2 bookings, 3 routes, nodal shift, one-trip rule, auto-move, repeated manual orders | `OneRoutePerBooking`, `PlanUnrouted`, `TripsNeverReopened`, `RoutingRespectsCancel`, `ImplementsLifecycle` | 76 thousand |
| `trips_staff` | 1 booking in the dark hours, 2 routes, 2 vendors with a vehicle and a driver each, 1 escort | `TypeOK`, `AssignmentMatchesStatus`, `EscortBoardedOnDuty`, `RouteStatusMonotone`, `PickupOnEscortedDuty` | 44 thousand |
| `duty_day` | 2 bookings, 2 routes, 1 vehicle, no one-trip rule | `DutyEnds` | 297 thousand |
| `sign_in` | devices: a phone, a browser, 2 logins, one sending thread next to the loop; tokens: two accounts of one person, or a driver, or a vendor's user and an escort, or an admin, 2 tokens in use at a time | `TypeOK`, `RegisterNeverConflicts`, `ImplementsRegistry`, `StaleTokenHeals`; `DriverReplacedStaysOut`, `RevokedStaysRevoked`, `DeactivatedOut` | 407 thousand |
| `watch` | a duty with 1 fault, or 2 duties of one driver with a regrouping, 2 stops, 2 requests with tasks; 2 routes with a job that lasts a tick | `ArrivalsBounded`, `OffTheMap`, `OnTheMap`, `EveryoneNoticed`; `AlertsSpaced`, `SilentNoticed` | 174 thousand |
| `office` | nine parts: see below | `TypeOK`, `OneRowPerSlot`, `RoutedKeepsShift`; `CacheFresh`; `FleetConsistent`; `CostsAgree`; `GrantsHold`; `ChoiceStands`; `NobodyLeftOut`; `DutyMeasured` | 990 thousand |
| `notices` | 2 alerts of one employee, 1 task, 1 thread, 1 restart; 2 recipients, 2 publishing threads, 3 rows, 1 restart; 2 bookings, one of them on 2 routes, a day of 6 ticks with the midnight in the run, a job that lasts a tick, 1 fault; a chat with 2 drivers, 2 languages, 3 calls, 2 at a time, 1 reassignment, 1 fault | `NoneSkipped`, `ImplementsLifecycle`; `PublishedOnce`; `RemindedOnce`, `NobodyPassedOver`; `ChatTold` | 1.09 million |

The parts of `office`: the desk with 2 employees, 2 shifts, 3 rows, 2 requests
at a time; the key of any of ten entities with 2 threads, 3 versions and 1 lost Redis
call; a vehicle with 2 contracts and 2 types, or 2 vehicles with a driver,
2 requests at a time; 3 slabs up to 2 km, 2 edits at a time; a tenant and the
system with 2 permissions, 2 policies and a role; 3 people, 2 clerks, 4 files
of 2 rows; an employee with 2 points and 2 requests; 2 duties of 2 drivers, days of
5 units, a clock up to 4.  A wrapper in `Office` takes the type invariant of its part
along; the one of the clocks computes the rests where no stop was reached, which
they do not depend on.

Bounds.  The only thing that grows in the trip modules is the number of rows,
so a run is bounded by its constants alone and TLC explores it completely.  Two
bookings are needed for an order of stops and for a plan with two clusters;
three routes for a booking to be on one, moved to a second while a third is
merged; two vendors with a vehicle each for a vehicle of the wrong vendor.  The
proofs of section 4 remove the bound for all safety properties of the trips.
In the desk `MaxRows` bounds the inserted rows: a duplicate needs two and
a reopened row before it a third.  In the sessions
the rows bound the logins, one of a platform while the other is ended; the proofs hold
for any number.  Elsewhere the hazards are races of two: a reader and a writer
(cache), two checks before two commits (contracts, slabs, points, publications),
a task and one request that changes what it reads (alerts, location); two
requests at a time and one fault are the least that show each and its repair.
The ticks are chosen so that each lifetime differs from the others it is compared with,
and so that a token that introspection brought back outlives the session that
replaced it and a login after that one (`JwtLife` 5, `SessionTtl` 2).
In `watch` faults and regroupings are in separate initial states (`Plans`), each
of which takes the bound of one of them; `ArrivalsToldOnce` and
`OffDutyOffTheMap` hold for any of both together.
In `notices` the pickups are chosen so that one is a candidate before and one only
after the midnight of UTC, a booking is a candidate on two routes at once, and a
pickup moves.
In `DutyClock` a day of 5 units with stops on both sides of midnight has duties that
overlap, enclose and touch each other, and gaps of every length.

The last five runs stop at a counterexample: `doc_escort` and `doc_cancel` on an
instance of the trips, `desk_bulk_reopen` on the desk with one request at a time,
`doc_reminder` and `doc_rest` on the instances of `notices` and `office`.

Deadlock is checked in the trip runs and in `sign_in`.  It is off where a bound
ends the run: in `duty_day` the system stops after the last duty; in `watch` and
`notices` (and `doc_reminder`) the requests, the alerts and the ticks are used up; in
`office` (and `doc_rest`) so is the clock.

Symmetry is used in `trips_regroup` and `trips_staff`, over rows that no formula
tells apart.  Neither checks liveness.

Fairness is assumed in three runs.

* `duty_day`: weak, on `StartDuty`, `EndDuty`, the drop of who is on board and
  the no-show of who is not, once the office has closed.  It stands for a driver
  who keeps working, since the server does nothing by itself: the question is
  whether the guards leave the driver a way through.  They do, even for a driver whose
  routes share a booking, or with a cancelled stop in front of a waiting one,
  which no pickup can pass: the driver has to mark the cancelled stop as a
  no-show.  The driver does not pick a passenger up again after the drop, which
  the code would allow for ever.
* `sign_in`: weak, on the next step of a call under way, each of which is bounded
  by a socket timeout, on the expiry of the cached token, which Redis does, and on
  time (`Time`: a tick, or a session that lapses); nothing is assumed of the user.
  `StaleTokenHeals` needs the expiry: an invalidation may be lost, and a thread
  may cache a token after the logout that invalidated it.  `DeactivatedOut` needs
  only that time passes: every token that an inactive account left behind runs
  out.
* `watch`: weak, on the tasks of each request, which the thread pool runs, on
  time and on the job's thread; strong, on the pings of a driver on duty, and on
  a check against a stop finding the driver there (`Arrived`): who is checked
  against a stop again and again is near it at times.  The latter is what
  `EveryoneNoticed` says it holds for: passengers who wait for a driver who keeps
  coming by.

## 4. What is proved

For every fleet, every number of bookings, routes, slabs, duties, requests and
threads, every configuration:

| Theorem | States |
|---|---|
| `TypeCorrect` | `TypeOK` of the trips |
| `OneRoute` | `OneRoutePerBooking` |
| `PlanStaysUnrouted` | `PlanUnrouted` |
| `LinksKeepRoute` | no link row outlives its route or names a booking that was never created |
| `AssignmentCorrect` | `AssignmentMatchesStatus` |
| `EscortCorrect` | `EscortBoardedOnDuty` |
| `RouteNeverReverts` | `RouteStatusMonotone` |
| `LifecycleRefined` | the refinement `ImplementsLifecycle` of the trips |
| `NeverReopened` | `TripsNeverReopened` |
| `CancelRespected` | `RoutingRespectsCancel` |
| `BoardingEscorted` | `PickupOnEscortedDuty` |
| `SessionsTypeCorrect` | `TypeOK` of the device sessions |
| `NeverConflicts` | `RegisterNeverConflicts` |
| `OneSession` | no two sessions of a platform are active |
| `RegistryRefined` | the refinement `ImplementsRegistry` |
| `RevokedForGood` | `RevokedStaysRevoked` |
| `ReplacedForGood` | `DriverReplacedStaysOut` |
| `DeskTypes` | `TypeOK` of the desk |
| `OneRow` | `OneRowPerSlot` |
| `ShiftKept` | `RoutedKeepsShift` |
| `CacheStaysFresh` | `CacheFresh` |
| `GrantsBounded` | `GrantsHold` |
| `ChosenPointStands` | `ChoiceStands` |
| `FleetStaysConsistent` | `FleetConsistent` |
| `UploadsReport` | `NobodyLeftOut` |
| `ArrivalsToldOnce` | `ArrivalsBounded` |
| `OffDutyOffTheMap` | `OffTheMap` |
| `AlertsKeepTheCooldown` | `AlertsSpaced` |
| `AlertsRefined` | the refinement `ImplementsLifecycle` of the alerts |
| `CostsStayRight` | `CostsAgree` |
| `RestsExact` | `RestExact` of the clocks, in every state |
| `DutiesMeasured` | `DutyMeasured` |
| `ReminderTypes`, `OneReminder` | `TypeOK` and `RemindedOnce` of the reminders |
| `NobodyWaitsLong` | `NobodyPassedOver` |
| `NobodySkipped` | `NoneSkipped` |
| `ToldAsPublished` | `PublishedOnce` |
| `ChatToldRight` | `ChatTold` |

The assumptions are those that the modules name, and TLC evaluates them on the
runs.

* `TripState`: `NoneIsNew`, `FleetAssumption` (a vehicle has a vendor, perhaps a
  driver) and `ConfigAssumption`.
* `SignIn`, with `DeviceSessions`: `None` is no device and no platform, `Loop` is
  no thread, rows are numbered; a person's accounts are of one kind, lifetimes are
  positive, neither a session nor a vendor's metadata outlives a JWT and a
  shortened session outlives no other (`AccessAssumption`): 24 hours, 30 minutes
  and 24 hours (`app/config.py:93-94`, `app/routes/auth_router.py:1841`);
  introspection shortens a session to 15 minutes (line 364).
* `BookingDesk`: the bounds are numbers and the employees finitely many
  (`DeskAssumption`).
* `Office`: `CacheAssumption`, `AccessAssumption`, `FleetAssumption`,
  `StaffAssumption` and `NodalAssumption`, that `None` is no row, call or person,
  that bounds, lifetimes and distances are numbers, and files lists of people;
  `SlabAssumption`, that rates are numbers and `Open` is no kilometre;
  `ClockAssumption`, that plans are lists of times, and a day, however long, has
  at least one unit.
* `TripWatch`: `LiveAssumption` and `StaleAssumption`, likewise; a plan gives some
  routes their stops, and starts with some of the faults and regroupings used up.
* `Notices`, with `ReminderJob`: `LinksAssumption`, that the link rows are
  finitely many pairs of a booking and a route, `WindowAssumption`, that pickups
  are ticks of a day, `BoundAssumption`, `NoneIsNew`, `NewsAssumption`,
  `SosAssumption`, `ChatAssumption`, likewise; the threads that publish are
  finitely many.
* Nothing is assumed for the life of the alerts (`AlertsRefined`).

A bound on a counter (requests, faults, ticks) is a constant that the theorems
leave open: they hold for runs of any length.

The inductive invariants of the trips (`FleetTrips_proofs`):

* `LinkInv` = `TypeOK`, `OneRoutePerBooking`, `PlanUnrouted` and
  `LinksHaveRoute` together.  None is inductive alone.  `SaveCluster` links
  bookings without asking where else they are, so the first needs the second;
  the second survives because all coroutines wait for the plan (`LoopIdle`);
  a slot is reused by a new route, so that its bookings are on no other route
  needs the third.
* `StaffInv` and `EscortInv` extend the two staff properties to slots without a
  route, whose columns are blank: a new route starts from them.  They are what
  `BoardingEscorted` takes of the state in which a driver marks a pickup.
* `LifeInv` = `TypeOK` and what the refinement needs to know of `cancelling` and
  of the link rows, that they name created bookings: the abstract `Cancel`, `Board`
  and `Deliver` refuse a booking that does not exist.

One lemma for each group of handlers (`EmployeeLinks`, `RoutingLinks`,
`StaffingLinks`, `RegroupingLinks`, `DeletingLinks`, `DriverLinks`) shows that it
keeps `LinkInv`.

Of sign-in (`SignIn_proofs`):

* `SessionInv` = `TypeOK`, `OneActiveSession`, `RegisterNeverConflicts` and what
  a registration holds: the rows it has read are of its platform, and its token
  is a device of it.  `RegisterNeverConflicts` is not inductive without the last
  part, which also says that only the loop inserts rows: all that the other
  callers do after the read makes `active` smaller.  With it the index never
  refuses a login, so that `OneActiveSession` does not rest on the index alone,
  and the commit maps to one `Login`.
* `OwnerInv`: a token belongs to one account, and its JWT, its metadata and the
  session that points to it agree on which; only a driver's JWT may have no token.
  A step can then give back to a token only what it finds under it
  (`HeldTokens`), and `RevokedForGood` follows: nothing is found.
* `DriverInv`: unless introspection brought a token of this driver back, a token of a
  driver that has metadata has it no longer than the driver has a session.  So the
  token that a new login replaces loses its metadata no later than the session
  that refuses it, which is what `ReplacedForGood` needs.  Metadata that Redis fails
  to store does no harm to it: what is not there cannot stay too long.

Of the desk (`BookingDesk_proofs`):

* `DeskInv` = `TypeOK` and what the event loop grants: one `update_booking` is
  in flight at most, and no booking is routed under it.  `ShiftKept` follows.
* `SlotInv` = `OneRowPerSlot` with its reason: as long as an employee has not strayed
  (no overlapping requests about them, no bulk call), one request about them is
  in flight, and the slot it is about to take is still free.

Of the cache (`MasterCache_proofs`): `CacheInv` = `TypeOK`, `Aged` (what a lookup
holds was replaced no longer ago than the lookup has run, and what the key holds
no longer than that and the key's age), `Inserting` (while there is no row, only
the default row is known, and one call at most holds it) and `InTurn` (of calls
that take turns, an old version in the key is about to be dropped).
`CacheFresh` speaks of the key only; a lookup that reads before a commit and
writes after it is why the reads in flight belong to the invariant.

Of the office (`Office_proofs`):

* `AccessInv` = `TypeOK`, `RolesApart` (what a role holds is its tenant's) and
  `Bounded` (policies belong to tenants that are there, and stay within the
  package until it is reduced).
* `NodalInv` = `TypeOK`, `ChoiceStands`, `Coming` (what a request is about to write
  names points that are there, one for each employee) and, as long as requests
  take turns, `Standing` (the rows are as the request read them, and its commit
  leaves the administrator's choice in place).
* `FleetInv` = `TypeOK`, `Known` (vehicles and requests name contracts that are
  there), `ContractFits`, `DriverOnce` and, as long as requests take turns,
  `Checked` (what a request has checked still holds when it commits).
* `StaffInv` = `TypeOK` and `Reported`: everybody in the file of an upload is made,
  failed or among the rows it has not read yet.
* `SlabInv` = `TypeOK`, which has first kilometres apart, the edits under way, which write
  different slabs and first kilometres, and, as long as edits take turns, a chain: the
  table as it is and as the edit will leave it are both validated.  That a quote
  is exact (`QuotesExact`) then needs only the types, for it is so in every
  table, torn ones included; that a table answers (`ChainAnswers`) needs the chain.
* `ClockInv` = `TypeOK` and that every route has its column of stops.  From the types
  alone, `RestIsExact` shows what `check_rest` computes: the merged segments are
  apart, in order and cover the same moments as the duties (`MergedParted`);
  what lies free lies in one gap between them (`LastsInGap`), so the longest gap is the
  longest rest (`LongestGap`).

Both rest on lists of any length.  `Office_proofs` begins with what such lists
need, each by the least counterexample (`LeastNat`): a finite set has an order by
any key (`OrderExists`); a fold is a function that obeys its recurrence, and the
only one (`FoldExists`, `FoldOnly`); a fold over a list has its intermediate results
(`LeftFold`), and a sum over a set takes its elements in any order (`SumTakes`).
They are stated of functions, not of operators, and so need no theorem about
induction over an operator.

Of the watch (`TripWatch_proofs`):

* `LiveInv`: the notices of a link row, together with the requests that found it
  unmarked and are about to push, are at most as many as requests were
  there at a time; that many the counter `peak` has seen.  A regrouping writes rows
  that no request has found yet.
* `MapInv`, `NodeInv`: where requests do not overlap and no duty is taken away, a
  driver off duty is on the map only until the task that clears the node has
  run; only a node that is there is cleared.
* `StaleInv`: since the last alert of a route at least as much time has passed as
  since the stamp of its cooldown; for a route that a check still holds, the
  cooldown and the age of the check together.

Of the notices (`Notices_proofs`):

* `ReminderInv`: a run owes a booking as many reminders as it was on routes at a time
  (`Owed`).  What it was reminded of, together with the rows of it that the run has
  left (`InRun`), is what one run more than broke off may send; in a run that broke
  off already, what those may; and who is neither marked nor about to be was
  reminded in runs that broke off only.
* `WaitInv`: a due booking that the run does not hold (`InHand`) came after the run had
  read the table, so it has waited no longer than the run is old; one that it
  holds has waited for one run before it at most.
* `SkipInv` with `TriedBefore`: what a worker has left is the rest of a primary list,
  and everybody before it was tried.
* `PushInv`, `PendingInv`: the pushes of a person, together with the publications
  that have not sent yet, are at most as many as publications overlapped, once
  more each for every fault; a publication that nobody overlapped leaves no row
  pending.
* `ChatInv` = `TypeOK`, `WarnedOnce`, `PushedToDriver` and what the calls hold: each
  has a plan left, or the rest of one (`Plans`, 28 in all), in the order of the
  code; whoever read a session holds it as it was read, and a call that is not
  done with its message knows where that is.
* `FollowInv`: unless an assignment crossed a driver's call, the session names the
  assigned driver once that driver has been in the chat, and a driver's call that is
  yet to reconcile is the assigned one's.  It is why the driver that an
  employee's call reads is the one due.
* `MirrorInv`: as long as nothing has failed, every message is in Firebase with the
  translation of its row, or one call, and no other, is not done with it, and
  has done for it what its plan says (`Half`); the warning is there or about to be
  written.
* `LangInv`, with `Abreast`: where calls do not overlap, the node has the languages of
  the session, but for what the only call has yet to write.
* `LifeInv`: the types of `alertStatus` and `level`; the guards of the endpoints do
  the rest of the refinement.

### What the proofs corrected

* Two arms of a `CASE` that overlap leave its value open: TLC takes the first, a
  proof may not.  `AddSlab` (no distance left, and a gap) and `PushMessage` (a
  driver's call in a session without a driver) had such arms; they follow the order of
  the code's conditions now.
* Sorting was written with a function of the library for which nothing can be
  proved; `InOrder` and `ByStart` say what a sorted list is.  Duties that start
  together have no order of their own, which is why `ByStart` asks for all the
  elements and for starts that do not fall, no more.

### What is only model-checked

The liveness properties (`DutyEnds`, `StaleTokenHeals`, `DeactivatedOut`,
`OnTheMap`, `EveryoneNoticed`, `SilentNoticed`): the prover reaches neither fairness nor
`ENABLED`.  Every other property of a passing run is a theorem.

## 5. Where the code and its documentation disagree

Five of the disagreements are runs that TLC ends with a counterexample:

| Run | Said | Done |
|---|---|---|
| `desk_bulk_reopen` | `routes/booking_router.py:1353` "Employee can have only one booking per shift per date." | a bulk booking ignores a cancelled row, which `update_booking` reopens: two bookings, with no two requests overlapping |
| `doc_cancel` | `routes/booking_router.py:1601` cancel only "in REQUEST state (not yet scheduled into a route)" | the check is stale when `CANCELLED` is written; the route keeps a cancelled stop |
| `doc_escort` | `models/route_management.py:39` boarded is "True once driver has successfully verified escort OTP" | a new escort inherits the flag |
| `doc_reminder` | `services/reminder_service.py:4` a booking is taken up when its pickup is within the window; line 210 "naive UTC matches DB" | pickups are in Indian time: a run takes up a pickup that is gone (and misses those to come) |
| `doc_rest` | `services/driver_duty_hours_service.py:62` "has had enough rest by *proposed_start_dt*" | with a database in UTC the proposed start and the stored start are in UTC, the stored end in Indian time: a duty seems to last until 5½ hours after its end, and a driver who has rested is judged not to have (with a database in Indian time every duty seems yet to come, and too little rest passes) |

The others are met by the actions as they are written, each a missing
condition that a look at the action shows:

| Said | Done | Action |
|---|---|---|
| `routes/route_management.py:1843` "Vehicle.vendor_id must match Route.assigned_vendor_id." | a later vendor leaves the old one's vehicle and driver (line 1615) | `AssignVendor` |
| `routes/route_management.py:3785` "Revert removed bookings to REQUEST status" | if the route ends up empty, the requested bookings are reverted, removed or not | `UpdateRouteEmpty` |
| `regression_suite.md:393` adding to a completed route is an error | accepted (`routes/route_management.py:3773`) | `UpdateRouteAdd` |
| `docs/DRIVER_API_FLOW.md:123` "Driver Cannot Have Multiple Ongoing Routes" | the vehicle of an ongoing route may change to one whose driver is on duty (`routes/route_management.py:2099`) | `AssignVehicle` |
| `docs/DRIVER_API_FLOW.md:135` a no-show requires an ongoing route | no check (`routes/app_driver_router.py:1508`) | `MarkNoShow` |
| `docs/DRIVER_API_FLOW.md:71` a drop: "Booking must be in `ONGOING` status" | any status but `COMPLETED` (line 1606) | `Drop` |
| `docs/DRIVER_API_FLOW.md:48` a pickup: "`REQUEST/SCHEDULED` -> `ONGOING`" | any status (line 1406) | `ConfirmBoarding` |
| `routes/booking_router.py:1353`, as above | two overlapping creations book twice | `CreateRead`, `InsertCommit` |
| `models/route_management.py:86` `geofence_notified_at` is "set once; never reset (prevents duplicate pushes)"; `services/geofence_service.py:23` "never cleared for the life of the stop" | regrouping an ongoing route deletes its link rows and inserts new ones without the mark (`routes/route_management.py:3938-3962`, `4161`): a passenger who waits is told again | `Regroup` |
| `services/reminder_service.py:4` a booking that "has not yet had a reminder sent" | a booking on two routes is a candidate for each, and is reminded of both in one run | `Candidate`, `StartRun` |
| the window of a reminder, as above | `services/reminder_service.py:242` asks for the bookings of the date in UTC: a pickup in the first minutes of a date is no candidate before midnight, when part of its window is over, and one at 00:00 never is | `Candidate` |
| `services/unified_notification_service.py:24` "Automatic invalid token cleanup" | the clean-up ends the session the platform has by then (line 113): a new phone that registered meanwhile is logged out | `DeviceSessions` |
| `routes/announcement_router.py:328` publishes "Atomically" | two publications both pass the check for a draft; a restart after the push leaves a draft, which is published again; an announcement deleted meanwhile ends up published | `Publish`, `PublishCommit` |
| `models/announcement.py:73` `DELIVERED` is a push "sent successfully" | only counts come back from the batch, and are dealt out to the rows in the order of their ids; a row that was read is overwritten by a later publication | `Filled` |
| a new login ends the session before it (`common_utils/auth/token_validation.py:442`) | the metadata of a driver's token lapses just before the session; introspection in between stores it again for the rest of the JWT and cuts the session to 900 seconds (`routes/auth_router.py:317-387`, `token_validation.py:487-494`).  The next login after that finds no token to revoke, and once its own session has lapsed the replaced token is accepted again | `Lapse`, `Revalidate` |
| single session per driver (the same line) | the driver's own refresh hands out a JWT without an opaque token, which no session is compared with and no account is looked up for | `DriverRefreshToken` |
| a session is replaced on a refresh (`routes/auth_router.py:2070`) | the token before keeps its metadata; kinds without enforcement go on using it | `RefreshToken` |
| `routes/employee_router.py:350` a bulk upload reports each row created or failed | the rollback of a failing row (line 748) takes back the rows before it, which are reported as created and mailed | `FailRow` |
| `services/chat_service.py:58` a driver with two rows (one per vendor) reaches the chat with either | the check before (`routes/chat_router.py:372`) refuses every driver but the one assigned; the session follows only after a reassignment, at the new driver's first call, and until then the pushes go to the old one | `Begin`, `Reconcile`, `PushMessage` |
| `firebase/chat.py:259` patches "an existing RTDB message node" | after a failed write the patch makes a node that holds nothing but the translation | `PatchTranslation` |
| `firebase/chat.py:298` syncs a language to the session node | `init_chat_session`, in the background of the first message, sets over a language chosen meanwhile | `InitNode` |
| an alert has a team's configuration (`routes/alert_router.py:204`) | no token carries a `team_id`, so it is never used | `TokenTeam` |

What the actions also show, and nobody promises otherwise: two threads may create
two configurations for a team; `reminder_sent_at` is never reset, so that a
booking that is reopened or moved to another shift is not reminded again; a
location push whose task runs after those of the duty's end puts the driver back
on the map (`PushLocation` after `ClearNode`), where `OffTheMap` only speaks of
requests that take turns; the type of a contract may change while a vehicle is
given to it (`FleetRegistry`), and a bulk assignment of nodal points overwrites a
choice made since it looked (`NodalDesk`), where `FleetConsistent` and
`ChoiceStands` likewise speak of requests that take turns; a completed route that
is deleted or given to another driver takes its hours along; with a database in
UTC every duty is tagged 5½ hours late (`utils/delay_tagging.py:11` subtracts two
clocks).

Not in the modules: a `logout_session` that fails in the clean-up of a push rolls
back the caller's transaction too (`services/session_manager.py:370-376`), which
for an announcement takes its recipient rows, and it is published with none; a
status of a notification that the database refuses ends the task of its alert
(`services/notification_service.py:185`, `203`); `docs/DRIVER_API_FLOW.md` lets
the end of a duty process the remaining bookings, the code refuses; the docstring
of `mark_no_show` (`routes/app_driver_router.py:1466`) says it starts the route,
it does not; no code assigns `EXPIRED` to a booking, `CANCELLED` to a route, or
`IN_PROGRESS` to an alert, and nothing escalates an alert by itself
(`models/alert.py:217` has a threshold); `services/notification_service.py:303`
reads attributes that the recipients do not have, so that an alert's pushes always
count as failed; `services/session_cache.py:209` names `json.JSONEncodeError`,
which does not exist, so that an error there becomes another one.

## 6. Plan

1. Done: the trip modules, the desk, their runs and proofs.
2. Done: `DeviceSessions`, its registry, their run and their proofs.
3. Done: alerts, announcements, the chat, tokens, roles, location, jobs, clocks,
   the cache, the fleet, slabs, staff and points, with their runs.
4. Done: proofs for the desk, the reminders and the life of an alert.
5. Done: `SignIn`, `TripWatch`, `Office` and `Notices` as modules of their own
   and the proofs about their parts.
6. Done: the proof of `ChatTold`.
7. Done: the proofs of `CostsAgree` and `DutyMeasured`, for any number of slabs and
   of duties, and of the life of an alert where it stands among the notices.
8. Done: regrouping in `LiveLocation`, sessions that outlive their metadata in
   `AccessTokens`, link rows and dates in `ReminderJob`, with the proofs about them.
9. Left: runs with several replicas, and a failing transaction under the clean-up of a
   push.

### Not modelled

* The optimiser, clustering, distances, estimated times and speed: floating-point
  search and a maps service.  The modules use what callers rely on: some order
  of the stops, or none; pickups that move.
* Dormant route grouping: its router is not mounted.
* Vendors, their users, escorts and vehicle types: one row per call, no state
  that another component checks.  The same holds for reviews (one insert,
  guarded by a unique column) and for the audit log.
* Texts of the chat, the translator and its cache; the closing of a chat, which
  nothing calls.
* The senders of push, SMS and e-mail: external providers; what a caller makes of
  their answers is in the callers' modules.
* The admin's deletion of a Firebase node, password resets, the escort's
  read-only views, reports other than the duty hours, dashboards, monitoring,
  logging, storage, database set-up and migrations: I/O, or reading.
* Values of passenger OTPs.  A wrong one refuses a call; a booking added after
  the dispatch has none and boards without (`routes/route_management.py:3955`).
* Several replicas (`docs/SCALING_GUIDE.md:162`): the handlers would no longer
  exclude one another.
