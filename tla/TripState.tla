----------------------------- MODULE TripState -----------------------------
(***************************************************************************)
(* The rows that the transport office, the driver app and the employee app *)
(* share: bookings, routes and the route_management_bookings rows that     *)
(* link them.  Everything in this module concerns one tenant, one shift    *)
(* and one date.  A route identifier is a slot: a deleted row frees it.    *)
(***************************************************************************)
EXTENDS Naturals, FiniteSets

CONSTANTS
    Bookings,       \* the booking rows that employees may create
    Routes,         \* slots for rows of route_management
    Vendors, Vehicles, Drivers, Escorts,
    None,           \* SQL NULL
    VehicleVendor,  \* vehicles.vendor_id
    VehicleDriver,  \* vehicles.driver_id, or None
    DriverVendor,   \* drivers.vendor_id
    ManualOrders,   \* the order_id values an operator types in manual mode
    DarkHour,       \* bookings the dark-hour rule blocks without an escort
    Nodal,          \* the shift picks up at nodal points (hubs)
    OneTrip,        \* tenant_config.one_trip_per_shift_enabled
    AutoMove        \* tenant_config.auto_move_on_conflict

ASSUME NoneIsNew ==
    None \notin Vendors \union Vehicles \union Drivers \union Escorts

ASSUME FleetAssumption ==
    /\ VehicleVendor \in [Vehicles -> Vendors]
    /\ VehicleDriver \in [Vehicles -> Drivers \union {None}]
    /\ DriverVendor \in [Drivers -> Vendors]

ASSUME ConfigAssumption ==
    /\ ManualOrders \subseteq Nat \ {0}
    /\ DarkHour \subseteq Bookings
    /\ {Nodal, OneTrip, AutoMove} \subseteq BOOLEAN

VARIABLES
    bookingStatus,   \* bookings.status, "Absent" before the row is inserted
    cancelling,      \* cancel_booking calls between their read and their commit
    plan,            \* bookings a create_routes call has read and not yet placed
    routeStatus,     \* route_management.status, "Absent" when there is no row
    orderId,         \* order_id of the link row of a route and a booking, 0: no row
    assignedVendor, assignedVehicle, assignedDriver, assignedEscort,
    escortOtp,       \* the escort that escort_otp was texted to, None: no OTP
    escortBoarded

bookingVars == <<bookingStatus, cancelling>>
linkVars    == <<routeStatus, orderId>>
staffVars   == <<assignedVendor, assignedVehicle, assignedDriver>>
escortVars  == <<assignedEscort, escortOtp, escortBoarded>>
vars == <<bookingVars, plan, linkVars, staffVars, escortVars>>

BookingStatus ==
    {"REQUEST", "SCHEDULED", "ONGOING", "COMPLETED", "CANCELLED", "NO_SHOW"}

\* No handler assigns the other members, EXPIRED of a booking and CANCELLED of a
\* route.
RouteStatus ==
    {"PLANNED", "VENDOR_ASSIGNED", "DRIVER_ASSIGNED", "ONGOING", "COMPLETED"}

\* The columns hold what their declarations allow.
TypeOK ==
    /\ bookingStatus \in [Bookings -> BookingStatus \union {"Absent"}]
    /\ cancelling \in SUBSET Bookings
    /\ plan \in SUBSET Bookings
    /\ routeStatus \in [Routes -> RouteStatus \union {"Absent"}]
    /\ orderId \in [Routes -> [Bookings -> Nat]]
    /\ assignedVendor \in [Routes -> Vendors \union {None}]
    /\ assignedVehicle \in [Routes -> Vehicles \union {None}]
    /\ assignedDriver \in [Routes -> Drivers \union {None}]
    /\ assignedEscort \in [Routes -> Escorts \union {None}]
    /\ escortOtp \in [Routes -> Escorts \union {None}]
    /\ escortBoarded \in [Routes -> BOOLEAN]

Init ==
    /\ bookingStatus = [b \in Bookings |-> "Absent"]
    /\ cancelling = {}
    /\ plan = {}
    /\ routeStatus = [r \in Routes |-> "Absent"]
    /\ orderId = [r \in Routes |-> [b \in Bookings |-> 0]]
    /\ assignedVendor = [r \in Routes |-> None]
    /\ assignedVehicle = [r \in Routes |-> None]
    /\ assignedDriver = [r \in Routes |-> None]
    /\ assignedEscort = [r \in Routes |-> None]
    /\ escortOtp = [r \in Routes |-> None]
    /\ escortBoarded = [r \in Routes |-> FALSE]

-----------------------------------------------------------------------------
Created == {b \in Bookings : bookingStatus[b] # "Absent"}
Live    == {r \in Routes : routeStatus[r] # "Absent"}

\* The bookings linked to route r, and the routes that booking b is linked to.
Stops(r)    == {b \in Bookings : orderId[r][b] > 0}
RoutesOf(b) == {r \in Routes : orderId[r][b] > 0}

\* Mutant: create_routes awaits between its clusters.
LoopAwaits == TRUE

\* create_routes never awaits: while it works through its clusters the event
\* loop serves no other coroutine handler, only handlers in worker threads.
LoopIdle == plan = {}

\* The stop orders an optimiser can return for the bookings S: 1, 2, ...
Orders(S) ==
    {f \in [S -> 1..Cardinality(S)] : \A a, b \in S : f[a] = f[b] => a = b}

\* The link rows of a route whose stops are exactly the domain of f.
LinksOf(f) == [b \in Bookings |-> IF b \in DOMAIN f THEN f[b] ELSE 0]

\* Mutants: the two updates without their condition on the status.
ScheduleAny(S) ==
    [b \in Bookings |-> IF b \in S THEN "SCHEDULED" ELSE bookingStatus[b]]
ReleaseAny(S) ==
    [b \in Bookings |-> IF b \in S THEN "REQUEST" ELSE bookingStatus[b]]

\* UPDATE bookings SET status = SCHEDULED WHERE id IN S AND status = REQUEST,
\* and the opposite update.  Both are decided by the row at commit time.
Schedule(S) ==
    [b \in Bookings |-> IF b \in S /\ bookingStatus[b] = "REQUEST"
                        THEN "SCHEDULED" ELSE bookingStatus[b]]
Release(S) ==
    [b \in Bookings |-> IF b \in S /\ bookingStatus[b] = "SCHEDULED"
                        THEN "REQUEST" ELSE bookingStatus[b]]

\* The row of every route in RS is gone, with its columns.
Erase(f, RS, blank) == [r \in Routes |-> IF r \in RS THEN blank ELSE f[r]]
EraseStaff(RS) ==
    /\ assignedVendor' = Erase(assignedVendor, RS, None)
    /\ assignedVehicle' = Erase(assignedVehicle, RS, None)
    /\ assignedDriver' = Erase(assignedDriver, RS, None)
    /\ assignedEscort' = Erase(assignedEscort, RS, None)
    /\ escortOtp' = Erase(escortOtp, RS, None)
    /\ escortBoarded' = Erase(escortBoarded, RS, FALSE)
=============================================================================
