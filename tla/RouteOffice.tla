---------------------------- MODULE RouteOffice ----------------------------
(***************************************************************************)
(* The transport office (route_management.py).  Every handler here is a    *)
(* coroutine without an await before its commit: one step, one commit.     *)
(* Only create_routes commits several times, once for each cluster.        *)
(***************************************************************************)
EXTENDS TripState

\* --- create_routes -------------------------------------------------------

\* The call reads the REQUEST bookings that no route holds ...
SelectUnrouted ==
    /\ LoopIdle
    /\ plan' = {b \in Bookings : bookingStatus[b] = "REQUEST" /\ RoutesOf(b) = {}}
    /\ plan' # {}
    /\ UNCHANGED <<bookingVars, linkVars, staffVars, escortVars>>

\* ... and saves a route for one cluster of them; a booking that is no longer
\* in REQUEST is linked all the same, but keeps its status.
SaveCluster(C, r, f) ==
    /\ C \subseteq plan
    /\ routeStatus[r] = "Absent"
    /\ plan' = plan \ C
    /\ routeStatus' = [routeStatus EXCEPT ![r] = "PLANNED"]
    /\ orderId' = [orderId EXCEPT ![r] = LinksOf(f)]
    /\ bookingStatus' = Schedule(C)
    /\ UNCHANGED <<cancelling, staffVars, escortVars>>

\* A cluster without a route from the optimiser, without coordinates or hub,
\* or whose insert failed and was rolled back, is left as it was.
SkipCluster(C) ==
    /\ C \subseteq plan
    /\ plan' = plan \ C
    /\ UNCHANGED <<bookingVars, linkVars, staffVars, escortVars>>

\* --- vendor, vehicle and driver, escort, dispatch --------------------------

\* Mutant: whatever the status was.
WithVendorAlways(st) == "VENDOR_ASSIGNED"

WithVendor(st) == IF st = "PLANNED" THEN "VENDOR_ASSIGNED" ELSE st

\* The single assignment looks neither at the status nor at the old vendor.
AssignVendor(r, v) ==
    /\ LoopIdle
    /\ r \in Live
    /\ assignedVendor' = [assignedVendor EXCEPT ![r] = v]
    /\ routeStatus' = [routeStatus EXCEPT ![r] = WithVendor(@)]
    /\ UNCHANGED <<bookingVars, plan, orderId, assignedVehicle, assignedDriver,
                   escortVars>>

\* The bulk assignment skips the routes that have a vendor.
AssignVendorBulk(RS, v) ==
    LET free == {r \in RS \intersect Live : assignedVendor[r] = None}
    IN  /\ LoopIdle
        /\ free # {}
        /\ assignedVendor' = [r \in Routes |-> IF r \in free THEN v ELSE assignedVendor[r]]
        /\ routeStatus' = [r \in Routes |-> IF r \in free THEN WithVendor(routeStatus[r])
                                            ELSE routeStatus[r]]
        /\ UNCHANGED <<bookingVars, plan, orderId, assignedVehicle, assignedDriver,
                       escortVars>>

\* Mutants: the vendor of the route is not consulted; the status is one that
\* the enum does not have.
AssignVehicleAnyVendor(r, c) ==
    /\ LoopIdle
    /\ r \in Live
    /\ VehicleDriver[c] # None
    /\ assignedVehicle' = [assignedVehicle EXCEPT ![r] = c]
    /\ assignedDriver' = [assignedDriver EXCEPT ![r] = VehicleDriver[c]]
    /\ UNCHANGED <<bookingVars, plan, linkVars, assignedVendor, escortVars>>
AssignVehicleNewStatus(r, c) ==
    /\ LoopIdle
    /\ r \in Live
    /\ VehicleVendor[c] = assignedVendor[r]
    /\ assignedVehicle' = [assignedVehicle EXCEPT ![r] = c]
    /\ assignedDriver' = [assignedDriver EXCEPT ![r] = VehicleDriver[c]]
    /\ routeStatus' = [routeStatus EXCEPT ![r] = "VEHICLE_ASSIGNED"]
    /\ UNCHANGED <<bookingVars, plan, orderId, assignedVendor, escortVars>>

\* The vehicle brings its driver; both must belong to the route's vendor.
AssignVehicle(r, c) ==
    /\ LoopIdle
    /\ r \in Live
    /\ assignedVendor[r] # None
    /\ VehicleVendor[c] = assignedVendor[r]
    /\ VehicleDriver[c] # None
    /\ DriverVendor[VehicleDriver[c]] = assignedVendor[r]
    /\ <<assignedVehicle[r], assignedDriver[r]>> # <<c, VehicleDriver[c]>>
    /\ assignedVehicle' = [assignedVehicle EXCEPT ![r] = c]
    /\ assignedDriver' = [assignedDriver EXCEPT ![r] = VehicleDriver[c]]
    /\ routeStatus' = [routeStatus EXCEPT ![r] =
                           IF @ = "VENDOR_ASSIGNED" THEN "DRIVER_ASSIGNED" ELSE @]
    /\ UNCHANGED <<bookingVars, plan, orderId, assignedVendor, escortVars>>

\* Replacing an escort keeps escort_otp and escort_boarded as they are.
AssignEscort(r, e) ==
    /\ LoopIdle
    /\ r \in Live
    /\ assignedEscort' = [assignedEscort EXCEPT ![r] = e]
    /\ UNCHANGED <<bookingVars, plan, linkVars, staffVars, escortOtp, escortBoarded>>

\* Dispatch texts a new OTP to the escort, who then has to board (again).
Dispatch(r) ==
    /\ LoopIdle
    /\ r \in Live
    /\ assignedVendor[r] # None
    /\ assignedVehicle[r] # None
    /\ assignedDriver[r] # None
    /\ Stops(r) # {}
    /\ assignedEscort[r] # None
    /\ escortOtp' = [escortOtp EXCEPT ![r] = assignedEscort[r]]
    /\ escortBoarded' = [escortBoarded EXCEPT ![r] = FALSE]
    /\ UNCHANGED <<bookingVars, plan, linkVars, staffVars, assignedEscort>>

\* --- moving bookings between routes ---------------------------------------

\* The bookings of the routes RS move to a new route r; the old rows go.
MergeRoutes(RS, r, f) ==
    /\ LoopIdle
    /\ RS \subseteq Live
    /\ routeStatus[r] = "Absent"
    /\ routeStatus' = [Erase(routeStatus, RS, "Absent") EXCEPT ![r] = "PLANNED"]
    /\ orderId' = [Erase(orderId, RS, [b \in Bookings |-> 0]) EXCEPT ![r] = LinksOf(f)]
    /\ bookingStatus' = Schedule(DOMAIN f)
    /\ EraseStaff(RS)
    /\ UNCHANGED <<cancelling, plan>>

\* enforce_one_trip_per_shift: b may join r, and what becomes of its links.
Elsewhere(b, r) == RoutesOf(b) \ {r}
MayJoin(b, r) ==
    (OneTrip /\ Elsewhere(b, r) # {}) =>
        AutoMove /\ bookingStatus[b] \notin {"ONGOING", "COMPLETED"}
\* Mutant: the links to the other routes are left.
MovedFromNone(S, q) == orderId[q]
MovedFrom(S, q) == [b \in Bookings |-> IF OneTrip /\ b \in S THEN 0 ELSE orderId[q][b]]

\* update_route, operation "add": any bookings S, in any status.
UpdateRouteAdd(r, S, f) ==
    /\ LoopIdle
    /\ r \in Live
    /\ S \subseteq Created
    /\ \A b \in S : MayJoin(b, r)
    /\ orderId' = [q \in Routes |-> IF q = r THEN LinksOf(f) ELSE MovedFrom(S, q)]
    /\ bookingStatus' = Schedule(S \ Stops(r))
    /\ UNCHANGED <<cancelling, plan, routeStatus, staffVars, escortVars>>

\* update_route, operation "remove", with stops left over.
UpdateRouteRemove(r, S, f) ==
    /\ LoopIdle
    /\ r \in Live
    /\ S \subseteq Created
    /\ Stops(r) \ S # {}
    /\ orderId' = [orderId EXCEPT ![r] = LinksOf(f)]
    /\ bookingStatus' = Release(S \intersect Stops(r))
    /\ UNCHANGED <<cancelling, plan, routeStatus, staffVars, escortVars>>

\* update_route, operation "remove", nothing left: it is the requested
\* bookings that go back to REQUEST, on this route or not.
UpdateRouteEmpty(r, S) ==
    /\ LoopIdle
    /\ r \in Live
    /\ S \subseteq Created
    /\ Stops(r) \subseteq S
    /\ orderId' = [orderId EXCEPT ![r] = [b \in Bookings |-> 0]]
    /\ bookingStatus' = Release(S)
    /\ UNCHANGED <<cancelling, plan, routeStatus, staffVars, escortVars>>

\* update_route_bookings keeps the bookings S of the route and unlinks the
\* others, whose status it leaves alone.  The order comes from the optimiser,
\* or, in manual mode, from the request.
UpdateRouteBookings(r, S, f) ==
    /\ LoopIdle
    /\ r \in Live
    /\ S \subseteq Stops(r)
    /\ orderId' = [orderId EXCEPT ![r] = LinksOf(f)]
    /\ bookingStatus' = Schedule(S)
    /\ UNCHANGED <<cancelling, plan, routeStatus, staffVars, escortVars>>

\* create_route_from_bookings takes the bookings S off every other route.
CreateRouteFromBookings(S, r, f) ==
    /\ LoopIdle
    /\ S \subseteq Created
    /\ routeStatus[r] = "Absent"
    /\ routeStatus' = [routeStatus EXCEPT ![r] = "PLANNED"]
    /\ orderId' = [q \in Routes |->
                      IF q = r THEN LinksOf(f)
                      ELSE [b \in Bookings |-> IF b \in S THEN 0 ELSE orderId[q][b]]]
    /\ bookingStatus' = Schedule(S)
    /\ UNCHANGED <<cancelling, plan, staffVars, escortVars>>

\* --- deleting routes --------------------------------------------------------

DeleteRoutes(RS) ==
    /\ LoopIdle
    /\ routeStatus' = Erase(routeStatus, RS, "Absent")
    /\ orderId' = Erase(orderId, RS, [b \in Bookings |-> 0])
    /\ bookingStatus' = Release(UNION {Stops(r) : r \in RS})
    /\ EraseStaff(RS)
    /\ UNCHANGED <<cancelling, plan>>

DeleteRoute(r) == r \in Live /\ DeleteRoutes({r})

\* bulk_delete_routes finds the routes of the shift through their bookings.
BulkDeleteRoutes ==
    LET RS == {r \in Live : Stops(r) # {}}
    IN  RS # {} /\ DeleteRoutes(RS)

-----------------------------------------------------------------------------
\* The non-empty sets of bookings and of routes that a request can name.
BookingSets == (SUBSET Bookings) \ {{}}
RouteSets   == (SUBSET Routes) \ {{}}

StopsOf(RS) == UNION {Stops(r) : r \in RS}

Routing ==
    \/ SelectUnrouted
    \/ \E C \in BookingSets \intersect SUBSET plan :
           \/ SkipCluster(C)
           \/ \E r \in Routes, f \in Orders(C) : SaveCluster(C, r, f)

Staffing ==
    \E r \in Routes :
        \/ \E v \in Vendors : AssignVendor(r, v)
        \/ \E c \in Vehicles : AssignVehicle(r, c)
        \/ \E e \in Escorts : AssignEscort(r, e)
        \/ Dispatch(r)

Regrouping ==
    \E r \in Routes :
        \/ \E RS \in RouteSets :
               \E f \in Orders(StopsOf(RS)) : StopsOf(RS) # {} /\ MergeRoutes(RS, r, f)
        \/ \E S \in BookingSets :
               \/ \E f \in Orders(Stops(r) \union S) : UpdateRouteAdd(r, S, f)
               \/ \E f \in Orders(Stops(r) \ S) : UpdateRouteRemove(r, S, f)
               \/ UpdateRouteEmpty(r, S)
               \/ \E f \in Orders(S) \union [S -> ManualOrders] :
                      UpdateRouteBookings(r, S, f)
               \/ \E f \in Orders(S) : CreateRouteFromBookings(S, r, f)

Deleting ==
    \/ \E r \in Routes : DeleteRoute(r)
    \/ BulkDeleteRoutes

RouteOfficeNext ==
    \/ Routing
    \/ Staffing
    \/ \E RS \in RouteSets, v \in Vendors : AssignVendorBulk(RS, v)
    \/ Regrouping
    \/ Deleting
=============================================================================
