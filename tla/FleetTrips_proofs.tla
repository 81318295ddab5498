-------------------------- MODULE FleetTrips_proofs --------------------------
(***************************************************************************)
(* Proofs about FleetTrips for every set of bookings, routes, vendors,     *)
(* vehicles, drivers and escorts: the link rows of the routes, the people  *)
(* on a route, and the life of a booking that FleetTrips implements.       *)
(***************************************************************************)
EXTENDS FleetTrips, TLAPS

-----------------------------------------------------------------------------
(* Lemmas about the operators of TripState                                 *)

\* The link rows of a route, whatever order the optimiser or the operator
\* chose, link exactly the bookings they were made for.
LEMMA LinkRows ==
    ASSUME NEW S \in SUBSET Bookings,
           NEW f \in Orders(S) \union [S -> ManualOrders]
    PROVE  /\ LinksOf(f) \in [Bookings -> Nat]
           /\ \A b \in Bookings : LinksOf(f)[b] > 0 <=> b \in S
<1>1. f \in [S -> Nat \ {0}]
  <2>1. CASE f \in Orders(S)
    BY <2>1 DEF Orders
  <2>2. CASE f \in [S -> ManualOrders]
    BY <2>2, ConfigAssumption
  <2>. QED  BY <2>1, <2>2
<1>. QED  BY <1>1 DEF LinksOf

\* The bulk updates keep the column's type and change no status but REQUEST,
\* respectively SCHEDULED.
LEMMA ScheduleType ==
    ASSUME TypeOK, NEW S
    PROVE  Schedule(S) \in [Bookings -> BookingStatus \union {"Absent"}]
BY DEF TypeOK, Schedule, BookingStatus

LEMMA ReleaseType ==
    ASSUME TypeOK, NEW S
    PROVE  Release(S) \in [Bookings -> BookingStatus \union {"Absent"}]
BY DEF TypeOK, Release, BookingStatus

\* Stops(r) is a set of bookings.
LEMMA StopsType == \A r : Stops(r) \in SUBSET Bookings
BY DEF Stops

\* Erasing routes leaves the columns well typed.
LEMMA EraseStaffType ==
    ASSUME TypeOK, NEW RS, EraseStaff(RS)
    PROVE  /\ assignedVendor' \in [Routes -> Vendors \union {None}]
           /\ assignedVehicle' \in [Routes -> Vehicles \union {None}]
           /\ assignedDriver' \in [Routes -> Drivers \union {None}]
           /\ assignedEscort' \in [Routes -> Escorts \union {None}]
           /\ escortOtp' \in [Routes -> Escorts \union {None}]
           /\ escortBoarded' \in [Routes -> BOOLEAN]
BY DEF TypeOK, EraseStaff, Erase

-----------------------------------------------------------------------------
(* Type correctness                                                        *)

\* What an employee does keeps the columns well typed.
LEMMA EmployeeTypes == TypeOK /\ EmployeeDeskNext => TypeOK'
<1>. SUFFICES ASSUME TypeOK, NEW b \in Bookings,
                     CreateBooking(b) \/ CancelRead(b) \/ CancelCommit(b) \/ UpdateBooking(b)
              PROVE  TypeOK'
  BY DEF EmployeeDeskNext
<1>. USE DEF TypeOK, BookingStatus, vars, bookingVars, linkVars, staffVars, escortVars
<1>1. CASE CreateBooking(b)
  BY <1>1 DEF CreateBooking
<1>2. CASE CancelRead(b)
  BY <1>2 DEF CancelRead
<1>3. CASE CancelCommit(b)
  BY <1>3 DEF CancelCommit
<1>4. CASE UpdateBooking(b)
  BY <1>4 DEF UpdateBooking
<1>. QED  BY <1>1, <1>2, <1>3, <1>4

\* What a driver does keeps the columns well typed.
LEMMA DriverTypes == TypeOK /\ DriverAppNext => TypeOK'
<1>. SUFFICES ASSUME TypeOK, NEW r \in Routes,
                     \/ StartDuty(r) \/ BoardEscort(r) \/ EndDuty(r)
                     \/ \E b \in Bookings : \/ StartTrip(r, b) \/ MarkNoShow(r, b)
                                            \/ Drop(r, b) \/ NodalQrScan(r, b)
              PROVE  TypeOK'
  BY DEF DriverAppNext
<1>. USE DEF TypeOK, BookingStatus, RouteStatus, bookingVars, linkVars, staffVars, escortVars
<1>1. CASE StartDuty(r)
  BY <1>1 DEF StartDuty
<1>2. CASE BoardEscort(r)
  BY <1>2 DEF BoardEscort
<1>3. CASE EndDuty(r)
  BY <1>3 DEF EndDuty
<1>4. ASSUME NEW b \in Bookings, StartTrip(r, b)  PROVE TypeOK'
  BY <1>4 DEF StartTrip, SetStatus, ConfirmBoarding
<1>5. ASSUME NEW b \in Bookings, MarkNoShow(r, b)  PROVE TypeOK'
  BY <1>5 DEF MarkNoShow, SetStatus
<1>6. ASSUME NEW b \in Bookings, Drop(r, b)  PROVE TypeOK'
  BY <1>6 DEF Drop, SetStatus
<1>7. ASSUME NEW b \in Bookings, NodalQrScan(r, b)  PROVE TypeOK'
  BY <1>7 DEF NodalQrScan, ConfirmBoarding
<1>. QED  BY <1>1, <1>2, <1>3, <1>4, <1>5, <1>6, <1>7

\* What the office does keeps the columns well typed.
LEMMA RoutingTypes == TypeOK /\ Routing => TypeOK'
<1>. USE DEF TypeOK, RouteStatus, bookingVars, linkVars, staffVars, escortVars
<1>1. ASSUME TypeOK, SelectUnrouted  PROVE TypeOK'
  BY <1>1 DEF SelectUnrouted
<1>2. ASSUME TypeOK, NEW C \in BookingSets \intersect SUBSET plan, SkipCluster(C)
      PROVE  TypeOK'
  BY <1>2 DEF SkipCluster
<1>3. ASSUME TypeOK, NEW C \in BookingSets \intersect SUBSET plan,
             NEW r \in Routes, NEW f \in Orders(C), SaveCluster(C, r, f)
      PROVE  TypeOK'
  BY <1>3, LinkRows, ScheduleType DEF SaveCluster, BookingSets
<1>. QED  BY <1>1, <1>2, <1>3 DEF Routing

LEMMA StaffingTypes ==
    TypeOK /\ (Staffing \/ \E RS \in RouteSets, v \in Vendors : AssignVendorBulk(RS, v))
        => TypeOK'
<1>. USE DEF TypeOK, RouteStatus, WithVendor, Live,
             bookingVars, linkVars, staffVars, escortVars
<1>1. ASSUME TypeOK, NEW r \in Routes, NEW v \in Vendors, AssignVendor(r, v)
      PROVE  TypeOK'
  BY <1>1 DEF AssignVendor
<1>2. ASSUME TypeOK, NEW r \in Routes, NEW c \in Vehicles, AssignVehicle(r, c)
      PROVE  TypeOK'
  BY <1>2, FleetAssumption DEF AssignVehicle
<1>3. ASSUME TypeOK, NEW r \in Routes, NEW e \in Escorts, AssignEscort(r, e)
      PROVE  TypeOK'
  BY <1>3 DEF AssignEscort
<1>4. ASSUME TypeOK, NEW r \in Routes, Dispatch(r)
      PROVE  TypeOK'
  BY <1>4 DEF Dispatch
<1>5. ASSUME TypeOK, NEW RS \in RouteSets, NEW v \in Vendors, AssignVendorBulk(RS, v)
      PROVE  TypeOK'
  BY <1>5 DEF AssignVendorBulk
<1>. QED  BY <1>1, <1>2, <1>3, <1>4, <1>5 DEF Staffing

LEMMA RegroupingTypes == TypeOK /\ Regrouping => TypeOK'
<1>. USE DEF TypeOK, RouteStatus, BookingSets, bookingVars, linkVars, staffVars, escortVars
<1>1. ASSUME TypeOK, NEW r \in Routes, NEW RS \in RouteSets,
             NEW f \in Orders(StopsOf(RS)), MergeRoutes(RS, r, f)
      PROVE  TypeOK'
  <2>1. StopsOf(RS) \in SUBSET Bookings
    BY DEF StopsOf, Stops
  <2>2. LinksOf(f) \in [Bookings -> Nat]
    BY <2>1, LinkRows
  <2>. QED  BY <1>1, <2>2, ScheduleType, EraseStaffType DEF MergeRoutes, Erase
<1>2. ASSUME TypeOK, NEW r \in Routes, NEW S \in BookingSets,
             NEW f \in Orders(Stops(r) \union S), UpdateRouteAdd(r, S, f)
      PROVE  TypeOK'
  <2>1. LinksOf(f) \in [Bookings -> Nat]
    BY LinkRows, StopsType
  <2>. QED  BY <1>2, <2>1, ScheduleType DEF UpdateRouteAdd, MovedFrom
<1>3. ASSUME TypeOK, NEW r \in Routes, NEW S \in BookingSets,
             NEW f \in Orders(Stops(r) \ S), UpdateRouteRemove(r, S, f)
      PROVE  TypeOK'
  <2>1. LinksOf(f) \in [Bookings -> Nat]
    BY LinkRows, StopsType
  <2>. QED  BY <1>3, <2>1, ReleaseType DEF UpdateRouteRemove
<1>4. ASSUME TypeOK, NEW r \in Routes, NEW S \in BookingSets, UpdateRouteEmpty(r, S)
      PROVE  TypeOK'
  BY <1>4, ReleaseType DEF UpdateRouteEmpty
<1>5. ASSUME TypeOK, NEW r \in Routes, NEW S \in BookingSets,
             NEW f \in Orders(S) \union [S -> ManualOrders], UpdateRouteBookings(r, S, f)
      PROVE  TypeOK'
  BY <1>5, LinkRows, ScheduleType DEF UpdateRouteBookings
<1>6. ASSUME TypeOK, NEW r \in Routes, NEW S \in BookingSets,
             NEW f \in Orders(S), CreateRouteFromBookings(S, r, f)
      PROVE  TypeOK'
  BY <1>6, LinkRows, ScheduleType DEF CreateRouteFromBookings
<1>. QED  BY <1>1, <1>2, <1>3, <1>4, <1>5, <1>6 DEF Regrouping

LEMMA DeletingTypes == TypeOK /\ Deleting => TypeOK'
<1>1. ASSUME TypeOK, NEW RS, DeleteRoutes(RS)  PROVE TypeOK'
  BY <1>1, ReleaseType, EraseStaffType
  DEF DeleteRoutes, Erase, TypeOK, RouteStatus, bookingVars
<1>. QED  BY <1>1 DEF Deleting, DeleteRoute, BulkDeleteRoutes

\* TypeOK is inductive by itself.
LEMMA TypeStep == TypeOK /\ [Next]_vars => TypeOK'
<1>. SUFFICES ASSUME TypeOK, [Next]_vars  PROVE TypeOK'
  OBVIOUS
<1>1. CASE UNCHANGED vars
  BY <1>1 DEF TypeOK, vars, bookingVars, linkVars, staffVars, escortVars
<1>. QED
  BY <1>1, EmployeeTypes, RoutingTypes, StaffingTypes, RegroupingTypes, DeletingTypes,
     DriverTypes
  DEF Next, RouteOfficeNext

LEMMA InitType == Init => TypeOK
BY DEF Init, TypeOK

\* The columns hold what their declarations allow, whatever the handlers do.
THEOREM TypeCorrect == Spec => []TypeOK
BY InitType, TypeStep, PTL DEF Spec

-----------------------------------------------------------------------------
(* The link rows: at most one route for a booking                          *)

\* OneRoutePerBooking is not inductive: create_routes links what it has read
\* earlier, so its plan has to be unlinked still; and a new route must not
\* inherit link rows.
LinkInv == TypeOK /\ LinksHaveRoute /\ PlanUnrouted /\ OneRoutePerBooking

LEMMA InitLinks == Init => LinkInv
BY InitType
DEF Init, LinkInv, LinksHaveRoute, PlanUnrouted, OneRoutePerBooking, RoutesOf

\* A step that touches neither the links nor the plan, deletes no row and takes
\* no planned booking further than CANCELLED.
LEMMA LinksUntouched ==
    ASSUME LinkInv, TypeOK', UNCHANGED <<plan, orderId>>,
           Live \subseteq Live', Created \subseteq Created',
           \A b \in plan : bookingStatus'[b] \in {"REQUEST", "CANCELLED"}
    PROVE  LinkInv'
BY DEF LinkInv, LinksHaveRoute, PlanUnrouted, OneRoutePerBooking, RoutesOf

\* The bulk updates create and remove no row.
LEMMA ScheduleKeepsRows ==
    ASSUME TypeOK, NEW S, bookingStatus' = Schedule(S) \/ bookingStatus' = Release(S)
    PROVE  Created' = Created
BY DEF TypeOK, Schedule, Release, Created, BookingStatus

LEMMA EmployeeLinks == LinkInv /\ EmployeeDeskNext => LinkInv'
<1>. SUFFICES ASSUME LinkInv, TypeOK', NEW b \in Bookings,
                     CreateBooking(b) \/ CancelRead(b) \/ CancelCommit(b) \/ UpdateBooking(b)
              PROVE  LinkInv'
  BY EmployeeTypes DEF EmployeeDeskNext, LinkInv
<1>1. UNCHANGED <<plan, orderId>> /\ Live' = Live
  BY DEF CreateBooking, CancelRead, CancelCommit, UpdateBooking, linkVars, Live
<1>2. Created \subseteq Created'
  BY DEF LinkInv, TypeOK, CreateBooking, CancelRead, CancelCommit, UpdateBooking, Created
<1>3. ASSUME NEW p \in plan  PROVE bookingStatus'[p] \in {"REQUEST", "CANCELLED"}
  BY <1>3 DEF LinkInv, TypeOK, PlanUnrouted, LoopIdle,
              CreateBooking, CancelRead, CancelCommit, UpdateBooking
<1>. QED  BY <1>1, <1>2, <1>3, LinksUntouched

LEMMA DriverLinks == LinkInv /\ DriverAppNext => LinkInv'
<1>. SUFFICES ASSUME LinkInv, TypeOK', NEW r \in Routes,
                     \/ StartDuty(r) \/ BoardEscort(r) \/ EndDuty(r)
                     \/ \E b \in Bookings : \/ StartTrip(r, b) \/ MarkNoShow(r, b)
                                            \/ Drop(r, b) \/ NodalQrScan(r, b)
              PROVE  LinkInv'
  BY DriverTypes DEF DriverAppNext, LinkInv
<1>. USE DEF LinkInv, TypeOK, Live, Created, LoopIdle, bookingVars, linkVars
<1>1. CASE StartDuty(r)
  BY <1>1, LinksUntouched DEF StartDuty
<1>2. CASE BoardEscort(r)
  BY <1>2, LinksUntouched DEF BoardEscort
<1>3. CASE EndDuty(r)
  BY <1>3, LinksUntouched DEF EndDuty
<1>4. ASSUME NEW b \in Bookings, \/ StartTrip(r, b) \/ MarkNoShow(r, b)
                                \/ Drop(r, b) \/ NodalQrScan(r, b)
      PROVE  LinkInv'
  <2>1. /\ plan = {}
        /\ UNCHANGED <<plan, linkVars>>
        /\ \E st \in BookingStatus : bookingStatus' = [bookingStatus EXCEPT ![b] = st]
    BY <1>4 DEF StartTrip, MarkNoShow, Drop, NodalQrScan, SetStatus, ConfirmBoarding,
                BookingStatus
  <2>. QED  BY <2>1, LinksUntouched DEF BookingStatus
<1>. QED  BY <1>1, <1>2, <1>3, <1>4

LEMMA StaffingLinks ==
    LinkInv /\ (Staffing \/ \E RS \in RouteSets, v \in Vendors : AssignVendorBulk(RS, v))
        => LinkInv'
<1>. SUFFICES ASSUME LinkInv, TypeOK',
                     Staffing \/ \E RS \in RouteSets, v \in Vendors : AssignVendorBulk(RS, v)
              PROVE  LinkInv'
  BY StaffingTypes DEF LinkInv
<1>1. plan = {} /\ UNCHANGED <<plan, orderId, bookingStatus>>
  BY DEF Staffing, AssignVendor, AssignVendorBulk, AssignVehicle, AssignEscort, Dispatch,
         LoopIdle, bookingVars, linkVars
<1>2. Live \subseteq Live'
  BY DEF LinkInv, TypeOK, Staffing, AssignVendor, AssignVendorBulk, AssignVehicle,
         AssignEscort, Dispatch, WithVendor, Live, linkVars
<1>. QED  BY <1>1, <1>2, LinksUntouched DEF Created

LEMMA RoutingLinks == LinkInv /\ Routing => LinkInv'
<1>. USE DEF LinkInv, LinksHaveRoute, PlanUnrouted, OneRoutePerBooking, RoutesOf, Live, Created
<1>1. ASSUME LinkInv, TypeOK', SelectUnrouted  PROVE LinkInv'
  BY <1>1 DEF SelectUnrouted, bookingVars, linkVars
<1>2. ASSUME LinkInv, TypeOK', NEW C \in SUBSET plan, SkipCluster(C)  PROVE LinkInv'
  BY <1>2 DEF SkipCluster, bookingVars, linkVars
<1>3. ASSUME LinkInv, TypeOK', NEW C \in SUBSET plan, NEW r \in Routes, NEW f \in Orders(C),
             SaveCluster(C, r, f)
      PROVE  LinkInv'
  <2>1. \A b \in Bookings : LinksOf(f)[b] > 0 <=> b \in C
    BY <1>3, LinkRows DEF TypeOK
  <2>2. \A q \in Routes, b \in Bookings :
            orderId'[q][b] > 0 <=> IF q = r THEN b \in C ELSE orderId[q][b] > 0
    BY <1>3, <2>1 DEF SaveCluster, TypeOK
  <2>3. Created' = Created
    BY <1>3, ScheduleKeepsRows DEF SaveCluster
  <2>4. LinksHaveRoute'
    BY <1>3, <2>2, <2>3 DEF SaveCluster, TypeOK
  <2>5. PlanUnrouted'
    BY <1>3, <2>2 DEF SaveCluster, Schedule, TypeOK
  <2>6. OneRoutePerBooking'
    BY <1>3, <2>2 DEF TypeOK
  <2>. QED  BY <1>3, <2>4, <2>5, <2>6
<1>. QED  BY <1>1, <1>2, <1>3, RoutingTypes DEF Routing, BookingSets

LEMMA DeletingLinks == LinkInv /\ Deleting => LinkInv'
<1>1. ASSUME LinkInv, TypeOK', NEW RS, DeleteRoutes(RS)  PROVE LinkInv'
  <2>1. Created' = Created
    BY <1>1, ScheduleKeepsRows DEF DeleteRoutes, LinkInv
  <2>2. \A q \in Routes, b \in Bookings :
            orderId'[q][b] > 0 <=> q \notin RS /\ orderId[q][b] > 0
    BY <1>1 DEF DeleteRoutes, Erase, LinkInv, TypeOK
  <2>3. plan' = {}
    BY <1>1 DEF DeleteRoutes, LoopIdle
  <2>4. \A q \in Routes \ RS : routeStatus'[q] = routeStatus[q]
    BY <1>1 DEF DeleteRoutes, Erase
  <2>. QED
    BY <1>1, <2>1, <2>2, <2>3, <2>4
    DEF LinkInv, LinksHaveRoute, PlanUnrouted, OneRoutePerBooking, RoutesOf, Live
<1>. QED  BY <1>1, DeletingTypes DEF Deleting, DeleteRoute, BulkDeleteRoutes, LinkInv

\* Every regrouping of the office leaves a set S of bookings on a route r, links
\* them nowhere else when one trip per shift is enforced, and adds no link to
\* another route.
LEMMA LinksRegrouped ==
    ASSUME LinkInv, TypeOK', plan' = {}, NEW r \in Routes, NEW S \in SUBSET Created,
           Created' = Created, r \in Live',
           \A b \in Bookings : orderId'[r][b] > 0 => b \in S,
           \A q \in Routes \ {r}, b \in Bookings :
               orderId'[q][b] > 0 =>
                   /\ orderId[q][b] > 0
                   /\ q \in Live'
                   /\ OneTrip => b \notin S
    PROVE  LinkInv'
<1>1. LinksHaveRoute'
  BY DEF LinkInv, LinksHaveRoute
<1>2. PlanUnrouted'
  BY DEF PlanUnrouted
<1>3. OneRoutePerBooking'
  <2>. SUFFICES ASSUME OneTrip, NEW b \in Bookings, NEW p \in Routes, NEW q \in Routes,
                       orderId'[p][b] > 0, orderId'[q][b] > 0
                PROVE  p = q
    BY DEF OneRoutePerBooking, RoutesOf
  <2>1. CASE p # r /\ q # r
    BY <2>1 DEF LinkInv, OneRoutePerBooking, RoutesOf
  <2>2. CASE p = r \/ q = r
    BY <2>2
  <2>. QED  BY <2>1, <2>2
<1>. QED  BY <1>1, <1>2, <1>3 DEF LinkInv

\* Unlinking some stops of a route.
LEMMA LinksPruned ==
    ASSUME LinkInv, TypeOK', plan' = {}, Created' = Created, Live' = Live,
           \A q \in Routes, b \in Bookings : orderId'[q][b] > 0 => orderId[q][b] > 0
    PROVE  LinkInv'
BY DEF LinkInv, LinksHaveRoute, PlanUnrouted, OneRoutePerBooking, RoutesOf

LEMMA RegroupingLinks == LinkInv /\ Regrouping => LinkInv'
<1>. USE DEF BookingSets
<1>1. ASSUME LinkInv, TypeOK', NEW r \in Routes, NEW RS \in RouteSets,
             NEW f \in Orders(StopsOf(RS)), MergeRoutes(RS, r, f)
      PROVE  LinkInv'
  <2>. DEFINE S == StopsOf(RS)
  <2>1. S \in SUBSET Created
    BY <1>1 DEF LinkInv, LinksHaveRoute, StopsOf, Stops, RouteSets
  <2>2. Created' = Created /\ plan' = {}
    BY <1>1, ScheduleKeepsRows DEF MergeRoutes, LinkInv, LoopIdle
  <2>3. \A b \in Bookings : LinksOf(f)[b] > 0 <=> b \in S
    BY <2>1, LinkRows DEF Created
  <2>4. r \notin RS
    BY <1>1 DEF MergeRoutes, Live
  <2>5. orderId'[r] = LinksOf(f) /\ r \in Live'
    BY <1>1 DEF MergeRoutes, Erase, LinkInv, TypeOK, Live
  <2>6. \A q \in Routes \ {r}, b \in Bookings :
            orderId'[q][b] > 0 => orderId[q][b] > 0 /\ q \notin RS /\ q \in Live'
    BY <1>1 DEF MergeRoutes, Erase, LinkInv, LinksHaveRoute, TypeOK, Live
  <2>7. ASSUME NEW q \in Routes \ {r}, NEW b \in Bookings, orderId'[q][b] > 0, OneTrip
        PROVE  b \notin S
    <3>1. SUFFICES ASSUME b \in S  PROVE FALSE
      OBVIOUS
    <3>2. PICK p \in RS : orderId[p][b] > 0
      BY <3>1 DEF StopsOf, Stops
    <3>. QED  BY <1>1, <2>6, <2>7, <3>2 DEF LinkInv, OneRoutePerBooking, RoutesOf, RouteSets
  <2>. QED  BY <1>1, <2>1, <2>2, <2>3, <2>5, <2>6, <2>7, LinksRegrouped
<1>2. ASSUME LinkInv, TypeOK', NEW r \in Routes, NEW S \in BookingSets,
             NEW f \in Orders(Stops(r) \union S), UpdateRouteAdd(r, S, f)
      PROVE  LinkInv'
  <2>. DEFINE T == Stops(r) \union S
  <2>1. T \in SUBSET Created
    BY <1>2 DEF UpdateRouteAdd, LinkInv, LinksHaveRoute, Stops
  <2>2. Created' = Created /\ Live' = Live /\ plan' = {}
    BY <1>2, ScheduleKeepsRows DEF UpdateRouteAdd, LinkInv, LoopIdle, Live
  <2>3. \A b \in Bookings : LinksOf(f)[b] > 0 <=> b \in T
    BY <2>1, LinkRows DEF Created
  <2>4. orderId'[r] = LinksOf(f) /\ r \in Live'
    BY <1>2, <2>2 DEF UpdateRouteAdd
  <2>5. \A q \in Routes \ {r}, b \in Bookings :
            orderId'[q][b] > 0 => orderId[q][b] > 0 /\ ~ (OneTrip /\ b \in S)
    BY <1>2 DEF UpdateRouteAdd, MovedFrom, LinkInv, TypeOK
  <2>6. \A q \in Routes \ {r}, b \in Bookings :
            orderId'[q][b] > 0 => q \in Live' /\ (OneTrip => b \notin T)
    BY <1>2, <2>2, <2>5 DEF LinkInv, LinksHaveRoute, OneRoutePerBooking, RoutesOf, Stops
  <2>. QED  BY <1>2, <2>1, <2>2, <2>3, <2>4, <2>5, <2>6, LinksRegrouped
<1>3. ASSUME LinkInv, TypeOK', NEW r \in Routes, NEW S \in BookingSets,
             NEW f \in Orders(Stops(r) \ S), UpdateRouteRemove(r, S, f)
      PROVE  LinkInv'
  <2>1. \A b \in Bookings : LinksOf(f)[b] > 0 <=> b \in Stops(r) \ S
    BY LinkRows, StopsType
  <2>2. Created' = Created /\ Live' = Live /\ plan' = {}
    BY <1>3, ScheduleKeepsRows DEF UpdateRouteRemove, LinkInv, LoopIdle, Live
  <2>. QED
    BY <1>3, <2>1, <2>2, LinksPruned DEF UpdateRouteRemove, LinkInv, TypeOK, Stops
<1>4. ASSUME LinkInv, TypeOK', NEW r \in Routes, NEW S \in BookingSets,
             UpdateRouteEmpty(r, S)
      PROVE  LinkInv'
  <2>1. Created' = Created /\ Live' = Live /\ plan' = {}
    BY <1>4, ScheduleKeepsRows DEF UpdateRouteEmpty, LinkInv, LoopIdle, Live
  <2>. QED
    BY <1>4, <2>1, LinksPruned DEF UpdateRouteEmpty, LinkInv, TypeOK
<1>5. ASSUME LinkInv, TypeOK', NEW r \in Routes, NEW S \in BookingSets,
             NEW f \in Orders(S) \union [S -> ManualOrders], UpdateRouteBookings(r, S, f)
      PROVE  LinkInv'
  <2>1. \A b \in Bookings : LinksOf(f)[b] > 0 => b \in Stops(r)
    BY <1>5, LinkRows DEF UpdateRouteBookings
  <2>2. Created' = Created /\ Live' = Live /\ plan' = {}
    BY <1>5, ScheduleKeepsRows DEF UpdateRouteBookings, LinkInv, LoopIdle, Live
  <2>. QED
    BY <1>5, <2>1, <2>2, LinksPruned DEF UpdateRouteBookings, LinkInv, TypeOK, Stops
<1>6. ASSUME LinkInv, TypeOK', NEW r \in Routes, NEW S \in BookingSets,
             NEW f \in Orders(S), CreateRouteFromBookings(S, r, f)
      PROVE  LinkInv'
  <2>1. S \in SUBSET Created
    BY <1>6 DEF CreateRouteFromBookings
  <2>2. Created' = Created /\ Live \subseteq Live' /\ r \in Live' /\ plan' = {}
    BY <1>6, ScheduleKeepsRows
    DEF CreateRouteFromBookings, LinkInv, TypeOK, LoopIdle, Live
  <2>3. \A b \in Bookings : LinksOf(f)[b] > 0 <=> b \in S
    BY LinkRows
  <2>4. \A q \in Routes \ {r}, b \in Bookings :
            orderId'[q][b] > 0 => orderId[q][b] > 0 /\ b \notin S
    BY <1>6 DEF CreateRouteFromBookings
  <2>5. \A q \in Routes \ {r}, b \in Bookings : orderId'[q][b] > 0 => q \in Live'
    BY <1>6, <2>2, <2>4 DEF LinkInv, LinksHaveRoute
  <2>6. orderId'[r] = LinksOf(f)
    BY <1>6 DEF CreateRouteFromBookings
  <2>. QED  BY <1>6, <2>1, <2>2, <2>3, <2>4, <2>5, <2>6, LinksRegrouped
<1>. QED
  BY <1>1, <1>2, <1>3, <1>4, <1>5, <1>6, RegroupingTypes DEF Regrouping, LinkInv

LEMMA LinkStep == LinkInv /\ [Next]_vars => LinkInv'
<1>. SUFFICES ASSUME LinkInv, [Next]_vars  PROVE LinkInv'
  OBVIOUS
<1>1. CASE UNCHANGED vars
  BY <1>1, LinksUntouched, TypeStep
  DEF LinkInv, PlanUnrouted, Live, Created, vars, bookingVars, linkVars
<1>. QED
  BY <1>1, EmployeeLinks, RoutingLinks, StaffingLinks, RegroupingLinks, DeletingLinks,
     DriverLinks
  DEF Next, RouteOfficeNext

\* With one trip per shift enforced no booking is ever on two routes, however
\* many bookings and routes there are and whatever create_routes has in hand.
THEOREM OneRoute == Spec => []OneRoutePerBooking
<1>1. LinkInv => OneRoutePerBooking
  BY DEF LinkInv
<1>. QED  BY <1>1, InitLinks, LinkStep, PTL DEF Spec

\* What create_routes still has to place stays unlinked until it places it.
THEOREM PlanStaysUnrouted == Spec => []PlanUnrouted
<1>1. LinkInv => PlanUnrouted
  BY DEF LinkInv
<1>. QED  BY <1>1, InitLinks, LinkStep, PTL DEF Spec

\* No link row outlives its route or precedes its booking.
THEOREM LinksKeepRoute == Spec => []LinksHaveRoute
<1>1. LinkInv => LinksHaveRoute
  BY DEF LinkInv
<1>. QED  BY <1>1, InitLinks, LinkStep, PTL DEF Spec

-----------------------------------------------------------------------------
(* The people on a route                                                   *)

\* Each of the two invariants is inductive together with the types alone.
StaffInv == TypeOK /\ AssignmentMatchesStatus
EscortInv == TypeOK /\ EscortBoardedOnDuty

LEMMA InitStaff == Init => StaffInv /\ EscortInv
BY InitType DEF Init, StaffInv, EscortInv, AssignmentMatchesStatus, EscortBoardedOnDuty

-----------------------------------------------------------------------------
(* Steps that leave the staff alone                                        *)

\* A step of an employee changes nothing on a route.
LEMMA EmployeeStaff == EmployeeDeskNext => UNCHANGED <<routeStatus, staffVars, escortVars>>
BY DEF EmployeeDeskNext, CreateBooking, CancelRead, CancelCommit, UpdateBooking, linkVars

\* Of the driver's steps only the duty changes a route's status, one stage at a
\* time, and only BoardEscort concerns the escort.
LEMMA DriverStaff ==
    ASSUME DriverAppNext, TypeOK
    PROVE  /\ UNCHANGED <<staffVars, assignedEscort, escortOtp>>
           /\ \/ UNCHANGED <<routeStatus, escortBoarded>>
              \/ \E r \in Routes : StartDuty(r) \/ BoardEscort(r) \/ EndDuty(r)
BY DEF DriverAppNext, StartTrip, MarkNoShow, Drop, NodalQrScan, SetStatus, ConfirmBoarding,
       StartDuty, BoardEscort, EndDuty, linkVars, escortVars

\* A row that the office creates starts as PLANNED with the columns of a free
\* slot; a row it deletes leaves a free slot; no other row changes its status.
FreshAndFreed ==
    \E RS \in SUBSET Routes :
        /\ EraseStaff(RS)
        /\ \A r \in RS : routeStatus'[r] = "Absent"
        /\ \A r \in Routes \ RS :
               \/ routeStatus'[r] = routeStatus[r]
               \/ routeStatus[r] = "Absent" /\ routeStatus'[r] = "PLANNED"

LEMMA EraseNothing ==
    ASSUME TypeOK, UNCHANGED <<staffVars, escortVars>>
    PROVE  EraseStaff({})
BY DEF TypeOK, EraseStaff, Erase, staffVars, escortVars

LEMMA OfficeStaff == TypeOK /\ (Routing \/ Regrouping \/ Deleting) => FreshAndFreed
<1>. DEFINE SameOrFresh(q) ==
         \/ routeStatus'[q] = routeStatus[q]
         \/ routeStatus[q] = "Absent" /\ routeStatus'[q] = "PLANNED"
<1>1. ASSUME TypeOK, EraseStaff({}), \A q \in Routes : SameOrFresh(q)
      PROVE  FreshAndFreed
  BY <1>1 DEF FreshAndFreed
<1>2. ASSUME TypeOK, Routing  PROVE FreshAndFreed
  <2>1. EraseStaff({})
    BY EraseNothing, <1>2 DEF Routing, SelectUnrouted, SkipCluster, SaveCluster
  <2>2. \/ UNCHANGED routeStatus
        \/ \E r \in Routes : /\ routeStatus[r] = "Absent"
                             /\ routeStatus' = [routeStatus EXCEPT ![r] = "PLANNED"]
    BY <1>2 DEF Routing, SelectUnrouted, SkipCluster, SaveCluster, linkVars
  <2>3. \A q \in Routes : SameOrFresh(q)
    BY <1>2, <2>2 DEF TypeOK
  <2>. QED  BY <1>1, <1>2, <2>1, <2>3
<1>3. ASSUME TypeOK, NEW RS \in RouteSets, NEW r \in Routes, NEW f, MergeRoutes(RS, r, f)
      PROVE  FreshAndFreed
  <2>1. RS \in SUBSET Routes /\ r \notin RS /\ EraseStaff(RS)
    BY <1>3 DEF MergeRoutes, Live, RouteSets
  <2>2. /\ routeStatus'[r] = "PLANNED" /\ routeStatus[r] = "Absent"
        /\ \A q \in RS : routeStatus'[q] = "Absent"
        /\ \A q \in Routes \ (RS \union {r}) : routeStatus'[q] = routeStatus[q]
    BY <1>3, <2>1 DEF MergeRoutes, Erase
  <2>. QED  BY <2>1, <2>2 DEF FreshAndFreed
<1>4. ASSUME TypeOK, NEW r \in Routes, NEW S, NEW f,
             \/ UpdateRouteAdd(r, S, f) \/ UpdateRouteRemove(r, S, f)
             \/ UpdateRouteEmpty(r, S) \/ UpdateRouteBookings(r, S, f)
             \/ CreateRouteFromBookings(S, r, f)
      PROVE  FreshAndFreed
  <2>1. EraseStaff({})
    BY EraseNothing, <1>4 DEF UpdateRouteAdd, UpdateRouteRemove, UpdateRouteEmpty, UpdateRouteBookings,
                CreateRouteFromBookings
  <2>2. \/ UNCHANGED routeStatus
        \/ /\ routeStatus[r] = "Absent"
           /\ routeStatus' = [routeStatus EXCEPT ![r] = "PLANNED"]
    BY <1>4 DEF UpdateRouteAdd, UpdateRouteRemove, UpdateRouteEmpty, UpdateRouteBookings,
                CreateRouteFromBookings
  <2>3. \A q \in Routes : SameOrFresh(q)
    BY <1>4, <2>2 DEF TypeOK
  <2>. QED  BY <1>1, <1>4, <2>1, <2>3
<1>5. ASSUME TypeOK, NEW RS \in SUBSET Routes, DeleteRoutes(RS)  PROVE FreshAndFreed
  <2>1. /\ \A q \in RS : routeStatus'[q] = "Absent"
        /\ \A q \in Routes \ RS : routeStatus'[q] = routeStatus[q]
    BY <1>5 DEF DeleteRoutes, Erase
  <2>. QED  BY <1>5, <2>1 DEF DeleteRoutes, FreshAndFreed
<1>6. TypeOK /\ Deleting => FreshAndFreed
  BY <1>5 DEF Deleting, DeleteRoute, BulkDeleteRoutes, Live
<1>7. TypeOK /\ Regrouping => FreshAndFreed
  BY <1>3, <1>4 DEF Regrouping
<1>. QED  BY <1>2, <1>6, <1>7

-----------------------------------------------------------------------------
(* The status of a route and who is assigned to it                         *)

LEMMA StaffStep == StaffInv /\ [Next]_vars => StaffInv'
<1>. SUFFICES ASSUME StaffInv, [Next]_vars  PROVE AssignmentMatchesStatus'
  BY TypeStep DEF StaffInv
<1>. USE DEF StaffInv, AssignmentMatchesStatus
<1>1. CASE UNCHANGED vars \/ EmployeeDeskNext
  BY <1>1, EmployeeStaff DEF vars, linkVars, staffVars
<1>2. CASE DriverAppNext
  <2>1. UNCHANGED staffVars
    BY <1>2, DriverStaff
  <2>2. CASE UNCHANGED routeStatus
    BY <2>1, <2>2 DEF staffVars
  <2>3. ASSUME NEW r \in Routes, StartDuty(r) \/ EndDuty(r)
        PROVE  AssignmentMatchesStatus'
    BY <2>1, <2>3 DEF StartDuty, EndDuty, staffVars, TypeOK
  <2>4. ASSUME NEW r \in Routes, BoardEscort(r)
        PROVE  AssignmentMatchesStatus'
    BY <2>2, <2>4 DEF BoardEscort, linkVars
  <2>. QED  BY <1>2, <2>2, <2>3, <2>4, DriverStaff
<1>3. CASE Routing \/ Regrouping \/ Deleting
  <2>1. FreshAndFreed
    BY <1>3, OfficeStaff
  <2>2. PICK RS \in SUBSET Routes :
            /\ EraseStaff(RS)
            /\ \A r \in RS : routeStatus'[r] = "Absent"
            /\ \A r \in Routes \ RS :
                   \/ routeStatus'[r] = routeStatus[r]
                   \/ routeStatus[r] = "Absent" /\ routeStatus'[r] = "PLANNED"
    BY <2>1 DEF FreshAndFreed
  <2>. QED  BY <2>2 DEF EraseStaff, Erase
<1>4. ASSUME NEW r \in Routes, NEW v \in Vendors, AssignVendor(r, v)
      PROVE  AssignmentMatchesStatus'
  BY <1>4, NoneIsNew DEF AssignVendor, WithVendor, Live, TypeOK
<1>5. ASSUME NEW r \in Routes, NEW c \in Vehicles, AssignVehicle(r, c)
      PROVE  AssignmentMatchesStatus'
  BY <1>5, NoneIsNew DEF AssignVehicle, Live, TypeOK
<1>6. ASSUME NEW r \in Routes, (\E e \in Escorts : AssignEscort(r, e)) \/ Dispatch(r)
      PROVE  AssignmentMatchesStatus'
  BY <1>6 DEF AssignEscort, Dispatch, linkVars, staffVars
<1>7. ASSUME NEW RS \in RouteSets, NEW v \in Vendors, AssignVendorBulk(RS, v)
      PROVE  AssignmentMatchesStatus'
  BY <1>7, NoneIsNew DEF AssignVendorBulk, WithVendor, Live, TypeOK
<1>. QED
  BY <1>1, <1>2, <1>3, <1>4, <1>5, <1>6, <1>7 DEF Next, RouteOfficeNext, Staffing

\* Whatever is assigned, reassigned, merged, deleted or driven, the status of a
\* route tells who has been assigned to it.
THEOREM AssignmentCorrect == Spec => []AssignmentMatchesStatus
<1>1. StaffInv => AssignmentMatchesStatus
  BY DEF StaffInv
<1>. QED  BY <1>1, InitStaff, StaffStep, PTL DEF Spec

-----------------------------------------------------------------------------
(* The escort                                                              *)

LEMMA EscortStep == EscortInv /\ [Next]_vars => EscortInv'
<1>. SUFFICES ASSUME EscortInv, [Next]_vars  PROVE EscortBoardedOnDuty'
  BY TypeStep DEF EscortInv
<1>. USE DEF EscortInv, EscortBoardedOnDuty
<1>1. CASE UNCHANGED vars \/ EmployeeDeskNext
  BY <1>1, EmployeeStaff DEF vars, linkVars, escortVars
<1>2. CASE DriverAppNext
  <2>1. UNCHANGED <<assignedEscort, escortOtp>>
    BY <1>2, DriverStaff
  <2>2. CASE UNCHANGED <<routeStatus, escortBoarded>>
    BY <2>1, <2>2
  <2>3. ASSUME NEW r \in Routes, StartDuty(r) \/ EndDuty(r)
        PROVE  EscortBoardedOnDuty'
    BY <2>3 DEF StartDuty, EndDuty, escortVars, TypeOK
  <2>4. ASSUME NEW r \in Routes, BoardEscort(r)
        PROVE  EscortBoardedOnDuty'
    BY <2>1, <2>4 DEF BoardEscort, linkVars, TypeOK
  <2>. QED  BY <1>2, <2>2, <2>3, <2>4, DriverStaff
<1>3. CASE Routing \/ Regrouping \/ Deleting
  <2>1. FreshAndFreed
    BY <1>3, OfficeStaff
  <2>2. PICK RS \in SUBSET Routes :
            /\ EraseStaff(RS)
            /\ \A r \in Routes \ RS :
                   \/ routeStatus'[r] = routeStatus[r]
                   \/ routeStatus[r] = "Absent" /\ routeStatus'[r] = "PLANNED"
    BY <2>1 DEF FreshAndFreed
  <2>. QED  BY <2>2 DEF EraseStaff, Erase
<1>4. ASSUME NEW r \in Routes, \/ \E v \in Vendors : AssignVendor(r, v)
                              \/ \E c \in Vehicles : AssignVehicle(r, c)
      PROVE  EscortBoardedOnDuty'
  BY <1>4 DEF AssignVendor, AssignVehicle, WithVendor, escortVars, TypeOK
<1>5. ASSUME NEW r \in Routes, NEW e \in Escorts, AssignEscort(r, e)
      PROVE  EscortBoardedOnDuty'
  BY <1>5, NoneIsNew DEF AssignEscort, linkVars, TypeOK
<1>6. ASSUME NEW r \in Routes, Dispatch(r)
      PROVE  EscortBoardedOnDuty'
  BY <1>6 DEF Dispatch, linkVars, TypeOK
<1>7. ASSUME NEW RS \in RouteSets, NEW v \in Vendors, AssignVendorBulk(RS, v)
      PROVE  EscortBoardedOnDuty'
  BY <1>7 DEF AssignVendorBulk, WithVendor, escortVars, TypeOK
<1>. QED
  BY <1>1, <1>2, <1>3, <1>4, <1>5, <1>6, <1>7 DEF Next, RouteOfficeNext, Staffing

\* An escort is on board only on a route that is or was on duty, and only when
\* there is an escort and an OTP that lets one board.
THEOREM EscortCorrect == Spec => []EscortBoardedOnDuty
<1>1. EscortInv => EscortBoardedOnDuty
  BY DEF EscortInv
<1>. QED  BY <1>1, InitStaff, EscortStep, PTL DEF Spec

-----------------------------------------------------------------------------
(* The status of a route only advances                                     *)

LEMMA StatusAdvances ==
    ASSUME TypeOK, [Next]_vars, NEW r \in Live
    PROVE  Rank(routeStatus'[r]) >= Rank(routeStatus[r])
<1>. USE DEF Rank, Live
<1>1. CASE UNCHANGED vars \/ EmployeeDeskNext
  BY <1>1, EmployeeStaff DEF vars, linkVars, TypeOK, RouteStatus
<1>2. CASE DriverAppNext
  <2>1. CASE UNCHANGED routeStatus
    BY <2>1 DEF TypeOK, RouteStatus
  <2>2. ASSUME NEW q \in Routes, StartDuty(q) \/ EndDuty(q)
        PROVE  Rank(routeStatus'[r]) >= Rank(routeStatus[r])
    BY <2>2 DEF StartDuty, EndDuty, TypeOK, RouteStatus
  <2>3. ASSUME NEW q \in Routes, BoardEscort(q)
        PROVE  Rank(routeStatus'[r]) >= Rank(routeStatus[r])
    BY <2>1, <2>3 DEF BoardEscort, linkVars
  <2>. QED  BY <1>2, <2>1, <2>2, <2>3, DriverStaff
<1>3. CASE Routing \/ Regrouping \/ Deleting
  <2>1. routeStatus'[r] \in {routeStatus[r], "Absent"}
    BY <1>3, OfficeStaff DEF FreshAndFreed
  <2>. QED  BY <2>1 DEF TypeOK, RouteStatus
<1>4. ASSUME NEW q \in Routes, \/ \E v \in Vendors : AssignVendor(q, v)
                              \/ \E c \in Vehicles : AssignVehicle(q, c)
      PROVE  Rank(routeStatus'[r]) >= Rank(routeStatus[r])
  BY <1>4 DEF AssignVendor, AssignVehicle, WithVendor, TypeOK, RouteStatus
<1>5. ASSUME NEW q \in Routes, (\E e \in Escorts : AssignEscort(q, e)) \/ Dispatch(q)
      PROVE  Rank(routeStatus'[r]) >= Rank(routeStatus[r])
  BY <1>5 DEF AssignEscort, Dispatch, linkVars, TypeOK, RouteStatus
<1>6. ASSUME NEW RS \in RouteSets, NEW v \in Vendors, AssignVendorBulk(RS, v)
      PROVE  Rank(routeStatus'[r]) >= Rank(routeStatus[r])
  BY <1>6 DEF AssignVendorBulk, WithVendor, TypeOK, RouteStatus
<1>. QED
  BY <1>1, <1>2, <1>3, <1>4, <1>5, <1>6 DEF Next, RouteOfficeNext, Staffing

\* A route is never taken back to an earlier stage of its life.
THEOREM RouteNeverReverts == Spec => RouteStatusMonotone
<1>1. TypeOK /\ [Next]_vars =>
          [\A r \in Routes :
              r \in Live => Rank(routeStatus'[r]) >= Rank(routeStatus[r])]_vars
  BY StatusAdvances
<1>. QED  BY <1>1, TypeCorrect, PTL DEF Spec, RouteStatusMonotone

-----------------------------------------------------------------------------
(* The life of a booking: every commit of a handler is a step of the       *)
(* abstract lifecycle or leaves the statuses alone                         *)

\* The lifecycle lets a booking be cancelled, boarded, missed or delivered only
\* once it exists.  A stop exists (LinkInv); a cancellation in flight is of a
\* booking that exists, too.
LifeInv == LinkInv /\ cancelling \subseteq Created

-----------------------------------------------------------------------------
(* The steps of the three parts                                            *)

LEMMA PlanStep ==
    ASSUME NEW S, bookingStatus' = Schedule(S)
    PROVE  BL!Plan
<1>. DEFINE T == {b \in Bookings : b \in S /\ bookingStatus[b] = "REQUEST"}
<1>1. BL!Group(T, "REQUEST", "SCHEDULED")
  BY DEF BL!Group, Schedule
<1>. QED  BY <1>1 DEF BL!Plan

LEMMA UnplanStep ==
    ASSUME NEW S, bookingStatus' = Release(S)
    PROVE  BL!Unplan
<1>. DEFINE T == {b \in Bookings : b \in S /\ bookingStatus[b] = "SCHEDULED"}
<1>1. BL!Group(T, "SCHEDULED", "REQUEST")
  BY DEF BL!Group, Release
<1>. QED  BY <1>1 DEF BL!Unplan

LEMMA EmployeeLife ==
    LifeInv /\ EmployeeDeskNext => (BL!Next \/ UNCHANGED bookingStatus)
                                       /\ cancelling' \subseteq Created'
<1>. SUFFICES ASSUME LifeInv, NEW b \in Bookings,
                     CreateBooking(b) \/ CancelRead(b) \/ CancelCommit(b) \/ UpdateBooking(b)
              PROVE  (BL!Next \/ UNCHANGED bookingStatus) /\ cancelling' \subseteq Created'
  BY DEF EmployeeDeskNext
<1>. USE DEF LifeInv, LinkInv, TypeOK, Created, BL!Next, BL!Move
<1>1. CASE CreateBooking(b)
  BY <1>1 DEF CreateBooking, BL!Book
<1>2. CASE CancelRead(b)
  BY <1>2 DEF CancelRead
<1>3. CASE CancelCommit(b)
  BY <1>3 DEF CancelCommit, BL!Cancel
<1>4. CASE UpdateBooking(b)
  BY <1>4 DEF UpdateBooking, BL!Rebook
<1>. QED  BY <1>1, <1>2, <1>3, <1>4

LEMMA OfficeLife ==
    LifeInv /\ RouteOfficeNext => (BL!Next \/ UNCHANGED bookingStatus)
                                      /\ cancelling' \subseteq Created'
<1>. SUFFICES ASSUME LifeInv, RouteOfficeNext
              PROVE  (BL!Next \/ UNCHANGED bookingStatus) /\ cancelling' \subseteq Created'
  OBVIOUS
<1>1. cancelling' = cancelling
  BY DEF RouteOfficeNext, Routing, Staffing, Regrouping, Deleting,
         SelectUnrouted, SaveCluster, SkipCluster,
         AssignVendor, AssignVendorBulk, AssignVehicle, AssignEscort, Dispatch,
         MergeRoutes, UpdateRouteAdd, UpdateRouteRemove, UpdateRouteEmpty,
         UpdateRouteBookings, CreateRouteFromBookings,
         DeleteRoutes, DeleteRoute, BulkDeleteRoutes, bookingVars
<1>2. \/ UNCHANGED bookingStatus
      \/ \E S : bookingStatus' = Schedule(S) \/ bookingStatus' = Release(S)
  BY DEF RouteOfficeNext, Routing, Staffing, Regrouping, Deleting,
         SelectUnrouted, SaveCluster, SkipCluster,
         AssignVendor, AssignVendorBulk, AssignVehicle, AssignEscort, Dispatch,
         MergeRoutes, UpdateRouteAdd, UpdateRouteRemove, UpdateRouteEmpty,
         UpdateRouteBookings, CreateRouteFromBookings,
         DeleteRoutes, DeleteRoute, BulkDeleteRoutes, bookingVars
<1>3. CASE UNCHANGED bookingStatus
  BY <1>1, <1>3 DEF LifeInv, Created
<1>4. ASSUME NEW S, bookingStatus' = Schedule(S) \/ bookingStatus' = Release(S)
      PROVE  BL!Next /\ cancelling' \subseteq Created'
  BY <1>1, <1>4, PlanStep, UnplanStep, ScheduleKeepsRows DEF LifeInv, LinkInv, BL!Next
<1>. QED  BY <1>2, <1>3, <1>4

LEMMA DriverLife ==
    LifeInv /\ DriverAppNext => (BL!Next \/ UNCHANGED bookingStatus)
                                    /\ cancelling' \subseteq Created'
<1>. SUFFICES ASSUME LifeInv, NEW r \in Routes,
                     \/ StartDuty(r) \/ BoardEscort(r) \/ EndDuty(r)
                     \/ \E b \in Bookings : \/ StartTrip(r, b) \/ MarkNoShow(r, b)
                                            \/ Drop(r, b) \/ NodalQrScan(r, b)
              PROVE  (BL!Next \/ UNCHANGED bookingStatus) /\ cancelling' \subseteq Created'
  BY DEF DriverAppNext
<1>. USE DEF LifeInv, LinkInv, TypeOK, LinksHaveRoute, Created, Stops, BL!Next, BL!Move
<1>1. CASE StartDuty(r) \/ BoardEscort(r) \/ EndDuty(r)
  BY <1>1 DEF StartDuty, BoardEscort, EndDuty, bookingVars
<1>2. ASSUME NEW b \in Bookings, StartTrip(r, b)
      PROVE  BL!Next /\ cancelling' \subseteq Created'
  BY <1>2 DEF StartTrip, SetStatus, ConfirmBoarding, BL!Board
<1>3. ASSUME NEW b \in Bookings, MarkNoShow(r, b)
      PROVE  BL!Next /\ cancelling' \subseteq Created'
  BY <1>3 DEF MarkNoShow, SetStatus, BL!Miss
<1>4. ASSUME NEW b \in Bookings, Drop(r, b)
      PROVE  BL!Next /\ cancelling' \subseteq Created'
  BY <1>4 DEF Drop, SetStatus, BL!Deliver
<1>5. ASSUME NEW b \in Bookings, NodalQrScan(r, b)
      PROVE  BL!Next /\ cancelling' \subseteq Created'
  BY <1>5 DEF NodalQrScan, ConfirmBoarding, BL!Board
<1>. QED  BY <1>1, <1>2, <1>3, <1>4, <1>5

-----------------------------------------------------------------------------
(* The refinement                                                          *)

LEMMA InitLife == Init => LifeInv /\ BL!Init
BY InitLinks DEF Init, LifeInv, BL!Init

LEMMA LifeStep == LifeInv /\ [Next]_vars => LifeInv' /\ [BL!Next]_bookingStatus
<1>. SUFFICES ASSUME LifeInv, [Next]_vars
              PROVE  /\ cancelling' \subseteq Created'
                     /\ BL!Next \/ UNCHANGED bookingStatus
  BY LinkStep DEF LifeInv
<1>1. CASE UNCHANGED vars
  BY <1>1 DEF LifeInv, Created, vars, bookingVars
<1>. QED  BY <1>1, EmployeeLife, OfficeLife, DriverLife DEF Next

\* The handlers, whatever the office regroups and whatever commits in between,
\* move bookings only as the lifecycle allows.
THEOREM LifecycleRefined == Spec => ImplementsLifecycle
BY InitLife, LifeStep, PTL DEF Spec, BL!Spec, ImplementsLifecycle

-----------------------------------------------------------------------------
(* Two consequences, from the lifecycle alone                              *)

StatusOK == bookingStatus \in [Bookings -> BL!Stages]

LEMMA LifecycleSteps ==
    ASSUME StatusOK, [BL!Next]_bookingStatus
    PROVE  /\ \A b \in Bookings :
                  bookingStatus[b] \in {"ONGOING", "COMPLETED", "NO_SHOW"} =>
                      bookingStatus'[b] \notin {"Absent", "REQUEST", "SCHEDULED"}
           /\ \A b \in Bookings :
                  bookingStatus[b] = "CANCELLED" => bookingStatus'[b] # "SCHEDULED"
<1>. USE DEF StatusOK
<1>1. CASE BL!Plan \/ BL!Unplan
  BY <1>1 DEF BL!Plan, BL!Unplan, BL!Group
<1>2. ASSUME NEW b \in Bookings,
             \/ BL!Book(b) \/ BL!Cancel(b) \/ BL!Rebook(b)
             \/ BL!Board(b) \/ BL!Miss(b) \/ BL!Deliver(b)
      PROVE  /\ \A p \in Bookings :
                    bookingStatus[p] \in {"ONGOING", "COMPLETED", "NO_SHOW"} =>
                        bookingStatus'[p] \notin {"Absent", "REQUEST", "SCHEDULED"}
             /\ \A p \in Bookings :
                    bookingStatus[p] = "CANCELLED" => bookingStatus'[p] # "SCHEDULED"
  BY <1>2 DEF BL!Book, BL!Cancel, BL!Rebook, BL!Board, BL!Miss, BL!Deliver, BL!Move
<1>. QED  BY <1>1, <1>2 DEF BL!Next

LEMMA LifecycleSafe ==
    TypeOK /\ [BL!Next]_bookingStatus =>
        /\ [\A b \in Bookings :
               bookingStatus[b] \in {"ONGOING", "COMPLETED", "NO_SHOW"} =>
                   bookingStatus'[b] \notin {"Absent", "REQUEST", "SCHEDULED"}]_vars
        /\ [\A b \in Bookings :
               bookingStatus[b] = "CANCELLED" => bookingStatus'[b] # "SCHEDULED"]_vars
BY LifecycleSteps DEF TypeOK, StatusOK, BookingStatus, BL!Stages

\* No regrouping takes a passenger who travelled or was missed back to planning,
\* whichever routes are merged, split and deleted.
THEOREM NeverReopened == Spec => TripsNeverReopened
BY LifecycleSafe, TypeCorrect, LifecycleRefined, PTL
DEF ImplementsLifecycle, BL!Spec, TripsNeverReopened

\* No plan schedules a booking that was cancelled before it committed, for the
\* update of the status asks for REQUEST again.
THEOREM CancelRespected == Spec => RoutingRespectsCancel
BY LifecycleSafe, TypeCorrect, LifecycleRefined, PTL
DEF ImplementsLifecycle, BL!Spec, RoutingRespectsCancel

-----------------------------------------------------------------------------
(* Who boards at a door                                                    *)

\* A step that puts b on board, at a door.
Boards(b) == bookingStatus[b] # "ONGOING" /\ bookingStatus'[b] = "ONGOING"

LEMMA NobodyBoardsByOffice ==
    ASSUME EmployeeDeskNext \/ RouteOfficeNext, TypeOK, NEW b \in Bookings
    PROVE  ~Boards(b)
<1>. USE DEF TypeOK, Boards
<1>1. CASE EmployeeDeskNext
  BY <1>1 DEF EmployeeDeskNext, CreateBooking, CancelRead, CancelCommit, UpdateBooking
<1>2. ASSUME NEW S, bookingStatus' = Schedule(S) \/ bookingStatus' = Release(S)  PROVE ~Boards(b)
  BY <1>2 DEF Schedule, Release
<1>3. CASE Routing
  BY <1>2, <1>3 DEF Routing, SelectUnrouted, SkipCluster, SaveCluster, bookingVars
<1>4. CASE Staffing \/ \E RS \in RouteSets, v \in Vendors : AssignVendorBulk(RS, v)
  BY <1>4 DEF Staffing, AssignVendor, AssignVendorBulk, AssignVehicle, AssignEscort, Dispatch,
              bookingVars
<1>5. CASE Regrouping
  BY <1>2, <1>5 DEF Regrouping, MergeRoutes, UpdateRouteAdd, UpdateRouteRemove,
                    UpdateRouteEmpty, UpdateRouteBookings, CreateRouteFromBookings
<1>6. CASE Deleting
  BY <1>2, <1>6 DEF Deleting, DeleteRoute, BulkDeleteRoutes, DeleteRoutes
<1>. QED  BY <1>1, <1>3, <1>4, <1>5, <1>6 DEF RouteOfficeNext

\* Of the driver's steps it is the start of the trip alone, and the checks of the
\* duty and of the escort are made on the rows that it then changes.
LEMMA DriverBoards ==
    ASSUME DriverAppNext, TypeOK, ~Nodal, NEW b \in Bookings, Boards(b)
    PROVE  \E r \in Routes : StartTrip(r, b)
<1>. USE DEF TypeOK, Boards
<1>1. PICK r \in Routes :
          \/ StartDuty(r) \/ BoardEscort(r) \/ EndDuty(r)
          \/ \E p \in Bookings : StartTrip(r, p) \/ MarkNoShow(r, p) \/ Drop(r, p) \/ NodalQrScan(r, p)
  BY DEF DriverAppNext
<1>2. ~ (StartDuty(r) \/ BoardEscort(r) \/ EndDuty(r))
  BY DEF StartDuty, BoardEscort, EndDuty, bookingVars
<1>3. PICK p \in Bookings : StartTrip(r, p) \/ MarkNoShow(r, p) \/ Drop(r, p) \/ NodalQrScan(r, p)
  BY <1>1, <1>2
<1>4. ~ (MarkNoShow(r, p) \/ Drop(r, p) \/ NodalQrScan(r, p))
  BY DEF MarkNoShow, Drop, NodalQrScan, SetStatus
<1>5. StartTrip(r, p) /\ bookingStatus' = [bookingStatus EXCEPT ![p] = "ONGOING"]
  BY <1>3, <1>4 DEF StartTrip, SetStatus
<1>6. p = b
  BY <1>5
<1>. QED  BY <1>5, <1>6

\* At a door nobody travels before the duty has begun, nor before the escort that
\* the route has is on board, nor after dark without one (start_trip).
THEOREM BoardingEscorted == Spec => PickupOnEscortedDuty
<1>1. ASSUME TypeOK, Next, ~Nodal, NEW b \in Bookings, Boards(b)
      PROVE  \E r \in RoutesOf(b) :
                 /\ routeStatus[r] = "ONGOING"
                 /\ assignedEscort[r] # None => escortBoarded[r]
                 /\ b \in DarkHour => assignedEscort[r] # None
  <2>1. DriverAppNext
    BY <1>1, NobodyBoardsByOffice DEF Next
  <2>2. PICK r \in Routes : StartTrip(r, b)
    BY <1>1, <2>1, DriverBoards
  <2>. QED  BY <2>2 DEF StartTrip, Stops, RoutesOf, EscortAboard
<1>2. TypeOK /\ [Next]_vars =>
          [\A b \in Bookings :
               ~ Nodal /\ bookingStatus[b] # "ONGOING" /\ bookingStatus'[b] = "ONGOING" =>
                   \E r \in RoutesOf(b) :
                       /\ routeStatus[r] = "ONGOING"
                       /\ assignedEscort[r] # None => escortBoarded[r]
                       /\ b \in DarkHour => assignedEscort[r] # None]_vars
  BY <1>1 DEF Boards
<1>. QED  BY <1>2, TypeCorrect, PTL DEF Spec, PickupOnEscortedDuty
=============================================================================
