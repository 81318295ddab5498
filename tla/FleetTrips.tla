----------------------------- MODULE FleetTrips -----------------------------
(***************************************************************************)
(* The life of a shift's bookings and routes: the employees, the transport *)
(* office and the drivers acting on the same rows.                         *)
(***************************************************************************)
EXTENDS EmployeeDesk, RouteOffice, DriverApp

Next ==
    \/ EmployeeDeskNext
    \/ RouteOfficeNext
    \/ DriverAppNext

Spec == Init /\ [][Next]_vars

-----------------------------------------------------------------------------
(* Safety invariants                                                       *)

\* A route's status tells who has been assigned to it: a PLANNED route has
\* nobody, a VENDOR_ASSIGNED route has a vendor and no driver, and from
\* DRIVER_ASSIGNED on it has a vendor, a vehicle and a driver.  Assignments,
\* merges, deletions and the duty all write these columns separately.
AssignmentMatchesStatus ==
    \A r \in Routes :
        LET staff == {assignedVehicle[r], assignedDriver[r]}
        IN  /\ routeStatus[r] \in {"Absent", "PLANNED"} =>
                   assignedVendor[r] = None /\ staff = {None}
            /\ routeStatus[r] = "VENDOR_ASSIGNED" =>
                   assignedVendor[r] # None /\ staff = {None}
            /\ routeStatus[r] \in {"DRIVER_ASSIGNED", "ONGOING", "COMPLETED"} =>
                   assignedVendor[r] # None /\ None \notin staff

\* With one trip per shift enforced, no booking is ever on two routes, although
\* only update_route consults enforce_one_trip_per_shift: create_routes relies
\* on the rows it read before its first commit, the others take the bookings
\* off their routes.
OneRoutePerBooking ==
    OneTrip => \A b \in Bookings : \A q, r \in RoutesOf(b) : q = r

\* What a running create_routes call has read and not yet placed stays true
\* while it works: nobody links such a booking, and the most that happens to it
\* is a cancellation.  Its later clusters rely on it.
PlanUnrouted ==
    \A b \in plan : RoutesOf(b) = {} /\ bookingStatus[b] \in {"REQUEST", "CANCELLED"}

\* No link row outlives its route (the merge and the deletions have to delete
\* the link rows themselves), and none names a booking that was never created.
LinksHaveRoute ==
    \A r \in Routes, b \in Bookings :
        orderId[r][b] > 0 => r \in Live /\ b \in Created

\* Only a route that has been on duty has its escort on board, and there is an
\* escort and an OTP that let one aboard.
EscortBoardedOnDuty ==
    \A r \in Routes :
        escortBoarded[r] =>
            /\ routeStatus[r] \in {"ONGOING", "COMPLETED"}
            /\ assignedEscort[r] # None
            /\ escortOtp[r] # None

-----------------------------------------------------------------------------
(* What a step never does                                                  *)

\* The office never takes a passenger who travels, has travelled or did not
\* show up back to planning, however it merges, splits and deletes routes.
TripsNeverReopened ==
    [][\A b \in Bookings :
          bookingStatus[b] \in {"ONGOING", "COMPLETED", "NO_SHOW"} =>
              bookingStatus'[b] \notin {"Absent", "REQUEST", "SCHEDULED"}]_vars

\* A cancelled booking is never scheduled: a plan that was made before the
\* cancellation committed does not undo it.
RoutingRespectsCancel ==
    [][\A b \in Bookings :
          bookingStatus[b] = "CANCELLED" => bookingStatus'[b] # "SCHEDULED"]_vars

Rank(st) ==
    CASE st = "PLANNED" -> 1
      [] st = "VENDOR_ASSIGNED" -> 2
      [] st = "DRIVER_ASSIGNED" -> 3
      [] st = "ONGOING" -> 4
      [] st = "COMPLETED" -> 5
      [] OTHER -> 6

\* "Cannot Revert": a route only advances, whatever is reassigned on it, until
\* its row is deleted.
RouteStatusMonotone ==
    [][\A r \in Routes :
          r \in Live => Rank(routeStatus'[r]) >= Rank(routeStatus[r])]_vars

\* At a door, a passenger starts to travel only on a route that is on duty,
\* and only when the escort that the route has is on board.
PickupOnEscortedDuty ==
    [][\A b \in Bookings :
          ~ Nodal /\ bookingStatus[b] # "ONGOING" /\ bookingStatus'[b] = "ONGOING" =>
              \E r \in RoutesOf(b) :
                  /\ routeStatus[r] = "ONGOING"
                  /\ assignedEscort[r] # None => escortBoarded[r]
                  /\ b \in DarkHour => assignedEscort[r] # None]_vars

\* The detailed handlers implement the lifecycle of a booking.
BL == INSTANCE BookingLifecycle WITH status <- bookingStatus
ImplementsLifecycle == BL!Spec

-----------------------------------------------------------------------------
(* What the documentation and the comments say, which the code does not keep *)

\* app/models/route_management.py:39, escort_boarded is "True once driver has
\* successfully verified escort OTP": the escort that was verified is the
\* escort that the route has.
BoardedEscortIsAssigned ==
    \A r \in Routes : escortBoarded[r] => assignedEscort[r] = escortOtp[r]

\* cancel_booking's docstring, "The booking is in REQUEST state (not yet
\* scheduled into a route)": only such a booking becomes CANCELLED.
CancelOnlyUnrouted ==
    [][\A b \in Bookings :
          bookingStatus[b] # "CANCELLED" /\ bookingStatus'[b] = "CANCELLED" =>
              bookingStatus[b] = "REQUEST"]_vars

=============================================================================
