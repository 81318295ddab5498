----------------------------- MODULE DriverApp -----------------------------
(***************************************************************************)
(* The driver's duty (app_driver_router.py) and the employee's QR scan at  *)
(* a nodal point (app_employee_router.py).  All are coroutines that commit *)
(* once.  The driver of a call is the route's assigned driver: a call of   *)
(* anyone else finds no route.  Calls with a wrong OTP, from too far away, *)
(* or repeated (already started, already boarded, already dropped) change  *)
(* nothing and are not steps; a passenger's OTP is the one the row holds.  *)
(***************************************************************************)
EXTENDS TripState

EscortAboard(r) == assignedEscort[r] # None /\ escortBoarded[r]

\* check_previous_bookings_completed: no earlier stop is still waiting.  A
\* cancelled stop counts as waiting.
PreviousDone(r, b) ==
    \A p \in Stops(r) :
        orderId[r][p] < orderId[r][b] =>
            bookingStatus[p] \in {"NO_SHOW", "ONGOING", "COMPLETED"}

SetStatus(b, st) ==
    /\ bookingStatus' = [bookingStatus EXCEPT ![b] = st]
    /\ UNCHANGED <<cancelling, plan, linkVars, staffVars, escortVars>>

\* At a nodal point only a SCHEDULED booking boards, by whichever of the scan and
\* the driver comes first.  A cancellation that commits between the handler's
\* read and its own commit is overwritten.
ConfirmBoarding(b) ==
    /\ bookingStatus[b] = "SCHEDULED"
    /\ bookingStatus' = [bookingStatus EXCEPT ![b] = "ONGOING"]
    /\ cancelling' \in {cancelling, cancelling \ {b}}
    /\ UNCHANGED <<plan, linkVars, staffVars, escortVars>>

StartDuty(r) ==
    /\ LoopIdle
    /\ assignedDriver[r] # None
    /\ routeStatus[r] = "DRIVER_ASSIGNED"
    /\ \A q \in Routes \ {r} :
           ~ (routeStatus[q] = "ONGOING" /\ assignedDriver[q] = assignedDriver[r])
    /\ routeStatus' = [routeStatus EXCEPT ![r] = "ONGOING"]
    /\ UNCHANGED <<bookingVars, plan, orderId, staffVars, escortVars>>

\* Mutant: the duty need not have started.
BoardEscortEarly(r) ==
    /\ LoopIdle
    /\ assignedDriver[r] # None
    /\ assignedEscort[r] # None
    /\ escortOtp[r] # None
    /\ escortBoarded' = [escortBoarded EXCEPT ![r] = TRUE]
    /\ UNCHANGED <<bookingVars, plan, linkVars, staffVars, assignedEscort, escortOtp>>

\* The driver types the OTP; whoever received it can have told it.
BoardEscort(r) ==
    /\ LoopIdle
    /\ assignedDriver[r] # None
    /\ routeStatus[r] = "ONGOING"
    /\ assignedEscort[r] # None
    /\ ~ escortBoarded[r]
    /\ escortOtp[r] # None
    /\ escortBoarded' = [escortBoarded EXCEPT ![r] = TRUE]
    /\ UNCHANGED <<bookingVars, plan, linkVars, staffVars, assignedEscort, escortOtp>>

\* Mutant: nobody waits for the escort.
StartTripUnescorted(r, b) ==
    /\ LoopIdle
    /\ assignedDriver[r] # None
    /\ routeStatus[r] = "ONGOING"
    /\ b \in Stops(r)
    /\ PreviousDone(r, b)
    /\ SetStatus(b, "ONGOING")

\* In a nodal shift the driver only confirms; otherwise the status is set
\* whatever it was.
StartTrip(r, b) ==
    /\ LoopIdle
    /\ assignedDriver[r] # None
    /\ routeStatus[r] = "ONGOING"
    /\ assignedEscort[r] # None => escortBoarded[r]
    /\ b \in Stops(r)
    /\ b \in DarkHour => EscortAboard(r)
    /\ IF Nodal THEN ConfirmBoarding(b)
       ELSE PreviousDone(r, b) /\ SetStatus(b, "ONGOING")

\* Mutants: a passenger in the vehicle can be a no-show; only who still waits
\* can be one.
MarkNoShowAnyone(r, b) ==
    /\ LoopIdle
    /\ b \in Stops(r)
    /\ PreviousDone(r, b)
    /\ SetStatus(b, "NO_SHOW")
MarkNoShowWaiting(r, b) ==
    /\ LoopIdle
    /\ assignedDriver[r] # None
    /\ b \in Stops(r)
    /\ bookingStatus[b] \in {"REQUEST", "SCHEDULED"}
    /\ PreviousDone(r, b)
    /\ SetStatus(b, "NO_SHOW")

\* The status of the route is not looked at.
MarkNoShow(r, b) ==
    /\ LoopIdle
    /\ assignedDriver[r] # None
    /\ b \in Stops(r)
    /\ bookingStatus[b] \notin {"ONGOING", "COMPLETED"}
    /\ PreviousDone(r, b)
    /\ SetStatus(b, "NO_SHOW")

\* verify_drop_and_complete_route: the booking need not be ONGOING.
Drop(r, b) ==
    /\ LoopIdle
    /\ assignedDriver[r] # None
    /\ routeStatus[r] = "ONGOING"
    /\ b \in Stops(r)
    /\ bookingStatus[b] # "COMPLETED"
    /\ SetStatus(b, "COMPLETED")

EndDuty(r) ==
    /\ LoopIdle
    /\ assignedDriver[r] # None
    /\ routeStatus[r] = "ONGOING"
    /\ \A b \in Stops(r) : bookingStatus[b] \in {"COMPLETED", "NO_SHOW", "CANCELLED"}
    /\ routeStatus' = [routeStatus EXCEPT ![r] = "COMPLETED"]
    /\ UNCHANGED <<bookingVars, plan, orderId, staffVars, escortVars>>

\* The QR code names the vehicle; any of its active routes may be found first.
NodalQrScan(r, b) ==
    /\ LoopIdle
    /\ Nodal
    /\ assignedVehicle[r] # None
    /\ routeStatus[r] \in {"DRIVER_ASSIGNED", "ONGOING"}
    /\ b \in Stops(r)
    /\ ConfirmBoarding(b)

DriverAppNext ==
    \E r \in Routes :
        \/ StartDuty(r)
        \/ BoardEscort(r)
        \/ EndDuty(r)
        \/ \E b \in Bookings :
               \/ StartTrip(r, b)
               \/ MarkNoShow(r, b)
               \/ Drop(r, b)
               \/ NodalQrScan(r, b)
=============================================================================
