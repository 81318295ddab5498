------------------------------ MODULE DutyDay ------------------------------
(***************************************************************************)
(* Does a duty end?  At some moment the office closes: no request of the   *)
(* office and no new cancellation arrives, and the drivers keep working.   *)
(* The weak fairness stands for that driver, not for the server: he settles*)
(* every stop that blocks him (by a no-show, if nothing else), drops whom  *)
(* he carries, starts and ends his duties.  The safety of this             *)
(* specification is that of FleetTrips; the question is whether the guards *)
(* of the handlers leave him a way through, whatever the office left.      *)
(***************************************************************************)
EXTENDS FleetTrips

VARIABLE closed

CloseOffice ==
    /\ ~ closed
    /\ LoopIdle
    /\ closed' = TRUE
    /\ UNCHANGED vars

\* A driver does not pick up again a passenger he has dropped.
PickUp(r, b)   == bookingStatus[b] # "COMPLETED" /\ StartTrip(r, b)
Deliver(r, b)  == bookingStatus[b] = "ONGOING" /\ Drop(r, b)
GiveUpOn(r, b) == bookingStatus[b] # "NO_SHOW" /\ MarkNoShow(r, b)

Driver(r) ==
    \/ StartDuty(r)
    \/ EndDuty(r)
    \/ BoardEscort(r)
    \/ \E b \in Bookings :
           PickUp(r, b) \/ Deliver(r, b) \/ GiveUpOn(r, b) \/ NodalQrScan(r, b)

\* After hours a cancellation in flight still commits, and an employee may
\* still reopen a cancelled booking.
Employee(b) == CancelCommit(b) \/ UpdateBooking(b)

DayNext ==
    \/ CloseOffice
    \/ ~ closed /\ Next /\ UNCHANGED closed
    \/ /\ closed
       /\ (\E r \in Routes : Driver(r)) \/ (\E b \in Bookings : Employee(b))
       /\ UNCHANGED closed

AfterHours(A) == closed /\ A /\ UNCHANGED closed

DayFairness ==
    \A r \in Routes :
        /\ WF_<<vars, closed>>(AfterHours(StartDuty(r)))
        /\ WF_<<vars, closed>>(AfterHours(EndDuty(r)))
        /\ \A b \in Bookings :
               /\ WF_<<vars, closed>>(AfterHours(Deliver(r, b)))
               /\ WF_<<vars, closed>>(AfterHours(GiveUpOn(r, b)))

DaySpec ==
    /\ Init /\ closed = FALSE
    /\ [][DayNext]_<<vars, closed>>
    /\ DayFairness

\* Every route that has a driver when the office closes is driven to its end:
\* no cancelled, doubly routed or unscheduled stop, no other route of the same
\* driver and no late cancellation keeps its duty from starting or from ending.
DutyEnds ==
    \A r \in Routes :
        (closed /\ routeStatus[r] \in {"DRIVER_ASSIGNED", "ONGOING"})
            ~> (routeStatus[r] = "COMPLETED")
=============================================================================
