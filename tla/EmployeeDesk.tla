---------------------------- MODULE EmployeeDesk ----------------------------
(***************************************************************************)
(* What an employee does to a single booking (booking_router.py): create,  *)
(* cancel, re-book.  create_booking and cancel_booking are plain "def"     *)
(* handlers, so FastAPI runs them in worker threads, next to whatever the  *)
(* event loop is doing; cancel_booking reads the row and commits later.    *)
(* Module BookingDesk models the duplicate checks in detail.               *)
(***************************************************************************)
EXTENDS TripState

CreateBooking(b) ==
    /\ bookingStatus[b] = "Absent"
    /\ bookingStatus' = [bookingStatus EXCEPT ![b] = "REQUEST"]
    /\ UNCHANGED <<cancelling, plan, linkVars, staffVars, escortVars>>

\* cancel_booking reads the row and accepts it because it is in REQUEST (a call
\* that is refused, for its status or the cutoff, changes nothing) ...
CancelRead(b) ==
    /\ bookingStatus[b] = "REQUEST"
    /\ b \notin cancelling
    /\ cancelling' = cancelling \union {b}
    /\ UNCHANGED <<bookingStatus, plan, linkVars, staffVars, escortVars>>

\* ... and writes CANCELLED by primary key, whatever the row holds by now.
CancelCommit(b) ==
    /\ b \in cancelling
    /\ cancelling' = cancelling \ {b}
    /\ bookingStatus' = [bookingStatus EXCEPT ![b] = "CANCELLED"]
    /\ UNCHANGED <<plan, linkVars, staffVars, escortVars>>

\* update_booking reopens a cancelled booking.
UpdateBooking(b) ==
    /\ LoopIdle
    /\ bookingStatus[b] = "CANCELLED"
    /\ bookingStatus' = [bookingStatus EXCEPT ![b] = "REQUEST"]
    /\ UNCHANGED <<cancelling, plan, linkVars, staffVars, escortVars>>

EmployeeDeskNext ==
    \E b \in Bookings :
        \/ CreateBooking(b)
        \/ CancelRead(b)
        \/ CancelCommit(b)
        \/ UpdateBooking(b)
=============================================================================
