-------------------------- MODULE BookingLifecycle --------------------------
(***************************************************************************)
(* What the status of a booking promises, whatever route it travels on.    *)
(* The office moves groups of bookings between REQUEST and SCHEDULED; the  *)
(* employee and the driver move one booking at a time.  FleetTrips is      *)
(* shown to implement this specification.                                  *)
(***************************************************************************)
CONSTANT Bookings
VARIABLE status

Stages == {"Absent", "REQUEST", "SCHEDULED", "ONGOING", "COMPLETED",
           "CANCELLED", "NO_SHOW"}

Init == status = [b \in Bookings |-> "Absent"]

Move(b, st) == status' = [status EXCEPT ![b] = st]

\* The bookings S, all in stage from, go to stage to.
Group(S, from, to) ==
    /\ S \subseteq {b \in Bookings : status[b] = from}
    /\ status' = [b \in Bookings |-> IF b \in S THEN to ELSE status[b]]

Plan   == \E S \in SUBSET Bookings : Group(S, "REQUEST", "SCHEDULED")
Unplan == \E S \in SUBSET Bookings : Group(S, "SCHEDULED", "REQUEST")

Book(b)    == status[b] = "Absent" /\ Move(b, "REQUEST")
\* A cancellation was accepted in REQUEST; by its commit any stage is possible.
Cancel(b)  == status[b] # "Absent" /\ Move(b, "CANCELLED")
Rebook(b)  == status[b] = "CANCELLED" /\ Move(b, "REQUEST")
Board(b)   == status[b] # "Absent" /\ Move(b, "ONGOING")
Miss(b)    == status[b] \notin {"Absent", "ONGOING", "COMPLETED"} /\ Move(b, "NO_SHOW")
Deliver(b) == status[b] # "Absent" /\ Move(b, "COMPLETED")

Next ==
    \/ Plan
    \/ Unplan
    \/ \E b \in Bookings :
           Book(b) \/ Cancel(b) \/ Rebook(b) \/ Board(b) \/ Miss(b) \/ Deliver(b)

Spec == Init /\ [][Next]_status
=============================================================================
