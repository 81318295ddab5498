---------------------------- MODULE MCFleetTrips ----------------------------
(***************************************************************************)
(* Instances of FleetTrips for TLC.  The bounds are the numbers of rows;   *)
(* nothing else in the specification grows (an order_id is at most the     *)
(* number of bookings, or one of ManualOrders).                            *)
(***************************************************************************)
EXTENDS FleetTrips, TLC

CONSTANTS v1, v2, c1, c2, c3, d1, d2, d3

\* Vehicles c1 and c2 are vendor v1's, vehicle c3 is vendor v2's; each has a
\* driver of its own.
FleetVehicleVendor == [c \in Vehicles |-> IF c = c3 THEN v2 ELSE v1]
FleetVehicleDriver ==
    [c \in Vehicles |-> IF c = c1 THEN d1 ELSE IF c = c2 THEN d2 ELSE d3]
FleetDriverVendor == [d \in Drivers |-> IF d = d3 THEN v2 ELSE v1]

\* Sound for the runs without DarkHour bookings: no formula of the
\* specification distinguishes two bookings or two routes.
RouteSymmetry == Permutations(Routes)
RowSymmetry == Permutations(Bookings) \union Permutations(Routes)
=============================================================================
