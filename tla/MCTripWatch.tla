---------------------------- MODULE MCTripWatch -----------------------------
\* The instance of TripWatch for TLC: a duty whose stop may be lost to a fault,
\* or two duties of one driver whose stops the office regroups.
EXTENDS TripWatch, TLC

CONSTANTS r1, r2, b1, b2

WatchPlans ==
    {[stops |-> r1 :> <<b1>>, edition |-> 0, faults |-> 1],
     [stops |-> (r1 :> <<b1>>) @@ (r2 :> <<>>), edition |-> 1, faults |-> 0]}
=============================================================================
