------------------------------ MODULE MCOffice ------------------------------
(***************************************************************************)
(* Instances of Office for TLC.  Of the fleets, one is a car that may      *)
(* change its type and its contract, and one two cars that share a driver. *)
(***************************************************************************)
EXTENDS Office, MCBookingDesk

CONSTANTS p1, p2, p3, r1, r2

OfficeFleets ==
    {[vehicles |-> {p1}, contracts |-> {p2, p3}, types |-> {"small", "large"}, drivers |-> {}],
     [vehicles |-> {p1, p2}, contracts |-> {p3}, types |-> {"small"}, drivers |-> {r1}]}

OfficeRates == (p1 :> 3) @@ (p2 :> 5) @@ (p3 :> 7)

Line(p, ok) == [who |-> p, fits |-> ok]
OfficeFiles == {<<Line(p1, TRUE), Line(p2, TRUE)>>, <<Line(p1, TRUE), Line(p2, FALSE)>>,
                <<Line(p3, TRUE), Line(p3, TRUE)>>, <<Line(p3, FALSE), Line(p1, TRUE)>>}

OfficeOrder == [e \in {r1} |-> (p1 :> 1) @@ (p2 :> 2)]

\* Stops on both sides of midnight, and a second duty that may overlap the first.
OfficePlan      == (r1 :> <<3, 6>>) @@ (r2 :> <<>>)
OfficeEstimated == (r1 :> 2) @@ (r2 :> 0)
=============================================================================
