----------------------------- MODULE MCNotices ------------------------------
\* The instance of Notices for TLC.
EXTENDS Notices, TLC

CONSTANTS b1, b2, r1, r2, a1, a2, emp, guard, desk, w1, w2

\* The first booking comes on two routes, at different times.
Pickups == (<<b1, r1>> :> {5}) @@ (<<b1, r2>> :> {2}) @@ (<<b2, r1>> :> {2, 5})

People   == <<a1, a2>>
MeantFor == {{}, {a2}}

\* A configuration that asks for everything, and one that is quiet about status.
Shape == [team |-> None, active |-> TRUE, types |-> {"SOS"}, priority |-> 1,
          notifyStatus |-> TRUE, notifyEscalation |-> TRUE,
          primary |-> <<guard, desk>>, escalation |-> <<desk>>]
TwoShapes == {Shape, [Shape EXCEPT !.notifyStatus = FALSE, !.priority = 2]}
RaisedBy  == [a \in {a1, a2} |-> emp]
Types     == (a1 :> "SOS") @@ (a2 :> "MEDICAL")
Channels  == (guard :> "EMAIL") @@ (desk :> "PUSH")
=============================================================================
