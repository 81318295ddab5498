------------------------------ MODULE TripWatch ------------------------------
(***************************************************************************)
(* What watches over duties: the tasks of the driver's requests and the    *)
(* job that misses pings.  Neither reads what the other one writes, so     *)
(* each is considered by itself: the initial state chooses one, and the    *)
(* other does not move.                                                    *)
(***************************************************************************)
EXTENDS Naturals, FiniteSets

CONSTANTS
    None,
    Routes, MaxFaults,
    Stops, Plans, HasPlace, MaxRequests, MaxRegroups, \* the driver on the map
    Threshold, Cooldown, MaxRun               \* the job

VARIABLES
    watch,       \* which of the two moves
    StopsOf, edition, duty, rider, notified, node, tasks, told, peak, liveFaults,
    driving, admins, silent, stamp, gap, staleJob, staleTrigger, staleFaults

Live == INSTANCE LiveLocation WITH faults <- liveFaults
Stale == INSTANCE StaleDriverJob WITH
            duty <- driving, job <- staleJob, trigger <- staleTrigger, faults <- staleFaults

liveVars  == <<StopsOf, edition, duty, rider, notified, node, tasks, told, peak, liveFaults>>
staleVars == <<driving, admins, silent, stamp, gap, staleJob, staleTrigger, staleFaults>>
vars == <<watch, liveVars, staleVars>>

\* A plan gives some routes their stops; None is told from what is there.
ASSUME LiveAssumption ==
    /\ \A p \in Plans :
           /\ DOMAIN p.stops \subseteq Routes /\ p.stops \in [DOMAIN p.stops -> Live!Links]
           /\ p.edition \in 0..MaxRegroups /\ p.faults \in 0..MaxFaults
    /\ None \notin Live!Task \union Live!Node \union Live!Rows \union Stops
    /\ HasPlace \subseteq Stops /\ IsFiniteSet(Stops)
    /\ MaxRequests \in Nat /\ MaxRegroups \in Nat /\ MaxFaults \in Nat
ASSUME StaleAssumption ==
    /\ Threshold \in Nat /\ Cooldown \in Nat /\ MaxRun \in Nat
    /\ None \notin [left : SUBSET Routes, age : 0..MaxRun]

Init ==
    /\ watch \in {"live", "stale"}
    /\ Live!Init /\ (watch # "live" => liveFaults = 0)
    /\ Stale!Init /\ (watch # "stale" => admins)

Next ==
    \/ watch = "live" /\ Live!Next /\ UNCHANGED <<watch, staleVars>>
    \/ watch = "stale" /\ Stale!Next /\ UNCHANGED <<watch, liveVars>>

Spec == /\ Init /\ [][Next]_vars
        /\ Live!Fairness
        /\ WF_staleVars(watch = "stale" /\ Stale!Tick)
        /\ WF_staleVars(watch = "stale" /\ Stale!Run)

-----------------------------------------------------------------------------
\* The properties of LiveLocation, as they are stated there; the first one comes
\* with the types of both parts.
ArrivalsBounded == Live!TypeOK /\ Stale!TypeOK /\ Live!ArrivalsBounded
OffTheMap       == Live!OffTheMap
OnTheMap        == Live!OnTheMap
EveryoneNoticed == Live!EveryoneNoticed

\* The properties of StaleDriverJob.
AlertsSpaced    == Stale!AlertsSpaced
SilentNoticed   == Stale!SilentNoticed
=============================================================================
