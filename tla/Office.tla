------------------------------- MODULE Office --------------------------------
(***************************************************************************)
(* What the office keeps: the booking desk, the records and their cache.   *)
(* None of them reads what another one writes, so each is considered by    *)
(* itself: the initial state chooses one, and the others do not move.      *)
(***************************************************************************)
EXTENDS BookingDesk

CONSTANTS
    None,
    Ttl, MaxVersion, MaxCall, MaxFaults,                 \* the cache
    Fleets,                                              \* the vendors' fleets
    Slabs, RateOf, MaxKm, MaxEdits, Open,                \* the slab tables
    Tenants, Permissions, Policies, Roles, System, Admin,
    People, Files,                                       \* the roll of the employees
    Walkers, Points, Placed, Order,                      \* the nodal points
    MaxCalls,                                            \* bound: requests under way
    Routes, Drivers, Plan, Estimated,                    \* the duties
    Day, Ist, MaxDuty, Enforce, Grace, DriverGrace, EmployeeGrace, MaxNow

VARIABLES
    focus,       \* which one moves
    entity, row, stored, since, cache, readers, raced, unannounced, cacheFaults,
    fleet, contract, vehicle, requests, fleetRaced, reactivated,
    slabs, edits, overlapped,
    permissions, package, tenants, policy, role, reduced,
    staff, inactive, insert, upload, mailed,
    point, assigned, walks, walksOverlapped, chosen,
    now, zone, driver, start, finish, reached, tag

Cache == INSTANCE MasterCache WITH Threads <- Calls, calls <- readers, faults <- cacheFaults
cacheVars == <<entity, row, stored, since, cache, readers, raced, unannounced, cacheFaults>>

\* The vehicles of a vendor, with the contracts, types and drivers there are.
Fleet(f) == INSTANCE FleetRegistry WITH
                Vehicles <- f.vehicles, Contracts <- f.contracts,
                Types <- f.types, Drivers <- f.drivers,
                calls <- requests, raced <- fleetRaced
fleetVars == <<fleet, contract, vehicle, requests, fleetRaced, reactivated>>

Table == INSTANCE SlabTable
slabVars == <<slabs, edits, overlapped>>

Access == INSTANCE RoleRegistry
accessVars == <<permissions, package, tenants, policy, role, reduced>>

Staff == INSTANCE StaffRoll WITH Clerks <- Calls
staffVars == <<staff, inactive, insert, upload, mailed>>

Nodal == INSTANCE NodalDesk WITH
            Employees <- Walkers, row <- assigned, calls <- walks,
            overlapped <- walksOverlapped
nodalVars == <<point, assigned, walks, walksOverlapped, chosen>>

Clock == INSTANCE DutyClock
clockVars == <<now, zone, driver, start, finish, reached, tag>>

\* None is told from every row there may be, and the bounds are numbers.
ASSUME CacheAssumption ==
    /\ None \notin Cache!Call \union Cache!Entry
    /\ Ttl \in Nat \ {0} /\ MaxVersion \in Nat \ {0, 1} /\ MaxCall \in Nat /\ MaxFaults \in Nat
ASSUME AccessAssumption == None \notin Access!PolicyRow
ASSUME FleetAssumption ==
    \A f \in Fleets : /\ None \notin Fleet(f)!ContractRow \union Fleet(f)!VehicleRow
                      /\ f.contracts \intersect {None, "keep"} = {}
ASSUME StaffAssumption ==
    None \notin People /\ Files \subseteq Seq([who : People, fits : BOOLEAN])
ASSUME SlabAssumption ==
    /\ MaxKm \in Nat /\ Open \notin 0..MaxKm /\ None \notin Table!Rows
    /\ RateOf \in [Slabs -> Int]
ASSUME ClockAssumption ==
    /\ Day \in Nat \ {0} /\ Ist \in Nat /\ MaxNow \in Nat
    /\ {MaxDuty, Grace, DriverGrace, EmployeeGrace} \subseteq Int
    /\ Plan \in [Routes -> Seq(Int)] /\ Estimated \in [Routes -> Int]
ASSUME NodalAssumption ==
    /\ None \notin Nodal!Row \union Walkers
    /\ MaxCalls \in Nat
    /\ Order \in [Walkers -> [Points -> Nat]]

-----------------------------------------------------------------------------
Parts == {"desk", "cache", "fleet", "slabs", "access", "staff", "nodal", "clock"}

\* Whoever does not move starts in one state.
OfficeInit ==
    /\ focus \in Parts
    /\ Init /\ Table!Init /\ Staff!Init /\ Nodal!Init
    /\ fleet \in Fleets /\ (\A f \in Fleets : fleet = f => Fleet(f)!Init)
    /\ focus # "fleet" => fleet = CHOOSE f \in Fleets : TRUE
    /\ Cache!Init    /\ (focus # "cache"  => entity = "tenant" /\ row = Cache!Default)
    /\ Access!Init   /\ (focus # "access" => tenants = {})
    /\ Clock!Init    /\ (focus # "clock"  => zone = 0)

\* Whatever moves, the others stay as they are.
Others(part) ==
    /\ UNCHANGED focus
    /\ IF part = "desk"   THEN TRUE ELSE UNCHANGED vars
    /\ IF part = "cache"  THEN TRUE ELSE UNCHANGED cacheVars
    /\ IF part = "fleet"  THEN UNCHANGED fleet ELSE UNCHANGED fleetVars
    /\ IF part = "slabs"  THEN TRUE ELSE UNCHANGED slabVars
    /\ IF part = "access" THEN TRUE ELSE UNCHANGED accessVars
    /\ IF part = "staff"  THEN TRUE ELSE UNCHANGED staffVars
    /\ IF part = "nodal"  THEN TRUE ELSE UNCHANGED nodalVars
    /\ IF part = "clock"  THEN TRUE ELSE UNCHANGED clockVars

OfficeNext ==
    \/ focus = "desk"   /\ Next /\ Others("desk")
    \/ focus = "cache"  /\ Cache!Next /\ Others("cache")
    \/ focus = "fleet"  /\ (\E f \in Fleets : fleet = f /\ Fleet(f)!Next) /\ Others("fleet")
    \/ focus = "slabs"  /\ Table!Next /\ Others("slabs")
    \/ focus = "access" /\ Access!Next /\ Others("access")
    \/ focus = "staff"  /\ Staff!Next /\ Others("staff")
    \/ focus = "nodal"  /\ Nodal!Next /\ Others("nodal")
    \/ focus = "clock"  /\ Clock!Next /\ Others("clock")

allVars == <<focus, vars, cacheVars, fleetVars, slabVars, accessVars, staffVars, nodalVars,
             clockVars>>
OfficeSpec == OfficeInit /\ [][OfficeNext]_allVars

-----------------------------------------------------------------------------
\* The properties of each part, as they are stated in its module; an invariant
\* comes with the type invariant of its part.
CacheFresh ==
    focus = "cache" =>
        Cache!TypeOK /\ Cache!BoundedStaleness /\ Cache!SequentialReadsCurrent
FleetConsistent ==
    focus = "fleet" =>
        \A f \in Fleets : fleet = f =>
            Fleet(f)!TypeOK /\ Fleet(f)!ContractFits /\ Fleet(f)!DriverOnce
CostsAgree       == focus = "slabs" => Table!TypeOK /\ Table!QuoteExact /\ Table!TableAnswers
GrantsHold       == focus = "access" => Access!TypeOK /\ Access!GrantsHold /\ Access!RolesApart
ChoiceStands     == focus = "nodal" => Nodal!TypeOK /\ Nodal!ChoiceStands

NobodyLeftOut    == Staff!NobodyLeftOut

\* A rest does not depend on the stops: it is computed where none was reached.
NoStopReached == reached = [r \in Routes |-> Clock!Unreached(r)]
DutyMeasured ==
    /\ [](focus = "clock" => Clock!TypeOK /\ (NoStopReached => Clock!RestExact))
    /\ [][Clock!DelayTagged]_clockVars

\* Violated: see RestJudged in DutyClock.
RestJudged == focus = "clock" => Clock!RestJudged
=============================================================================
