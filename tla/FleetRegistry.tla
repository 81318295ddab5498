--------------------------- MODULE FleetRegistry ----------------------------
(***************************************************************************)
(* The vehicles of a vendor, the contracts they are paid by and the drivers*)
(* they belong to.  Requests about contracts run in worker threads and     *)
(* check before they commit.  Requests about vehicles run on the event     *)
(* loop, one at a time, but an update that brings files waits for them     *)
(* between its checks and its commit.                                      *)
(***************************************************************************)
EXTENDS Naturals, FiniteSets

CONSTANTS Vehicles, Contracts, Types, Drivers,
          MaxCalls,        \* bound: requests under way
          None

VARIABLES
    contract,    \* the rows: a type of vehicle, active or not
    vehicle,     \* the rows: type, contract, driver, active or not
    calls,       \* the requests that have read and not committed
    raced,       \* two requests were under way at a time
    reactivated  \* a vehicle was made active again

vars == <<contract, vehicle, calls, raced, reactivated>>

ContractRow == [type : Types, active : BOOLEAN]
VehicleRow  == [type : Types, contract : Contracts \union {None},
                driver : Drivers \union {None}, active : BOOLEAN]
Call == [kind : {"createVehicle", "updateVehicle"}, id : Vehicles,
         old : VehicleRow \union {None}, new : VehicleRow]
        \union [kind : {"updateContract"}, id : Contracts, type : Types]
        \union [kind : {"deleteContract"}, id : Contracts, unassign : BOOLEAN, end : BOOLEAN]

Own(rows)  == {i \in DOMAIN rows : rows[i] # None}
Assigned(c) == {v \in Own(vehicle) : vehicle[v].contract = c}

\* The rows and the requests hold what they may, and a type of vehicle has one
\* contract: a unique index sees to that.
TypeOK ==
    /\ contract \in [Contracts -> ContractRow \union {None}]
    /\ \A c, d \in Own(contract) : contract[c].type = contract[d].type => c = d
    /\ vehicle \in [Vehicles -> VehicleRow \union {None}]
    /\ calls \subseteq Call
    /\ raced \in BOOLEAN /\ reactivated \in BOOLEAN

Init ==
    /\ contract = [c \in Contracts |-> None]
    /\ vehicle = [v \in Vehicles |-> None]
    /\ calls = {}
    /\ raced = FALSE
    /\ reactivated = FALSE

-----------------------------------------------------------------------------
\* A request that has read and goes on.
Begin(c) ==
    /\ Cardinality(calls) < MaxCalls
    /\ c \notin calls
    /\ calls' = calls \union {c}
    /\ raced' = (raced \/ calls # {})
    /\ UNCHANGED <<contract, vehicle, reactivated>>
End(c) == calls' = calls \ {c} /\ UNCHANGED raced
\* A request that commits what it has just read.
AtOnce == UNCHANGED calls /\ raced' = (raced \/ calls # {})

TypeTaken(t, c) == \E d \in Own(contract) \ {c} : contract[d].type = t

CreateContract(c, t, active) ==
    /\ contract[c] = None /\ ~TypeTaken(t, c)
    /\ contract' = [contract EXCEPT ![c] = [type |-> t, active |-> active]]
    /\ AtOnce
    /\ UNCHANGED <<vehicle, reactivated>>

\* Mutant: the vehicles are not looked at.
UpdateContractAssigned(c, t) ==
    /\ contract[c] # None /\ t # contract[c].type /\ ~TypeTaken(t, c)
    /\ Begin([kind |-> "updateContract", id |-> c, type |-> t])

\* The type stays as long as vehicles are assigned.
UpdateContractRead(c, t) ==
    /\ contract[c] # None /\ t # contract[c].type /\ ~TypeTaken(t, c)
    /\ Assigned(c) = {}
    /\ Begin([kind |-> "updateContract", id |-> c, type |-> t])

UpdateContractCommit(c) ==
    /\ c.kind = "updateContract"
    /\ contract' = IF TypeTaken(c.type, c.id) THEN contract
                   ELSE [contract EXCEPT ![c.id].type = c.type]
    /\ End(c)
    /\ UNCHANGED <<vehicle, reactivated>>

ToggleContractStatus(c) ==
    /\ contract[c] # None
    /\ contract' = [contract EXCEPT ![c].active = ~@]
    /\ AtOnce
    /\ UNCHANGED <<vehicle, reactivated>>

DeleteContractRead(c, force) ==
    /\ contract[c] # None
    /\ Assigned(c) = {} \/ force
    /\ Begin([kind |-> "deleteContract", id |-> c, unassign |-> Assigned(c) # {},
              end |-> contract[c].active])

\* By force the vehicles lose their contract, those of now.
DeleteContractCommit(c) ==
    /\ c.kind = "deleteContract"
    /\ vehicle' = [v \in Vehicles |-> IF c.unassign /\ v \in Assigned(c.id)
                                      THEN [vehicle[v] EXCEPT !.contract = None]
                                      ELSE vehicle[v]]
    /\ contract' = [contract EXCEPT ![c.id].active = @ /\ ~c.end]
    /\ End(c)
    /\ UNCHANGED reactivated

-----------------------------------------------------------------------------
\* _validate_contract_for_vehicle
FitFor(c, t) == contract[c] # None /\ contract[c].active /\ contract[c].type = t

\* No other active vehicle has the driver.
FreeFor(d, v) ==
    \A u \in Own(vehicle) \ {v} : vehicle[u].driver = d => ~vehicle[u].active

\* A creation keeps the event loop until it has committed.
LoopIdle == \A c \in calls : c.kind # "createVehicle"

CreateVehicleRead(v, t, c, d) ==
    /\ vehicle[v] = None /\ LoopIdle
    /\ d # None => FreeFor(d, v)
    /\ FitFor(c, t)
    /\ Begin([kind |-> "createVehicle", id |-> v, old |-> None,
              new |-> [type |-> t, contract |-> c, driver |-> d, active |-> TRUE]])

CreateVehicleCommit(c) ==
    /\ c.kind = "createVehicle"
    /\ vehicle' = [vehicle EXCEPT ![c.id] = c.new]
    /\ End(c)
    /\ UNCHANGED <<contract, reactivated>>

\* A contract that is sent fits the type to come; a type that is sent fits the
\* contract that stays, if it is not cleared.
ContractToCome(v, t, sent) ==
    /\ sent \in Contracts => FitFor(sent, t)
    /\ sent = "keep" /\ t # vehicle[v].type /\ vehicle[v].contract # None =>
           contract[vehicle[v].contract].type = t

Updated(row, t, sent, d) ==
    [row EXCEPT !.type = t,
                !.contract = IF sent = "keep" THEN @ ELSE sent,
                !.driver = IF d = None THEN @ ELSE d]

UpdateVehicleRead(v, t, sent, d) ==
    /\ vehicle[v] # None /\ LoopIdle
    /\ ContractToCome(v, t, sent)
    /\ d # None => FreeFor(d, v)
    /\ Begin([kind |-> "updateVehicle", id |-> v, old |-> vehicle[v],
              new |-> Updated(vehicle[v], t, sent, d)])

\* The columns that differ from what was read are written.
UpdateVehicleCommit(c) ==
    /\ c.kind = "updateVehicle" /\ LoopIdle
    /\ vehicle' = [vehicle EXCEPT
           ![c.id].type = IF c.new.type = c.old.type THEN @ ELSE c.new.type,
           ![c.id].contract = IF c.new.contract = c.old.contract THEN @ ELSE c.new.contract,
           ![c.id].driver = IF c.new.driver = c.old.driver THEN @ ELSE c.new.driver]
    /\ End(c)
    /\ UNCHANGED <<contract, reactivated>>

\* The driver is not looked at: another vehicle may have him by now.
UpdateVehicleStatus(v, active) ==
    /\ vehicle[v] # None
    /\ vehicle' = [vehicle EXCEPT ![v].active = active]
    /\ reactivated' = (reactivated \/ (active /\ ~vehicle[v].active))
    /\ AtOnce
    /\ UNCHANGED contract

ContractRequest ==
    \E c \in Contracts, t \in Types :
        \/ \E active \in BOOLEAN : CreateContract(c, t, active)
        \/ UpdateContractRead(c, t)
        \/ ToggleContractStatus(c)
        \/ \E force \in BOOLEAN : DeleteContractRead(c, force)

VehicleRequest ==
    \E v \in Vehicles :
        \/ \E t \in Types, d \in Drivers \union {None} :
               \/ \E c \in Contracts : CreateVehicleRead(v, t, c, d)
               \/ \E sent \in Contracts \union {"keep", None} : UpdateVehicleRead(v, t, sent, d)
        \/ \E active \in BOOLEAN : UpdateVehicleStatus(v, active)

Commit ==
    \E c \in calls :
        \/ UpdateContractCommit(c) \/ DeleteContractCommit(c)
        \/ CreateVehicleCommit(c) \/ UpdateVehicleCommit(c)

Next == ContractRequest \/ VehicleRequest \/ Commit
Spec == Init /\ [][Next]_vars

-----------------------------------------------------------------------------
\* One request at a time: a vehicle is paid by a contract for its type, through
\* changes of the type, of the contract and of the contract's type.
ContractFits ==
    ~raced => \A v \in Own(vehicle) :
                  vehicle[v].contract # None =>
                      contract[vehicle[v].contract].type = vehicle[v].type

\* One request at a time, and no vehicle made active again: no driver has two
\* active vehicles.
DriverOnce ==
    ~raced /\ ~reactivated =>
        \A v, u \in Own(vehicle) :
            /\ vehicle[v].active /\ vehicle[u].active
            /\ vehicle[v].driver # None /\ vehicle[v].driver = vehicle[u].driver
            => v = u
=============================================================================
