---------------------------- MODULE MasterCache -----------------------------
(***************************************************************************)
(* What a key in Redis holds and where it comes from: the row of a tenant, *)
(* a shift, a cutoff, a week-off, a team, a driver or a configuration, the *)
(* list of a tenant's teams or a vendor's drivers, what an employee may do.*)
(* Handlers run in worker threads and take the database and Redis one step *)
(* at a time: a reader that misses fills the key, and a writer commits,    *)
(* reads its row again, drops the key and fills it.  Some are coroutines   *)
(* without an await, which the event loop runs in one step.  Redis errors  *)
(* are swallowed.  Versions of the source are numbered.                    *)
(***************************************************************************)
EXTENDS Naturals, Sequences

CONSTANTS
    Threads,
    Ttl,             \* the 3600 s of a key
    MaxVersion,      \* bound: versions of the row
    MaxCall,         \* bound: ticks that a call may last
    MaxFaults,       \* bound: Redis errors
    None

Entities == {"tenant", "shift", "cutoff", "weekoff", "team", "teams_list", "tenant_config",
             "driver", "drivers_list", "permissions"}
\* Lists, and what an employee may do, are always there.
Derived  == {"teams_list", "drivers_list", "permissions"}
Absent   == 0        \* there is no row
Default  == 1        \* the row as it is created
Versions == Absent..MaxVersion

VARIABLES
    entity,      \* what the key is about
    row,         \* its version
    stored,      \* whether the row was ever committed
    since,       \* time since each version was replaced
    cache,       \* the key: a version and the time it has left
    calls,       \* what each thread has left to do, None: idle
    raced,       \* two calls were under way at a time
    unannounced, \* the row was changed and its key left alone
    faults

vars == <<entity, row, stored, since, cache, calls, raced, unannounced, faults>>

Plans  == {<<"row", "keep">>, <<"keep">>, <<"row", "drop", "keep">>, <<"drop", "keep">>,
           <<"drop">>, <<"ensure">>, <<"keep", "commit">>, <<"commit">>,
           <<"keep", "rollback">>, <<"rollback">>}
Call   == [todo : Plans, val : Versions, age : 0..MaxCall, creates : BOOLEAN]
Entry  == [val : Versions \ {Absent}, left : 1..Ttl]
Longest == Ttl + MaxCall + 1          \* more makes no difference

\* The row, the key and the calls hold what they may.
TypeOK ==
    /\ entity \in Entities
    /\ row \in Versions
    /\ stored \in BOOLEAN
    /\ since \in [Versions -> 0..Longest]
    /\ cache \in Entry \union {None}
    /\ calls \in [Threads -> Call \union {None}]
    /\ raced \in BOOLEAN /\ unannounced \in BOOLEAN
    /\ faults \in 0..MaxFaults

Init ==
    /\ entity \in Entities
    /\ row \in IF entity \in Derived THEN {Default} ELSE {Absent, Default}
    /\ stored = (row # Absent)
    /\ since = [v \in Versions |-> 0]
    /\ cache = None
    /\ calls = [t \in Threads |-> None]
    /\ raced = FALSE
    /\ unannounced = FALSE
    /\ faults = 0

-----------------------------------------------------------------------------
\* A request is taken up by a thread that is free.
Busy(t) == \E u \in Threads \ {t} : calls[u] # None
Begin(t, todo, creates) ==
    /\ calls[t] = None
    /\ calls' = IF todo = <<>> THEN calls
                ELSE [calls EXCEPT ![t] = [todo |-> todo, val |-> Absent, age |-> 0,
                                           creates |-> creates]]
    /\ raced' = (raced \/ Busy(t))

\* Mutant: a hit renews the key.
LookUpRenewing(t, e, creates) ==
    /\ entity = e
    /\ IF cache # None
       THEN /\ cache' = [cache EXCEPT !.left = Ttl]
            /\ UNCHANGED <<calls, raced, faults>>
       ELSE Begin(t, <<"row", "keep">>, creates) /\ UNCHANGED <<cache, faults>>
    /\ UNCHANGED <<entity, row, stored, since, unannounced>>

\* A lookup that misses, or meets an error of Redis; a hit changes nothing.
LookUp(t, e, creates) ==
    /\ entity = e
    /\ \/ cache = None /\ UNCHANGED faults
       \/ faults < MaxFaults /\ faults' = faults + 1
    /\ Begin(t, <<"row", "keep">>, creates)
    /\ UNCHANGED <<entity, row, stored, since, cache, unannounced>>

\* A default row that is inserted and not committed keeps others from inserting.
Inserted(t) == calls[t] # None /\ \E end \in {"commit", "rollback"} :
                   calls[t].todo \in {<<"keep", end>>, <<end>>}
MayInsert   == \A t \in Threads : ~Inserted(t)

\* The commit of a new version of the row, and what the handler does after it.
Commit(t, e, v, after) ==
    /\ entity = e
    /\ row = Absent => MayInsert
    /\ row' = v /\ stored' = TRUE
    /\ Begin(t, after, FALSE)
    /\ UNCHANGED <<entity, since, cache, unannounced, faults>>

Create(t, e, after) == row = Absent /\ Commit(t, e, Default, after)
Change(t, e, after) == row \in Default..(MaxVersion - 1) /\ Commit(t, e, row + 1, after)

\* An update that makes the default row first, in the same transaction.
Ensure(t, e, after) ==
    row < MaxVersion /\ Commit(t, e, IF row = Absent THEN Default + 1 ELSE row + 1, after)

\* A commit that leaves the key alone.
Quietly(e) ==
    /\ entity = e
    /\ row \in Default..(MaxVersion - 1) /\ row' = row + 1
    /\ unannounced' = TRUE
    /\ UNCHANGED <<entity, stored, since, cache, calls, raced, faults>>

\* What the event loop does in one step: a lookup, or a commit and a drop.
Swallowed == faults < MaxFaults /\ faults' = faults + 1
AtOnce(e) ==
    /\ entity = e
    /\ raced' = (raced \/ \E t \in Threads : calls[t] # None)
    /\ UNCHANGED <<entity, stored, since, calls>>

LookUpAtOnce(e) ==
    /\ AtOnce(e) /\ row # Absent
    /\ \/ cache = None /\ cache' = [val |-> row, left |-> Ttl] /\ UNCHANGED faults
       \/ Swallowed /\ cache' \in {cache, [val |-> row, left |-> Ttl]}
    /\ UNCHANGED <<row, unannounced>>

DropAtOnce ==
    \/ cache' = None /\ UNCHANGED faults
    \/ UNCHANGED cache /\ Swallowed

ChangeAtOnce(e) ==
    /\ AtOnce(e)
    /\ row \in Default..(MaxVersion - 1) /\ row' = row + 1
    /\ DropAtOnce
    /\ UNCHANGED unannounced

Fill    == <<"row", "keep">>
Refresh == <<"row", "drop", "keep">>
Drop    == <<"drop">>
Nothing == <<>>

-----------------------------------------------------------------------------
\* --- the lookups -------------------------------------------------------------

GetTenantWithCache(t)  == LookUp(t, "tenant", FALSE)
GetShiftWithCache(t)   == LookUp(t, "shift", FALSE)
GetCutoffWithCache(t)  == LookUp(t, "cutoff", FALSE)
GetWeekoffWithCache(t) == LookUp(t, "weekoff", FALSE)
GetTeamWithCache(t)    == LookUp(t, "team", FALSE)
GetTenantConfigWithCache(t) == LookUp(t, "tenant_config", FALSE)
ReadTeams(t)           == LookUp(t, "teams_list", FALSE)

\* These two make the default where there is no row.
GetCutoffs(t)      == LookUp(t, "cutoff", TRUE)
GetTenantConfig(t) == LookUp(t, "tenant_config", TRUE)

\* The lists of week-offs commit a default for everyone, past the cache.
GetWeekoffsByTeam(t)   == Create(t, "weekoff", Nothing)
GetWeekoffsByTenant(t) == Create(t, "weekoff", Nothing)

\* --- the writers -------------------------------------------------------------

\* A tenant comes with a cutoff, of which only the tenant is cached.
CreateTenant(t) == Create(t, "tenant", Fill) \/ Create(t, "cutoff", Nothing)
UpdateTenant(t) == Change(t, "tenant", Refresh)

ToggleTenantStatus == Quietly("tenant")

CreateShift(t)       == Create(t, "shift", Fill)
UpdateShift(t)       == Change(t, "shift", Refresh)
ToggleShiftStatus(t) == Change(t, "shift", Refresh)
UpdateCutoff(t)      == Ensure(t, "cutoff", Refresh)

UpdateWeekoffByEmployee(t) == Ensure(t, "weekoff", Refresh)

\* Mutant: the keys of the team's employees are left alone.
UpdateWeekoffQuietly(t) == Ensure(t, "weekoff", Nothing)

UpdateWeekoffByTeam(t)   == Ensure(t, "weekoff", Drop)
UpdateWeekoffByTenant(t) == Ensure(t, "weekoff", Drop)

\* The key of the team, and the list that it is on.
CreateTeam(t)       == Create(t, "team", Fill) \/ Change(t, "teams_list", Drop)
UpdateTeam(t)       == Change(t, "team", Refresh) \/ Change(t, "teams_list", Drop)
ToggleTeamStatus(t) == Change(t, "team", Refresh) \/ Change(t, "teams_list", Drop)

UpdateTenantConfig(t) == Ensure(t, "tenant_config", Refresh)

\* --- drivers -----------------------------------------------------------------

GetDriver(t) == LookUp(t, "driver", FALSE)

\* A list that is not in Redis is read from the database, and so is every driver
\* on it, whether its key is there or not.
GetDrivers(t) ==
    \/ LookUp(t, "drivers_list", FALSE)
    \/ /\ entity = "driver" /\ Begin(t, Fill, FALSE)
       /\ UNCHANGED <<entity, row, stored, since, cache, unannounced, faults>>

\* The device's attempt is committed to the row after the lookup.
VerifyDriverDevice ==
    \/ LookUpAtOnce("drivers_list")
    \/ /\ AtOnce("driver")
       /\ row \in Default..(MaxVersion - 1) /\ row' = row + 1
       /\ cache' \in {[val |-> row, left |-> Ttl]} \union (IF cache = None THEN {} ELSE {cache})
       /\ unannounced' = TRUE /\ UNCHANGED faults
DriverSelectTenant == LookUpAtOnce("driver") \/ LookUpAtOnce("drivers_list")

CreateDriver == ChangeAtOnce("drivers_list")
UpdateDriver == ChangeAtOnce("driver") \/ ChangeAtOnce("drivers_list")
ToggleDriverActive(t) == Change(t, "driver", Drop) \/ Change(t, "drivers_list", Drop)

\* --- what an employee may do ---------------------------------------------------

GetUserProfile == LookUpAtOnce("permissions")

\* Keys are dropped for the employees of a tenant's role; those of a system role
\* wait for the end of their time, as do all of them when a policy, a permission
\* or the tenant's package changes.
UpdateRole == ChangeAtOnce("permissions") \/ Quietly("permissions")

\* Employees keep a role from being deleted; their keys are dropped before.
DeleteRole == AtOnce("permissions") /\ DropAtOnce /\ UNCHANGED <<row, unannounced>>

UpdatePolicy     == Quietly("permissions")
DeletePolicy     == Quietly("permissions")
UpdatePermission == Quietly("permissions")
DeletePermission == Quietly("permissions")
UpdatePackagePermissions == Quietly("permissions")

UpdateEmployee(t)    == Change(t, "permissions", Drop)
ToggleEmployeeStatus == Quietly("permissions")

-----------------------------------------------------------------------------
\* --- the steps of a call -----------------------------------------------------

At(t, step) == calls[t] # None /\ Head(calls[t].todo) = step
Left(c, v) == IF Tail(c.todo) = <<>> THEN None ELSE [c EXCEPT !.todo = Tail(@), !.val = v]
Proceed(t, v) == calls' = [calls EXCEPT ![t] = Left(calls[t], v)]

\* Without a row the call is over, unless it makes the default.
ReadRow(t) ==
    /\ At(t, "row")
    /\ IF row # Absent THEN Proceed(t, row)
       ELSE calls' = [calls EXCEPT ![t] = IF @.creates THEN [@ EXCEPT !.todo = <<"ensure">>]
                                         ELSE None]
    /\ UNCHANGED <<entity, row, stored, since, cache, raced, unannounced, faults>>

\* ensure_cutoff, ensure_config: the row is looked for once more, or inserted.
\* It is cached next, and committed last (get_cutoffs) or not (get_tenant_config).
EnsureRow(t) ==
    /\ At(t, "ensure")
    /\ row = Absent => MayInsert
    /\ calls' = [calls EXCEPT
           ![t].val = IF row = Absent THEN Default ELSE row,
           ![t].todo = IF row # Absent THEN <<"keep">>
                       ELSE <<"keep", IF entity = "cutoff" THEN "commit" ELSE "rollback">>]
    /\ UNCHANGED <<entity, row, stored, since, cache, raced, unannounced, faults>>

DropKey(t) ==
    /\ At(t, "drop")
    /\ Proceed(t, calls[t].val)
    /\ \/ cache' = None /\ UNCHANGED faults
       \/ UNCHANGED cache /\ Swallowed
    /\ UNCHANGED <<entity, row, stored, since, raced, unannounced>>

KeepKey(t) ==
    /\ At(t, "keep")
    /\ Proceed(t, calls[t].val)
    /\ \/ cache' = [val |-> calls[t].val, left |-> Ttl] /\ UNCHANGED faults
       \/ UNCHANGED cache /\ Swallowed
    /\ UNCHANGED <<entity, row, stored, since, raced, unannounced>>

\* The end of the transaction: get_db closes the session.
CommitDefault(t) ==
    /\ At(t, "commit")
    /\ Proceed(t, Default)
    /\ row' = Default /\ stored' = TRUE
    /\ UNCHANGED <<entity, since, cache, raced, unannounced, faults>>

RollBack(t) ==
    /\ At(t, "rollback")
    /\ Proceed(t, Default)
    /\ UNCHANGED <<entity, row, stored, since, cache, raced, unannounced, faults>>

Tick ==
    /\ \A t \in Threads : calls[t] # None => calls[t].age < MaxCall
    /\ calls' = [t \in Threads |-> IF calls[t] = None THEN None
                                   ELSE [calls[t] EXCEPT !.age = @ + 1]]
    /\ cache' = IF cache = None \/ cache.left = 1 THEN None ELSE [cache EXCEPT !.left = @ - 1]
    /\ since' = [v \in Versions |-> IF v < row /\ since[v] < Longest THEN since[v] + 1
                                    ELSE since[v]]
    /\ UNCHANGED <<entity, row, stored, raced, unannounced, faults>>

Reader(t) ==
    \/ GetTenantWithCache(t) \/ GetShiftWithCache(t) \/ GetCutoffWithCache(t)
    \/ GetWeekoffWithCache(t) \/ GetTeamWithCache(t) \/ GetTenantConfigWithCache(t)
    \/ ReadTeams(t) \/ GetCutoffs(t) \/ GetTenantConfig(t)
    \/ GetDriver(t) \/ GetDrivers(t)

Writer(t) ==
    \/ CreateTenant(t) \/ UpdateTenant(t)
    \/ CreateShift(t) \/ UpdateShift(t) \/ ToggleShiftStatus(t)
    \/ UpdateCutoff(t) \/ UpdateTenantConfig(t)
    \/ GetWeekoffsByTeam(t) \/ GetWeekoffsByTenant(t)
    \/ UpdateWeekoffByEmployee(t) \/ UpdateWeekoffByTeam(t) \/ UpdateWeekoffByTenant(t)
    \/ CreateTeam(t) \/ UpdateTeam(t) \/ ToggleTeamStatus(t)
    \/ ToggleDriverActive(t) \/ UpdateEmployee(t)

\* What is done in one step.
Short ==
    \/ ToggleTenantStatus \/ ToggleEmployeeStatus
    \/ VerifyDriverDevice \/ DriverSelectTenant \/ GetUserProfile
    \/ CreateDriver \/ UpdateDriver
    \/ UpdateRole \/ DeleteRole \/ UpdatePolicy \/ DeletePolicy
    \/ UpdatePermission \/ DeletePermission \/ UpdatePackagePermissions

Next ==
    \/ \E t \in Threads :
           \/ Reader(t) \/ Writer(t)
           \/ ReadRow(t) \/ EnsureRow(t) \/ DropKey(t) \/ KeepKey(t)
           \/ CommitDefault(t) \/ RollBack(t)
    \/ Short
    \/ Tick

Spec == Init /\ [][Next]_vars

-----------------------------------------------------------------------------
\* Whoever reads through the cache is at most so far behind: what the key holds
\* was replaced no longer ago than a lifetime of the key and a call, whatever
\* writers and late readers fill it over each other, and whatever Redis loses.
BoundedStaleness == cache # None => since[cache.val] < Ttl + MaxCall

\* Without overlaps and errors there is nothing to wait for: every writer that
\* knows the key leaves no old version behind.
Quiet == \A t \in Threads : calls[t] = None
SequentialReadsCurrent ==
    ~raced /\ ~unannounced /\ faults = 0 /\ Quiet /\ stored /\ cache # None => cache.val = row
=============================================================================
