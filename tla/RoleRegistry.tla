---------------------------- MODULE RoleRegistry ----------------------------
(***************************************************************************)
(* Who may do what: permissions are put in policies, policies in roles, and*)
(* a tenant's package bounds what its policies may hold.  Roles and        *)
(* policies belong to a tenant or to the system.  Every request is one step*)
(* of the event loop (a tenant is made in a transaction of its own).       *)
(***************************************************************************)
EXTENDS FiniteSets

CONSTANTS Tenants, Permissions, Policies, Roles,
          System, Admin, None

VARIABLES
    permissions, \* the rows that exist
    package,     \* of each tenant: a set of permissions, None: it has none
    tenants,     \* the rows that exist
    policy,      \* the rows: whose, and the permissions
    role,        \* the rows: whose, active or not, and the policies
    reduced      \* the tenants whose package has lost a permission

vars == <<permissions, package, tenants, policy, role, reduced>>

Owners    == Tenants \union {System}
PolicyRow == [owner : Owners, holds : SUBSET Permissions]
RoleRow   == [owner : Owners, active : BOOLEAN, policies : SUBSET Policies]
Stored(rows) == {i \in DOMAIN rows : rows[i] # None}

\* The rows hold what they may; links end with what they link.
TypeOK ==
    /\ permissions \subseteq Permissions
    /\ tenants \subseteq Tenants
    /\ package \in [Tenants -> (SUBSET Permissions) \union {None}]
    /\ policy \in [Policies -> PolicyRow \union {None}]
    /\ role \in [Roles -> RoleRow \union {None}]
    /\ \A p \in Stored(policy) : policy[p].holds \subseteq permissions
    /\ \A r \in Stored(role) : role[r].policies \subseteq Stored(policy)
    /\ reduced \subseteq Tenants

\* There are tenants from before the packages.
Init ==
    /\ permissions = Permissions
    /\ tenants \in SUBSET Tenants
    /\ package = [t \in Tenants |-> None]
    /\ policy = [p \in Policies |-> None]
    /\ role = [r \in Roles |-> None]
    /\ reduced = {}

-----------------------------------------------------------------------------
\* A caller is an administrator, or an employee of a tenant with what he may do
\* (above: for which operations he holds admin.create, admin.update).
Callers == {Admin} \union [tenant : Tenants, holds : SUBSET Permissions,
                           above : SUBSET {"create", "update"}]
MayManage(caller, owner) == caller # Admin => owner # System /\ caller.tenant = owner

CreateTenant(t, holds) ==
    /\ t \notin tenants /\ holds \subseteq permissions
    /\ tenants' = tenants \union {t}
    /\ package' = [package EXCEPT ![t] = holds]
    /\ UNCHANGED <<permissions, policy, role, reduced>>

UpdatePackagePermissions(t, holds) ==
    /\ t \in tenants /\ package[t] # None /\ holds \subseteq permissions
    /\ package' = [package EXCEPT ![t] = holds]
    /\ reduced' = IF package[t] \subseteq holds THEN reduced ELSE reduced \union {t}
    /\ UNCHANGED <<permissions, tenants, policy, role>>

\* The links of a permission go with it; the packages keep its number.
DeletePermission(p) ==
    /\ p \in permissions
    /\ permissions' = permissions \ {p}
    /\ policy' = [q \in Policies |-> IF policy[q] = None THEN None
                                     ELSE [policy[q] EXCEPT !.holds = @ \ {p}]]
    /\ UNCHANGED <<package, tenants, role, reduced>>

-----------------------------------------------------------------------------
\* A tenant's policy holds nothing that is outside its package.
InPackage(owner, holds) ==
    owner # System /\ package[owner] # None => holds \subseteq package[owner]

CreatePolicy(caller, p, owner, holds) ==
    /\ policy[p] = None
    /\ MayManage(caller, owner) /\ owner \in tenants \union {System}
    /\ holds \subseteq permissions /\ InPackage(owner, holds)
    /\ policy' = [policy EXCEPT ![p] = [owner |-> owner, holds |-> holds]]
    /\ UNCHANGED <<permissions, package, tenants, role, reduced>>

\* Mutant: the package is looked at when a policy is created, and not after.
UpdatePolicyUnbounded(caller, p, holds) ==
    /\ policy[p] # None
    /\ MayManage(caller, policy[p].owner)
    /\ holds \subseteq permissions
    /\ policy' = [policy EXCEPT ![p].holds = holds]
    /\ UNCHANGED <<permissions, package, tenants, role, reduced>>

UpdatePolicy(caller, p, holds) ==
    /\ policy[p] # None
    /\ MayManage(caller, policy[p].owner)
    /\ holds \subseteq permissions /\ InPackage(policy[p].owner, holds)
    /\ policy' = [policy EXCEPT ![p].holds = holds]
    /\ UNCHANGED <<permissions, package, tenants, role, reduced>>

DeletePolicy(caller, p) ==
    /\ policy[p] # None
    /\ MayManage(caller, policy[p].owner)
    /\ policy' = [policy EXCEPT ![p] = None]
    /\ role' = [r \in Roles |-> IF role[r] = None THEN None
                                ELSE [role[r] EXCEPT !.policies = @ \ {p}]]
    /\ UNCHANGED <<permissions, package, tenants, reduced>>

-----------------------------------------------------------------------------
\* validate_role_policy_compatibility: a role takes policies of its own kind.
Compatible(owner, chosen) ==
    \A p \in chosen :
        /\ policy[p] # None /\ policy[p].owner = owner
        /\ InPackage(owner, policy[p].holds)

Held(chosen) == UNION {policy[p].holds : p \in chosen}

\* validate_policy_permissions: nobody hands out more than he has, but those who
\* are above it.
MayGrant(caller, operation, chosen) ==
    caller # Admin => operation \in caller.above \/ Held(chosen) \subseteq caller.holds

CreateRole(caller, r, owner, active, chosen) ==
    /\ role[r] = None
    /\ MayManage(caller, owner) /\ owner \in tenants \union {System}
    /\ Compatible(owner, chosen) /\ MayGrant(caller, "create", chosen)
    /\ role' = [role EXCEPT ![r] = [owner |-> owner, active |-> active, policies |-> chosen]]
    /\ UNCHANGED <<permissions, package, tenants, policy, reduced>>

UpdateRole(caller, r, active, chosen) ==
    /\ role[r] # None
    /\ MayManage(caller, role[r].owner)
    /\ \/ chosen = role[r].policies
       \/ Compatible(role[r].owner, chosen) /\ MayGrant(caller, "update", chosen)
    /\ role' = [role EXCEPT ![r].active = active, ![r].policies = chosen]
    /\ UNCHANGED <<permissions, package, tenants, policy, reduced>>

\* Those who have the role keep the row from being deleted.
DeleteRole(r) ==
    /\ role[r] # None
    /\ role' = [role EXCEPT ![r] = None]
    /\ UNCHANGED <<permissions, package, tenants, policy, reduced>>

Next ==
    \/ \E t \in Tenants, holds \in SUBSET Permissions :
           CreateTenant(t, holds) \/ UpdatePackagePermissions(t, holds)
    \/ \E p \in Permissions : DeletePermission(p)
    \/ \E caller \in Callers :
           \/ \E p \in Policies, holds \in SUBSET Permissions :
                  \/ \E owner \in Owners : CreatePolicy(caller, p, owner, holds)
                  \/ UpdatePolicy(caller, p, holds)
           \/ \E p \in Policies : DeletePolicy(caller, p)
           \/ \E r \in Roles, active \in BOOLEAN, chosen \in SUBSET Policies :
                  \/ \E owner \in Owners : CreateRole(caller, r, owner, active, chosen)
                  \/ UpdateRole(caller, r, active, chosen)
    \/ \E r \in Roles : DeleteRole(r)

Spec == Init /\ [][Next]_vars

-----------------------------------------------------------------------------
\* get_employee_roles_and_permissions: what a holder of the role in tenant t is
\* given at login.
Effective(r, t) ==
    IF ~role[r].active \/ role[r].owner \notin {t, System} THEN {}
    ELSE LET held == Held(role[r].policies)
         IN  IF package[t] = None THEN held ELSE held \intersect package[t]

\* What was put in a tenant's role is what its holders get, through every change
\* of policies and roles, unless the package was reduced: the filter at login
\* takes nothing away in silence.
GrantsHold ==
    \A r \in Stored(role) :
        LET t == role[r].owner
        IN  t # System /\ role[r].active /\ t \notin reduced =>
                Effective(r, t) = Held(role[r].policies)

\* No tenant depends on policies of another one, or of the system.
RolesApart ==
    \A r \in Stored(role) : \A p \in role[r].policies : policy[p].owner = role[r].owner
=============================================================================
