SPECIFICATION OfficeSpec
CONSTANTS
    Employees = {e1, e2}
    Shifts = {s1, s2}
    Calls = {k1, k2}
    MaxRows = 3
    None = None
    Ttl = 2  MaxVersion = 3  MaxCall = 1  MaxFaults = 1
    Fleets <- OfficeFleets
    Slabs = {p1, p2, p3}  RateOf <- OfficeRates  MaxKm = 2  MaxEdits = 2  Open = unlimited
    Tenants = {"tenant"}  Permissions = {"read", "write"}  Policies = {p1, p2}  Roles = {r1}
    System = system  Admin = admin
    People = {p1, p2, p3}  Files <- OfficeFiles
    Walkers = {r1}  Points = {p1, p2}  Placed = {r1}  Order <- OfficeOrder
    MaxCalls = 2
    Routes = {r1, r2}  Drivers = {p1, p2}  Plan <- OfficePlan  Estimated <- OfficeEstimated
    Day = 5  Ist = 2  MaxDuty = 3  Enforce = FALSE
    Grace = 1  DriverGrace = 1  EmployeeGrace = 0  MaxNow = 4
    p1 = p1  p2 = p2  p3 = p3  r1 = r1  r2 = r2
INVARIANTS TypeOK OneRowPerSlot CacheFresh FleetConsistent CostsAgree GrantsHold ChoiceStands
PROPERTIES RoutedKeepsShift NobodyLeftOut DutyMeasured
CHECK_DEADLOCK FALSE
