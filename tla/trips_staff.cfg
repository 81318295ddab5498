SPECIFICATION Spec
CONSTANTS
    v1 = v1  v2 = v2
    c1 = c1  c2 = c2  c3 = c3
    d1 = d1  d2 = d2  d3 = d3
    None = None
    Bookings = {b1}
    Routes = {r1, r2}
    Vendors = {v1, v2}
    Vehicles = {c1, c3}
    Drivers = {d1, d3}
    Escorts = {e1}
    VehicleVendor <- FleetVehicleVendor
    VehicleDriver <- FleetVehicleDriver
    DriverVendor <- FleetDriverVendor
    ManualOrders = {}
    DarkHour = {b1}
    Nodal = FALSE
    OneTrip = TRUE
    AutoMove = TRUE
SYMMETRY RouteSymmetry
INVARIANTS TypeOK AssignmentMatchesStatus EscortBoardedOnDuty
PROPERTIES RouteStatusMonotone PickupOnEscortedDuty
