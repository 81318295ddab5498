SPECIFICATION Spec
CONSTANTS
    v1 = v1  v2 = v2
    c1 = c1  c2 = c2  c3 = c3
    d1 = d1  d2 = d2  d3 = d3
    None = None
    Bookings = {b1}
    Routes = {r1}
    Vendors = {v1}
    Vehicles = {c1}
    Drivers = {d1}
    Escorts = {}
    VehicleVendor <- FleetVehicleVendor
    VehicleDriver <- FleetVehicleDriver
    DriverVendor <- FleetDriverVendor
    ManualOrders = {}
    DarkHour = {}
    Nodal = FALSE
    OneTrip = TRUE
    AutoMove = TRUE
PROPERTIES CancelOnlyUnrouted
