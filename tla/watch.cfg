SPECIFICATION Spec
CONSTANTS
    None = None
    r1 = r1  r2 = r2  b1 = b1  b2 = b2
    Routes = {r1, r2}
    MaxFaults = 1
    Stops = {b1, b2}  HasPlace = {b1, b2}  Plans <- WatchPlans  MaxRequests = 2  MaxRegroups = 1
    Threshold = 2  Cooldown = 2  MaxRun = 1
INVARIANTS ArrivalsBounded OffTheMap
PROPERTIES OnTheMap EveryoneNoticed AlertsSpaced SilentNoticed
CHECK_DEADLOCK FALSE
