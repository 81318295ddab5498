SPECIFICATION NoticesSpec
CONSTANTS
    None = None
    b1 = b1  b2 = b2  r1 = r1  r2 = r2
    a1 = a1  a2 = a2
    emp = emp  guard = guard  desk = desk
    w1 = w1  w2 = w2
    Bookings = {b1, b2}  Routes = {r1, r2}
    Day = 6  Times <- Pickups  Dates = {1}  MaxNow = 10
    Skew = 2
    Window = 5
    MaxRun = 1
    MaxFaults = 1
    Threads = {w1, w2}
    Roster <- People  Targets <- MeantFor  MaxRows = 3
    Alerts = {a1, a2}  Owner <- RaisedBy  TypeOf <- Types  ChannelOf <- Channels
    Configs = {w2}  Shapes <- TwoShapes  Keepers = {w1}
    MaxTasks = 1  MaxLevel = 1  MaxRestarts = 1
    Drivers = {guard, desk}  First = {guard}
    Langs = {"en", "hi"}  English = "en"  Choices = {"hi"}
    MaxCalls = 3  MaxMoves = 1
PROPERTY CandidatesInWindow
CHECK_DEADLOCK FALSE
