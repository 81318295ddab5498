SPECIFICATION SignInSpec
CONSTANTS
    phone = phone
    browser = browser
    None = None
    Loop = Loop
    Devices = {phone, browser}
    Sessions = {1, 2}
    Threads = {t1}
    PlatformOf <- Platform
    e1 = e1  e2 = e2  d1 = d1  v1 = v1  m1 = m1  s1 = s1
    Accounts = {e1, e2, d1, v1, m1, s1}
    Casts <- Together  KindOf <- Kind  PersonOf <- Person  NumberOf <- Number
    Tokens = {o1, o2}
    JwtLife = 5  SessionTtl = 2  VendorTtl = 1  Short = 1  OtpTtl = 1  PreAuthTtl = 1
    MaxAttempts = 1  MaxFaults = 1
INVARIANTS TypeOK RegisterNeverConflicts
PROPERTIES ImplementsRegistry StaleTokenHeals DriverReplacedStaysOut RevokedStaysRevoked DeactivatedOut
