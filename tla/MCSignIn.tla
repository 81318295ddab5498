------------------------------ MODULE MCSignIn ------------------------------
\* The instance of SignIn for TLC.
EXTENDS SignIn, TLC

CONSTANTS phone, browser, e1, e2, d1, v1, m1, s1

Platform == [d \in Devices |-> IF d = browser THEN "web" ELSE "app"]

\* Two employees of one person, a driver, a vendor's user and an escort, an admin
\* with the number of an employee.
Together == {{e1, e2}, {d1}, {v1, s1}, {m1, e1}}
Kind     == (e1 :> "employee") @@ (e2 :> "employee") @@ (d1 :> "driver")
                @@ (v1 :> "vendor") @@ (m1 :> "admin") @@ (s1 :> "escort")
Person   == [a \in UNION Together |-> IF a = e2 THEN e1 ELSE a]
Number   == [a \in UNION Together |-> IF a = e2 THEN 2 ELSE 1]
=============================================================================
