-------------------------- MODULE SessionRegistry --------------------------
(***************************************************************************)
(* What user_sessions promises for one user (models/user_session.py): each *)
(* platform has at most one active session, the one of the last login, and *)
(* the platforms do not disturb each other.                                *)
(***************************************************************************)
CONSTANTS
    Devices,      \* the push tokens of the user's devices
    Platforms,    \* "web" and "app"
    PlatformOf,   \* the platform a device logs in on
    None

VARIABLE current   \* the device with the active session of a platform

Init == current = [p \in Platforms |-> None]

\* A login replaces the session of its own platform, and no other, at once.
Login(d) == current' = [current EXCEPT ![PlatformOf[d]] = d]

\* A logout, by the user or because a push token was refused.
Logout(P) == current' = [p \in Platforms |-> IF p \in P THEN None ELSE current[p]]

Next ==
    \/ \E d \in Devices : Login(d)
    \/ \E P \in SUBSET Platforms : Logout(P)

Spec == Init /\ [][Next]_current
=============================================================================
