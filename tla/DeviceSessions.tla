--------------------------- MODULE DeviceSessions ---------------------------
(***************************************************************************)
(* The device sessions of one user: the rows of user_sessions, the two     *)
(* Redis keys that cache the push token and its platform, and the callers  *)
(* that use both.  The endpoints register-token and logout are coroutines  *)
(* without an await, so the event loop runs them one at a time; pushes are *)
(* also sent from worker threads (background tasks, the reminder job, the  *)
(* chat), next to the loop and to each other.  A push that a coroutine     *)
(* sends is one that a thread sends while the loop rests.  Every access to *)
(* the database, to Redis or to FCM is a step of its own.                  *)
(***************************************************************************)
EXTENDS Naturals

CONSTANTS
    Sessions,     \* the rows of user_sessions: session_id, numbered as they come
    Devices,      \* push tokens
    PlatformOf,
    Threads,      \* worker threads that send pushes
    Loop,         \* the event loop
    None

Platforms == {"web", "app"}

ASSUME DeviceAssumption == PlatformOf \in [Devices -> Platforms] /\ None \notin Devices
ASSUME PlatformAssumption == None \notin Platforms
ASSUME LoopAssumption == Loop \notin Threads
ASSUME SessionAssumption == Sessions \subseteq Nat

Callers == Threads \union {Loop}

VARIABLES
    device,          \* who registered a row, None: no row yet
    active,          \* rows with is_active; the others have no fcm_token
    cachedToken,     \* the key fcm:<type>:<id>
    cachedPlatform,  \* the key platform:<type>:<id>
    dead,            \* tokens that FCM no longer accepts
    task             \* what each caller is doing

rowVars   == <<device, active>>
cacheVars == <<cachedToken, cachedPlatform>>
vars == <<rowVars, cacheVars, dead, task>>

\* A task is a registration, a logout, or one of the ways to send a push:
\* send_to_user, send_to_users_batch, the chat's _push_notification.
Kinds == {"register", "logout", "user", "batch", "chat"}
Steps == {"insert", "platform", "query", "fillToken", "fillPlatform", "send",
          "logout", "deactivate"}
Idle  == [at |-> "idle"]
Task  == [kind : Kinds, at : Steps, token : Devices \union {None},
          platform : Platforms \union {None}, rows : SUBSET Sessions]

\* The columns, the keys and the tasks hold what they may.
TypeOK ==
    /\ device \in [Sessions -> Devices \union {None}]
    /\ active \in SUBSET {s \in Sessions : device[s] # None}
    /\ cachedToken \in Devices \union {None}
    /\ cachedPlatform \in Platforms \union {None}
    /\ dead \in SUBSET Devices
    /\ task \in [Callers -> Task \union {Idle}]

Init ==
    /\ device = [s \in Sessions |-> None]
    /\ active = {}
    /\ cachedToken = None
    /\ cachedPlatform = None
    /\ dead = {}
    /\ task = [c \in Callers |-> Idle]

-----------------------------------------------------------------------------
ActiveOn(P) == {s \in active : PlatformOf[device[s]] \in P}

Start(c, kind, at, d, p, rows) ==
    /\ task[c] = Idle
    /\ task' = [task EXCEPT ![c] = [kind |-> kind, at |-> at, token |-> d,
                                    platform |-> p, rows |-> rows]]

\* Caller c is at a step, goes on, or is done.
At(c, step)   == task[c] # Idle /\ task[c].at = step
GoTo(c, step) == task' = [task EXCEPT ![c].at = step]
Done(c)       == task' = [task EXCEPT ![c] = Idle]

\* Redis calls swallow their errors: what should be written may not be.
\* A deletion is a step with the query before it: what could come between them
\* is reached too when the keys expire.
SetToken(x)    == cachedToken' \in {x, cachedToken}
SetPlatform(x) == cachedPlatform' \in {x, cachedPlatform}
InvalidateUser == SetToken(None) /\ SetPlatform(None)

\* --- register_session -----------------------------------------------------

\* Mutant: a row that has ended may be taken for the active one.
OldSessionsEnded(d) ==
    LET rows == {s \in Sessions : device[s] # None /\ PlatformOf[device[s]] = PlatformOf[d]}
    IN  IF rows = {} THEN {{}} ELSE {{s} : s \in rows}

\* The row that a login on the platform of d replaces, if there is one.
OldSessions(d) ==
    LET rows == ActiveOn({PlatformOf[d]})
    IN  IF rows = {} THEN {{}} ELSE {{s} : s \in rows}

RegisterRead(d) ==
    /\ d \notin dead
    /\ \E old \in OldSessions(d) :
           /\ Start(Loop, "register", "insert", d, PlatformOf[d], old)
           /\ IF old = {} THEN UNCHANGED cacheVars ELSE InvalidateUser
    /\ UNCHANGED <<rowVars, dead>>

\* The next session_id.
NextRow(s) == device[s] = None /\ \A q \in Sessions : q < s => device[q] # None

\* Mutant: the login ends the sessions of every platform.
RegisterCommitAll(s) ==
    /\ At(Loop, "insert")
    /\ NextRow(s)
    /\ device' = [device EXCEPT ![s] = task[Loop].token]
    /\ active' = {s}
    /\ task' = [task EXCEPT ![Loop].at = "fillToken", ![Loop].rows = {}]
    /\ UNCHANGED <<cacheVars, dead>>

\* One commit ends the old session and inserts the new one.  The unique index
\* on active rows refuses a second session of the platform.
RegisterCommit(s) ==
    /\ At(Loop, "insert")
    /\ NextRow(s)
    /\ ActiveOn({task[Loop].platform}) \subseteq task[Loop].rows
    /\ device' = [device EXCEPT ![s] = task[Loop].token]
    /\ active' = (active \ task[Loop].rows) \union {s}
    /\ task' = [task EXCEPT ![Loop].at = "fillToken", ![Loop].rows = {}]
    /\ UNCHANGED <<cacheVars, dead>>

\* The commit fails and is rolled back; the cache stays invalidated.
RegisterAbort ==
    /\ At(Loop, "insert")
    /\ Done(Loop)
    /\ UNCHANGED <<rowVars, cacheVars, dead>>

\* --- logout_session --------------------------------------------------------

\* The endpoint names a platform or none, which means all.
LogoutRequest(p) ==
    /\ Start(Loop, "logout", "logout", None, p, {})
    /\ UNCHANGED <<rowVars, cacheVars, dead>>

\* The keys are deleted before the rows change.
LogoutRead(c) ==
    LET rows == ActiveOn(IF task[c].platform = None THEN Platforms ELSE {task[c].platform})
    IN  /\ At(c, "logout")
        /\ IF rows = {} THEN Done(c) /\ UNCHANGED cacheVars
           ELSE /\ task' = [task EXCEPT ![c].at = "deactivate", ![c].rows = rows]
                /\ InvalidateUser
        /\ UNCHANGED <<rowVars, dead>>

\* The update is by session_id; it may fail and be rolled back.
LogoutCommit(c) ==
    /\ At(c, "deactivate")
    /\ active' \in {active \ task[c].rows, active}
    /\ Done(c)
    /\ UNCHANGED <<device, cacheVars, dead>>

\* --- sending a push ---------------------------------------------------------

\* send_to_user and send_to_users_batch look in the cache first; the batch
\* asks for the platform only when it has a token.
ReadToken(c, kind) ==
    /\ kind \in {"user", "batch"}
    /\ Start(c, kind, IF kind = "batch" /\ cachedToken = None THEN "query" ELSE "platform",
             cachedToken, None, {})
    /\ UNCHANGED <<rowVars, cacheVars, dead>>

\* The two keys are read one after the other and expire separately.
ReadPlatform(c) ==
    /\ At(c, "platform")
    /\ task' = [task EXCEPT
           ![c].platform = IF cachedPlatform = None /\ task[c].kind = "batch"
                           THEN "app" ELSE cachedPlatform,
           ![c].at = IF task[c].token = None THEN "query" ELSE "send"]
    /\ UNCHANGED <<rowVars, cacheVars, dead>>

\* The chat goes to the database at once, for an app session.
ChatPush(c) ==
    /\ Start(c, "chat", "query", None, None, {})
    /\ UNCHANGED <<rowVars, cacheVars, dead>>

\* get_active_session(s): any active row.  A batch caches all that it finds;
\* the last one stays.
Query(c) ==
    LET rows == ActiveOn(IF task[c].kind = "chat" THEN {"app"} ELSE Platforms)
    IN  /\ At(c, "query")
        /\ \/ rows = {} /\ Done(c)
           \/ \E s \in rows :
                  task' = [task EXCEPT ![c].token = device[s],
                                       ![c].platform = PlatformOf[device[s]],
                                       ![c].at = "fillToken"]
        /\ UNCHANGED <<rowVars, cacheVars, dead>>

\* The row that was read, or just registered, is cached, whatever has become
\* of it since.
FillToken(c) ==
    /\ At(c, "fillToken")
    /\ SetToken(task[c].token)
    /\ GoTo(c, "fillPlatform")
    /\ UNCHANGED <<rowVars, cachedPlatform, dead>>

\* Mutant: the token is stored under the key of the platform.
FillPlatformToken(c) ==
    /\ At(c, "fillPlatform")
    /\ SetPlatform(task[c].token)
    /\ IF task[c].kind = "register" THEN Done(c) ELSE GoTo(c, "send")
    /\ UNCHANGED <<rowVars, cachedToken, dead>>

FillPlatform(c) ==
    /\ At(c, "fillPlatform")
    /\ SetPlatform(task[c].platform)
    /\ CASE task[c].kind = "register" -> Done(c)
         [] task[c].kind = "batch"    -> GoTo(c, "platform")
         [] OTHER                     -> GoTo(c, "send")
    /\ UNCHANGED <<rowVars, cachedToken, dead>>

\* FCM refuses a dead token, unless the call fails for another reason.  All
\* but the chat then log the user out on the platform they have for the token.
Send(c) ==
    /\ At(c, "send")
    /\ \/ Done(c)
       \/ task[c].token \in dead /\ task[c].kind # "chat" /\ GoTo(c, "logout")
    /\ UNCHANGED <<rowVars, cacheVars, dead>>

\* --- the world --------------------------------------------------------------

\* The app is removed, or its token replaced.
Uninstall(d) ==
    /\ d \notin dead
    /\ dead' = dead \union {d}
    /\ UNCHANGED <<rowVars, cacheVars, task>>

\* Mutant: the token is cached without a time to live.
ExpireTokenNever == FALSE

\* The keys live for an hour.
ExpireToken ==
    /\ cachedToken # None
    /\ cachedToken' = None
    /\ UNCHANGED <<rowVars, cachedPlatform, dead, task>>

ExpirePlatform ==
    /\ cachedPlatform # None
    /\ cachedPlatform' = None
    /\ UNCHANGED <<rowVars, cachedToken, dead, task>>

-----------------------------------------------------------------------------
\* The next step of a call that is under way.
Proceed(c) ==
    \/ ReadPlatform(c)
    \/ Query(c)
    \/ FillToken(c)
    \/ FillPlatform(c)
    \/ Send(c)
    \/ LogoutRead(c)
    \/ LogoutCommit(c)

Next ==
    \/ \E d \in Devices : RegisterRead(d) \/ Uninstall(d)
    \/ \E s \in Sessions : RegisterCommit(s)
    \/ RegisterAbort
    \/ \E p \in Platforms \union {None} : LogoutRequest(p)
    \/ \E c \in Threads : ChatPush(c) \/ \E kind \in {"user", "batch"} : ReadToken(c, kind)
    \/ \E c \in Callers : Proceed(c)
    \/ ExpireToken
    \/ ExpirePlatform

\* A call that is under way ends (socket timeouts bound every step of it), and
\* Redis drops a key at the end of its hour.
Fairness ==
    /\ \A c \in Callers : WF_vars(Proceed(c))
    /\ WF_vars(ExpireToken)

Spec     == Init /\ [][Next]_vars
FairSpec == Spec /\ Fairness

-----------------------------------------------------------------------------
\* No two sessions of a platform are active, although logins, logouts and the
\* clean-up of refused tokens decide on rows they read earlier.
OneActiveSession ==
    \A s, q \in active : PlatformOf[device[s]] = PlatformOf[device[q]] => s = q

\* "This should not happen due to our deactivation logic": a registration never
\* meets the unique index, whatever other callers did since it read the old
\* session.
RegisterNeverConflicts ==
    At(Loop, "insert") => ActiveOn({task[Loop].platform}) \subseteq task[Loop].rows

\* The rows implement the registry of the user's devices: one atomic login per
\* platform, logouts in between, and no late commit that ends a newer session
\* of a platform together with an older one it had read.
Current == [p \in Platforms |->
               IF ActiveOn({p}) = {} THEN None
               ELSE device[CHOOSE s \in ActiveOn({p}) : TRUE]]
Registry == INSTANCE SessionRegistry WITH current <- Current
ImplementsRegistry == Registry!Spec

\* A late fill can bring back the token of a session that has ended, and lost
\* invalidations leave it there, but it does not stay: once logins and logouts
\* are over, the cached token is at last that of an active session, or none.
\* (The rows are finite in number, so they are over at some time.)
StaleTokenHeals ==
    <>[](cachedToken # None => \E s \in active : device[s] = cachedToken)
=============================================================================
