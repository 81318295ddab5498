--------------------------- MODULE SignIn_proofs ---------------------------
(***************************************************************************)
(* For any number of rows, devices and sending threads: a platform has one *)
(* active session, a registration never meets the unique index, and the    *)
(* rows implement the registry of devices.  For any accounts, tokens and   *)
(* lifetimes: a token that was revoked stays out, and so does one that a   *)
(* driver's later login or refresh has replaced.                           *)
(***************************************************************************)
EXTENDS SignIn, TLAPS

-----------------------------------------------------------------------------
(* Sessions of devices                                                     *)


\* A registration under way knows the platform it is for, and the row it is to
\* end, if any, is one of that platform; no thread registers.
InsertOK ==
    \A c \in Callers : At(c, "insert") =>
        /\ c = Loop
        /\ task[c].token \in Devices
        /\ task[c].platform = PlatformOf[task[c].token]
        /\ \A s \in task[c].rows :
               device[s] # None /\ PlatformOf[device[s]] = task[c].platform

SessionInv == TypeOK /\ OneActiveSession /\ RegisterNeverConflicts /\ InsertOK

-----------------------------------------------------------------------------
(* Tasks keep their type                                                   *)

LEMMA TaskType ==
    ASSUME TypeOK, NEW c \in Callers, task[c] # Idle
    PROVE  /\ task[c] \in Task
           /\ \A step \in Steps : GoTo(c, step) => task' \in [Callers -> Task \union {Idle}]
           /\ Done(c) => task' \in [Callers -> Task \union {Idle}]
<1>1. task[c] \in Task
  BY DEF TypeOK
<1>2. \A step \in Steps : [task[c] EXCEPT !.at = step] \in Task
  BY <1>1 DEF Task
<1>. QED  BY <1>1, <1>2 DEF GoTo, Done, TypeOK

LEMMA StartType ==
    ASSUME TypeOK, NEW c \in Callers, NEW kind \in Kinds, NEW at \in Steps,
           NEW d \in Devices \union {None}, NEW p \in Platforms \union {None},
           NEW old \in SUBSET Sessions, Start(c, kind, at, d, p, old)
    PROVE  task' \in [Callers -> Task \union {Idle}]
<1>1. [kind |-> kind, at |-> at, token |-> d, platform |-> p, rows |-> old] \in Task
  BY DEF Task
<1>. QED  BY <1>1 DEF Start, TypeOK

LEMMA ActiveType ==
    ASSUME TypeOK, NEW P, NEW s \in ActiveOn(P)
    PROVE  s \in Sessions /\ s \in active /\ device[s] \in Devices
           /\ PlatformOf[device[s]] \in P /\ PlatformOf[device[s]] \in Platforms
  BY DeviceAssumption DEF TypeOK, ActiveOn

LEMMA TypeStep == TypeOK /\ InsertOK /\ [Next]_vars => TypeOK'
<1>. SUFFICES ASSUME TypeOK, InsertOK, [Next]_vars PROVE TypeOK'
  OBVIOUS
<1>. USE DEF rowVars, cacheVars
<1>1. ASSUME NEW d \in Devices, RegisterRead(d) PROVE TypeOK'
  <2>1. PICK old \in OldSessions(d) :
            /\ Start(Loop, "register", "insert", d, PlatformOf[d], old)
            /\ IF old = {} THEN UNCHANGED cacheVars ELSE InvalidateUser
    BY <1>1 DEF RegisterRead
  <2>2. old \in SUBSET Sessions
    BY ActiveType DEF OldSessions
  <2>3. task' \in [Callers -> Task \union {Idle}]
    BY <2>1, <2>2, StartType, DeviceAssumption DEF Callers, Kinds, Steps
  <2>. QED  BY <1>1, <2>1, <2>3 DEF RegisterRead, TypeOK, InvalidateUser, SetToken, SetPlatform
<1>2. ASSUME NEW s \in Sessions, RegisterCommit(s) PROVE TypeOK'
  <2>1. Loop \in Callers /\ task[Loop] # Idle /\ task[Loop].token \in Devices
    BY <1>2 DEF RegisterCommit, At, Callers, InsertOK
  <2>2. [task[Loop] EXCEPT !.at = "fillToken", !.rows = {}] \in Task
    BY <2>1, TaskType DEF Task, Steps
  <2>3. task' \in [Callers -> Task \union {Idle}]
    BY <1>2, <2>1, <2>2 DEF RegisterCommit, TypeOK
  <2>4. device' \in [Sessions -> Devices \union {None}] /\ active' \subseteq Sessions
    BY <1>2, <2>1 DEF RegisterCommit, TypeOK
  <2>5. \A q \in active' : device'[q] # None
    BY <1>2, <2>1, DeviceAssumption DEF RegisterCommit, TypeOK
  <2>. QED  BY <1>2, <2>3, <2>4, <2>5 DEF RegisterCommit, TypeOK
<1>3. CASE RegisterAbort
  BY <1>3, TaskType DEF RegisterAbort, TypeOK, At, Callers
<1>4. ASSUME NEW p \in Platforms \union {None}, LogoutRequest(p) PROVE TypeOK'
  <2>1. task' \in [Callers -> Task \union {Idle}]
    <3>1. Start(Loop, "logout", "logout", None, p, {})
      BY <1>4 DEF LogoutRequest
    <3>2. /\ Loop \in Callers /\ "logout" \in Kinds /\ "logout" \in Steps
          /\ None \in Devices \union {None} /\ {} \in SUBSET Sessions
      BY DEF Callers, Kinds, Steps
    <3>. QED  BY <3>1, <3>2, StartType
  <2>. QED  BY <1>4, <2>1 DEF LogoutRequest, TypeOK
<1>5. ASSUME NEW c \in Callers, NEW kind, ReadToken(c, kind) PROVE TypeOK'
  <2>1. task' \in [Callers -> Task \union {Idle}]
    <3>1. cachedToken \in Devices \union {None}
      BY DEF TypeOK
    <3>2. kind \in Kinds
      BY <1>5 DEF ReadToken, Kinds
    <3>3. PICK at \in {"query", "platform"} : Start(c, kind, at, cachedToken, None, {})
      BY <1>5 DEF ReadToken
    <3>. QED  BY <3>1, <3>2, <3>3, StartType DEF Steps
  <2>. QED  BY <1>5, <2>1 DEF ReadToken, TypeOK
<1>6. ASSUME NEW c \in Callers, ChatPush(c) PROVE TypeOK'
  <2>1. task' \in [Callers -> Task \union {Idle}]
    <3>1. Start(c, "chat", "query", None, None, {})
      BY <1>6 DEF ChatPush
    <3>2. /\ "chat" \in Kinds /\ "query" \in Steps /\ {} \in SUBSET Sessions
          /\ None \in Devices \union {None} /\ None \in Platforms \union {None}
      BY DEF Kinds, Steps
    <3>. QED  BY <3>1, <3>2, StartType
  <2>. QED  BY <1>6, <2>1 DEF ChatPush, TypeOK
<1>7. ASSUME NEW c \in Callers, ReadPlatform(c) PROVE TypeOK'
  <2>1. task[c] \in Task
    BY <1>7, TaskType DEF ReadPlatform, At
  <2>2. \A p \in Platforms \union {None}, a \in {"query", "send"} :
            [task[c] EXCEPT !.platform = p, !.at = a] \in Task
    BY <2>1 DEF Task, Steps
  <2>. QED  BY <1>7, <2>2 DEF ReadPlatform, TypeOK, Platforms
<1>8. ASSUME NEW c \in Callers, Query(c) PROVE TypeOK'
  <2>1. task[c] \in Task
    BY <1>8, TaskType DEF Query, At
  <2>2. \A d \in Devices, p \in Platforms :
            [task[c] EXCEPT !.token = d, !.platform = p, !.at = "fillToken"] \in Task
    BY <2>1 DEF Task, Steps
  <2>3. task' \in [Callers -> Task \union {Idle}]
    <3>. DEFINE R == ActiveOn(IF task[c].kind = "chat" THEN {"app"} ELSE Platforms)
    <3>1. \A s \in R : device[s] \in Devices /\ PlatformOf[device[s]] \in Platforms
      BY ActiveType
    <3>2. \/ Done(c)
          \/ \E s \in R : task' = [task EXCEPT ![c].token = device[s],
                                               ![c].platform = PlatformOf[device[s]],
                                               ![c].at = "fillToken"]
      BY <1>8 DEF Query
    <3>. HIDE DEF R
    <3>3. CASE Done(c)
      BY <3>3 DEF Done, TypeOK
    <3>4. ASSUME NEW s \in R,
                 task' = [task EXCEPT ![c].token = device[s],
                                      ![c].platform = PlatformOf[device[s]],
                                      ![c].at = "fillToken"]
          PROVE  task' \in [Callers -> Task \union {Idle}]
      <4>. DEFINE t == [task[c] EXCEPT !.token = device[s],
                                       !.platform = PlatformOf[device[s]],
                                       !.at = "fillToken"]
      <4>1. t \in Task
        BY <3>1, <2>2
      <4>2. task' = [task EXCEPT ![c] = t]
        BY <3>4 DEF TypeOK
      <4>. QED  BY <4>1, <4>2 DEF TypeOK
    <3>. QED  BY <3>2, <3>3, <3>4
  <2>. QED  BY <1>8, <2>3 DEF Query, TypeOK
<1>9. ASSUME NEW c \in Callers, FillToken(c) PROVE TypeOK'
  BY <1>9, TaskType DEF FillToken, TypeOK, At, SetToken, Task, Steps
<1>10. ASSUME NEW c \in Callers, FillPlatform(c) PROVE TypeOK'
  BY <1>10, TaskType DEF FillPlatform, TypeOK, At, SetPlatform, Task, Steps
<1>11. ASSUME NEW c \in Callers, Send(c) PROVE TypeOK'
  BY <1>11, TaskType DEF Send, TypeOK, At, Steps
<1>12. ASSUME NEW c \in Callers, LogoutRead(c) PROVE TypeOK'
  <2>. DEFINE R == ActiveOn(IF task[c].platform = None THEN Platforms ELSE {task[c].platform})
  <2>1. task[c] \in Task /\ task[c] # Idle
    BY <1>12, TaskType DEF LogoutRead, At
  <2>2. R \in SUBSET Sessions
    BY ActiveType
  <2>3. [task[c] EXCEPT !.at = "deactivate", !.rows = R] \in Task
    BY <2>1, <2>2 DEF Task, Steps
  <2>. HIDE DEF R
  <2>4. IF R = {} THEN Done(c) /\ UNCHANGED cacheVars
        ELSE /\ task' = [task EXCEPT ![c].at = "deactivate", ![c].rows = R]
             /\ InvalidateUser
    BY <1>12 DEF LogoutRead, R
  <2>5. task' \in [Callers -> Task \union {Idle}]
    BY <2>1, <2>3, <2>4, TaskType DEF TypeOK
  <2>. QED  BY <1>12, <2>4, <2>5 DEF LogoutRead, TypeOK, InvalidateUser, SetToken, SetPlatform
<1>13. ASSUME NEW c \in Callers, LogoutCommit(c) PROVE TypeOK'
  BY <1>13, TaskType DEF LogoutCommit, TypeOK, At
<1>14. ASSUME NEW d \in Devices, Uninstall(d) PROVE TypeOK'
  BY <1>14 DEF Uninstall, TypeOK
<1>15. CASE ExpireToken \/ ExpirePlatform
  BY <1>15 DEF ExpireToken, ExpirePlatform, TypeOK
<1>16. CASE UNCHANGED vars
  BY <1>16 DEF vars, TypeOK
<1>. QED
  BY <1>1, <1>2, <1>3, <1>4, <1>5, <1>6, <1>7, <1>8, <1>9, <1>10, <1>11, <1>12,
     <1>13, <1>14, <1>15, <1>16 DEF Next, Proceed, Callers

-----------------------------------------------------------------------------
(* Rows and registrations                                                  *)

\* Apart from the commit of a registration, rows are only ever deactivated, and
\* a registration that is under way is left alone.
LEMMA OtherSteps ==
    ASSUME TypeOK, [Next]_vars,
           \A s \in Sessions : ~ RegisterCommit(s),
           \A d \in Devices : ~ RegisterRead(d)
    PROVE  /\ device' = device /\ active' \subseteq active
           /\ \A c \in Callers : At(c, "insert")' => At(c, "insert") /\ task'[c] = task[c]
<1>. USE DEF rowVars, Idle, TypeOK, At
<1>1. CASE RegisterAbort
  BY <1>1 DEF RegisterAbort, Done, Callers
<1>2. ASSUME NEW p \in Platforms \union {None}, LogoutRequest(p)
      PROVE  /\ device' = device /\ active' \subseteq active
             /\ \A c \in Callers : At(c, "insert")' => At(c, "insert") /\ task'[c] = task[c]
  BY <1>2 DEF LogoutRequest, Start, Callers
<1>3. ASSUME NEW b \in Callers, NEW kind, ReadToken(b, kind)
      PROVE  /\ device' = device /\ active' \subseteq active
             /\ \A c \in Callers : At(c, "insert")' => At(c, "insert") /\ task'[c] = task[c]
  BY <1>3 DEF ReadToken, Start
<1>4. ASSUME NEW b \in Callers, ChatPush(b) \/ ReadPlatform(b) \/ Query(b)
      PROVE  /\ device' = device /\ active' \subseteq active
             /\ \A c \in Callers : At(c, "insert")' => At(c, "insert") /\ task'[c] = task[c]
  <2>1. CASE ChatPush(b)
    BY <2>1 DEF ChatPush, Start
  <2>2. CASE ReadPlatform(b)
    BY <2>2, TaskType DEF ReadPlatform, Task
  <2>3. CASE Query(b)
    <3>1. Done(b) \/ \E s \in Sessions :
              task' = [task EXCEPT ![b].token = device[s],
                                   ![b].platform = PlatformOf[device[s]],
                                   ![b].at = "fillToken"]
      BY <2>3 DEF Query, ActiveOn
    <3>2. task[b] \in Task
      BY <2>3, TaskType DEF Query
    <3>3. CASE Done(b)
      BY <2>3, <3>3 DEF Query, Done
    <3>4. ASSUME NEW s \in Sessions,
                 task' = [task EXCEPT ![b].token = device[s],
                                      ![b].platform = PlatformOf[device[s]],
                                      ![b].at = "fillToken"]
          PROVE  \A c \in Callers : At(c, "insert")' => task'[c] = task[c]
      <4>. DEFINE t == [task[b] EXCEPT !.token = device[s],
                                       !.platform = PlatformOf[device[s]],
                                       !.at = "fillToken"]
      <4>1. task' = [task EXCEPT ![b] = t]
        BY <3>4
      <4>2. t.at = "fillToken"
        BY <3>2 DEF Task
      <4>. HIDE DEF t
      <4>. QED  BY <4>1, <4>2
    <3>. QED  BY <2>3, <3>1, <3>3, <3>4 DEF Query
  <2>. QED  BY <1>4, <2>1, <2>2, <2>3
<1>5. ASSUME NEW b \in Callers, FillToken(b) \/ FillPlatform(b) \/ Send(b)
      PROVE  /\ device' = device /\ active' \subseteq active
             /\ \A c \in Callers : At(c, "insert")' => At(c, "insert") /\ task'[c] = task[c]
  BY <1>5, TaskType DEF FillToken, FillPlatform, Send, GoTo, Done, Task
<1>6. ASSUME NEW b \in Callers, LogoutRead(b)
      PROVE  /\ device' = device /\ active' \subseteq active
             /\ \A c \in Callers : At(c, "insert")' => At(c, "insert") /\ task'[c] = task[c]
  BY <1>6, TaskType DEF LogoutRead, Done, Task
<1>7. ASSUME NEW b \in Callers, LogoutCommit(b)
      PROVE  /\ device' = device /\ active' \subseteq active
             /\ \A c \in Callers : At(c, "insert")' => At(c, "insert") /\ task'[c] = task[c]
  BY <1>7 DEF LogoutCommit, Done
<1>8. CASE ExpireToken \/ ExpirePlatform \/ (\E d \in Devices : Uninstall(d)) \/ UNCHANGED vars
  BY <1>8 DEF ExpireToken, ExpirePlatform, Uninstall, vars
<1>. QED
  BY <1>1, <1>2, <1>3, <1>4, <1>5, <1>6, <1>7, <1>8 DEF Next, Proceed, Callers

LEMMA SessionStep == SessionInv /\ [Next]_vars => SessionInv'
<1>. SUFFICES ASSUME SessionInv, [Next]_vars PROVE SessionInv'
  OBVIOUS
<1>. USE DEF SessionInv
<1>1. TypeOK'
  BY TypeStep
<1>2. ASSUME NEW d \in Devices, RegisterRead(d)
      PROVE  (OneActiveSession /\ RegisterNeverConflicts /\ InsertOK)'
  <2>1. PICK old \in OldSessions(d) :
            Start(Loop, "register", "insert", d, PlatformOf[d], old)
    BY <1>2 DEF RegisterRead
  <2>2. device' = device /\ active' = active
    BY <1>2 DEF RegisterRead, rowVars
  <2>3. /\ task'[Loop] = [kind |-> "register", at |-> "insert", token |-> d,
                          platform |-> PlatformOf[d], rows |-> old]
        /\ \A c \in Callers \ {Loop} : task'[c] = task[c]
    BY <2>1 DEF Start, TypeOK, Callers
  <2>4. old = ActiveOn({PlatformOf[d]})
    BY ActiveType DEF OldSessions, OneActiveSession, ActiveOn
  <2>5. OneActiveSession'
    BY <2>2 DEF OneActiveSession
  <2>6. RegisterNeverConflicts'
    BY <2>2, <2>3, <2>4 DEF RegisterNeverConflicts, At, ActiveOn
  <2>7. InsertOK'
    <3>1. \A s \in old : device[s] # None /\ PlatformOf[device[s]] = PlatformOf[d]
      BY <2>4, ActiveType, DeviceAssumption
    <3>2. \A c \in Callers \ {Loop} : ~ At(c, "insert")'
      BY <2>3 DEF InsertOK, At
    <3>. QED  BY <2>2, <2>3, <3>1, <3>2 DEF InsertOK, At
  <2>. QED  BY <2>5, <2>6, <2>7
<1>3. ASSUME NEW s \in Sessions, RegisterCommit(s)
      PROVE  (OneActiveSession /\ RegisterNeverConflicts /\ InsertOK)'
  <2>1. /\ Loop \in Callers /\ task[Loop] # Idle /\ device[s] = None
        /\ task[Loop].platform = PlatformOf[task[Loop].token]
        /\ ActiveOn({task[Loop].platform}) \subseteq task[Loop].rows
    BY <1>3 DEF RegisterCommit, NextRow, At, Callers, InsertOK
  <2>2. s \notin active
    BY <2>1 DEF TypeOK
  <2>3. /\ active' = (active \ task[Loop].rows) \union {s}
        /\ device'[s] = task[Loop].token
        /\ \A q \in Sessions \ {s} : device'[q] = device[q]
    BY <1>3 DEF RegisterCommit, TypeOK
  <2>4. \A c \in Callers : ~ At(c, "insert")'
    <3>1. task'[Loop].at = "fillToken"
      BY <1>3, <2>1, TaskType DEF RegisterCommit, TypeOK, Task
    <3>2. \A c \in Callers \ {Loop} : task'[c] = task[c]
      BY <1>3 DEF RegisterCommit, TypeOK
    <3>. QED  BY <3>1, <3>2 DEF InsertOK, At
  <2>5. OneActiveSession'
    <3>1. \A q \in active' \ {s} :
              q \in active /\ device'[q] = device[q] /\ PlatformOf[device[q]] # task[Loop].platform
      BY <2>1, <2>3 DEF ActiveOn, TypeOK
    <3>. QED  BY <2>1, <2>3, <3>1 DEF OneActiveSession
  <2>. QED  BY <2>4, <2>5 DEF RegisterNeverConflicts, InsertOK, Callers
<1>4. ASSUME \A s \in Sessions : ~ RegisterCommit(s), \A d \in Devices : ~ RegisterRead(d)
      PROVE  (OneActiveSession /\ RegisterNeverConflicts /\ InsertOK)'
  <2>1. /\ device' = device /\ active' \subseteq active
        /\ \A c \in Callers : At(c, "insert")' => At(c, "insert") /\ task'[c] = task[c]
    BY <1>4, OtherSteps
  <2>2. OneActiveSession'
    BY <2>1 DEF OneActiveSession
  <2>3. RegisterNeverConflicts'
    BY <2>1 DEF RegisterNeverConflicts, ActiveOn, Callers
  <2>4. InsertOK'
    BY <2>1 DEF InsertOK
  <2>. QED  BY <2>2, <2>3, <2>4
<1>. QED  BY <1>1, <1>2, <1>3, <1>4

LEMMA SessionInit == Init => SessionInv
<1>. SUFFICES ASSUME Init PROVE SessionInv
  OBVIOUS
<1>1. TypeOK
  BY DEF Init, TypeOK
<1>2. OneActiveSession
  BY DEF Init, OneActiveSession
<1>3. \A c \in Callers : ~ At(c, "insert")
  BY DEF Init, At
<1>. QED  BY <1>1, <1>2, <1>3 DEF SessionInv, RegisterNeverConflicts, InsertOK, Callers

LEMMA SessionsInvariant == Spec => []SessionInv
<1>. QED  BY SessionInit, SessionStep, PTL DEF Spec

-----------------------------------------------------------------------------
(* The theorems                                                            *)

\* The columns, the Redis keys and the tasks hold what they may.
THEOREM SessionsTypeCorrect == Spec => []TypeOK
<1>1. SessionInv => TypeOK
  BY DEF SessionInv
<1>. QED  BY <1>1, SessionsInvariant, PTL

\* Of all the sessions of a platform, one at most is active, whatever logins,
\* logouts and clean-ups interleave.
THEOREM OneSession == Spec => []OneActiveSession
<1>1. SessionInv => OneActiveSession
  BY DEF SessionInv
<1>. QED  BY <1>1, SessionsInvariant, PTL

\* A registration that has read the old session is never refused by the unique
\* index: the rows of the platform that are active are those it ends.
THEOREM NeverConflicts == Spec => []RegisterNeverConflicts
<1>1. SessionInv => RegisterNeverConflicts
  BY DEF SessionInv
<1>. QED  BY <1>1, SessionsInvariant, PTL

-----------------------------------------------------------------------------
(* The refinement                                                          *)

LEMMA CurrentOf ==
    ASSUME SessionInv, NEW s \in active
    PROVE  /\ PlatformOf[device[s]] \in Platforms
           /\ Current[PlatformOf[device[s]]] = device[s]
<1>. DEFINE p == PlatformOf[device[s]]
<1>1. p \in Platforms
  BY DeviceAssumption DEF SessionInv, TypeOK
<1>2. ActiveOn({p}) = {s}
  BY DEF SessionInv, OneActiveSession, ActiveOn
<1>. QED  BY <1>1, <1>2 DEF Current

LEMMA CurrentNone ==
    ASSUME NEW p \in Platforms
    PROVE  ActiveOn({p}) = {} => Current[p] = None
  BY DEF Current

\* A step that leaves the active rows of a platform alone leaves its entry.
LEMMA CurrentKept ==
    ASSUME SessionInv, SessionInv', NEW p \in Platforms,
           ActiveOn({p})' = ActiveOn({p}),
           \A s \in ActiveOn({p}) : device'[s] = device[s]
    PROVE  Current'[p] = Current[p]
<1>1. CASE ActiveOn({p}) = {}
  BY <1>1 DEF Current
<1>2. ASSUME NEW s \in ActiveOn({p}) PROVE Current'[p] = Current[p]
  <2>1. s \in active /\ PlatformOf[device[s]] = p /\ Current[p] = device[s]
    BY CurrentOf DEF ActiveOn
  <2>2. s \in active' /\ PlatformOf[device'[s]] = p
    BY <2>1 DEF ActiveOn
  <2>3. ActiveOn({p}) = {s}
    BY <2>1 DEF SessionInv, OneActiveSession, ActiveOn
  <2>. QED  BY <2>1, <2>3 DEF Current
<1>. QED  BY <1>1, <1>2

LEMMA RegistryStep ==
    SessionInv /\ [Next]_vars /\ SessionInv' => [Registry!Next]_Current
<1>. SUFFICES ASSUME SessionInv, [Next]_vars, SessionInv'
              PROVE  Registry!Next \/ Current' = Current
  OBVIOUS
<1>c. Current = [p \in Platforms |-> Current[p]] /\ Current' = [p \in Platforms |-> Current'[p]]
  BY DEF Current
<1>1. ASSUME device' = device, active' = active PROVE Current' = Current
  BY <1>1 DEF Current, ActiveOn
<1>2. ASSUME NEW s \in Sessions, RegisterCommit(s) PROVE Registry!Next
  <2>0. PICK d \in Devices : d = task[Loop].token
    BY <1>2 DEF RegisterCommit, At, Callers, SessionInv, InsertOK
  <2>. DEFINE p == PlatformOf[d]
  <2>1. /\ task[Loop].platform = p /\ device[s] = None
        /\ \A q \in task[Loop].rows : device[q] # None /\ PlatformOf[device[q]] = p
    BY <1>2, <2>0 DEF RegisterCommit, NextRow, At, Callers, SessionInv, InsertOK
  <2>2. /\ active' = (active \ task[Loop].rows) \union {s}
        /\ device'[s] = d
        /\ s \notin active
        /\ \A q \in active : device'[q] = device[q]
    BY <1>2, <2>0, <2>1 DEF RegisterCommit, SessionInv, TypeOK
  <2>3. p \in Platforms /\ Current'[p] = d
    <3>1. s \in active' /\ PlatformOf[device'[s]] = p
      BY <2>2
    <3>2. \A q \in active' : PlatformOf[device'[q]] = p => q = s
      BY <3>1 DEF SessionInv, OneActiveSession
    <3>3. p \in Platforms
      BY <2>1, DeviceAssumption
    <3>. HIDE DEF p
    <3>4. ActiveOn({p})' = {s}
      BY <3>1, <3>2 DEF ActiveOn
    <3>. QED  BY <3>3, <3>4, <2>2 DEF Current
  <2>4. \A q \in Platforms \ {p} : Current'[q] = Current[q]
    <3>. TAKE q \in Platforms \ {p}
    <3>1. ActiveOn({q})' = ActiveOn({q})
      BY <2>1, <2>2 DEF ActiveOn
    <3>. QED  BY <3>1, <2>2, CurrentKept DEF ActiveOn
  <2>5. Current' = [Current EXCEPT ![p] = d]
    BY <1>c, <2>3, <2>4
  <2>. QED  BY <2>1, <2>5 DEF Registry!Next, Registry!Login
<1>3. ASSUME NEW c \in Callers, LogoutCommit(c) PROVE Registry!Next \/ Current' = Current
  <2>1. device' = device /\ (active' = active \/ active' = active \ task[c].rows)
    BY <1>3 DEF LogoutCommit
  <2>2. CASE active' = active
    BY <1>1, <2>1, <2>2
  <2>3. CASE active' = active \ task[c].rows
    <3>. DEFINE P == {p \in Platforms : ActiveOn({p}) # ActiveOn({p})'}
    <3>1. ASSUME NEW p \in P PROVE Current'[p] = None
      <4>1. PICK s \in active : s \in ActiveOn({p}) /\ s \notin active'
        BY <2>1, <2>3 DEF ActiveOn
      <4>2. ActiveOn({p})' = {}
        BY <2>1, <2>3, <4>1 DEF SessionInv, OneActiveSession, ActiveOn
      <4>. QED  BY <4>2 DEF Current
    <3>2. ASSUME NEW p \in Platforms \ P PROVE Current'[p] = Current[p]
      BY <2>1, <3>2, CurrentKept
    <3>3. Current' = [p \in Platforms |-> IF p \in P THEN None ELSE Current[p]]
      BY <1>c, <3>1, <3>2
    <3>. QED  BY <3>3 DEF Registry!Next, Registry!Logout
  <2>. QED  BY <2>1, <2>2, <2>3
<1>4. ASSUME \A s \in Sessions : ~ RegisterCommit(s), \A c \in Callers : ~ LogoutCommit(c)
      PROVE  device' = device /\ active' = active
  BY <1>4 DEF Next, Proceed, RegisterRead, RegisterAbort, LogoutRequest, LogoutRead,
     ReadToken, ChatPush, ReadPlatform, Query, FillToken, FillPlatform, Send,
     Uninstall, ExpireToken, ExpirePlatform, vars, rowVars
<1>. QED  BY <1>1, <1>2, <1>3, <1>4

\* The rows, with their reads and commits apart, implement the registry: atomic
\* logins that replace the device of their own platform, and logouts.
THEOREM RegistryRefined == Spec => ImplementsRegistry
<1>1. Init => Registry!Init
  BY DEF Init, Registry!Init, Current, ActiveOn
<1>. QED
  BY <1>1, SessionsInvariant, RegistryStep, PTL DEF Spec, ImplementsRegistry, Registry!Spec

\* What is shown of the sessions by themselves holds of the composition.
THEOREM DevicesAlone == SignInSpec => Spec
<1>1. SignInInit => Init
  BY DEF SignInInit
<1>2. [SignInNext]_<<focus, vars, accessVars>> => [Next]_vars
  BY DEF SignInNext
<1>. QED  BY <1>1, <1>2, PTL DEF SignInSpec, Spec


-----------------------------------------------------------------------------
(* Access tokens                                                           *)

\* A token belongs to one account: its JWTs, its metadata and the session that
\* points to it agree.  Only a driver's JWT comes without one.
OwnerInv ==
    /\ \A j, k \in jwts : j.tok = k.tok /\ j.tok # Access!NoToken => j.acct = k.acct
    /\ \A j \in jwts, a \in Accounts : Access!Points(a, j.tok) => a = j.acct
    /\ \A j \in jwts :
           /\ j.tok # Access!NoToken /\ meta[j.tok] # None => meta[j.tok].acct = j.acct
           /\ j.tok = Access!NoToken => KindOf[j.acct] = "driver"
    /\ \A a, b \in Accounts, t \in Tokens : Access!Points(a, t) /\ Access!Points(b, t) => a = b
    /\ \A a \in Accounts, t \in Tokens :
           Access!Points(a, t) /\ meta[t] # None => meta[t].acct = a

TokenInv == Access!TypeOK /\ OwnerInv

\* Until introspection brings a token of a driver back, no token of the driver has
\* metadata for longer than the driver's session lasts.
DriverInv ==
    \A t \in Tokens :
        /\ meta[t] # None
        /\ KindOf[meta[t].acct] = "driver" /\ meta[t].acct \notin restored
        => /\ session[meta[t].acct] # None
           /\ meta[t].left <= session[meta[t].acct].left

\* What a step does to a token that is in somebody's hands: no session comes to
\* point to it, and its metadata does not come back unless one does.
HeldTokens ==
    \A a \in Accounts, t \in Tokens :
        Access!Held(a, t) =>
            /\ \A x \in Accounts :
                   session'[x] # None /\ session'[x].tok = t =>
                       session[x] # None /\ session[x].tok = t
            /\ meta[t] = None /\ ~Access!Points(a, t) => meta'[t] = None

\* A token that was never seen is handed out to account a.
Issued(a, t) ==
    /\ Access!Fresh(t)
    /\ jwts' = jwts \union {[acct |-> a, tok |-> t, left |-> JwtLife]}
    /\ known' = known \union {a}
    /\ meta' \in [Access!Keys -> Access!Meta \union {None}]
    /\ \A k \in Access!Keys : \/ meta'[k] \in {meta[k], None}
                              \/ k = t /\ meta'[k] # None /\ meta'[k].acct = a
    /\ session' \in [Accounts -> Access!Session \union {None}]
    /\ \A x \in Accounts : \/ session'[x] \in {session[x], None}
                           \/ x = a /\ session'[x] # None /\ session'[x].tok = t
    /\ faults' \in 0..MaxFaults
    /\ UNCHANGED <<rows, enabled, otp, restored>>
    /\ preAuth' \in [Access!Persons -> 0..PreAuthTtl]

LEMMA NoneIsNone == None \notin Access!Meta /\ None \notin Access!Session /\ None \notin Access!Otp
BY AccessAssumption

LEMMA IssuedKeeps ==
    ASSUME TokenInv, NEW a \in Accounts, NEW t \in Tokens, Issued(a, t)
    PROVE  TokenInv' /\ HeldTokens
<1>1. /\ jwts \in SUBSET Access!Jwt /\ session \in [Accounts -> Access!Session \union {None}]
      /\ meta \in [Access!Keys -> Access!Meta \union {None}]
  BY DEF TokenInv, Access!TypeOK
<1>2. t # Access!NoToken /\ t \in Access!Keys
  BY AccessAssumption DEF Access!Keys
<1>3. PICK i : i = [acct |-> a, tok |-> t, left |-> JwtLife]
  OBVIOUS
<1>4. i \in Access!Jwt /\ i.acct = a /\ i.tok = t
  BY <1>2, <1>3, AccessAssumption DEF Access!Jwt, Access!Lives
<1>5. jwts' = jwts \union {i} /\ \A j \in jwts : j.tok # t
  BY <1>3 DEF Issued, Access!Fresh
<1>6. \A x \in Accounts : ~ (session[x] # None /\ session[x].tok = t)
  BY DEF Issued, Access!Fresh, Access!Points
<1>7. Access!TypeOK'
  <2>1. jwts' \in SUBSET Access!Jwt /\ known' \in SUBSET Accounts
    BY <1>1, <1>4, <1>5 DEF TokenInv, Access!TypeOK, Issued
  <2>. QED  BY <2>1 DEF TokenInv, Access!TypeOK, Issued
<1>8. ASSUME NEW x \in Accounts, NEW u \in Tokens, u # t, session'[x] # None, session'[x].tok = u
      PROVE  session[x] # None /\ session[x].tok = u
  BY <1>8 DEF Issued
<1>9. \A x \in Accounts : session'[x] # None => session'[x].tok \in Tokens
  BY NoneIsNone DEF Issued, Access!Session
<1>10. OwnerInv'
  <2>1. ASSUME NEW j \in jwts', NEW k \in jwts', j.tok = k.tok, j.tok # Access!NoToken
        PROVE  j.acct = k.acct
    BY <1>4, <1>5, <2>1 DEF TokenInv, OwnerInv
  <2>2. ASSUME NEW j \in jwts', NEW x \in Accounts, session'[x] # None, session'[x].tok = j.tok
        PROVE  x = j.acct
    <3>1. CASE j = i
      BY <1>4, <1>6, <2>2, <3>1 DEF Issued
    <3>2. CASE j # i
      <4>1. j \in jwts /\ j.tok # t /\ j.tok \in Tokens
        BY <1>5, <1>9, <2>2, <3>2
      <4>. QED  BY <1>8, <2>2, <4>1 DEF TokenInv, OwnerInv, Access!Points
    <3>. QED  BY <3>1, <3>2
  <2>3. ASSUME NEW j \in jwts'
        PROVE  /\ j.tok # Access!NoToken /\ meta'[j.tok] # None => meta'[j.tok].acct = j.acct
               /\ j.tok = Access!NoToken => KindOf[j.acct] = "driver"
    <3>1. CASE j = i
      <4>1. meta[t] = None
        BY DEF Issued, Access!Fresh
      <4>. QED  BY <1>2, <1>4, <3>1, <4>1 DEF Issued
    <3>2. CASE j # i
      <4>1. j \in jwts /\ j.tok # t /\ j.tok \in Access!Keys
        BY <1>1, <1>5, <3>2 DEF Access!Jwt
      <4>. QED  BY <4>1 DEF TokenInv, OwnerInv, Issued
    <3>. QED  BY <3>1, <3>2
  <2>4. ASSUME NEW x \in Accounts, NEW y \in Accounts, NEW u \in Tokens,
               session'[x] # None, session'[x].tok = u, session'[y] # None, session'[y].tok = u
        PROVE  x = y
    <3>1. CASE u = t
      BY <1>6, <2>4, <3>1 DEF Issued
    <3>2. CASE u # t
      BY <1>8, <2>4, <3>2 DEF TokenInv, OwnerInv, Access!Points
    <3>. QED  BY <3>1, <3>2
  <2>5. ASSUME NEW x \in Accounts, NEW u \in Tokens,
               session'[x] # None, session'[x].tok = u, meta'[u] # None
        PROVE  meta'[u].acct = x
    <3>. u \in Access!Keys
      BY DEF Access!Keys
    <3>1. CASE u = t
      <4>1. meta[t] = None
        BY DEF Issued, Access!Fresh
      <4>. QED  BY <1>6, <2>5, <3>1, <4>1 DEF Issued
    <3>2. CASE u # t
      BY <1>8, <2>5, <3>2 DEF Issued, TokenInv, OwnerInv, Access!Points
    <3>. QED  BY <3>1, <3>2
  <2>. QED  BY <2>1, <2>2, <2>3, <2>4, <2>5 DEF OwnerInv, Access!Points
<1>11. HeldTokens
  <2>. SUFFICES ASSUME NEW b \in Accounts, NEW u \in Tokens, Access!Held(b, u)
                PROVE  /\ \A x \in Accounts :
                              session'[x] # None /\ session'[x].tok = u =>
                                  session[x] # None /\ session[x].tok = u
                       /\ meta[u] = None => meta'[u] = None
    BY DEF HeldTokens
  <2>1. u # t
    BY <1>5 DEF Access!Held
  <2>2. u \in Access!Keys
    BY DEF Access!Keys
  <2>. QED  BY <1>8, <2>1, <2>2 DEF Issued
<1>. QED  BY <1>7, <1>10, <1>11 DEF TokenInv

\* What store_opaque_token makes of the metadata m.
LEMMA StoredType ==
    ASSUME Access!TypeOK, NEW a \in Accounts, NEW t \in Tokens, NEW m, NEW ttl \in 1..JwtLife,
           m \in [Access!Keys -> Access!Meta \union {None}],
           \A k \in Access!Keys : m[k] \in {meta[k], None},
           Access!Stored(m, a, t, ttl)
    PROVE  /\ meta' \in [Access!Keys -> Access!Meta \union {None}]
           /\ \A k \in Access!Keys : \/ meta'[k] \in {meta[k], None}
                                     \/ /\ k = t /\ meta'[k] # None
                                        /\ meta'[k].acct = a /\ meta'[k].left = ttl
           /\ faults' \in 0..MaxFaults
<1>1. PICK n : n = [acct |-> a, left |-> ttl]
  OBVIOUS
<1>2. n \in Access!Meta /\ n.acct = a /\ n.left = ttl
  BY <1>1 DEF Access!Meta, Access!Lives
<1>3. t \in Access!Keys /\ n # None
  BY <1>2, NoneIsNone DEF Access!Keys
<1>4. faults \in 0..MaxFaults /\ MaxFaults \in Nat
  BY AccessAssumption DEF Access!TypeOK
<1>5. CASE meta' = [m EXCEPT ![t] = n] /\ UNCHANGED faults
  BY <1>1, <1>2, <1>3, <1>4, <1>5
<1>6. CASE faults < MaxFaults /\ faults' = faults + 1 /\ meta' = m
  BY <1>4, <1>6
<1>. QED  BY <1>1, <1>5, <1>6 DEF Access!Stored

LEMMA WithoutOldType ==
    ASSUME Access!TypeOK, NEW a \in Accounts
    PROVE  /\ Access!WithoutOld(a) \in [Access!Keys -> Access!Meta \union {None}]
           /\ \A k \in Access!Keys : Access!WithoutOld(a)[k] \in {meta[k], None}
BY DEF Access!TypeOK, Access!WithoutOld

\* A new session is one.
LEMMA NewSession ==
    ASSUME NEW t \in Tokens, NEW s, s = [tok |-> t, left |-> SessionTtl]
    PROVE  s \in Access!Session /\ s # None /\ s.tok = t
BY AccessAssumption, NoneIsNone DEF Access!Session

LEMMA TakeSessionIssues ==
    ASSUME TokenInv, NEW a \in Accounts, NEW t \in Tokens, Access!TakeSession(a, t),
           UNCHANGED <<rows, enabled, otp, restored>>, preAuth' \in [Access!Persons -> 0..PreAuthTtl]
    PROVE  Issued(a, t)
<1>1. PICK m, s : m = Access!WithoutOld(a) /\ s = [tok |-> t, left |-> SessionTtl]
  OBVIOUS
<1>2. Access!Fresh(t) /\ Access!Stored(m, a, t, SessionTtl) /\ Access!HandOut(a, t)
      /\ session' = [session EXCEPT ![a] = s]
  BY <1>1 DEF Access!TakeSession
<1>3. SessionTtl \in 1..JwtLife
  BY AccessAssumption
<1>4. /\ meta' \in [Access!Keys -> Access!Meta \union {None}] /\ faults' \in 0..MaxFaults
      /\ \A k \in Access!Keys : \/ meta'[k] \in {meta[k], None}
                                \/ k = t /\ meta'[k] # None /\ meta'[k].acct = a
  BY <1>1, <1>2, <1>3, WithoutOldType, StoredType DEF TokenInv
<1>5. session \in [Accounts -> Access!Session \union {None}]
  BY DEF TokenInv, Access!TypeOK
<1>6. s \in Access!Session /\ s # None /\ s.tok = t
  BY <1>1, NewSession
<1>. QED  BY <1>2, <1>4, <1>5, <1>6 DEF Issued, Access!HandOut

\* A login or a refresh beside the session, which may come to point to the token.
LEMMA BesideIssues ==
    ASSUME TokenInv, NEW a \in Accounts, NEW t \in Tokens, NEW ttl \in {SessionTtl, VendorTtl},
           Access!Fresh(t), Access!Stored(meta, a, t, ttl), Access!HandOut(a, t),
           \/ UNCHANGED session
           \/ session' = [session EXCEPT ![a] = [tok |-> t, left |-> SessionTtl]],
           UNCHANGED <<rows, enabled, otp, preAuth, restored>>
    PROVE  Issued(a, t)
<1>1. PICK m, s : m = meta /\ s = [tok |-> t, left |-> SessionTtl]
  OBVIOUS
<1>2. ttl \in 1..JwtLife
  BY AccessAssumption
<1>3. m \in [Access!Keys -> Access!Meta \union {None}] /\ Access!Stored(m, a, t, ttl)
  BY <1>1 DEF TokenInv, Access!TypeOK
<1>4. /\ meta' \in [Access!Keys -> Access!Meta \union {None}] /\ faults' \in 0..MaxFaults
      /\ \A k \in Access!Keys : \/ meta'[k] \in {meta[k], None}
                                \/ k = t /\ meta'[k] # None /\ meta'[k].acct = a
  BY <1>1, <1>2, <1>3, StoredType DEF TokenInv
<1>5. session \in [Accounts -> Access!Session \union {None}]
      /\ preAuth \in [Access!Persons -> 0..PreAuthTtl]
  BY DEF TokenInv, Access!TypeOK
<1>6. s \in Access!Session /\ s # None /\ s.tok = t
  BY <1>1, NewSession
<1>7. session' = session \/ session' = [session EXCEPT ![a] = s]
  BY <1>1
<1>. QED  BY <1>4, <1>5, <1>6, <1>7 DEF Issued, Access!HandOut

LEMMA LoginIssues ==
    ASSUME TokenInv, NEW a \in Accounts, NEW t \in Tokens,
           Access!Login(a, t) \/ Access!RefreshToken(a, t)
    PROVE  Issued(a, t)
<1>1. preAuth \in [Access!Persons -> 0..PreAuthTtl] /\ PreAuthTtl \in Nat
  BY AccessAssumption DEF TokenInv, Access!TypeOK
<1>2. CASE Access!EmployeeLogin(a, t) \/ Access!DriverSelectTenant(a, t) \/ Access!EscortLogin(a, t)
  BY <1>1, <1>2, TakeSessionIssues
  DEF Access!EmployeeLogin, Access!DriverSelectTenant, Access!EscortLogin
<1>3. CASE Access!SelectEmployeeTenant(a, t)
  <2>1. preAuth' \in [Access!Persons -> 0..PreAuthTtl]
    <3>1. PICK p : p = PersonOf[a]
      OBVIOUS
    <3>2. preAuth' = [preAuth EXCEPT ![p] = 0] /\ 0 \in 0..PreAuthTtl
      BY <1>1, <1>3, <3>1 DEF Access!SelectEmployeeTenant
    <3>. QED  BY <1>1, <3>2
  <2>. QED  BY <1>3, <2>1, TakeSessionIssues DEF Access!SelectEmployeeTenant
<1>4. CASE Access!VendorUserLogin(a, t)
  BY <1>4, BesideIssues DEF Access!VendorUserLogin
<1>5. CASE Access!AdminLogin(a, t)
  BY <1>5, BesideIssues DEF Access!AdminLogin
<1>6. CASE Access!RefreshToken(a, t)
  BY <1>6, BesideIssues DEF Access!RefreshToken
<1>. QED  BY <1>2, <1>3, <1>4, <1>5, <1>6 DEF Access!Login

\* The caller's account: the metadata of a token names the owner of its JWTs.
LEMMA BearerOf ==
    ASSUME TokenInv, NEW j \in jwts
    PROVE  /\ Access!Bearer(j) \in Accounts /\ j.acct \in Accounts /\ j.tok \in Access!Keys
           /\ j.tok # Access!NoToken => Access!Bearer(j) = j.acct /\ j.tok \in Tokens
<1>1. j.acct \in Accounts /\ j.tok \in Access!Keys
  BY DEF TokenInv, Access!TypeOK, Access!Jwt
<1>2. meta[j.tok] # None => meta[j.tok].acct \in Accounts
  BY <1>1 DEF TokenInv, Access!TypeOK, Access!Meta
<1>. QED  BY <1>1, <1>2 DEF TokenInv, OwnerInv, Access!Bearer, Access!Keys

LEMMA SwitchIssues ==
    ASSUME TokenInv, NEW j \in jwts, NEW b \in Accounts, NEW t \in Tokens,
           Access!SwitchEmployeeTenant(j, b, t)
    PROVE  Issued(b, t)
<1>1. PICK c \in rows :
          /\ Access!Fresh(t) /\ Access!MoveSession(c, b, j, t)
          /\ UNCHANGED <<rows, enabled, otp, preAuth, restored>>
  BY DEF Access!SwitchEmployeeTenant
<1>2. PICK m, s : /\ m = IF j.tok = Access!NoToken THEN Access!WithoutOld(b)
                         ELSE [Access!WithoutOld(b) EXCEPT ![j.tok] = None]
                  /\ s = [tok |-> t, left |-> SessionTtl]
  OBVIOUS
<1>3. /\ Access!Stored(m, b, t, SessionTtl) /\ Access!HandOut(b, t)
      /\ \/ session' = [session EXCEPT ![b] = s]
         \/ session' = [session EXCEPT ![b] = s, ![c] = None]
  BY <1>1, <1>2 DEF Access!MoveSession
<1>4. /\ m \in [Access!Keys -> Access!Meta \union {None}]
      /\ \A k \in Access!Keys : m[k] \in {meta[k], None}
  BY <1>2, WithoutOldType DEF TokenInv
<1>5. SessionTtl \in 1..JwtLife
  BY AccessAssumption
<1>6. /\ meta' \in [Access!Keys -> Access!Meta \union {None}] /\ faults' \in 0..MaxFaults
      /\ \A k \in Access!Keys : \/ meta'[k] \in {meta[k], None}
                                \/ k = t /\ meta'[k] # None /\ meta'[k].acct = b
  BY <1>3, <1>4, <1>5, StoredType DEF TokenInv
<1>7. session \in [Accounts -> Access!Session \union {None}]
      /\ preAuth \in [Access!Persons -> 0..PreAuthTtl]
  BY DEF TokenInv, Access!TypeOK
<1>8. s \in Access!Session /\ s # None /\ s.tok = t
  BY <1>2, NewSession
<1>. QED  BY <1>1, <1>3, <1>6, <1>7, <1>8 DEF Issued, Access!HandOut

-----------------------------------------------------------------------------
\* Steps that hand out no token of their own.  What a JWT, a key or a session
\* loses is a tick of its life; what stays keeps its account and its token.
Kept ==
    /\ Access!TypeOK'
    /\ \A j \in jwts' : \E k \in jwts : j.acct = k.acct /\ j.tok = k.tok
    /\ \A k \in Access!Keys : meta'[k] # None => meta[k] # None /\ meta'[k].acct = meta[k].acct
    /\ \A x \in Accounts : session'[x] # None => session[x] # None /\ session'[x].tok = session[x].tok

LEMMA KeptKeeps ==
    ASSUME TokenInv, Kept
    PROVE  TokenInv' /\ HeldTokens
<1>1. ASSUME NEW x \in Accounts, NEW u, session'[x] # None, session'[x].tok = u
      PROVE  session[x] # None /\ session[x].tok = u
  BY <1>1 DEF Kept
<1>2. ASSUME NEW j \in jwts'
      PROVE  \E k \in jwts : j.acct = k.acct /\ j.tok = k.tok /\ k.tok \in Access!Keys
  BY DEF Kept, TokenInv, Access!TypeOK, Access!Jwt
<1>3. OwnerInv'
  <2>1. ASSUME NEW j \in jwts', NEW k \in jwts', j.tok = k.tok, j.tok # Access!NoToken
        PROVE  j.acct = k.acct
    BY <1>2, <2>1 DEF TokenInv, OwnerInv
  <2>2. ASSUME NEW j \in jwts', NEW x \in Accounts, session'[x] # None, session'[x].tok = j.tok
        PROVE  x = j.acct
    BY <1>1, <1>2, <2>2 DEF TokenInv, OwnerInv, Access!Points
  <2>3. ASSUME NEW j \in jwts'
        PROVE  /\ j.tok # Access!NoToken /\ meta'[j.tok] # None => meta'[j.tok].acct = j.acct
               /\ j.tok = Access!NoToken => KindOf[j.acct] = "driver"
    BY <1>2 DEF Kept, TokenInv, OwnerInv
  <2>4. ASSUME NEW x \in Accounts, NEW y \in Accounts, NEW u \in Tokens,
               session'[x] # None, session'[x].tok = u, session'[y] # None, session'[y].tok = u
        PROVE  x = y
    BY <1>1, <2>4 DEF TokenInv, OwnerInv, Access!Points
  <2>5. ASSUME NEW x \in Accounts, NEW u \in Tokens,
               session'[x] # None, session'[x].tok = u, meta'[u] # None
        PROVE  meta'[u].acct = x
    BY <1>1, <2>5 DEF Kept, TokenInv, OwnerInv, Access!Points, Access!Keys
  <2>. QED  BY <2>1, <2>2, <2>3, <2>4, <2>5 DEF OwnerInv, Access!Points
<1>4. HeldTokens
  BY <1>1 DEF HeldTokens, Kept, Access!Keys
<1>. QED  BY <1>3, <1>4 DEF TokenInv, Kept

\* One-time passwords and switching an account on and off touch no token.
LEMMA StoreKept ==
    ASSUME TokenInv, UNCHANGED <<rows, jwts, meta, session, known, restored, faults>>,
           otp' \in [Access!Persons -> Access!Otp \union {None}],
           preAuth' \in [Access!Persons -> 0..PreAuthTtl],
           enabled' \in [Accounts -> BOOLEAN]
    PROVE  Kept
BY DEF Kept, TokenInv, Access!TypeOK

LEMMA OtpKept ==
    ASSUME TokenInv, NEW p \in Access!Persons,
           Access!RequestEmployeeOtp(p) \/ Access!VerifyWrongOtp(p) \/ Access!VerifyEmployeeOtp(p)
    PROVE  Kept
<1>1. /\ otp \in [Access!Persons -> Access!Otp \union {None}]
      /\ preAuth \in [Access!Persons -> 0..PreAuthTtl] /\ enabled \in [Accounts -> BOOLEAN]
      /\ MaxAttempts \in Nat /\ OtpTtl \in Nat \ {0} /\ PreAuthTtl \in Nat
  BY AccessAssumption DEF TokenInv, Access!TypeOK
<1>2. UNCHANGED <<rows, jwts, meta, session, known, restored, faults, enabled>>
  BY DEF Access!RequestEmployeeOtp, Access!VerifyWrongOtp, Access!VerifyEmployeeOtp,
         Access!storeVars
<1>3. CASE Access!RequestEmployeeOtp(p)
  <2>1. PICK o : o = [wrong |-> 0, left |-> OtpTtl]
    OBVIOUS
  <2>2. o \in Access!Otp
    BY <1>1, <2>1 DEF Access!Otp
  <2>3. otp' = [otp EXCEPT ![p] = o] /\ UNCHANGED preAuth
    BY <1>3, <2>1 DEF Access!RequestEmployeeOtp
  <2>. QED  BY <1>1, <1>2, <2>2, <2>3, StoreKept
<1>4. CASE Access!VerifyWrongOtp(p)
  <2>1. PICK o : o = [otp[p] EXCEPT !.wrong = @ + 1]
    OBVIOUS
  <2>2. otp[p] \in Access!Otp
    BY <1>1, <1>4 DEF Access!VerifyWrongOtp
  <2>3. otp[p].wrong # MaxAttempts => o \in Access!Otp
    BY <1>1, <2>1, <2>2 DEF Access!Otp
  <2>4. /\ otp' = IF otp[p].wrong = MaxAttempts THEN [otp EXCEPT ![p] = None]
                  ELSE [otp EXCEPT ![p] = o]
        /\ UNCHANGED preAuth
    BY <1>1, <1>4, <2>1 DEF Access!VerifyWrongOtp
  <2>. QED  BY <1>1, <1>2, <2>3, <2>4, StoreKept
<1>5. CASE Access!VerifyEmployeeOtp(p)
  <2>1. /\ otp' = [otp EXCEPT ![p] = None]
        /\ preAuth' = preAuth \/ preAuth' = [preAuth EXCEPT ![p] = PreAuthTtl]
    BY <1>5 DEF Access!VerifyEmployeeOtp
  <2>. QED  BY <1>1, <1>2, <2>1, StoreKept
<1>. QED  BY <1>3, <1>4, <1>5

LEMMA SetActiveKept ==
    ASSUME TokenInv, NEW a \in Accounts, NEW on \in BOOLEAN, Access!SetActive(a, on)
    PROVE  Kept
<1>1. enabled' \in [Accounts -> BOOLEAN]
  BY DEF TokenInv, Access!TypeOK, Access!SetActive
<1>. QED  BY <1>1, StoreKept DEF TokenInv, Access!TypeOK, Access!SetActive, Access!storeVars

\* What has one tick left is gone.
LEMMA AgedMeta ==
    ASSUME NEW m \in Access!Meta \union {None}, NEW n, n = Access!Aged(m)
    PROVE  /\ n \in Access!Meta \union {None}
           /\ n # None => m # None /\ n.acct = m.acct /\ n.left = m.left - 1
           /\ m # None /\ n = None => m.left = 1
BY AccessAssumption, NoneIsNone DEF Access!Meta, Access!Lives, Access!Aged

LEMMA AgedSession ==
    ASSUME NEW m \in Access!Session \union {None}, m # None => m.left # 0,
           NEW n, n = IF m = None THEN None ELSE [m EXCEPT !.left = @ - 1]
    PROVE  /\ n \in Access!Session \union {None}
           /\ n # None <=> m # None
           /\ n # None => n.tok = m.tok /\ n.left = m.left - 1
BY AccessAssumption, NoneIsNone DEF Access!Session

LEMMA AgedOtp ==
    ASSUME NEW m \in Access!Otp \union {None}
    PROVE  Access!Aged(m) \in Access!Otp \union {None}
BY AccessAssumption, NoneIsNone DEF Access!Otp, Access!Aged

LEMMA TickKept ==
    ASSUME TokenInv, Access!Tick
    PROVE  Kept
<1>1. /\ jwts \in SUBSET Access!Jwt /\ session \in [Accounts -> Access!Session \union {None}]
      /\ meta \in [Access!Keys -> Access!Meta \union {None}]
      /\ otp \in [Access!Persons -> Access!Otp \union {None}]
      /\ preAuth \in [Access!Persons -> 0..PreAuthTtl] /\ PreAuthTtl \in Nat
  BY AccessAssumption DEF TokenInv, Access!TypeOK
<1>2. ASSUME NEW j \in jwts'
      PROVE  j \in Access!Jwt /\ \E k \in jwts : j.acct = k.acct /\ j.tok = k.tok
  <2>1. PICK k \in jwts : k.left > 1 /\ j = [k EXCEPT !.left = @ - 1]
    BY DEF Access!Tick
  <2>2. k \in Access!Jwt
    BY <1>1
  <2>. QED  BY <2>1, <2>2, AccessAssumption DEF Access!Jwt, Access!Lives
<1>3. /\ \A k \in Access!Keys : meta'[k] \in Access!Meta \union {None}
      /\ \A k \in Access!Keys : meta'[k] # None => meta[k] # None /\ meta'[k].acct = meta[k].acct
  <2>. SUFFICES ASSUME NEW k \in Access!Keys
                PROVE  /\ meta'[k] \in Access!Meta \union {None}
                       /\ meta'[k] # None => meta[k] # None /\ meta'[k].acct = meta[k].acct
    OBVIOUS
  <2>1. PICK m, n : m \in Access!Meta \union {None} /\ m = meta[k] /\ n = Access!Aged(m)
    BY <1>1
  <2>2. meta'[k] = n
    BY <2>1 DEF Access!Tick
  <2>. QED  BY <2>1, <2>2, AgedMeta
<1>4. /\ \A x \in Accounts : session'[x] \in Access!Session \union {None}
      /\ \A x \in Accounts :
             session'[x] # None => session[x] # None /\ session'[x].tok = session[x].tok
  <2>. SUFFICES ASSUME NEW x \in Accounts
                PROVE  /\ session'[x] \in Access!Session \union {None}
                       /\ session'[x] # None => session[x] # None /\ session'[x].tok = session[x].tok
    OBVIOUS
  <2>1. PICK m, n : /\ m \in Access!Session \union {None} /\ m = session[x]
                    /\ n = IF m = None THEN None ELSE [m EXCEPT !.left = @ - 1]
    BY <1>1
  <2>2. session'[x] = n /\ (m # None => m.left # 0)
    BY <2>1 DEF Access!Tick, Access!Lapsing
  <2>. QED  BY <2>1, <2>2, AgedSession
<1>5. \A p \in Access!Persons : otp'[p] \in Access!Otp \union {None}
  BY <1>1, AgedOtp DEF Access!Tick
<1>6. preAuth' \in [Access!Persons -> 0..PreAuthTtl]
  BY <1>1 DEF Access!Tick
<1>7. /\ jwts' \in SUBSET Access!Jwt
      /\ meta' \in [Access!Keys -> Access!Meta \union {None}]
      /\ session' \in [Accounts -> Access!Session \union {None}]
      /\ otp' \in [Access!Persons -> Access!Otp \union {None}]
  BY <1>2, <1>3, <1>4, <1>5 DEF Access!Tick
<1>8. Access!TypeOK'
  BY <1>6, <1>7 DEF TokenInv, Access!TypeOK, Access!Tick
<1>. QED  BY <1>2, <1>3, <1>4, <1>8 DEF Kept

LEMMA LapseKept ==
    ASSUME TokenInv, NEW a \in Accounts, Access!Lapse(a)
    PROVE  Kept
BY DEF Kept, TokenInv, Access!TypeOK, Access!Lapse

\* The driver's own refresh.
LEMMA DriverRefreshKeeps ==
    ASSUME TokenInv, NEW a \in Accounts, Access!DriverRefreshToken(a)
    PROVE  TokenInv' /\ HeldTokens
<1>1. PICK i : i = [acct |-> a, tok |-> Access!NoToken, left |-> JwtLife]
  OBVIOUS
<1>2. i \in Access!Jwt /\ i.acct = a /\ i.tok = Access!NoToken
  BY <1>1, AccessAssumption DEF Access!Jwt, Access!Lives, Access!Keys
<1>3. /\ jwts' = jwts \union {i} /\ known' = known \union {a} /\ KindOf[a] = "driver"
      /\ UNCHANGED <<rows, meta, session, enabled, otp, preAuth, restored, faults>>
  BY <1>1 DEF Access!DriverRefreshToken, Access!HandOut
<1>4. Access!TypeOK'
  BY <1>2, <1>3 DEF TokenInv, Access!TypeOK
<1>5. \A x \in Accounts : session[x] # None => session[x].tok # Access!NoToken
  BY AccessAssumption, NoneIsNone DEF TokenInv, Access!TypeOK, Access!Session
<1>6. OwnerInv'
  <2>1. ASSUME NEW j \in jwts', NEW k \in jwts', j.tok = k.tok, j.tok # Access!NoToken
        PROVE  j.acct = k.acct
    BY <1>2, <1>3, <2>1 DEF TokenInv, OwnerInv
  <2>2. ASSUME NEW j \in jwts', NEW x \in Accounts, session'[x] # None, session'[x].tok = j.tok
        PROVE  x = j.acct
    BY <1>2, <1>3, <1>5, <2>2 DEF TokenInv, OwnerInv, Access!Points
  <2>3. ASSUME NEW j \in jwts'
        PROVE  /\ j.tok # Access!NoToken /\ meta'[j.tok] # None => meta'[j.tok].acct = j.acct
               /\ j.tok = Access!NoToken => KindOf[j.acct] = "driver"
    BY <1>2, <1>3 DEF TokenInv, OwnerInv
  <2>. QED  BY <1>3, <2>1, <2>2, <2>3 DEF TokenInv, OwnerInv, Access!Points
<1>7. HeldTokens
  BY <1>3 DEF HeldTokens
<1>. QED  BY <1>4, <1>6, <1>7 DEF TokenInv

\* Introspection brings the metadata of a token back for the account whose session
\* points to it; or it is that of a JWT without a token.
LEMMA RevalidateKeeps ==
    ASSUME TokenInv, NEW j \in jwts, Access!Revalidate(j)
    PROVE  TokenInv' /\ HeldTokens
<1>1. /\ jwts \in SUBSET Access!Jwt /\ session \in [Accounts -> Access!Session \union {None}]
      /\ meta \in [Access!Keys -> Access!Meta \union {None}]
      /\ j \in Access!Jwt /\ j.acct \in Accounts /\ j.tok \in Access!Keys /\ j.left \in 1..JwtLife
  BY DEF TokenInv, Access!TypeOK, Access!Jwt, Access!Lives
<1>2. PICK n \in Access!Meta, a \in Accounts, t \in Access!Keys :
          n = [acct |-> j.acct, left |-> j.left] /\ a = j.acct /\ t = j.tok
  BY <1>1 DEF Access!Meta, Access!Lives
<1>3. n.acct = a /\ n # None
  BY <1>2, NoneIsNone
<1>4. /\ meta[t] = None /\ meta' = [meta EXCEPT ![t] = n]
      /\ t = Access!NoToken \/ (session[a] # None /\ session[a].tok = t)
      /\ UNCHANGED <<rows, jwts, known, enabled, otp, preAuth, faults>>
  BY <1>2 DEF Access!Revalidate, Access!Introspected, Access!Points
<1>5. PICK s : s = [session[a] EXCEPT !.left = Short]
  OBVIOUS
<1>6. session' = IF t = Access!NoToken THEN session ELSE [session EXCEPT ![a] = s]
  BY <1>2, <1>5 DEF Access!Revalidate
<1>7. session[a] # None => s \in Access!Session /\ s.tok = session[a].tok /\ s # None
  BY <1>1, <1>5, AccessAssumption, NoneIsNone DEF Access!Session
<1>8. /\ session' \in [Accounts -> Access!Session \union {None}]
      /\ \A x \in Accounts :
             session'[x] # None => session[x] # None /\ session'[x].tok = session[x].tok
  BY <1>1, <1>4, <1>6, <1>7
<1>9. Access!TypeOK'
  <2>1. restored' \subseteq Accounts
    BY <1>1 DEF TokenInv, Access!TypeOK, Access!Revalidate
  <2>. QED  BY <1>1, <1>3, <1>4, <1>8, <2>1 DEF TokenInv, Access!TypeOK
<1>10. OwnerInv'
  <2>1. ASSUME NEW k \in jwts', k.tok # Access!NoToken, meta'[k.tok] # None
        PROVE  meta'[k.tok].acct = k.acct
    <3>1. CASE k.tok = t
      <4>1. k.acct = a
        BY <1>2, <1>4, <2>1, <3>1 DEF TokenInv, OwnerInv
      <4>. QED  BY <1>1, <1>3, <1>4, <3>1, <4>1
    <3>2. CASE k.tok # t
      BY <1>1, <1>4, <2>1, <3>2 DEF TokenInv, OwnerInv, Access!Jwt
    <3>. QED  BY <3>1, <3>2
  <2>2. ASSUME NEW k \in jwts, NEW x \in Accounts, session'[x] # None, session'[x].tok = k.tok
        PROVE  x = k.acct
    BY <1>8, <2>2 DEF TokenInv, OwnerInv, Access!Points
  <2>3. ASSUME NEW x \in Accounts, NEW y \in Accounts, NEW u \in Tokens,
               session'[x] # None, session'[x].tok = u, session'[y] # None, session'[y].tok = u
        PROVE  x = y
    BY <1>8, <2>3 DEF TokenInv, OwnerInv, Access!Points
  <2>4. ASSUME NEW x \in Accounts, NEW u \in Tokens,
               session'[x] # None, session'[x].tok = u, meta'[u] # None
        PROVE  meta'[u].acct = x
    <3>. u \in Access!Keys /\ session[x] # None /\ session[x].tok = u
      BY <1>8, <2>4 DEF Access!Keys
    <3>1. CASE u = t
      <4>1. x = a
        BY <1>2, <3>1 DEF TokenInv, OwnerInv, Access!Points
      <4>. QED  BY <1>1, <1>3, <1>4, <3>1, <4>1
    <3>2. CASE u # t
      BY <1>1, <1>4, <2>4, <3>2 DEF TokenInv, OwnerInv, Access!Points
    <3>. QED  BY <3>1, <3>2
  <2>. QED  BY <1>4, <2>1, <2>2, <2>3, <2>4 DEF TokenInv, OwnerInv, Access!Points
<1>11. HeldTokens
  <2>. SUFFICES ASSUME NEW b \in Accounts, NEW u \in Tokens, Access!Held(b, u),
                       meta[u] = None, ~Access!Points(b, u)
                PROVE  meta'[u] = None
    BY <1>8 DEF HeldTokens
  <2>1. u # t
    <3>. SUFFICES ASSUME u = t  PROVE FALSE
      OBVIOUS
    <3>1. t # Access!NoToken /\ Access!Points(a, t)
      BY <1>4, AccessAssumption DEF Access!Points
    <3>2. a = b
      BY <1>2, <3>1 DEF Access!Held, TokenInv, OwnerInv
    <3>. QED  BY <3>1, <3>2
  <2>. QED  BY <1>1, <1>4, <2>1 DEF Access!Keys
<1>. QED  BY <1>9, <1>10, <1>11 DEF TokenInv

LEMMA TokenStep ==
    ASSUME TokenInv, Access!Next
    PROVE  TokenInv' /\ HeldTokens
<1>. rows \subseteq Accounts
  BY AccessAssumption DEF TokenInv, Access!TypeOK
<1>1. CASE \E a \in rows, t \in Tokens : Access!Login(a, t) \/ Access!RefreshToken(a, t)
  BY <1>1, LoginIssues, IssuedKeeps
<1>2. CASE \E a \in rows : Access!DriverRefreshToken(a)
  BY <1>2, DriverRefreshKeeps
<1>3. CASE \E a \in rows, on \in BOOLEAN : Access!SetActive(a, on)
  BY <1>3, SetActiveKept, KeptKeeps
<1>4. CASE \E j \in jwts : Access!Revalidate(j)
  BY <1>4, RevalidateKeeps
<1>5. CASE \E j \in jwts : \E b \in rows, t \in Tokens : Access!SwitchEmployeeTenant(j, b, t)
  BY <1>5, SwitchIssues, IssuedKeeps
<1>6. CASE \E p \in Access!Persons : \/ Access!RequestEmployeeOtp(p) \/ Access!VerifyWrongOtp(p)
                                     \/ Access!VerifyEmployeeOtp(p)
  BY <1>6, OtpKept, KeptKeeps
<1>7. CASE Access!Tick
  BY <1>7, TickKept, KeptKeeps
<1>8. CASE \E a \in Accounts : Access!Lapse(a)
  BY <1>8, LapseKept, KeptKeeps
<1>. QED  BY <1>1, <1>2, <1>3, <1>4, <1>5, <1>6, <1>7, <1>8 DEF Access!Next, Access!Time

-----------------------------------------------------------------------------
(* A driver's tokens                                                       *)

\* No driver's metadata comes or changes, nor a session of a driver, but for those
\* a token of whom is brought back.
DriversApart ==
    /\ restored \subseteq restored'
    /\ \A u \in Tokens :
           /\ meta'[u] # None
           /\ KindOf[meta'[u].acct] = "driver" /\ meta'[u].acct \notin restored'
           => meta'[u] = meta[u] /\ session'[meta[u].acct] = session[meta[u].acct]

LEMMA ApartKeeps ==
    ASSUME DriverInv, DriversApart
    PROVE  DriverInv'
BY DEF DriverInv, DriversApart

\* Somebody takes a new token, and tokens before it lose their metadata or keep
\* it.  If it is a driver, the session comes to point to the new one; if not, the
\* sessions of the drivers stay.
LEMMA Takes ==
    ASSUME TokenInv, DriverInv, NEW a \in Accounts, NEW t \in Tokens, NEW ttl \in 1..JwtLife,
           NEW s, s = [tok |-> t, left |-> SessionTtl],
           \A k \in Access!Keys : \/ meta'[k] \in {meta[k], None}
                                  \/ /\ k = t /\ meta'[k] # None
                                     /\ meta'[k].acct = a /\ meta'[k].left = ttl,
           restored' = restored,
           IF KindOf[a] = "driver" THEN ttl = SessionTtl /\ session' = [session EXCEPT ![a] = s]
           ELSE \A x \in Accounts : KindOf[x] = "driver" => session'[x] = session[x]
    PROVE  DriverInv'
<1>1. /\ session \in [Accounts -> Access!Session \union {None}]
      /\ meta \in [Access!Keys -> Access!Meta \union {None}]
      /\ SessionTtl \in Nat
  BY AccessAssumption DEF TokenInv, Access!TypeOK
<1>2. s # None /\ s.left = SessionTtl
  BY NewSession
<1>. SUFFICES ASSUME NEW u \in Tokens, meta'[u] # None,
                     KindOf[meta'[u].acct] = "driver", meta'[u].acct \notin restored
              PROVE  session'[meta'[u].acct] # None /\ meta'[u].left <= session'[meta'[u].acct].left
  BY DEF DriverInv
<1>3. u \in Access!Keys
  BY DEF Access!Keys
<1>4. CASE meta'[u] = meta[u]
  <2>1. PICK x \in Accounts : x = meta[u].acct
    BY <1>1, <1>3, <1>4 DEF Access!Meta
  <2>2. session[x] # None /\ meta[u].left <= session[x].left
    BY <1>4, <2>1 DEF DriverInv
  <2>3. session[x].left \in 0..SessionTtl /\ meta[u].left \in Nat
    BY <1>1, <1>3, <1>4, <2>2, AccessAssumption DEF Access!Session, Access!Meta, Access!Lives
  <2>4. session'[x] = session[x] \/ session'[x] = s
    BY <1>1, <1>4, <2>1
  <2>. QED  BY <1>1, <1>2, <1>4, <2>1, <2>2, <2>3, <2>4
<1>5. CASE meta'[u].acct = a /\ meta'[u].left = ttl
  BY <1>1, <1>2, <1>5
<1>. QED  BY <1>3, <1>4, <1>5

\* A login or a refresh.
LEMMA StoreTakes ==
    ASSUME TokenInv, DriverInv, NEW a \in Accounts, NEW t \in Tokens, NEW ttl \in 1..JwtLife,
           NEW m, m \in [Access!Keys -> Access!Meta \union {None}],
           \A k \in Access!Keys : m[k] \in {meta[k], None},
           Access!Stored(m, a, t, ttl), restored' = restored,
           IF KindOf[a] = "driver"
           THEN /\ ttl = SessionTtl
                /\ session' = [session EXCEPT ![a] = [tok |-> t, left |-> SessionTtl]]
           ELSE \A x \in Accounts : KindOf[x] = "driver" => session'[x] = session[x]
    PROVE  DriverInv'
<1>1. \A k \in Access!Keys : \/ meta'[k] \in {meta[k], None}
                             \/ /\ k = t /\ meta'[k] # None
                                /\ meta'[k].acct = a /\ meta'[k].left = ttl
  BY StoredType DEF TokenInv
<1>2. PICK s : s = [tok |-> t, left |-> SessionTtl]
  OBVIOUS
<1>. QED  BY <1>1, <1>2, Takes

\* A session that is taken over is that of the account itself.
LEMMA OwnSession ==
    ASSUME TokenInv, NEW a \in Accounts, KindOf[a] # "driver", NEW s,
           session' = session \/ session' = [session EXCEPT ![a] = s]
    PROVE  \A x \in Accounts : KindOf[x] = "driver" => session'[x] = session[x]
BY DEF TokenInv, Access!TypeOK

LEMMA LoginTakes ==
    ASSUME TokenInv, DriverInv, NEW a \in Accounts, NEW t \in Tokens,
           Access!Login(a, t) \/ Access!RefreshToken(a, t)
    PROVE  DriverInv'
<1>1. PICK s : s = [tok |-> t, left |-> SessionTtl]
  OBVIOUS
<1>2. {SessionTtl, VendorTtl} \subseteq 1..JwtLife
  BY AccessAssumption
<1>3. CASE Access!TakeSession(a, t) /\ UNCHANGED restored
  <2>1. PICK m : m = Access!WithoutOld(a)
    OBVIOUS
  <2>2. /\ m \in [Access!Keys -> Access!Meta \union {None}]
        /\ \A k \in Access!Keys : m[k] \in {meta[k], None}
    BY <2>1, WithoutOldType DEF TokenInv
  <2>3. Access!Stored(m, a, t, SessionTtl) /\ session' = [session EXCEPT ![a] = s]
    BY <1>1, <1>3, <2>1 DEF Access!TakeSession
  <2>4. KindOf[a] # "driver" =>
            \A x \in Accounts : KindOf[x] = "driver" => session'[x] = session[x]
    BY <2>3, OwnSession
  <2>. QED  BY <1>1, <1>2, <1>3, <2>2, <2>3, <2>4, StoreTakes
<1>4. PICK m : m = meta
  OBVIOUS
<1>5. /\ m \in [Access!Keys -> Access!Meta \union {None}]
      /\ \A k \in Access!Keys : m[k] \in {meta[k], None}
  BY <1>4 DEF TokenInv, Access!TypeOK
<1>6. CASE Access!VendorUserLogin(a, t) \/ Access!AdminLogin(a, t)
  <2>1. KindOf[a] # "driver" /\ session' = session /\ restored' = restored
    BY <1>6 DEF Access!VendorUserLogin, Access!AdminLogin
  <2>2. Access!Stored(m, a, t, VendorTtl) \/ Access!Stored(m, a, t, SessionTtl)
    BY <1>4, <1>6 DEF Access!VendorUserLogin, Access!AdminLogin
  <2>. QED  BY <1>2, <1>5, <2>1, <2>2, StoreTakes
<1>7. CASE Access!RefreshToken(a, t)
  <2>1. Access!Stored(m, a, t, SessionTtl) /\ restored' = restored
    BY <1>4, <1>7 DEF Access!RefreshToken
  <2>2. KindOf[a] = "driver" => session' = [session EXCEPT ![a] = s]
    BY <1>1, <1>7 DEF Access!RefreshToken, Access!Enforced
  <2>3. session' = session \/ session' = [session EXCEPT ![a] = s]
    BY <1>1, <1>7 DEF Access!RefreshToken
  <2>4. KindOf[a] # "driver" =>
            \A x \in Accounts : KindOf[x] = "driver" => session'[x] = session[x]
    BY <2>3, OwnSession
  <2>. QED  BY <1>1, <1>2, <1>5, <2>1, <2>2, <2>4, StoreTakes
<1>. QED  BY <1>3, <1>6, <1>7
          DEF Access!Login, Access!EmployeeLogin, Access!SelectEmployeeTenant,
              Access!DriverSelectTenant, Access!EscortLogin

\* Switching gives a token to an employee, and ends the session of one at most.
LEMMA SwitchTakes ==
    ASSUME TokenInv, DriverInv, NEW j \in jwts, NEW b \in Accounts, NEW t \in Tokens,
           Access!SwitchEmployeeTenant(j, b, t)
    PROVE  DriverInv'
<1>1. rows \subseteq Accounts
  BY AccessAssumption DEF TokenInv, Access!TypeOK
<1>2. PICK c \in Accounts :
          /\ KindOf[c] = "employee" /\ PersonOf[b] = PersonOf[c]
          /\ Access!MoveSession(c, b, j, t) /\ restored' = restored
  BY <1>1 DEF Access!SwitchEmployeeTenant
<1>3. KindOf[b] = "employee"
  BY <1>2, AccessAssumption
<1>4. PICK m, s : /\ m = IF j.tok = Access!NoToken THEN Access!WithoutOld(b)
                         ELSE [Access!WithoutOld(b) EXCEPT ![j.tok] = None]
                  /\ s = [tok |-> t, left |-> SessionTtl]
  OBVIOUS
<1>5. /\ Access!Stored(m, b, t, SessionTtl)
      /\ \/ session' = [session EXCEPT ![b] = s]
         \/ session' = [session EXCEPT ![b] = s, ![c] = None]
  BY <1>2, <1>4 DEF Access!MoveSession
<1>6. /\ m \in [Access!Keys -> Access!Meta \union {None}]
      /\ \A k \in Access!Keys : m[k] \in {meta[k], None}
  BY <1>4, WithoutOldType DEF TokenInv
<1>7. \A x \in Accounts : KindOf[x] = "driver" => session'[x] = session[x]
  BY <1>2, <1>3, <1>5 DEF TokenInv, Access!TypeOK
<1>8. SessionTtl \in 1..JwtLife
  BY AccessAssumption
<1>. QED  BY <1>2, <1>3, <1>5, <1>6, <1>7, <1>8, StoreTakes

\* Introspection shortens the session of an account it brings a token back for.
LEMMA RevalidateApart ==
    ASSUME TokenInv, DriverInv, NEW j \in jwts, Access!Revalidate(j)
    PROVE  DriverInv'
<1>1. PICK n, a, t : n = [acct |-> j.acct, left |-> j.left] /\ a = j.acct /\ t = j.tok
  OBVIOUS
<1>2. a \in Accounts /\ t \in Access!Keys /\ n.acct = a
  BY <1>1, BearerOf
<1>3. meta' = [meta EXCEPT ![t] = n]
  BY <1>1 DEF Access!Revalidate
<1>4. PICK s : s = [session[a] EXCEPT !.left = Short]
  OBVIOUS
<1>5. /\ session' = IF t = Access!NoToken THEN session ELSE [session EXCEPT ![a] = s]
      /\ restored' = IF t = Access!NoToken THEN restored ELSE restored \union {a}
  BY <1>1, <1>4 DEF Access!Revalidate
<1>6. /\ session \in [Accounts -> Access!Session \union {None}]
      /\ meta \in [Access!Keys -> Access!Meta \union {None}]
  BY DEF TokenInv, Access!TypeOK
<1>7. ASSUME NEW u \in Tokens, meta'[u] # None, meta'[u].acct \notin restored'
      PROVE  meta'[u] = meta[u] /\ session'[meta[u].acct] = session[meta[u].acct]
  <2>1. u \in Access!Keys /\ u # Access!NoToken
    BY AccessAssumption DEF Access!Keys
  <2>2. u # t
    BY <1>2, <1>3, <1>5, <1>6, <1>7, <2>1
  <2>3. meta'[u] = meta[u]
    BY <1>3, <1>6, <2>1, <2>2
  <2>4. PICK x \in Accounts : x = meta[u].acct
    BY <1>6, <1>7, <2>1, <2>3 DEF Access!Meta
  <2>. QED  BY <1>2, <1>5, <1>6, <1>7, <2>3, <2>4
<1>. QED  BY <1>5, <1>7, ApartKeeps DEF DriversApart

\* Metadata and session grow old together.
LEMMA TickApart ==
    ASSUME TokenInv, DriverInv, Access!Tick
    PROVE  DriverInv'
<1>1. /\ session \in [Accounts -> Access!Session \union {None}]
      /\ meta \in [Access!Keys -> Access!Meta \union {None}]
      /\ restored' = restored
  BY DEF TokenInv, Access!TypeOK, Access!Tick
<1>. SUFFICES ASSUME NEW u \in Tokens, meta'[u] # None,
                     KindOf[meta'[u].acct] = "driver", meta'[u].acct \notin restored
              PROVE  session'[meta'[u].acct] # None /\ meta'[u].left <= session'[meta'[u].acct].left
  BY <1>1 DEF DriverInv
<1>2. u \in Access!Keys
  BY DEF Access!Keys
<1>3. PICK m, n : m = meta[u] /\ n = Access!Aged(m)
  OBVIOUS
<1>4. m \in Access!Meta \union {None} /\ meta'[u] = n
  BY <1>1, <1>2, <1>3 DEF Access!Tick
<1>5. /\ meta[u] # None /\ meta'[u].acct = meta[u].acct /\ meta'[u].left = meta[u].left - 1
      /\ meta[u] \in Access!Meta
  BY <1>3, <1>4, AgedMeta
<1>6. PICK a \in Accounts : a = meta[u].acct
  BY <1>5 DEF Access!Meta
<1>7. session[a] # None /\ meta[u].left <= session[a].left
  BY <1>5, <1>6 DEF DriverInv
<1>8. PICK o, w : o = session[a] /\ w = IF o = None THEN None ELSE [o EXCEPT !.left = @ - 1]
  OBVIOUS
<1>9. o \in Access!Session \union {None} /\ session'[a] = w /\ (o # None => o.left # 0)
  BY <1>1, <1>6, <1>8 DEF Access!Tick, Access!Lapsing
<1>10. session'[a] # None /\ session'[a].left = session[a].left - 1
  BY <1>7, <1>8, <1>9, AgedSession
<1>11. meta[u].left \in Nat /\ session[a].left \in Nat
  BY <1>1, <1>5, <1>6, <1>7, AccessAssumption DEF Access!Meta, Access!Lives, Access!Session
<1>. QED  BY <1>5, <1>6, <1>7, <1>10, <1>11

\* The metadata is gone when the session lapses.
LEMMA LapseApart ==
    ASSUME TokenInv, DriverInv, NEW a \in Accounts, Access!Lapse(a)
    PROVE  DriverInv'
<1>1. /\ session \in [Accounts -> Access!Session \union {None}]
      /\ meta \in [Access!Keys -> Access!Meta \union {None}]
      /\ meta' = meta /\ restored' = restored
      /\ session' = [session EXCEPT ![a] = None] /\ session[a].left = 0
  BY DEF TokenInv, Access!TypeOK, Access!Lapse, Access!Lapsing
<1>2. ASSUME NEW u \in Tokens, meta[u] # None, KindOf[meta[u].acct] = "driver",
             meta[u].acct \notin restored
      PROVE  session'[meta[u].acct] = session[meta[u].acct]
  <2>1. meta[u].acct \in Accounts /\ meta[u].left \in Nat \ {0}
    BY <1>1, <1>2, AccessAssumption DEF Access!Keys, Access!Meta, Access!Lives
  <2>2. meta[u].acct # a
    BY <1>1, <1>2, <2>1 DEF DriverInv
  <2>. QED  BY <1>1, <2>1, <2>2
<1>. QED  BY <1>1, <1>2, ApartKeeps DEF DriversApart

LEMMA DriverStep ==
    ASSUME TokenInv, DriverInv, Access!Next
    PROVE  DriverInv'
<1>. rows \subseteq Accounts
  BY AccessAssumption DEF TokenInv, Access!TypeOK
<1>1. CASE UNCHANGED <<meta, session, restored>>
  BY <1>1 DEF DriverInv
<1>2. CASE \E a \in rows, t \in Tokens : Access!Login(a, t) \/ Access!RefreshToken(a, t)
  BY <1>2, LoginTakes
<1>3. CASE \E a \in rows : \/ Access!DriverRefreshToken(a)
                           \/ \E on \in BOOLEAN : Access!SetActive(a, on)
  <2>1. UNCHANGED <<meta, session, restored>>
    BY <1>3 DEF Access!DriverRefreshToken, Access!SetActive, Access!storeVars
  <2>. QED  BY <1>1, <2>1
<1>4. CASE \E j \in jwts : Access!Revalidate(j)
  BY <1>4, RevalidateApart
<1>5. CASE \E j \in jwts : \E b \in rows, t \in Tokens : Access!SwitchEmployeeTenant(j, b, t)
  BY <1>5, SwitchTakes
<1>6. CASE \E p \in Access!Persons : \/ Access!RequestEmployeeOtp(p) \/ Access!VerifyWrongOtp(p)
                                     \/ Access!VerifyEmployeeOtp(p)
  <2>1. UNCHANGED <<meta, session, restored>>
    BY <1>6 DEF Access!RequestEmployeeOtp, Access!VerifyWrongOtp, Access!VerifyEmployeeOtp,
                Access!storeVars
  <2>. QED  BY <1>1, <2>1
<1>7. CASE Access!Tick
  BY <1>7, TickApart
<1>8. CASE \E a \in Accounts : Access!Lapse(a)
  BY <1>8, LapseApart
<1>. QED  BY <1>2, <1>3, <1>4, <1>5, <1>6, <1>7, <1>8 DEF Access!Next, Access!Time

-----------------------------------------------------------------------------
\* What a step makes of a revoked token, and of one that a driver has replaced.
LEMMA RevokedStep ==
    ASSUME TokenInv, Access!Next, NEW a \in Accounts, NEW t \in Tokens,
           Access!Held(a, t), meta[t] = None, ~Access!Points(a, t)
    PROVE  ~Access!SomeAccepted(a, t)'
<1>1. meta'[t] = None /\ t # Access!NoToken
  BY TokenStep, AccessAssumption DEF HeldTokens
<1>2. ~ (session'[a] # None /\ session'[a].tok = t)
  BY TokenStep DEF HeldTokens, Access!Points
<1>. QED  BY <1>1, <1>2
          DEF Access!SomeAccepted, Access!Accepted, Access!Introspected, Access!Points

LEMMA ReplacedStep ==
    ASSUME TokenInv, DriverInv, Access!Next, NEW a \in Accounts, a \notin restored',
           NEW t \in Tokens, KindOf[a] = "driver", Access!Held(a, t), Access!Replaced(a, t)
    PROVE  ~Access!SomeAccepted(a, t)'
<1>1. TokenInv' /\ DriverInv' /\ HeldTokens
  BY TokenStep, DriverStep
<1>2. ~ (session'[a] # None /\ session'[a].tok = t)
  BY <1>1 DEF HeldTokens, Access!Replaced
<1>3. CASE session'[a] # None
  BY <1>2, <1>3 DEF Access!SomeAccepted, Access!Accepted, Access!Replaced, Access!Enforced
<1>4. CASE session'[a] = None
  <2>. SUFFICES ASSUME NEW j \in jwts', j.acct = a, j.tok = t, Access!Accepted(j)'
                PROVE  FALSE
    BY DEF Access!SomeAccepted
  <2>1. t # Access!NoToken
    BY AccessAssumption
  <2>2. meta'[t] # None
    BY <1>2, <2>1 DEF Access!Accepted, Access!Introspected, Access!Points
  <2>3. meta'[t].acct = a
    BY <1>1, <2>1, <2>2 DEF TokenInv, OwnerInv
  <2>. QED  BY <1>1, <1>4, <2>2, <2>3 DEF DriverInv
<1>. QED  BY <1>3, <1>4

LEMMA TokenStart ==
    ASSUME Access!Init
    PROVE  TokenInv /\ DriverInv
<1>1. Access!TypeOK
  BY AccessAssumption DEF Access!Init, Access!TypeOK
<1>2. OwnerInv
  BY DEF Access!Init, OwnerInv, Access!Points
<1>3. DriverInv
  BY DEF Access!Init, DriverInv, Access!Keys
<1>. QED  BY <1>1, <1>2, <1>3 DEF TokenInv

LEMMA TokenFrame ==
    ASSUME TokenInv, DriverInv, UNCHANGED accessVars
    PROVE  TokenInv' /\ DriverInv'
<1>1. Access!TypeOK'
  BY DEF accessVars, TokenInv, Access!TypeOK
<1>2. OwnerInv'
  BY DEF accessVars, TokenInv, OwnerInv, Access!Points
<1>3. DriverInv'
  BY DEF accessVars, DriverInv
<1>. QED  BY <1>1, <1>2, <1>3 DEF TokenInv

LEMMA TokensAlways == SignInSpec => [](TokenInv /\ DriverInv)
<1>1. SignInInit => TokenInv /\ DriverInv
  BY TokenStart DEF SignInInit
<1>2. TokenInv /\ DriverInv /\ [SignInNext]_<<focus, vars, accessVars>>
          => (TokenInv /\ DriverInv)'
  BY TokenStep, DriverStep, TokenFrame DEF SignInNext
<1>. QED  BY <1>1, <1>2, PTL DEF SignInSpec

\* A token whose metadata is gone and that no session points to is not accepted
\* again, whatever is introspected, refreshed and switched, whichever JWTs still
\* carry it, and however often Redis fails to store what it is told to
\* (validate_oauth2_token, introspect_token_direct).
THEOREM RevokedForGood == SignInSpec => RevokedStaysRevoked
<1>1. TokenInv /\ DriverInv /\ [SignInNext]_<<focus, vars, accessVars>>
          => [\A a \in Accounts, t \in Tokens :
                  Access!Held(a, t) /\ meta[t] = None /\ ~Access!Points(a, t)
                      => ~Access!SomeAccepted(a, t)']_(Access!vars)
  <2>. SUFFICES ASSUME TokenInv, [SignInNext]_<<focus, vars, accessVars>>,
                       ~UNCHANGED Access!vars
                PROVE  \A a \in Accounts, t \in Tokens :
                           Access!Held(a, t) /\ meta[t] = None /\ ~Access!Points(a, t)
                               => ~Access!SomeAccepted(a, t)'
    OBVIOUS
  <2>1. Access!Next
    BY DEF SignInNext, accessVars, Access!vars
  <2>. QED  BY <2>1, RevokedStep
<1>. QED  BY <1>1, TokensAlways, PTL DEF SignInSpec, RevokedStaysRevoked, Access!RevokedStaysRevoked

\* A driver's token that a later login or refresh has replaced is not accepted
\* again, although the session forgets what it replaced, as long as introspection
\* has brought back no token of the driver: no token of such a driver has metadata
\* for longer than the session lasts (store_opaque_token, TOKEN_EXPIRY_HOURS).
THEOREM ReplacedForGood == SignInSpec => DriverReplacedStaysOut
<1>1. TokenInv /\ DriverInv /\ [SignInNext]_<<focus, vars, accessVars>>
          => [\A a \in Accounts \ restored', t \in Tokens :
                  KindOf[a] = "driver" /\ Access!Held(a, t) /\ Access!Replaced(a, t)
                      => ~Access!SomeAccepted(a, t)']_(Access!vars)
  <2>. SUFFICES ASSUME TokenInv, DriverInv, [SignInNext]_<<focus, vars, accessVars>>,
                       ~UNCHANGED Access!vars
                PROVE  \A a \in Accounts \ restored', t \in Tokens :
                           KindOf[a] = "driver" /\ Access!Held(a, t) /\ Access!Replaced(a, t)
                               => ~Access!SomeAccepted(a, t)'
    OBVIOUS
  <2>1. Access!Next
    BY DEF SignInNext, accessVars, Access!vars
  <2>. QED  BY <2>1, ReplacedStep
<1>. QED  BY <1>1, TokensAlways, PTL
          DEF SignInSpec, DriverReplacedStaysOut, Access!DriverReplacedStaysOut
=============================================================================
