----------------------------- MODULE AlertDesk ------------------------------
(***************************************************************************)
(* SOS alerts of one tenant.  Triggering, acknowledging, closing and       *)
(* escalating are coroutines without an await before their commit, so the  *)
(* event loop runs each in one step.  What they announce is left to        *)
(* background tasks of the same loop, which live in memory and let the     *)
(* loop go at every e-mail.  Deleting an alert and keeping the             *)
(* configurations is the work of threads.                                  *)
(***************************************************************************)
EXTENDS Naturals, Sequences

CONSTANTS
    Alerts,          \* the rows of alerts, as they come
    Owner,           \* the employee who raises an alert
    TypeOf,          \* the type of an alert
    Configs,         \* the rows of alert_configurations
    Shapes,          \* what a configuration may say
    ChannelOf,       \* the channel of a recipient's entry
    Threads,         \* worker threads that keep configurations
    MaxTasks,        \* bound: background tasks at a time
    MaxLevel,        \* bound: escalations of an alert
    MaxRestarts,     \* bound: restarts of the process
    None

Slots == 1..MaxTasks
Open  == {"TRIGGERED", "ACKNOWLEDGED"}
Ended == {"CLOSED", "FALSE_ALARM"}

\* is_false_alarm is kept in the status: close_alert writes both together.
AlertStatus == {"NONE", "DELETED"} \union Open \union Ended

VARIABLES
    status,        \* of each alert; who acknowledged or closed it is left out
    level,         \* the number of escalations
    config,        \* what each configuration says, None: no row
    creating,      \* the team that a thread is about to insert a row for
    tasks,         \* background tasks by slot, None: free
    told,          \* the notifications that are on record
    restarts

alertVars == <<status, level>>
vars == <<alertVars, config, creating, tasks, told, restarts>>

Recipients == DOMAIN ChannelOf
Teams      == {s.team : s \in Shapes}
Events     == {"TRIGGERED", "ESCALATED"} \union Open \union Ended
Lists      == UNION {{s.primary, s.escalation, s.primary \o s.escalation} : s \in Shapes}
Lefts      == UNION {{SubSeq(l, i, Len(l)) : i \in 1..(Len(l) + 1)} : l \in Lists}
Task   == [event : Events, alert : Alerts, config : Configs,
           at : {"queued", "sending", "mailing"}, left : Lefts \union {<<>>}]
Notice == [alert : Alerts, event : Events, to : Recipients]

\* The columns and the tasks hold what they may.
TypeOK ==
    /\ status \in [Alerts -> AlertStatus]
    /\ level \in [Alerts -> 0..MaxLevel]
    /\ config \in [Configs -> Shapes \union {None}]
    /\ creating \in [Threads -> Teams \union {"nothing"}]
    /\ tasks \in [Slots -> Task \union {None}]
    /\ told \in SUBSET Notice
    /\ restarts \in 0..MaxRestarts

Init ==
    /\ status = [a \in Alerts |-> "NONE"]
    /\ level = [a \in Alerts |-> 0]
    /\ config = [c \in Configs |-> None]
    /\ creating = [t \in Threads |-> "nothing"]
    /\ tasks = [k \in Slots |-> None]
    /\ told = {}
    /\ restarts = 0

-----------------------------------------------------------------------------
\* --- which configuration applies ------------------------------------------

\* get_applicable_configuration: one of the active rows of the highest
\* priority that cover the type, of the team if it has any, else of the tenant.
Covering(team, type) ==
    {c \in Configs : /\ config[c] # None
                     /\ config[c].active
                     /\ config[c].team = team
                     /\ type \in config[c].types}
Highest(C) == {c \in C : \A d \in C : config[d].priority <= config[c].priority}
Applicable(team, type) ==
    IF team # None /\ Covering(team, type) # {} THEN Highest(Covering(team, type))
    ELSE Highest(Covering(None, type))

\* No token carries a team_id, and the other endpoints do not ask for one.
TokenTeam == None

\* A coroutine leaves its announcement to a task.
Announce(a, event, C) ==
    IF C = {} THEN UNCHANGED tasks
    ELSE \E c \in C, k \in Slots :
             /\ tasks[k] = None /\ \A j \in Slots : j < k => tasks[j] # None
             /\ tasks' = [tasks EXCEPT ![k] = [event |-> event, alert |-> a, config |-> c,
                                               at |-> "queued", left |-> <<>>]]

\* Status updates are asked for by the configuration that was found.
AnnounceStatus(a, s) ==
    LET C == Applicable(None, TypeOf[a])
    IN  \/ Announce(a, s, {c \in C : config[c].notifyStatus})
        \/ (\E c \in C : ~config[c].notifyStatus) /\ UNCHANGED tasks

-----------------------------------------------------------------------------
\* --- the endpoints ----------------------------------------------------------

Waiting(e) == {a \in Alerts : Owner[a] = e /\ status[a] = "TRIGGERED"}

TriggerAlert(a) ==
    /\ status[a] = "NONE"
    /\ Waiting(Owner[a]) = {}
    /\ status' = [status EXCEPT ![a] = "TRIGGERED"]
    /\ Announce(a, "TRIGGERED", Applicable(TokenTeam, TypeOf[a]))
    /\ UNCHANGED <<level, config, creating, told, restarts>>

\* Any alert may be acknowledged; only one that waits changes its status.
AcknowledgeAlert(a) ==
    LET s == IF status[a] = "TRIGGERED" THEN "ACKNOWLEDGED" ELSE status[a]
    IN  /\ status[a] \in Open \union Ended
        /\ status' = [status EXCEPT ![a] = s]
        /\ AnnounceStatus(a, s)
        /\ UNCHANGED <<level, config, creating, told, restarts>>

\* Any alert may be closed, a closed one once more and with the other end.
CloseAlert(a, s) ==
    /\ status[a] \in Open \union Ended
    /\ status' = [status EXCEPT ![a] = s]
    /\ AnnounceStatus(a, s)
    /\ UNCHANGED <<level, config, creating, told, restarts>>

\* Mutant: an ended alert can be escalated.
EscalateAny(a) ==
    /\ status[a] \in Open \union Ended
    /\ level[a] < MaxLevel
    /\ level' = [level EXCEPT ![a] = @ + 1]
    /\ Announce(a, "ESCALATED", Applicable(None, TypeOf[a]))
    /\ UNCHANGED <<status, config, creating, told, restarts>>

EscalateAlert(a) ==
    /\ status[a] \in Open
    /\ level[a] < MaxLevel
    /\ level' = [level EXCEPT ![a] = @ + 1]
    /\ Announce(a, "ESCALATED", Applicable(None, TypeOf[a]))
    /\ UNCHANGED <<status, config, creating, told, restarts>>

\* The escalations and the notifications go with the alert.
DeleteAlert(a) ==
    /\ status[a] \in Open \union Ended
    /\ status' = [status EXCEPT ![a] = "DELETED"]
    /\ level' = [level EXCEPT ![a] = 0]
    /\ told' = {n \in told : n.alert # a}
    /\ UNCHANGED <<config, creating, tasks, restarts>>

-----------------------------------------------------------------------------
\* --- the configurations -----------------------------------------------------

\* One row per team, says the check; the insert comes in a later step.
CreateConfigCheck(t, team) ==
    /\ creating[t] = "nothing"
    /\ \A c \in Configs : config[c] # None => config[c].team # team
    /\ creating' = [creating EXCEPT ![t] = team]
    /\ UNCHANGED <<alertVars, config, tasks, told, restarts>>

CreateConfigInsert(t, c, s) ==
    /\ creating[t] = s.team
    /\ config[c] = None
    /\ config' = [config EXCEPT ![c] = s]
    /\ creating' = [creating EXCEPT ![t] = "nothing"]
    /\ UNCHANGED <<alertVars, tasks, told, restarts>>

\* An update writes any columns, the team among them, and looks at no other
\* row; a null is not written, so a team's row never becomes the tenant's.
UpdateConfig(c, s) ==
    /\ config[c] # None
    /\ s.team = None => config[c].team = None
    /\ config' = [config EXCEPT ![c] = s]
    /\ UNCHANGED <<alertVars, creating, tasks, told, restarts>>

DeleteConfig(c) ==
    /\ config[c] # None
    /\ config' = [config EXCEPT ![c] = None]
    /\ UNCHANGED <<alertVars, creating, tasks, told, restarts>>

-----------------------------------------------------------------------------
\* --- the background tasks ---------------------------------------------------

\* Whom a task writes to: the lists as they are when it starts.
RecipientsOf(event, s) ==
    CASE event = "ESCALATED" -> IF s.notifyEscalation THEN s.escalation ELSE <<>>
      [] event = "TRIGGERED" -> s.primary
      [] OTHER -> IF s.notifyStatus THEN s.primary \o s.escalation ELSE <<>>

\* The task reads its alert and its configuration again, and gives up when one
\* of them is gone.
TaskStart(k) ==
    LET t == tasks[k]
    IN  /\ t # None /\ t.at = "queued"
        /\ IF status[t.alert] = "DELETED" \/ config[t.config] = None
           THEN tasks' = [tasks EXCEPT ![k] = None]
           ELSE tasks' = [tasks EXCEPT ![k].at = "sending",
                                       ![k].left = RecipientsOf(t.event, config[t.config])]
        /\ UNCHANGED <<alertVars, config, creating, told, restarts>>

\* Mutant: a delivery that fails is taken off with the next one.
DeliverOrSkip(k) ==
    LET t == tasks[k]
    IN  \E n \in {1, Len(t.left)} :
            /\ told' = told \union {[alert |-> t.alert, event |-> t.event, to |-> Head(t.left)]}
            /\ tasks' = [tasks EXCEPT ![k].at = "sending",
                                      ![k].left = SubSeq(t.left, n + 1, Len(t.left))]

\* The row is inserted in one commit with the outcome, SENT or FAILED, and the
\* task goes on after either.  Without its alert the insert fails, and so does
\* the note of the failure: the task dies.
Deliver(k) ==
    LET t == tasks[k]
    IN  IF status[t.alert] = "DELETED"
        THEN tasks' = [tasks EXCEPT ![k] = None] /\ UNCHANGED told
        ELSE /\ told' = told \union {[alert |-> t.alert, event |-> t.event, to |-> Head(t.left)]}
             /\ tasks' = [tasks EXCEPT ![k].at = "sending", ![k].left = Tail(@)]

TaskSend(k) ==
    /\ tasks[k] # None /\ tasks[k].at = "sending" /\ tasks[k].left # <<>>
    /\ IF ChannelOf[Head(tasks[k].left)] = "EMAIL"
       THEN tasks' = [tasks EXCEPT ![k].at = "mailing"] /\ UNCHANGED told
       ELSE Deliver(k)
    /\ UNCHANGED <<alertVars, config, creating, restarts>>

\* The mail server has answered, or the call has failed.
TaskMailed(k) ==
    /\ tasks[k] # None /\ tasks[k].at = "mailing"
    /\ Deliver(k)
    /\ UNCHANGED <<alertVars, config, creating, restarts>>

TaskEnd(k) ==
    /\ tasks[k] # None /\ tasks[k].at = "sending" /\ tasks[k].left = <<>>
    /\ tasks' = [tasks EXCEPT ![k] = None]
    /\ UNCHANGED <<alertVars, config, creating, told, restarts>>

\* The process is restarted: what was only in memory is gone.
Restart ==
    /\ restarts < MaxRestarts
    /\ restarts' = restarts + 1
    /\ tasks' = [k \in Slots |-> None]
    /\ creating' = [t \in Threads |-> "nothing"]
    /\ UNCHANGED <<alertVars, config, told>>

-----------------------------------------------------------------------------
RunTask(k) == TaskStart(k) \/ TaskSend(k) \/ TaskMailed(k) \/ TaskEnd(k)

Next ==
    \/ \E a \in Alerts :
           \/ TriggerAlert(a) \/ AcknowledgeAlert(a) \/ EscalateAlert(a) \/ DeleteAlert(a)
           \/ \E s \in Ended : CloseAlert(a, s)
    \/ \E t \in Threads :
           \/ \E team \in Teams : CreateConfigCheck(t, team)
           \/ \E c \in Configs, s \in Shapes : CreateConfigInsert(t, c, s)
    \/ \E c \in Configs : DeleteConfig(c) \/ \E s \in Shapes : UpdateConfig(c, s)
    \/ \E k \in Slots : RunTask(k)
    \/ Restart

Spec == Init /\ [][Next]_vars

-----------------------------------------------------------------------------
\* The alerts implement the life that the API promises: an end is final, and no
\* escalation is added after it.
Life == [a \in Alerts |->
            CASE status[a] = "NONE" -> "none"
              [] status[a] = "TRIGGERED" -> "waiting"
              [] status[a] = "ACKNOWLEDGED" -> "attended"
              [] status[a] \in Ended -> "ended"
              [] OTHER -> "erased"]
Lifecycle == INSTANCE AlertLifecycle WITH life <- Life
ImplementsLifecycle == Lifecycle!Spec

\* Every primary recipient of an alert is tried, on every channel and whatever
\* failed before: a task that announces has tried all that come before the rest
\* of its list, whatever happens to the alert and the configuration meanwhile.
Tried(a, l) == \A i \in 1..Len(l) : [alert |-> a, event |-> "TRIGGERED", to |-> l[i]] \in told
NoneSkipped ==
    \A k \in Slots :
        LET t == tasks[k]
        IN  t # None /\ t.event = "TRIGGERED" /\ t.at # "queued" /\ status[t.alert] # "DELETED" =>
                \E s \in Shapes : \E i \in 1..(Len(s.primary) + 1) :
                    /\ t.left = SubSeq(s.primary, i, Len(s.primary))
                    /\ Tried(t.alert, SubSeq(s.primary, 1, i - 1))
=============================================================================
