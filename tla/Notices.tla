------------------------------ MODULE Notices -------------------------------
(***************************************************************************)
(* What people are told: alerts, announcements, reminders and the chat.    *)
(* None of them reads what another one writes, so each is considered by    *)
(* itself: the initial state chooses one, and the others do not move.      *)
(***************************************************************************)
EXTENDS ReminderJob, Sequences

CONSTANTS
    Threads,                                      \* worker threads
    Roster, Targets, MaxRows,                     \* announcements
    Alerts, Owner, TypeOf, ChannelOf, Configs, Shapes, Keepers,
    MaxTasks, MaxLevel, MaxRestarts,              \* alerts
    Drivers, First, Langs, English, Choices, MaxCalls, MaxMoves   \* the chat

VARIABLES
    focus,       \* which one moves
    annStatus, live, target, device, receipts, publications, pushed, peak, annFaults,
    alertStatus, level, config, creating, tasks, told, restarts,
    assigned, session, mirror, messages, chats, begun, moves, came, crossed, overlapped,
    chatFaults

News == INSTANCE AnnouncementDesk WITH
            status <- annStatus, rows <- receipts, calls <- publications, faults <- annFaults
newsVars == <<annStatus, live, target, device, receipts, publications, pushed, peak, annFaults>>

Sos == INSTANCE AlertDesk WITH Threads <- Keepers, status <- alertStatus
alertsVars == <<alertStatus, level, config, creating, tasks, told, restarts>>

Chat == INSTANCE ChatDesk WITH calls <- chats, faults <- chatFaults
chatVars == <<assigned, session, mirror, messages, chats, begun, moves, came, crossed,
              overlapped, chatFaults>>

\* None is told from what is there.
ASSUME NewsAssumption ==
    /\ IsFiniteSet(Threads) /\ None \notin News!Call \union Threads
    /\ Roster \in Seq(News!People) /\ Targets \in SUBSET (SUBSET News!People)
    /\ {MaxRows, MaxFaults} \subseteq Nat
ASSUME SosAssumption ==
    /\ \A s \in Shapes : {s.primary, s.escalation} \subseteq Seq(DOMAIN ChannelOf)
    /\ None \notin Sos!Task \union Shapes
    /\ {MaxTasks, MaxLevel, MaxRestarts} \subseteq Nat
ASSUME ChatAssumption ==
    /\ First \subseteq Drivers \union {None} /\ English \in Langs /\ Choices \subseteq Langs
    /\ None \notin Chat!Call \union Chat!Session \union Langs
    /\ {MaxCalls, MaxMoves} \subseteq Nat

-----------------------------------------------------------------------------
\* Whoever does not move starts in one state.
NoticesInit ==
    /\ focus \in {"alerts", "news", "job", "chat"}
    /\ Sos!Init /\ Chat!Init /\ News!Init /\ Init
    /\ focus # "news" => target = (CHOOSE to \in Targets : TRUE) /\ device = [p \in News!People |-> "ok"]
    /\ focus # "job" => \A b, c \in Bookings : date[b] = date[c]

NoticesNext ==
    \/ focus = "alerts" /\ Sos!Next /\ UNCHANGED <<focus, newsVars, chatVars, vars>>
    \/ focus = "news"   /\ News!Next /\ UNCHANGED <<focus, alertsVars, chatVars, vars>>
    \/ focus = "job"    /\ Next /\ UNCHANGED <<focus, alertsVars, newsVars, chatVars>>
    \/ focus = "chat"   /\ Chat!Next /\ UNCHANGED <<focus, alertsVars, newsVars, vars>>

NoticesSpec == NoticesInit /\ [][NoticesNext]_<<focus, alertsVars, newsVars, chatVars, vars>>

-----------------------------------------------------------------------------
\* The properties of AlertDesk, of AnnouncementDesk and of ChatDesk, as they are
\* stated there; an invariant comes with the type invariant of its part.
NoneSkipped   == focus = "alerts" => Sos!TypeOK /\ Sos!NoneSkipped
ChatTold ==
    focus = "chat" =>
        Chat!TypeOK /\ Chat!PushedToDriver /\ Chat!WarnedOnce /\ Chat!MirrorMatches
PublishedOnce == focus = "news" => News!TypeOK /\ News!PushesBounded /\ News!NothingPending

ImplementsLifecycle == Sos!ImplementsLifecycle
=============================================================================
