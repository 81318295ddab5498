------------------------------ MODULE ChatDesk ------------------------------
(***************************************************************************)
(* The chat of one booking, between its employee and the driver of its     *)
(* route: a session row, the message rows, and their mirror in Firebase,   *)
(* which the apps listen to.  Every call runs in a worker thread, and what *)
(* a send leaves to do in the background follows its response, in order,   *)
(* beside other calls.  A call works with the session row as it read it.   *)
(***************************************************************************)
EXTENDS Naturals, Sequences, FiniteSets

CONSTANTS Drivers, Threads,
          First,            \* who may be assigned when the chat begins
          Langs, English,   \* languages, and the one of a new session
          Choices,          \* bound: languages that are asked for
          MaxCalls, MaxMoves, MaxFaults,   \* bounds: calls, assignments, faults; a
                            \* fault leaves one call less to begin
          None

VARIABLES
    assigned,   \* driver of the booking's route
    session,    \* the row of chat_sessions
    mirror,     \* languages in the session node
    messages,   \* the rows of chat_messages, each with its node
    calls,      \* what the threads do
    begun, moves,   \* calls and assignments so far
    came,       \* the assigned driver has been in the chat since the assignment
    crossed,    \* an assignment crossed a driver's call
    overlapped, \* two calls were under way together
    faults

office == <<assigned, begun, moves, crossed, overlapped>>   \* what the steps of a call leave alone
vars   == <<office, session, mirror, messages, calls, came, faults>>

Sides   == {"employee", "driver"}
Steps   == {"create", "init", "warn", "reconcile", "save", "write", "push", "patch", "note",
            "row", "node"}
Session == [driver : Drivers \union {None}, lang : [Sides -> Langs]]

\* node: nothing, only a translation, or all of it; shown, noted: the translation
\* in the node and in the row; to: whom the push was for; due: whom it should be for.
Message == [from : Sides \union {"system"}, node : {"none", "part", "whole"},
            shown : Langs \union {None}, noted : Langs \union {None},
            to : Drivers \union {"employee", "nobody", None}, due : Drivers \union {None}]

\* todo: what is left; driver: the caller, or whom an employee's call that creates
\* the session found on the route; seen: the session as it was read; msg: the
\* message that was saved.
Call == [side : Sides, driver : Drivers \union {None}, todo : Seq(Steps),
         lang : Langs \union {None}, seen : Session \union {None}, msg : Nat,
         due : Drivers \union {None}]

\* The rows and the calls hold what they may.
TypeOK ==
    /\ assigned \in Drivers \union {None}
    /\ session \in Session \union {None}
    /\ mirror \in [Sides -> Langs \union {None}]
    /\ messages \in Seq(Message)
    /\ calls \in [Threads -> Call \union {None}]
    /\ \A t \in Threads : calls[t] # None => calls[t].todo # <<>>
    /\ {came, crossed, overlapped} \subseteq BOOLEAN
    /\ begun \in 0..MaxCalls /\ moves \in 0..MaxMoves /\ faults \in 0..MaxFaults

Init ==
    /\ assigned \in First
    /\ session = None /\ mirror = [s \in Sides |-> None] /\ messages = <<>>
    /\ calls = [t \in Threads |-> None]
    /\ begun = 0 /\ moves = 0 /\ faults = 0
    /\ came = FALSE /\ crossed = FALSE /\ overlapped = FALSE

-----------------------------------------------------------------------------
Has(todo, step) == \E i \in DOMAIN todo : todo[i] = step

\* The office assigns a driver to the route, or takes the booking off it.
AssignDriver(d) ==
    /\ moves < MaxMoves /\ moves' = moves + 1
    /\ assigned' = d /\ d # assigned
    /\ came' = FALSE
    /\ crossed' = (crossed \/ \E t \in Threads : /\ calls[t] # None
                                                 /\ Has(calls[t].todo, "reconcile"))
    /\ UNCHANGED <<session, mirror, messages, calls, begun, overlapped, faults>>

-----------------------------------------------------------------------------
\* What a call does, from what it reads: a new session has English on both sides,
\* its node and the node of its warning are written at once or, by a send, behind
\* its response, and a message is translated where the languages differ.
If(p, steps) == IF p THEN steps ELSE <<>>

New       == session = None
Translate == ~New /\ session.lang["employee"] # session.lang["driver"]
Met(side) == If(side = "driver", <<"reconcile">>)

OpenChat(side) == If(New, <<"create", "init", "warn">>) \o Met(side)

SendMessage(side) ==
    If(New, <<"create">>) \o Met(side) \o <<"save">> \o If(New, <<"init", "warn">>)
        \o <<"write", "push">> \o If(Translate, <<"patch", "note">>)

\* The employee's history changes nothing.
GetMessages(side) == If(~New, Met(side))

SetLanguage == If(New, <<"create", "init", "warn">>) \o <<"row", "node">>

\* A call begins: the booking is the employee's, or the driver is the one assigned
\* (anyone, where nobody is), and the session is read.  Any free thread will do.
Begin(t, side, d, todo, l) ==
    /\ calls[t] = None /\ t = CHOOSE u \in Threads : calls[u] = None
    /\ begun + faults < MaxCalls
    /\ IF side = "driver" THEN assigned \in {None, d} ELSE d = (IF New THEN assigned ELSE None)
    /\ todo # <<>>
    /\ calls' = [calls EXCEPT ![t] =
           [side |-> side, driver |-> d, todo |-> todo, lang |-> l, seen |-> session, msg |-> 0,
            due |-> IF came /\ ~crossed /\ side = "employee" /\ Has(todo, "save")
                   THEN assigned ELSE None]]
    /\ begun' = begun + 1
    /\ overlapped' = (overlapped \/ \E u \in Threads : calls[u] # None)
    /\ UNCHANGED <<assigned, session, mirror, messages, moves, came, crossed, faults>>

BeginAny(t) ==
    \E side \in Sides, d \in Drivers \union {None} :
        /\ side = "driver" => d # None
        /\ \/ Begin(t, side, d, OpenChat(side), None)
           \/ Begin(t, side, d, SendMessage(side), None)
           \/ Begin(t, side, d, GetMessages(side), None)
           \/ \E l \in Choices : Begin(t, side, d, SetLanguage, l)

-----------------------------------------------------------------------------
\* The steps.  The call goes on as c.
At(t, step) == calls[t] # None /\ Head(calls[t].todo) = step
Goes(t, c)  == calls' = [calls EXCEPT ![t] =
                   IF Len(c.todo) = 1 THEN None ELSE [c EXCEPT !.todo = Tail(@)]]
GoesOn(t)   == Goes(t, calls[t])

\* get_or_create_session, of a row that was not there: the unique booking_id lets
\* one insert through, and the call that comes second fails.
NewMessage(from, due) == [from |-> from, node |-> "none", shown |-> None, noted |-> None,
                        to |-> None, due |-> due]
CreateSession(t) ==
    /\ At(t, "create") /\ session = None
    /\ LET row == [driver |-> calls[t].driver, lang |-> [s \in Sides |-> English]]
       IN  session' = row /\ Goes(t, [calls[t] EXCEPT !.seen = row])
    /\ messages' = Append(messages, NewMessage("system", None))
    /\ UNCHANGED <<office, mirror, came, faults>>

CreateRefused(t) ==
    /\ At(t, "create") /\ session # None
    /\ calls' = [calls EXCEPT ![t] = None]
    /\ UNCHANGED <<office, session, mirror, messages, came, faults>>

\* init_chat_session: the node is set, with the languages of the new row.
InitNode(t) ==
    /\ At(t, "init") /\ GoesOn(t)
    /\ mirror' = calls[t].seen.lang
    /\ UNCHANGED <<office, session, messages, came, faults>>

WriteWarning(t) ==
    /\ At(t, "warn") /\ GoesOn(t)
    /\ messages' = [messages EXCEPT ![1].node = "whole"]
    /\ UNCHANGED <<office, session, mirror, came, faults>>

\* Mutant: only the object in memory follows.
ReconcileUnsaved(t) ==
    /\ At(t, "reconcile") /\ Goes(t, [calls[t] EXCEPT !.seen.driver = calls[t].driver])
    /\ came' = (came \/ calls[t].driver = assigned)
    /\ UNCHANGED <<office, session, mirror, messages, faults>>

\* reconcile_session_driver: the row follows the caller, where what was read differs.
Reconcile(t) ==
    /\ At(t, "reconcile") /\ Goes(t, [calls[t] EXCEPT !.seen.driver = calls[t].driver])
    /\ session' = IF calls[t].seen.driver = calls[t].driver THEN session
                  ELSE [session EXCEPT !.driver = calls[t].driver]
    /\ came' = (came \/ calls[t].driver = assigned)
    /\ UNCHANGED <<office, mirror, messages, faults>>

SaveMessage(t) ==
    /\ At(t, "save") /\ Goes(t, [calls[t] EXCEPT !.msg = Len(messages) + 1])
    /\ messages' = Append(messages, NewMessage(calls[t].side, calls[t].due))
    /\ UNCHANGED <<office, session, mirror, came, faults>>

\* write_message sets the node as a whole; the text stands for its translation.
WriteMessage(t) ==
    /\ At(t, "write") /\ GoesOn(t)
    /\ messages' = [messages EXCEPT ![calls[t].msg].node = "whole", ![calls[t].msg].shown = None]
    /\ UNCHANGED <<office, session, mirror, came, faults>>

\* _push_notification, to the driver of the session as it was read.
PushMessage(t) ==
    /\ At(t, "push") /\ GoesOn(t)
    /\ messages' = [messages EXCEPT ![calls[t].msg].to =
           IF calls[t].side = "driver" THEN "employee"
           ELSE IF calls[t].seen.driver = None THEN "nobody"
           ELSE calls[t].seen.driver]
    /\ UNCHANGED <<office, session, mirror, came, faults>>

\* translate_and_update: the patch of the node makes one where there is none, and
\* the row is noted in another session; or no translation is to be had.
TargetLang(t) == calls[t].seen.lang[CHOOSE s \in Sides : s # calls[t].side]
PatchTranslation(t) ==
    /\ At(t, "patch") /\ GoesOn(t)
    /\ messages' = [messages EXCEPT ![calls[t].msg].shown = TargetLang(t),
                                    ![calls[t].msg].node = IF @ = "none" THEN "part" ELSE @]
    /\ UNCHANGED <<office, session, mirror, came, faults>>

NoteTranslation(t) ==
    /\ At(t, "note") /\ GoesOn(t)
    /\ messages' = [messages EXCEPT ![calls[t].msg].noted = TargetLang(t)]
    /\ UNCHANGED <<office, session, mirror, came, faults>>

NoTranslation(t) ==
    /\ At(t, "patch") /\ Goes(t, [calls[t] EXCEPT !.todo = Tail(@)])
    /\ UNCHANGED <<office, session, mirror, messages, came, faults>>

\* update_session_language: in the row, if it differs from what was read, then in
\* the node, which the update makes if there is none.
SetRowLanguage(t) ==
    /\ At(t, "row") /\ GoesOn(t)
    /\ LET c == calls[t]
       IN  session' = IF c.seen.lang[c.side] = c.lang THEN session
                      ELSE [session EXCEPT !.lang[c.side] = c.lang]
    /\ UNCHANGED <<office, mirror, messages, came, faults>>

SetNodeLanguage(t) ==
    /\ At(t, "node") /\ GoesOn(t)
    /\ mirror' = [mirror EXCEPT ![calls[t].side] = calls[t].lang]
    /\ UNCHANGED <<office, session, messages, came, faults>>

\* Firebase is not ready or answers with an error: logged, and the call goes on.
FirebaseFails(t) ==
    /\ \E step \in {"init", "warn", "write", "patch", "node"} : At(t, step)
    /\ faults < MaxFaults /\ faults' = faults + 1
    /\ GoesOn(t)
    /\ UNCHANGED <<office, session, mirror, messages, came>>

\* The process is restarted: nobody takes up what was to follow.
Restart ==
    /\ faults < MaxFaults /\ faults' = faults + 1
    /\ calls' = [t \in Threads |-> None]
    /\ UNCHANGED <<office, session, mirror, messages, came>>

Next ==
    \/ \E d \in Drivers \union {None} : AssignDriver(d)
    \/ Restart
    \/ \E t \in Threads :
           \/ BeginAny(t) \/ CreateSession(t) \/ CreateRefused(t) \/ InitNode(t)
           \/ WriteWarning(t) \/ Reconcile(t) \/ SaveMessage(t) \/ WriteMessage(t)
           \/ PushMessage(t) \/ PatchTranslation(t) \/ NoteTranslation(t) \/ NoTranslation(t)
           \/ SetRowLanguage(t) \/ SetNodeLanguage(t) \/ FirebaseFails(t)

Spec == Init /\ [][Next]_vars

-----------------------------------------------------------------------------
\* Once the assigned driver has been in the chat, the messages that the employee
\* begins to send are pushed to that driver, whoever the session named before;
\* unless the assignment crossed a driver's call.
PushedToDriver ==
    \A i \in DOMAIN messages :
        messages[i].due # None /\ messages[i].to # None => messages[i].to = messages[i].due

\* A chat has one warning, and it is the first message.
WarnedOnce ==
    \A i \in DOMAIN messages : messages[i].from = "system" <=> i = 1

\* When nothing is under way and nothing failed, the apps see what the tables say:
\* every message, with the translation of its row, and, where no two calls were
\* under way together, the languages of the session.
MirrorMatches ==
    (\A t \in Threads : calls[t] = None) /\ faults = 0 =>
        /\ \A i \in DOMAIN messages : /\ messages[i].node = "whole"
                                      /\ messages[i].shown = messages[i].noted
        /\ session # None /\ ~overlapped => mirror = session.lang
=============================================================================
