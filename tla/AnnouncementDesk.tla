-------------------------- MODULE AnnouncementDesk --------------------------
(***************************************************************************)
(* An announcement: drafted, published to the people it is meant for, and  *)
(* read by them.  A publication inserts a row for each recipient, pushes to*)
(* all of them in one batch and then fills in, row by row, what became of  *)
(* the push.  Every request runs in a thread of its own, and the process   *)
(* may be restarted under it.                                              *)
(***************************************************************************)
EXTENDS Naturals, Sequences, FiniteSets

CONSTANTS Roster,      \* the people, by id
          Targets,     \* sets of people an announcement may be meant for
          Threads,     \* requests that publish
          MaxRows, MaxFaults,   \* bounds: recipient rows, faults
          None

VARIABLES
    status,     \* "draft", "published", "cancelled"
    live,       \* is_active of the announcement
    target,
    device,     \* device of a person: "ok", "gone" (uninstalled) or "none"
    rows,       \* the recipient rows by id; open: the transaction they belong to
    calls,      \* what the threads publish
    pushed,     \* pushes that reached a person
    peak,       \* most publications that were under way at a time
    faults

vars == <<status, live, target, device, rows, calls, pushed, peak, faults>>

People  == {Roster[i] : i \in DOMAIN Roster}
Row     == [user : People, state : {"pending", "delivered", "failed", "no_device", "read"},
            seen : BOOLEAN, open : Threads \union {None}]
Call    == [to : SUBSET People, sent : BOOLEAN, ok : Nat, bare : Nat]

\* The announcement, its rows and the publications hold what they may, and a row
\* that is not committed belongs to a publication under way.
TypeOK ==
    /\ status \in {"draft", "published", "cancelled"} /\ live \in BOOLEAN
    /\ target \in Targets
    /\ device \in [People -> {"ok", "gone", "none"}]
    /\ IsFiniteSet(DOMAIN rows) /\ DOMAIN rows \subseteq Nat /\ rows \in [DOMAIN rows -> Row]
    /\ calls \in [Threads -> Call \union {None}]
    /\ \A i \in DOMAIN rows : rows[i].open # None => calls[rows[i].open] # None
    /\ pushed \in [People -> Nat]
    /\ peak \in 0..(1 + Cardinality(Threads)) /\ faults \in 0..MaxFaults

Init ==
    /\ status = "draft" /\ live = TRUE
    /\ target \in Targets
    /\ device \in [People -> {"ok", "gone", "none"}]
    /\ rows = <<>>
    /\ calls = [t \in Threads |-> None]
    /\ pushed = [p \in People |-> 0]
    /\ peak = 0 /\ faults = 0

-----------------------------------------------------------------------------
UpdateAnnouncement(to) ==
    /\ live /\ status = "draft"
    /\ target' = to
    /\ UNCHANGED <<status, live, device, rows, calls, pushed, peak, faults>>

DeleteAnnouncement ==
    /\ live
    /\ live' = FALSE
    /\ status' = IF status = "draft" THEN "cancelled" ELSE status
    /\ UNCHANGED <<target, device, rows, calls, pushed, peak, faults>>

\* A person signs in again, or the app is uninstalled and nobody knows yet.
DeviceChanges(p) ==
    /\ device' = [device EXCEPT ![p] = IF @ = "ok" THEN "gone" ELSE "ok"]
    /\ UNCHANGED <<status, live, target, rows, calls, pushed, peak, faults>>

\* --- publish_announcement ----------------------------------------------------

\* The recipients get rows in the order of their own ids; what counts of the id of
\* a row is that it comes after those that are there.
LastRow        == CHOOSE i \in DOMAIN rows \union {0} : \A j \in DOMAIN rows : j <= i
Recipients(to) == {LastRow + k : k \in {i \in DOMAIN Roster : Roster[i] \in to}}
NewRow(i, t)   == [user |-> Roster[i - LastRow], state |-> "pending", seen |-> FALSE, open |-> t]
WithRows(to, t) ==
    [i \in DOMAIN rows \union Recipients(to) |-> IF i \in DOMAIN rows THEN rows[i] ELSE NewRow(i, t)]

\* The peak with one more publication under way.
AtOnce == LET n == 1 + Cardinality({u \in Threads : calls[u] # None})
          IN  IF n > peak THEN n ELSE peak

\* Mutant: what is published is published again.
PublishAgain(t) ==
    /\ calls[t] = None /\ live /\ status # "cancelled" /\ target # {}
    /\ Cardinality(DOMAIN rows) + Cardinality(target) <= MaxRows
    /\ rows' = WithRows(target, t)
    /\ calls' = [calls EXCEPT ![t] = [to |-> target, sent |-> FALSE, ok |-> 0, bare |-> 0]]
    /\ peak' = AtOnce
    /\ UNCHANGED <<status, live, target, device, pushed, faults>>

\* The draft is read and its recipients inserted, in an open transaction.
Publish(t) ==
    /\ calls[t] = None /\ live /\ status = "draft" /\ target # {}
    /\ Cardinality(DOMAIN rows) + Cardinality(target) <= MaxRows
    /\ rows' = WithRows(target, t)
    /\ calls' = [calls EXCEPT ![t] = [to |-> target, sent |-> FALSE, ok |-> 0, bare |-> 0]]
    /\ peak' = AtOnce
    /\ UNCHANGED <<status, live, target, device, pushed, faults>>

PublishToNobody ==
    /\ live /\ status = "draft" /\ target = {}
    /\ status' = "published"
    /\ peak' = AtOnce
    /\ UNCHANGED <<live, target, device, rows, calls, pushed, faults>>

\* send_to_users_batch: only counts come back.  A device that is gone is logged
\* out, which commits the session, and the rows with it.
With(d, to) == {p \in to : device[p] = d}
Push(t) ==
    /\ calls[t] # None /\ ~calls[t].sent
    /\ calls' = [calls EXCEPT ![t].sent = TRUE,
                              ![t].ok = Cardinality(With("ok", calls[t].to)),
                              ![t].bare = Cardinality(With("none", calls[t].to))]
    /\ pushed' = [p \in People |-> IF p \in With("ok", calls[t].to) THEN pushed[p] + 1
                                   ELSE pushed[p]]
    /\ device' = [p \in People |-> IF p \in With("gone", calls[t].to) THEN "none"
                                   ELSE device[p]]
    /\ rows' = IF With("gone", calls[t].to) = {} THEN rows
               ELSE [i \in DOMAIN rows |-> IF rows[i].open = t
                                           THEN [rows[i] EXCEPT !.open = None] ELSE rows[i]]
    /\ UNCHANGED <<status, live, target, peak, faults>>

\* The batch fails as a whole: everyone counts as failed.
PushFails(t) ==
    /\ calls[t] # None /\ ~calls[t].sent
    /\ faults < MaxFaults /\ faults' = faults + 1
    /\ calls' = [calls EXCEPT ![t].sent = TRUE]
    /\ UNCHANGED <<status, live, target, device, rows, pushed, peak>>

\* The rows of the announcement that the transaction sees, by id: as many as were
\* delivered are delivered, the next have no device, the rest failed.
Seen(t)   == {i \in DOMAIN rows : rows[i].open \in {None, t}}
Nth(t, i) == Cardinality({j \in Seen(t) : j <= i})
Filled(t) ==
    [i \in DOMAIN rows |->
        IF i \notin Seen(t) THEN rows[i]
        ELSE [rows[i] EXCEPT !.open = None,
                 !.state = IF Nth(t, i) <= calls[t].ok THEN "delivered"
                           ELSE IF Nth(t, i) <= calls[t].ok + calls[t].bare THEN "no_device"
                           ELSE "failed"]]
PublishCommit(t) ==
    /\ calls[t] # None /\ calls[t].sent
    /\ rows' = Filled(t)
    /\ status' = "published"
    /\ calls' = [calls EXCEPT ![t] = None]
    /\ UNCHANGED <<live, target, device, pushed, peak, faults>>

-----------------------------------------------------------------------------
\* mark_announcement_read: any committed row of the person, whatever the
\* announcement has become, and only once: a later publication may overwrite it.
MarkRead(p) ==
    /\ \E i \in DOMAIN rows :
           /\ rows[i].user = p /\ rows[i].open = None /\ ~rows[i].seen
           /\ rows' = [rows EXCEPT ![i].state = "read", ![i].seen = TRUE]
    /\ UNCHANGED <<status, live, target, device, calls, pushed, peak, faults>>

\* The process is restarted: open transactions are rolled back.
Restart ==
    /\ faults < MaxFaults /\ faults' = faults + 1
    /\ calls' = [t \in Threads |-> None]
    /\ rows' = [i \in {j \in DOMAIN rows : rows[j].open = None} |-> rows[i]]
    /\ UNCHANGED <<status, live, target, device, pushed, peak>>

Next ==
    \/ \E to \in Targets : UpdateAnnouncement(to)
    \/ DeleteAnnouncement \/ PublishToNobody \/ Restart
    \/ \E p \in People : DeviceChanges(p) \/ MarkRead(p)
    \/ \E t \in Threads : Publish(t) \/ Push(t) \/ PushFails(t) \/ PublishCommit(t)

Spec == Init /\ [][Next]_vars

-----------------------------------------------------------------------------
\* Nobody is pushed an announcement more often than publications of it overlapped,
\* and that many times again for a restart that cut them off.
PushesBounded == \A p \in People : pushed[p] <= peak * (1 + faults)

\* A published announcement keeps no row waiting for the outcome of its push, those
\* included that a publication left behind when it was cut off (unless it was then
\* published to nobody, which looks at no row).
NothingPending ==
    peak <= 1 /\ status = "published" /\ target # {} => \A i \in DOMAIN rows : rows[i].state # "pending"
=============================================================================
