---------------------------- MODULE BookingDesk ----------------------------
(***************************************************************************)
(* The rows of the bookings table for one date, and the duplicate checks   *)
(* of booking_router.py.  No unique constraint protects a slot (employee   *)
(* and shift): each handler reads, decides and commits later, and under    *)
(* READ COMMITTED other calls commit in between.  create_booking,          *)
(* bulk_book_all_employees and cancel_booking run in worker threads;       *)
(* update_booking is a coroutine, so no two of its calls overlap.          *)
(***************************************************************************)
EXTENDS Naturals, Sequences, FiniteSets, FiniteSetsExt, SequencesExt

CONSTANTS
    Employees, Shifts,
    Calls,      \* concurrent requests; a single one: requests are serialised
    MaxRows     \* bound on the rows ever inserted

ASSUME DeskAssumption == MaxRows \in Nat /\ IsFiniteSet(Employees)

VARIABLES
    rows,       \* the bookings in the order of booking_id
    call,       \* what each request has decided and not yet committed
    strayed     \* history: employees about whom requests overlapped, or who were
                \* booked in bulk

vars == <<rows, call, strayed>>

Slots == Employees \X Shifts
Status == {"REQUEST", "SCHEDULED", "CANCELLED"}
Row == [employee : Employees, shift : Shifts, status : Status]

Idle == [op |-> "idle"]
Call ==
    {Idle}
        \union [op : {"insert"}, slots : Seq(Slots)]
        \union [op : {"cancel"}, id : Nat]
        \union [op : {"update"}, id : Nat, shift : Shifts, status : {"REQUEST", "CANCELLED"}]

Init ==
    /\ rows = <<>>
    /\ call = [c \in Calls |-> Idle]
    /\ strayed = {}

Ids == DOMAIN rows
InSlot(e, s) == {i \in Ids : rows[i].employee = e /\ rows[i].shift = s}
Active(S) == {i \in S : rows[i].status # "CANCELLED"}

\* Mutant: update_booking runs in a worker thread, like the others.
LoopNeverBusy == TRUE

\* The event loop is not inside an update_booking call.
LoopIdle == \A c \in Calls : call[c].op # "update"

\* The bound MaxRows leaves room for n more rows.
Room(n) ==
    LET Pending(c) == IF call[c].op = "insert" THEN Len(call[c].slots) ELSE 0
    IN  Len(rows) + MapThenSumSet(Pending, Calls) + n <= MaxRows

\* The employees whose bookings a request is about to write.
About(d) == {e \in Employees :
                \/ d.op = "insert" /\ \E k \in DOMAIN d.slots : e = d.slots[k][1]
                \/ d.op \in {"cancel", "update"} /\ e = rows[d.id].employee}

\* A request has read and decided; usual: nothing that the check does not see.
Decide(c, d, usual) ==
    /\ call[c] = Idle
    /\ call' = [call EXCEPT ![c] = d]
    /\ strayed' = strayed \union
           {e \in About(d) : ~usual \/ \E k \in Calls \ {c} : e \in About(call[k])}
    /\ UNCHANGED rows

\* Mutant: a cancelled row does not count, as in the bulk booking.
CreateReadActive(c, e, s) ==
    /\ Active(InSlot(e, s)) = {}
    /\ Room(1)
    /\ Decide(c, [op |-> "insert", slots |-> <<<<e, s>>>>], TRUE)

\* create_booking refuses a slot with any row, a cancelled one included.  A date
\* that the request repeats is booked once.
CreateRead(c, e, s) ==
    /\ InSlot(e, s) = {}
    /\ Room(1)
    /\ Decide(c, [op |-> "insert", slots |-> <<<<e, s>>>>], TRUE)

\* bulk_book_all_employees skips only who has a row that is not cancelled.
BulkRead(c, E, s) ==
    LET free == {e \in E : Active(InSlot(e, s)) = {}}
    IN  /\ free # {}
        /\ Room(Cardinality(free))
        /\ \E q \in SetToSeqs(free \X {s}) :
               Decide(c, [op |-> "insert", slots |-> q], FALSE)

CancelRead(c, i) ==
    /\ rows[i].status = "REQUEST"
    /\ Decide(c, [op |-> "cancel", id |-> i], TRUE)

\* update_booking checks the slot only when the request names a shift (one that
\* names none keeps the row's own); it reopens a cancelled row in either case.
UpdateRead(c, i, s) ==
    /\ LoopIdle
    /\ rows[i].status \in {"REQUEST", "CANCELLED"}
    /\ s # rows[i].shift => InSlot(rows[i].employee, s) = {}
    /\ Decide(c, [op |-> "update", id |-> i, shift |-> s, status |-> rows[i].status],
              TRUE)

InsertCommit(c) ==
    LET new == [k \in DOMAIN call[c].slots |->
                   [employee |-> call[c].slots[k][1], shift |-> call[c].slots[k][2],
                    status |-> "REQUEST"]]
    IN  /\ call[c].op = "insert"
        /\ rows' = rows \o new
        /\ call' = [call EXCEPT ![c] = Idle]
        /\ UNCHANGED strayed

\* Mutant: the cancelled row is deleted.
CancelDeletes(c) ==
    /\ call[c].op = "cancel"
    /\ rows' = RemoveAt(rows, call[c].id)
    /\ call' = [call EXCEPT ![c] = Idle]
    /\ UNCHANGED strayed

CancelCommit(c) ==
    /\ call[c].op = "cancel"
    /\ rows' = [rows EXCEPT ![call[c].id].status = "CANCELLED"]
    /\ call' = [call EXCEPT ![c] = Idle]
    /\ UNCHANGED strayed

\* Only the columns that the call changed are written.
UpdateCommit(c) ==
    /\ call[c].op = "update"
    /\ rows' = [rows EXCEPT ![call[c].id].shift = call[c].shift,
                            ![call[c].id].status =
                                IF call[c].status = "CANCELLED" THEN "REQUEST" ELSE @]
    /\ call' = [call EXCEPT ![c] = Idle]
    /\ UNCHANGED strayed

\* The office puts a booking on a route, and takes it off again: coroutines,
\* which the event loop does not run inside an update_booking call.
Route(i) ==
    /\ LoopIdle
    /\ rows[i].status \in {"REQUEST", "SCHEDULED"}
    /\ rows' = [rows EXCEPT ![i].status =
                   IF @ = "REQUEST" THEN "SCHEDULED" ELSE "REQUEST"]
    /\ UNCHANGED <<call, strayed>>

Next ==
    \/ \E c \in Calls :
           \/ \E e \in Employees, s \in Shifts : CreateRead(c, e, s)
           \/ \E E \in SUBSET Employees, s \in Shifts : BulkRead(c, E, s)
           \/ \E i \in Ids : CancelRead(c, i)
           \/ \E i \in Ids, s \in Shifts : UpdateRead(c, i, s)
           \/ InsertCommit(c)
           \/ CancelCommit(c)
           \/ UpdateCommit(c)
    \/ \E i \in Ids : Route(i)

Spec == Init /\ [][Next]_vars

-----------------------------------------------------------------------------
TypeOK ==
    /\ rows \in Seq(Row)
    /\ call \in [Calls -> Call]
    /\ strayed \subseteq Employees
    /\ \A c \in Calls : call[c].op \in {"cancel", "update"} => call[c].id \in Ids

\* One row for an employee and a shift, whatever is done to the others meanwhile,
\* as long as no two requests about this employee overlap and a bulk booking leaves
\* them out: the check of create_booking counts cancelled rows and update_booking
\* checks the new shift.
OneRowPerSlot ==
    \A i, j \in Ids :
        /\ rows[i].employee = rows[j].employee /\ rows[i].shift = rows[j].shift
        /\ rows[i].employee \notin strayed
        => i = j

\* However calls overlap, a booking that is on a route never changes its shift:
\* update_booking and the office share the event loop, so the status that
\* update_booking read still forbids routing when it commits.
RoutedKeepsShift ==
    [][\A i \in Ids :
          rows[i].status = "SCHEDULED" => rows'[i].shift = rows[i].shift]_vars

\* app/routes/booking_router.py:1353 says "Employee can have only one booking
\* per shift per date" (bookings that are cancelled not counted).
OneBookingPerShift ==
    \A e \in Employees, s \in Shifts : Cardinality(Active(InSlot(e, s))) <= 1
=============================================================================
