----------------------------- MODULE NodalDesk ------------------------------
(***************************************************************************)
(* Which pick-up point an employee walks to: chosen by an administrator, or*)
(* the nearest one that is active.  Every request runs in a thread of its  *)
(* own; what it assigns is written when it commits, and only the columns   *)
(* whose value it changed.                                                 *)
(***************************************************************************)
EXTENDS Naturals, FiniteSets

CONSTANTS Employees, Points, Placed,
          Order,       \* Order[e][p]: how far point p is from e's home
          MaxCalls,    \* bound: requests under way
          None

VARIABLES
    point,       \* the points: none yet, active or not
    row,         \* the assignment of an employee
    calls,       \* the requests that have read and not committed
    overlapped,  \* two requests were under way at a time
    chosen       \* the point an administrator chose against the nearest, if the last one did

vars == <<point, row, calls, overlapped, chosen>>

Row == [point : Points, overridden : BOOLEAN]
\* An assignment that will be committed: to an employee, of a row read as old.
Write == [employee : Employees, old : Row \union {None}, new : Row]
\* A request: who is left to assign, who is at hand, the points it read, and
\* what it will commit.
Call == [todo : SUBSET Employees, at : Employees \union {None},
         points : SUBSET Points, writes : SUBSET Write]

Active  == {p \in Points : point[p] = "active"}
\* The first of the nearest ones.
Nearest(e, ps) == CHOOSE p \in ps : \A q \in ps : Order[e][p] <= Order[e][q]
Assignment(p, o) == [point |-> p, overridden |-> o]

\* The rows and the requests hold what they may, and an assigned point exists.
TypeOK ==
    /\ point \in [Points -> {"none", "active", "inactive"}]
    /\ row \in [Employees -> Row \union {None}]
    /\ \A e \in Employees : row[e] # None => point[row[e].point] # "none"
    /\ calls \subseteq Call /\ Cardinality(calls) <= MaxCalls
    /\ overlapped \in BOOLEAN
    /\ chosen \in [Employees -> Points \union {None}]

Init ==
    /\ point = [p \in Points |-> "none"]
    /\ row = [e \in Employees |-> None]
    /\ calls = {}
    /\ overlapped = FALSE
    /\ chosen = [e \in Employees |-> None]

-----------------------------------------------------------------------------
CreateNodalPoint(p, s) ==
    /\ point[p] = "none" /\ s \in {"active", "inactive"}
    /\ point' = [point EXCEPT ![p] = s]
    /\ UNCHANGED <<row, calls, overlapped, chosen>>
UpdateNodalPoint(p, s) ==
    /\ point[p] # "none" /\ s \in {"active", "inactive"}
    /\ point' = [point EXCEPT ![p] = s]
    /\ UNCHANGED <<row, calls, overlapped, chosen>>
\* The assignments are kept.
DeactivateNodalPoint(p) == UpdateNodalPoint(p, "inactive")

Begin(c) ==
    /\ Cardinality(calls) < MaxCalls /\ c \notin calls
    /\ calls' = calls \union {c}
    /\ overlapped' = (overlapped \/ calls # {})

AssignNodalPointToEmployee(e, p, o) ==
    /\ p \in Active
    /\ Begin([todo |-> {}, at |-> None, points |-> {},
              writes |-> {[employee |-> e, old |-> row[e], new |-> Assignment(p, o)]}])
    /\ chosen' = [chosen EXCEPT ![e] = IF o THEN p ELSE None]
    /\ UNCHANGED <<point, row>>
AssignNearest(e) ==
    /\ e \in Placed /\ Active # {}
    /\ Begin([todo |-> {}, at |-> None, points |-> {},
              writes |-> {[employee |-> e, old |-> row[e],
                           new |-> Assignment(Nearest(e, Active), FALSE)]}])
    /\ chosen' = [chosen EXCEPT ![e] = None]
    /\ UNCHANGED <<point, row>>

RemoveEmployeeNodalAssignment(e) ==
    /\ row[e] # None
    /\ row' = [row EXCEPT ![e] = None]
    /\ overlapped' = (overlapped \/ calls # {})
    /\ chosen' = [chosen EXCEPT ![e] = None]
    /\ UNCHANGED <<point, calls>>

BulkAssignNearest ==
    /\ Active # {}
    /\ Begin([todo |-> Employees, at |-> None, points |-> Active, writes |-> {}])
    /\ UNCHANGED <<point, row, chosen>>

\* Mutant: the bulk request does not ask whether an assignment is overridden.
SkippedUnplaced(e) == e \notin Placed
\* One that an administrator overrode, or without a home on the map, is passed over.
Skipped(e) == (row[e] # None /\ row[e].overridden) \/ e \notin Placed
\* The bulk request looks whether to pass the employee over, and reads the
\* assignment again to change it: another request may commit in between.
BulkLook(c, e) ==
    /\ c.at = None
    /\ calls' = (calls \ {c}) \union
                {[c EXCEPT !.todo = @ \ {e}, !.at = IF Skipped(e) THEN None ELSE e]}
    /\ UNCHANGED <<point, row, overlapped, chosen>>
BulkTake(c) ==
    /\ c.at # None
    /\ calls' = (calls \ {c}) \union
                {[c EXCEPT !.at = None, !.writes = @ \union
                    {[employee |-> c.at, old |-> row[c.at],
                      new |-> Assignment(Nearest(c.at, c.points), FALSE)]}]}
    /\ UNCHANGED <<point, row, overlapped, chosen>>

\* An insert beside a row, or an update of none, fails and undoes the request.
Applies(w) == (w.old = None) <=> (row[w.employee] = None)
Written(w) ==
    IF w.old = None THEN w.new
    ELSE [point      |-> IF w.new.point = w.old.point
                         THEN row[w.employee].point ELSE w.new.point,
          overridden |-> IF w.new.overridden = w.old.overridden
                         THEN row[w.employee].overridden ELSE w.new.overridden]
\* A row that is written with the values it was read with is not touched.
Changes(c) == {w \in c.writes : w.old # w.new}
Commit(c) ==
    /\ c.todo = {} /\ c.at = None
    /\ calls' = calls \ {c}
    /\ row' = IF \A w \in Changes(c) : Applies(w)
              THEN [e \in Employees |->
                       IF \E w \in Changes(c) : w.employee = e
                       THEN Written(CHOOSE w \in Changes(c) : w.employee = e)
                       ELSE row[e]]
              ELSE row
    /\ UNCHANGED <<point, overlapped, chosen>>

Next ==
    \/ \E p \in Points : \/ \E s \in {"active", "inactive"} : CreateNodalPoint(p, s)
                                                          \/ UpdateNodalPoint(p, s)
                         \/ DeactivateNodalPoint(p)
    \/ \E e \in Employees : \/ \E p \in Points, o \in BOOLEAN :
                                   AssignNodalPointToEmployee(e, p, o)
                            \/ AssignNearest(e)
                            \/ RemoveEmployeeNodalAssignment(e)
    \/ BulkAssignNearest
    \/ \E c \in calls : \/ \E e \in c.todo : BulkLook(c, e)
                        \/ BulkTake(c)
                        \/ Commit(c)

Spec == Init /\ [][Next]_vars

-----------------------------------------------------------------------------
\* As long as requests do not overlap, the point an administrator chose against
\* the nearest stands until an administrator changes it, whatever bulk requests run.
ChoiceStands ==
    ~overlapped /\ calls = {} =>
        \A e \in Employees : chosen[e] # None => row[e] = Assignment(chosen[e], TRUE)
=============================================================================
