--------------------------- MODULE Notices_proofs ----------------------------
(***************************************************************************)
(* For any number of people, bookings, alerts, worker threads, errors and  *)
(* restarts: a booking is reminded of once and waits no longer than one    *)
(* run; an alert lives as the API promises, and a person on its list is    *)
(* tried before it counts as announced; an announcement is pushed as often *)
(* as it was published; and the chat tells the apps and the driver what    *)
(* its tables say.                                                         *)
(***************************************************************************)
EXTENDS Notices, FiniteSetTheorems, SequenceTheorems, WellFoundedInduction, TLAPS

-----------------------------------------------------------------------------
(* Reminders: how often one is sent                                        *)

\* What a booking may have been sent after n runs that reminded it, and the rows
\* of it that a run has left.
Owed(b, n) == most[b] * n
InRun(b)   == IF job = None THEN 0 ELSE Cardinality(RowsOf(b, job.left))

\* Who is neither marked nor about to be was reminded in broken runs only; what
\* a run has left to send fits in it; and once it has lost its database, in it
\* and the broken ones before.
ReminderInv ==
    /\ TypeOK
    /\ \A b \in Bookings :
           /\ Cardinality(Planned(b)) <= most[b]
           /\ reminders[b] + InRun(b) <= Owed(b, faults + 1)
           /\ job # None => (job.broken => reminders[b] + InRun(b) <= Owed(b, faults))
           /\ b \in marked \/ (job # None /\ job.sent # None /\ job.sent[1] = b)
              \/ reminders[b] <= Owed(b, faults)

LEMMA LinkParts == \A l \in Links : l[1] \in Bookings
BY LinksAssumption

\* The rows of a booking, in any set of rows.
LEMMA RowsFinite ==
    ASSUME NEW b, NEW S \in SUBSET Links
    PROVE  IsFiniteSet(RowsOf(b, S)) /\ Cardinality(RowsOf(b, S)) \in Nat
<1>1. IsFiniteSet(S) /\ RowsOf(b, S) \in SUBSET S
  BY LinksAssumption, FS_Subset DEF RowsOf
<1>. QED  BY <1>1, FS_Subset, FS_CardinalityType

LEMMA RowsWithin ==
    ASSUME NEW b, NEW S \in SUBSET Links, NEW R \in SUBSET S
    PROVE  Cardinality(RowsOf(b, R)) <= Cardinality(RowsOf(b, S))
<1>1. RowsOf(b, R) \in SUBSET RowsOf(b, S)
  BY DEF RowsOf
<1>. QED  BY <1>1, RowsFinite, FS_Subset

\* One row fewer is left of its booking, and as many as before of the others.
LEMMA RowTaken ==
    ASSUME NEW S \in SUBSET Links, NEW l \in S, NEW b
    PROVE  Cardinality(RowsOf(b, S \ {l})) =
               Cardinality(RowsOf(b, S)) - IF l[1] = b THEN 1 ELSE 0
<1>1. CASE l[1] = b
  <2>1. RowsOf(b, S \ {l}) = RowsOf(b, S) \ {l} /\ l \in RowsOf(b, S)
    BY <1>1 DEF RowsOf
  <2>2. PICK R : R = RowsOf(b, S)
    OBVIOUS
  <2>3. IsFiniteSet(R) /\ Cardinality(R \ {l}) = Cardinality(R) - 1
    BY <2>1, <2>2, RowsFinite, FS_RemoveElement
  <2>. QED  BY <1>1, <2>1, <2>2, <2>3
<1>2. CASE l[1] # b
  <2>1. RowsOf(b, S \ {l}) = RowsOf(b, S)
    BY <1>2 DEF RowsOf
  <2>. QED  BY <1>2, <2>1, RowsFinite
<1>. QED  BY <1>1, <1>2

\* Products of numbers that only grow.
LEMMA TimesMore ==
    ASSUME NEW m \in Nat, NEW n \in Nat, NEW f \in Nat, m <= n
    PROVE  /\ m * f \in Nat /\ m * f <= n * f
           /\ m * (f + 1) = m * f + m
OBVIOUS

LEMMA OwedMore ==
    ASSUME most \in [Bookings -> Nat], faults \in Nat, NEW b \in Bookings
    PROVE  /\ Owed(b, faults) \in Nat /\ Owed(b, faults + 1) = Owed(b, faults) + most[b]
           /\ most[b] \in Nat
<1>1. PICK m \in Nat : m = most[b]
  OBVIOUS
<1>2. PICK f \in Nat : f = faults
  OBVIOUS
<1>3. m <= m /\ m * f \in Nat /\ m * (f + 1) = m * f + m
  BY TimesMore
<1>. QED  BY <1>1, <1>2, <1>3 DEF Owed

LEMMA InitReminder == Init => ReminderInv
<1>. SUFFICES ASSUME Init PROVE ReminderInv
  OBVIOUS
<1>1. now \in 0..MaxNow /\ pickup \in [Links -> 0..(Day - 1) \union {None}]
  BY WindowAssumption DEF Init
<1>2. /\ reminders \in [Bookings -> Nat] /\ waited \in [Bookings -> Nat]
      /\ most \in [Bookings -> Nat] /\ faults \in 0..MaxFaults
  BY BoundAssumption DEF Init
<1>3. status \in [Bookings -> {"REQUEST", "SCHEDULED", "CANCELLED", "gone"}]
  BY DEF Init
<1>4. TypeOK
  BY <1>1, <1>2, <1>3 DEF Init, TypeOK
<1>5. ASSUME NEW b \in Bookings
      PROVE  /\ Cardinality(Planned(b)) = 0 /\ InRun(b) = 0 /\ reminders[b] = 0 /\ most[b] = 0
             /\ Owed(b, faults) = 0 /\ Owed(b, faults + 1) = 0
  <2>1. Planned(b) = {}
    BY DEF Init, Planned, RowsOf
  <2>. QED  BY <2>1, FS_EmptySet DEF Init, InRun, Owed
<1>6. job = None
  BY DEF Init
<1>. QED  BY <1>4, <1>5, <1>6 DEF ReminderInv

-----------------------------------------------------------------------------
(* Types                                                                   *)

LEMMA WaitingType == ASSUME TypeOK, Waiting PROVE waited' \in [Bookings -> Nat]
BY DEF TypeOK, Waiting

\* The handlers of the office, the desk and the driver touch the trips alone.
Trips ==
    \/ \E b \in Bookings : Cancel(b) \/ Reopen(b) \/ Leave(b)
    \/ \E l \in Links :
           \/ \E s \in {"REQUEST", "SCHEDULED"} : Unplan(l, s)
           \/ \E t \in Times[l] : Plan(l, t) \/ MovePickup(l, t)

LEMMA PlannedFinite ==
    ASSUME NEW b
    PROVE  /\ Planned(b) \in SUBSET RowsOf(b, Links)
           /\ IsFiniteSet(Planned(b)) /\ Cardinality(Planned(b)) \in Nat
<1>1. Planned(b) \in SUBSET RowsOf(b, Links)
  BY DEF Planned
<1>. QED  BY <1>1, RowsFinite, FS_Subset, FS_CardinalityType

\* Of the links only Plan makes one, and counts it.
LEMMA TripsPlanned ==
    ASSUME TypeOK, Trips, NEW b \in Bookings, Cardinality(Planned(b)) <= most[b]
    PROVE  /\ most' \in [Bookings -> Nat] /\ most[b] <= most'[b]
           /\ Cardinality(Planned(b)') <= most'[b]
<1>0. most \in [Bookings -> Nat] /\ pickup \in [Links -> 0..(Day - 1) \union {None}]
  BY DEF TypeOK
<1>1. PICK n : n = Cardinality(Planned(b)')
  OBVIOUS
<1>2. Planned(b)' = {l \in RowsOf(b, Links) : pickup'[l] # None}
  BY DEF Planned, RowsOf
<1>3. Planned(b)' \in SUBSET RowsOf(b, Links)
  BY <1>2
<1>4. IsFiniteSet(Planned(b)') /\ n \in Nat
  BY <1>1, <1>3, RowsFinite, FS_Subset, FS_CardinalityType
<1>5. ASSUME NEW l \in Links, NEW t \in Times[l], Plan(l, t)
      PROVE  most' \in [Bookings -> Nat] /\ most[b] <= most'[b] /\ n <= most'[b]
  <2>1. l[1] \in Bookings
    BY LinkParts
  <2>2. PICK c : c = l[1]
    OBVIOUS
  <2>3. PICK k : k = Cardinality(Planned(c)')
    OBVIOUS
  <2>4. most' = [most EXCEPT ![c] = IF k > @ THEN k ELSE @]
    BY <1>5, <2>2, <2>3 DEF Plan
  <2>5. Planned(c)' \in SUBSET RowsOf(c, Links)
    BY DEF Planned, RowsOf
  <2>6. k \in Nat
    BY <2>3, <2>5, RowsFinite, FS_Subset, FS_CardinalityType
  <2>7. CASE b = c
    BY <1>0, <1>1, <1>4, <2>2, <2>3, <2>4, <2>6, <2>7
  <2>8. CASE b # c
    <3>1. pickup' = [pickup EXCEPT ![l] = t]
      BY <1>5 DEF Plan
    <3>2. Planned(b)' = Planned(b)
      BY <1>0, <1>2, <2>2, <2>8, <3>1 DEF Planned, RowsOf
    <3>. QED  BY <1>0, <1>1, <2>1, <2>2, <2>4, <2>6, <2>8, <3>2
  <2>. QED  BY <2>7, <2>8
<1>6. ASSUME most' = most, \A l \in Links : pickup'[l] # None => pickup[l] # None
      PROVE  most' \in [Bookings -> Nat] /\ most[b] <= most'[b] /\ n <= most'[b]
  <2>1. Planned(b)' \in SUBSET Planned(b)
    BY <1>2, <1>6 DEF Planned, RowsOf
  <2>2. n <= Cardinality(Planned(b))
    BY <1>1, <2>1, PlannedFinite, FS_Subset
  <2>. QED  BY <1>0, <1>4, <1>6, <2>2, PlannedFinite
<1>7. ASSUME NEW l \in Links, NEW t \in Times[l], MovePickup(l, t)
      PROVE  most' = most /\ \A m \in Links : pickup'[m] # None => pickup[m] # None
  BY <1>0, <1>7 DEF MovePickup
<1>8. ASSUME NEW l \in Links, NEW s \in {"REQUEST", "SCHEDULED"}, Unplan(l, s)
      PROVE  most' = most /\ \A m \in Links : pickup'[m] # None => pickup[m] # None
  BY <1>0, <1>8 DEF Unplan
<1>9. ASSUME NEW c \in Bookings, Cancel(c) \/ Reopen(c) \/ Leave(c)
      PROVE  most' = most /\ \A m \in Links : pickup'[m] # None => pickup[m] # None
  BY <1>9 DEF Cancel, Reopen, Leave
<1>10. most' \in [Bookings -> Nat] /\ most[b] <= most'[b] /\ n <= most'[b]
  BY <1>5, <1>6, <1>7, <1>8, <1>9 DEF Trips
<1>. QED  BY <1>1, <1>10

LEMMA TripsType ==
    ASSUME TypeOK, Trips, most' \in [Bookings -> Nat]
    PROVE  TypeOK' /\ UNCHANGED <<marked, reminders, job, faults>>
<1>1. Waiting /\ UNCHANGED <<now, date, marked, reminders, job, trigger, faults>>
  BY DEF Trips, Plan, Cancel, Reopen, Leave, Unplan, MovePickup, Handler
<1>2. waited' \in [Bookings -> Nat]
  BY <1>1, WaitingType
<1>3. status' \in [Bookings -> {"REQUEST", "SCHEDULED", "CANCELLED", "gone"}]
  BY LinkParts DEF Trips, Plan, Cancel, Reopen, Leave, Unplan, MovePickup, TypeOK
<1>4. \A l \in Links : Times[l] \in SUBSET (0..(Day - 1))
  BY WindowAssumption
<1>5. pickup' \in [Links -> 0..(Day - 1) \union {None}]
  BY <1>4 DEF Trips, Plan, Cancel, Reopen, Leave, Unplan, MovePickup, TypeOK
<1>. QED  BY <1>1, <1>2, <1>3, <1>5 DEF TypeOK

LEMMA StartType ==
    ASSUME TypeOK, StartRun PROVE TypeOK'
<1>1. \A S \in SUBSET Links :
          [left |-> S, sent |-> None, broken |-> FALSE, age |-> 0] \in Job
  BY BoundAssumption DEF Job
<1>2. Candidates \in SUBSET Links
  BY DEF Candidates
<1>3. [left |-> Candidates, sent |-> None, broken |-> FALSE, age |-> 0] \in Job
  BY <1>1, <1>2
<1>4. job' \in {job, None, [left |-> Candidates, sent |-> None, broken |-> FALSE, age |-> 0]}
  BY DEF StartRun
<1>5. job' \in Job \union {None}
  BY <1>3, <1>4 DEF TypeOK
<1>. QED  BY <1>5 DEF StartRun, TypeOK, tripVars

LEMMA RemindType ==
    ASSUME TypeOK, NEW l \in Links, Remind(l) PROVE TypeOK'
<1>1. job \in Job
  BY DEF Remind, TypeOK
<1>2. job' \in Job
  BY <1>1 DEF Remind, Job
<1>3. reminders' \in [Bookings -> Nat]
  BY LinkParts DEF Remind, TypeOK
<1>. QED  BY <1>2, <1>3 DEF Remind, TypeOK, tripVars

LEMMA MarkType ==
    ASSUME TypeOK, MarkSent PROVE TypeOK'
<1>1. job \in Job /\ job.sent \in Links
  BY DEF MarkSent, TypeOK, Job
<1>2. job' \in Job
  BY <1>1 DEF MarkSent, Job
<1>3. marked' \in SUBSET Bookings
  BY <1>1, LinkParts DEF MarkSent, TypeOK
<1>4. waited' \in [Bookings -> Nat]
  BY WaitingType DEF MarkSent
<1>5. faults' \in 0..MaxFaults
  BY BoundAssumption DEF MarkSent, TypeOK
<1>. QED  BY <1>2, <1>3, <1>4, <1>5 DEF MarkSent, TypeOK, tripVars

LEMMA TickType ==
    ASSUME TypeOK, Tick PROVE TypeOK'
<1>1. job' \in Job \union {None}
  <2>1. CASE job = None
    BY <2>1 DEF Tick
  <2>2. CASE job # None
    <3>1. job \in Job /\ job.age < MaxRun
      BY <2>2 DEF Tick, TypeOK
    <3>. QED  BY <2>2, <3>1, BoundAssumption DEF Tick, Job
  <2>. QED  BY <2>1, <2>2
<1>2. now' \in 0..MaxNow
  BY WindowAssumption DEF Tick, TypeOK
<1>3. waited' \in [Bookings -> Nat]
  BY DEF Tick, TypeOK
<1>. QED  BY <1>1, <1>2, <1>3 DEF Tick, TypeOK

-----------------------------------------------------------------------------
(* The invariant                                                           *)

\* What ReminderInv says of one booking, in the numbers that it is made of.
LEMMA TripsOwed ==
    ASSUME ReminderInv, Trips PROVE ReminderInv'
<1>0. TypeOK /\ faults \in Nat /\ reminders \in [Bookings -> Nat] /\ most \in [Bookings -> Nat]
  BY BoundAssumption DEF ReminderInv, TypeOK
<1>1. \A b \in Bookings : /\ most' \in [Bookings -> Nat] /\ most[b] <= most'[b]
                          /\ Cardinality(Planned(b)') <= most'[b]
  BY <1>0, TripsPlanned DEF ReminderInv
<1>2. CASE Bookings = {}
  <2>1. most' \in [Bookings -> Nat]
    <3>1. Links = {}
      BY <1>2, LinkParts
    <3>2. UNCHANGED most
      BY <1>2, <3>1 DEF Trips
    <3>. QED  BY <1>0, <3>2
  <2>. QED  BY <1>0, <1>2, <2>1, TripsType DEF ReminderInv
<1>3. CASE Bookings # {}
  <2>1. most' \in [Bookings -> Nat]
    BY <1>1, <1>3
  <2>2. TypeOK' /\ UNCHANGED <<marked, reminders, job, faults>>
    BY <1>0, <2>1, TripsType
  <2>3. ASSUME NEW b \in Bookings
        PROVE  /\ Cardinality(Planned(b)') <= most'[b]
               /\ reminders'[b] + InRun(b)' <= Owed(b, faults + 1)'
               /\ job' # None => (job'.broken => reminders'[b] + InRun(b)' <= Owed(b, faults)')
               /\ b \in marked' \/ (job' # None /\ job'.sent # None /\ job'.sent[1] = b)
                  \/ reminders'[b] <= Owed(b, faults)'
    <3>1. PICK f \in Nat : f = faults
      BY <1>0
    <3>2. PICK m \in Nat : m = most[b]
      BY <1>0
    <3>3. PICK n \in Nat : n = most'[b]
      BY <2>1
    <3>a. m <= n /\ n <= n
      BY <1>1, <3>2, <3>3
    <3>b. m * f <= n * f /\ m * f \in Nat /\ m * (f + 1) = m * f + m
      BY <3>a, TimesMore
    <3>c. n * f \in Nat /\ n * (f + 1) = n * f + n
      BY <3>a, TimesMore
    <3>4. m <= n /\ m * f <= n * f /\ m * f \in Nat /\ n * f \in Nat
          /\ m * (f + 1) = m * f + m /\ n * (f + 1) = n * f + n
      BY <3>a, <3>b, <3>c
    <3>5. /\ Owed(b, faults) = m * f /\ Owed(b, faults + 1) = m * (f + 1)
          /\ Owed(b, faults)' = n * f /\ Owed(b, faults + 1)' = n * (f + 1)
      BY <2>2, <3>1, <3>2, <3>3 DEF Owed
    <3>6. InRun(b)' = InRun(b)
      BY <2>2 DEF InRun
    <3>7. reminders[b] \in Nat /\ InRun(b) \in Nat
      BY <1>0, RowsFinite DEF InRun, TypeOK, Job
    <3>8. /\ reminders[b] + InRun(b) <= Owed(b, faults + 1)
          /\ job # None => (job.broken => reminders[b] + InRun(b) <= Owed(b, faults))
          /\ b \in marked \/ (job # None /\ job.sent # None /\ job.sent[1] = b)
             \/ reminders[b] <= Owed(b, faults)
      BY DEF ReminderInv
    <3>9. reminders[b] + InRun(b) <= n * (f + 1)
      BY <3>4, <3>5, <3>7, <3>8
    <3>10. job # None => (job.broken => reminders[b] + InRun(b) <= n * f)
      BY <3>4, <3>5, <3>7, <3>8
    <3>11. b \in marked \/ (job # None /\ job.sent # None /\ job.sent[1] = b)
           \/ reminders[b] <= n * f
      BY <3>4, <3>5, <3>7, <3>8
    <3>. QED  BY <1>1, <2>2, <3>5, <3>6, <3>9, <3>10, <3>11
  <2>. QED  BY <2>2, <2>3 DEF ReminderInv
<1>. QED  BY <1>2, <1>3

LEMMA ReminderStep == ReminderInv /\ [Next]_vars => ReminderInv'
<1>. SUFFICES ASSUME ReminderInv, [Next]_vars PROVE ReminderInv'
  OBVIOUS
<1>0. /\ TypeOK /\ reminders \in [Bookings -> Nat] /\ faults \in Nat
      /\ most \in [Bookings -> Nat]
  BY BoundAssumption DEF ReminderInv, TypeOK
<1>a. ASSUME NEW b \in Bookings
      PROVE  /\ Owed(b, faults) \in Nat /\ Owed(b, faults + 1) = Owed(b, faults) + most[b]
             /\ most[b] \in Nat /\ reminders[b] \in Nat /\ InRun(b) \in Nat
             /\ Cardinality(Planned(b)) <= most[b]
             /\ reminders[b] + InRun(b) <= Owed(b, faults + 1)
             /\ job # None => (job.broken => reminders[b] + InRun(b) <= Owed(b, faults))
             /\ b \in marked \/ (job # None /\ job.sent # None /\ job.sent[1] = b)
                \/ reminders[b] <= Owed(b, faults)
  <2>1. InRun(b) \in Nat
    BY <1>0, RowsFinite DEF InRun, TypeOK, Job
  <2>. QED  BY <1>0, <2>1, OwedMore DEF ReminderInv
<1>1. ASSUME Trips PROVE ReminderInv'
  BY <1>1, TripsOwed
<1>2. ASSUME UNCHANGED <<most, pickup, faults>>, NEW b \in Bookings
      PROVE  /\ Planned(b)' = Planned(b)
             /\ Owed(b, faults)' = Owed(b, faults) /\ Owed(b, faults + 1)' = Owed(b, faults + 1)
  BY <1>2 DEF Planned, RowsOf, Owed
<1>3. ASSUME StartRun PROVE ReminderInv'
  <2>1. TypeOK'
    BY <1>0, <1>3, StartType
  <2>2. UNCHANGED <<marked, reminders, faults, most, pickup>>
    BY <1>3 DEF StartRun, tripVars
  <2>3. CASE job' = job
    <3>1. \A b \in Bookings : InRun(b)' = InRun(b)
      BY <2>3 DEF InRun
    <3>. QED  BY <1>2, <2>1, <2>2, <2>3, <3>1 DEF ReminderInv
  <2>4. CASE job' # job
    <3>1. job = None
      BY <1>3, <2>4 DEF StartRun
    <3>2. job' = [left |-> Candidates, sent |-> None, broken |-> FALSE, age |-> 0]
      BY <1>3, <2>4, <3>1 DEF StartRun
    <3>3. job'.left = Candidates /\ job'.sent = None /\ ~job'.broken
      BY <3>2
    <3>4. ASSUME NEW b \in Bookings
          PROVE  /\ reminders'[b] + InRun(b)' <= Owed(b, faults + 1)
                 /\ b \in marked' \/ reminders'[b] <= Owed(b, faults)
      <4>1. b \in marked \/ reminders[b] <= Owed(b, faults)
        BY <1>a, <3>1
      <4>2. PICK k : k = InRun(b)'
        OBVIOUS
      <4>3. k = 0 \/ k = Cardinality(RowsOf(b, Candidates))
        BY <3>3, <4>2 DEF InRun
      <4>4. RowsOf(b, Candidates) \in SUBSET Planned(b)
        BY DEF RowsOf, Candidates, Candidate, Planned
      <4>5. Cardinality(RowsOf(b, Candidates)) <= most[b]
            /\ Cardinality(RowsOf(b, Candidates)) \in Nat
        BY <1>a, <4>4, PlannedFinite, FS_Subset, FS_CardinalityType
      <4>6. CASE b \in marked
        <5>1. RowsOf(b, Candidates) = {}
          BY <4>6 DEF RowsOf, Candidates, Candidate
        <5>2. k = 0
          BY <4>3, <5>1, FS_EmptySet
        <5>. QED  BY <1>a, <2>2, <3>1, <4>2, <4>6, <5>2
      <4>7. CASE b \notin marked
        <5>1. reminders[b] <= Owed(b, faults) /\ k <= most[b] /\ k \in Nat
          BY <1>a, <4>1, <4>3, <4>5, <4>7
        <5>. QED  BY <1>a, <2>2, <4>2, <5>1
      <4>. QED  BY <4>6, <4>7
    <3>. QED  BY <1>2, <1>a, <2>1, <2>2, <3>3, <3>4 DEF ReminderInv
  <2>. QED  BY <2>3, <2>4
<1>4. ASSUME NEW l \in Links, Remind(l) PROVE ReminderInv'
  <2>1. TypeOK'
    BY <1>0, <1>4, RemindType
  <2>2. /\ job \in Job /\ job # None /\ job.sent = None /\ l \in job.left
        /\ UNCHANGED <<marked, faults, most, pickup>> /\ l[1] \in Bookings
    BY <1>4, LinkParts DEF Remind, ReminderInv, TypeOK, tripVars
  <2>3. job' \in Job /\ job'.left = job.left \ {l} /\ job'.broken = job.broken
    <3>1. \/ job' = [job EXCEPT !.left = @ \ {l}]
          \/ job' = [job EXCEPT !.left = @ \ {l}, !.sent = None]
          \/ job' = [job EXCEPT !.left = @ \ {l}, !.sent = l]
      BY <1>4 DEF Remind
    <3>. QED  BY <2>2, <3>1 DEF Job
  <2>4. job' # None
    BY <2>3, NoneIsNew
  <2>5. /\ job'.sent = None \/ job'.sent = l
        /\ job'.sent = None => job.broken
    BY <1>4, <2>2, NoneIsNew DEF Remind, Job
  <2>6. ASSUME NEW b \in Bookings
        PROVE  /\ reminders'[b] + InRun(b)' <= reminders[b] + InRun(b)
               /\ b # l[1] => reminders'[b] = reminders[b]
               /\ reminders'[b] \in Nat /\ InRun(b)' \in Nat
    <3>1. InRun(b)' = InRun(b) - IF l[1] = b THEN 1 ELSE 0
      BY <2>2, <2>3, <2>4, RowTaken DEF InRun, Job
    <3>2. InRun(b)' \in Nat
      BY <2>1, RowsFinite DEF InRun, TypeOK, Job
    <3>3. /\ reminders'[b] <= reminders[b] + IF l[1] = b THEN 1 ELSE 0
          /\ b # l[1] => reminders'[b] = reminders[b]
          /\ reminders'[b] \in Nat
      BY <1>0, <1>4, <2>2 DEF Remind
    <3>. QED  BY <1>a, <3>1, <3>2, <3>3
  <2>7. ASSUME NEW b \in Bookings
        PROVE  /\ reminders'[b] + InRun(b)' <= Owed(b, faults + 1)
               /\ job'.broken => reminders'[b] + InRun(b)' <= Owed(b, faults)
               /\ b \in marked' \/ (job'.sent # None /\ job'.sent[1] = b)
                  \/ reminders'[b] <= Owed(b, faults)
    <3>1. reminders'[b] + InRun(b)' <= Owed(b, faults + 1)
      BY <1>a, <2>6
    <3>2. job'.broken => reminders'[b] + InRun(b)' <= Owed(b, faults)
      BY <1>a, <2>2, <2>3, <2>6
    <3>3. CASE job.broken
      <4>1. reminders'[b] <= Owed(b, faults)
        BY <1>a, <2>3, <2>6, <3>2, <3>3
      <4>. QED  BY <3>1, <3>2, <4>1
    <3>4. CASE ~job.broken
      <4>1. job'.sent = l /\ l # None
        BY <2>5, <3>4, NoneIsNew
      <4>2. CASE b = l[1]
        BY <3>1, <3>2, <4>1, <4>2
      <4>3. CASE b # l[1]
        BY <1>a, <2>2, <2>6, <3>1, <3>2, <4>3
      <4>. QED  BY <4>2, <4>3
    <3>. QED  BY <3>3, <3>4
  <2>. QED  BY <1>2, <1>a, <2>1, <2>2, <2>4, <2>7 DEF ReminderInv
<1>5. ASSUME MarkSent PROVE ReminderInv'
  <2>1. TypeOK'
    BY <1>0, <1>5, MarkType
  <2>2. /\ job \in Job /\ job # None /\ job.sent \in Links /\ UNCHANGED <<reminders, most, pickup>>
    BY <1>5 DEF MarkSent, ReminderInv, TypeOK, Job, tripVars
  <2>3. job' \in Job /\ job'.left = job.left /\ job'.sent = None
    BY <1>5, <2>2 DEF MarkSent, Job
  <2>4. job' # None /\ \A b \in Bookings : InRun(b)' = InRun(b)
    BY <2>2, <2>3, NoneIsNew DEF InRun
  <2>5. CASE marked' = marked \union {job.sent[1]} /\ faults' = faults
             /\ job'.broken = job.broken
    <3>1. ASSUME NEW b \in Bookings
          PROVE  /\ reminders'[b] + InRun(b)' <= Owed(b, faults + 1)
                 /\ job'.broken => reminders'[b] + InRun(b)' <= Owed(b, faults)
                 /\ b \in marked' \/ reminders'[b] <= Owed(b, faults)
      BY <1>a, <2>2, <2>4, <2>5
    <3>. QED  BY <1>2, <1>a, <2>1, <2>2, <2>5, <3>1 DEF ReminderInv
  <2>6. CASE faults' = faults + 1 /\ marked' = marked
    <3>1. ASSUME NEW b \in Bookings
          PROVE  /\ reminders'[b] + InRun(b)' <= Owed(b, faults)'
                 /\ reminders'[b] + InRun(b)' <= Owed(b, faults + 1)'
                 /\ reminders'[b] <= Owed(b, faults)' /\ Planned(b)' = Planned(b)
      <4>1. Owed(b, faults)' = Owed(b, faults + 1) /\ Planned(b)' = Planned(b)
        BY <2>2, <2>6 DEF Owed, Planned, RowsOf
      <4>2. most' \in [Bookings -> Nat] /\ faults' \in Nat
        BY <1>0, <2>2, <2>6
      <4>3. PICK f \in Nat : f = faults + 1
        BY <1>0
      <4>4. Owed(b, faults + 1)' = most[b] * (f + 1) /\ Owed(b, faults)' = most[b] * f
        BY <2>2, <2>6, <4>3 DEF Owed
      <4>5. most[b] * (f + 1) = most[b] * f + most[b]
        BY <1>a, <4>3, TimesMore
      <4>6. reminders'[b] + InRun(b)' <= Owed(b, faults)'
        BY <1>a, <2>2, <2>4, <4>1
      <4>7. Owed(b, faults)' \in Nat /\ Owed(b, faults + 1)' = Owed(b, faults)' + most[b]
        BY <1>a, <4>1, <4>4, <4>5
      <4>. QED  BY <1>a, <2>2, <2>4, <4>1, <4>6, <4>7
    <3>. QED  BY <1>a, <2>1, <2>2, <3>1 DEF ReminderInv
  <2>. QED  BY <1>5, <2>2, <2>5, <2>6 DEF MarkSent, Job
<1>6. ASSUME EndRun PROVE ReminderInv'
  <2>1. /\ job # None /\ job.sent = None /\ job' = None
        /\ UNCHANGED <<reminders, most, pickup, marked, faults>> /\ TypeOK'
    BY <1>0, <1>6 DEF EndRun, TypeOK, tripVars
  <2>2. ASSUME NEW b \in Bookings
        PROVE  /\ reminders'[b] + InRun(b)' <= Owed(b, faults + 1)
               /\ b \in marked' \/ reminders'[b] <= Owed(b, faults)
    <3>1. InRun(b)' = 0
      BY <2>1 DEF InRun
    <3>. QED  BY <1>a, <2>1, <3>1
  <2>. QED  BY <1>2, <1>a, <2>1, <2>2 DEF ReminderInv
<1>7. ASSUME Restart PROVE ReminderInv'
  <2>1. TypeOK'
    BY <1>0, <1>7, BoundAssumption DEF Restart, TypeOK, tripVars
  <2>2. UNCHANGED <<reminders, most, pickup>> /\ faults' = faults + 1 /\ job' = None
    BY <1>7 DEF Restart, tripVars
  <2>3. ASSUME NEW b \in Bookings
        PROVE  /\ reminders'[b] + InRun(b)' <= Owed(b, faults + 1)'
               /\ reminders'[b] <= Owed(b, faults)' /\ Planned(b)' = Planned(b)
    <3>1. InRun(b)' = 0 /\ Owed(b, faults)' = Owed(b, faults + 1) /\ Planned(b)' = Planned(b)
      BY <2>2 DEF InRun, Owed, Planned, RowsOf
    <3>2. PICK f \in Nat : f = faults + 1
      BY <1>0
    <3>3. Owed(b, faults + 1)' = most[b] * (f + 1) /\ Owed(b, faults)' = most[b] * f
      BY <2>2, <3>2 DEF Owed
    <3>4. most[b] * (f + 1) = most[b] * f + most[b]
      BY <1>a, <3>2, TimesMore
    <3>5. Owed(b, faults + 1)' = Owed(b, faults)' + most[b] /\ Owed(b, faults)' \in Nat
      BY <1>a, <3>1, <3>3, <3>4
    <3>. QED  BY <1>a, <2>2, <3>1, <3>5
  <2>. QED  BY <1>a, <2>1, <2>2, <2>3 DEF ReminderInv
<1>8. ASSUME Tick PROVE ReminderInv'
  <2>1. TypeOK' /\ UNCHANGED <<marked, reminders, faults, most, pickup>>
    BY <1>0, <1>8, TickType DEF Tick
  <2>2. /\ job' # None <=> job # None
        /\ job # None => /\ job'.left = job.left /\ job'.sent = job.sent
                         /\ job'.broken = job.broken
    <3>1. CASE job = None
      BY <1>8, <3>1 DEF Tick
    <3>2. CASE job # None
      <4>1. job \in Job /\ job' = [job EXCEPT !.age = @ + 1] /\ job.age < MaxRun
        BY <1>0, <1>8, <3>2 DEF Tick, TypeOK
      <4>2. job' \in Job
        BY <4>1, BoundAssumption DEF Job
      <4>. QED  BY <3>2, <4>1, <4>2, NoneIsNew DEF Job
    <3>. QED  BY <3>1, <3>2
  <2>3. \A b \in Bookings : InRun(b)' = InRun(b)
    BY <2>2 DEF InRun
  <2>. QED  BY <1>2, <1>a, <2>1, <2>2, <2>3 DEF ReminderInv
<1>9. CASE UNCHANGED vars
  <2>1. TypeOK' /\ UNCHANGED <<marked, reminders, faults, most, pickup, job>>
    BY <1>0, <1>9 DEF vars, tripVars, TypeOK
  <2>2. \A b \in Bookings : InRun(b)' = InRun(b)
    BY <2>1 DEF InRun
  <2>. QED  BY <1>2, <1>a, <2>1, <2>2 DEF ReminderInv
<1>. QED  BY <1>1, <1>3, <1>4, <1>5, <1>6, <1>7, <1>8, <1>9 DEF Next, Trips

-----------------------------------------------------------------------------
\* The columns and the run hold what they may, for any bookings and bounds.
THEOREM ReminderTypes == Spec => []TypeOK
<1>1. ReminderInv => TypeOK
  BY DEF ReminderInv
<1>. QED  BY <1>1, InitReminder, ReminderStep, PTL DEF Spec

\* A booking is reminded of once for each route that it is on at a time, and as
\* often again for each restart or error.
THEOREM OneReminder == Spec => []RemindedOnce
<1>1. ReminderInv => RemindedOnce
  <2>. SUFFICES ASSUME ReminderInv, NEW b \in Bookings
                PROVE  reminders[b] <= most[b] * (1 + faults)
    BY DEF RemindedOnce
  <2>1. reminders[b] \in Nat /\ InRun(b) \in Nat /\ most[b] \in Nat /\ faults \in Nat
    BY RowsFinite, BoundAssumption DEF ReminderInv, InRun, TypeOK, Job
  <2>2. reminders[b] + InRun(b) <= most[b] * (faults + 1)
    BY DEF ReminderInv, Owed
  <2>3. PICK m \in Nat : m = most[b] * (faults + 1)
    BY <2>1, TimesMore
  <2>4. faults + 1 = 1 + faults
    BY <2>1
  <2>. QED  BY <2>1, <2>2, <2>3, <2>4
<1>. QED  BY <1>1, InitReminder, ReminderStep, PTL DEF Spec

-----------------------------------------------------------------------------
(* Reminders: how long a booking waits for its own                         *)

\* Without a fault: who waits while a run goes on is one of its candidates or
\* became due after it started; and a run that is over has left nobody who was
\* due when it started.
InHand(b) == (\E l \in job.left : l[1] = b) \/ (job.sent # None /\ job.sent[1] = b)

WaitInv ==
    faults = 0 =>
        /\ job # None => ~job.broken
        /\ \A b \in Bookings :
               /\ ~Due(b) => waited[b] = 0
               /\ job = None => waited[b] <= MaxRun + 1 /\ (~trigger => waited[b] <= MaxRun)
               /\ job # None => IF InHand(b)
                                THEN waited[b] <= MaxRun + 1 + job.age
                                ELSE waited[b] <= job.age

LEMMA InitWait == Init => WaitInv
BY BoundAssumption DEF Init, WaitInv

\* Nobody waits longer because of a handler.
LEMMA WaitingShorter ==
    ASSUME TypeOK, Waiting, NEW b \in Bookings
    PROVE  waited'[b] <= waited[b] /\ (~Due(b)' => waited'[b] = 0)
BY DEF TypeOK, Waiting

LEMMA WaitTrips == ASSUME TypeOK, WaitInv, Trips  PROVE WaitInv'
<1>1. Waiting /\ UNCHANGED <<job, trigger, faults>>
  BY DEF Trips, Plan, Cancel, Reopen, Leave, Unplan, MovePickup, Handler
<1>2. waited \in [Bookings -> Nat] /\ waited' \in [Bookings -> Nat] /\ job \in Job \union {None}
  BY <1>1, WaitingType DEF TypeOK
<1>. SUFFICES ASSUME faults = 0, NEW b \in Bookings
     PROVE  /\ job # None => ~job.broken
            /\ ~Due(b)' => waited'[b] = 0
            /\ job = None => waited'[b] <= MaxRun + 1 /\ (~trigger => waited'[b] <= MaxRun)
            /\ job # None => IF InHand(b)
                             THEN waited'[b] <= MaxRun + 1 + job.age
                             ELSE waited'[b] <= job.age
  BY <1>1 DEF WaitInv, InHand
<1>3. waited'[b] <= waited[b] /\ (~Due(b)' => waited'[b] = 0)
  BY <1>1, WaitingShorter
<1>4. waited[b] \in Nat /\ waited'[b] \in Nat
  BY <1>2
<1>5. CASE job = None
  <2>1. waited[b] <= MaxRun + 1 /\ (~trigger => waited[b] <= MaxRun)
    BY <1>5 DEF WaitInv
  <2>. QED  BY <1>3, <1>4, <1>5, <2>1, BoundAssumption
<1>6. CASE job # None
  <2>1. ~job.broken /\ IF InHand(b) THEN waited[b] <= MaxRun + 1 + job.age
                       ELSE waited[b] <= job.age
    BY <1>6 DEF WaitInv
  <2>2. job.age \in Nat
    BY <1>2, <1>6 DEF Job
  <2>. QED  BY <1>3, <1>4, <1>6, <2>1, <2>2, BoundAssumption
<1>. QED  BY <1>5, <1>6

LEMMA WaitStart == ASSUME TypeOK, WaitInv, StartRun  PROVE WaitInv'
<1>1. UNCHANGED <<waited, faults>> /\ \A b \in Bookings : Due(b)' = Due(b)
  BY DEF StartRun, tripVars, Due, Candidates, Candidate, InWindow
<1>2. CASE job # None
  <2>1. job' = job
    BY <1>2 DEF StartRun
  <2>2. \A b \in Bookings : InHand(b)' <=> InHand(b)
    BY <2>1 DEF InHand
  <2>. QED  BY <1>1, <1>2, <2>1, <2>2 DEF WaitInv
<1>3. CASE job = None /\ Candidates = {}
  <2>1. job' = None
    BY <1>3 DEF StartRun
  <2>2. \A b \in Bookings : ~Due(b)
    BY <1>3 DEF Due
  <2>. QED  BY <1>1, <1>3, <2>1, <2>2, BoundAssumption DEF WaitInv
<1>4. CASE job = None /\ Candidates # {}
  <2>1. job' = [left |-> Candidates, sent |-> None, broken |-> FALSE, age |-> 0]
    BY <1>4 DEF StartRun
  <2>2. job' \in Job
    BY <2>1, BoundAssumption DEF Job, Candidates
  <2>3. /\ job' # None /\ ~job'.broken /\ job'.age = 0 /\ job'.sent = None
        /\ \A b \in Bookings : InHand(b)' <=> Due(b)
    BY <2>1, <2>2, NoneIsNew DEF InHand, Due
  <2>4. ASSUME faults = 0, NEW b \in Bookings
        PROVE  IF Due(b) THEN waited[b] <= MaxRun + 1 + 0 ELSE waited[b] <= 0
    BY <1>4, <2>4, BoundAssumption DEF WaitInv, TypeOK
  <2>. QED  BY <1>1, <2>3, <2>4 DEF WaitInv
<1>. QED  BY <1>2, <1>3, <1>4

LEMMA WaitRemind ==
    ASSUME TypeOK, WaitInv, NEW l \in Links, Remind(l)  PROVE WaitInv'
<1>1. /\ job \in Job /\ job # None /\ job.sent = None /\ l \in job.left
      /\ UNCHANGED <<waited, faults>> /\ \A d \in Bookings : Due(d)' = Due(d)
  BY DEF TypeOK, Remind, tripVars, Due, Candidates, Candidate, InWindow
<1>. SUFFICES ASSUME faults = 0  PROVE WaitInv'
  BY <1>1 DEF WaitInv
<1>2. ~job.broken
  BY <1>1 DEF WaitInv
<1>3. job' = [job EXCEPT !.left = @ \ {l}, !.sent = l]
  BY <1>1, <1>2 DEF Remind
<1>4. /\ job' \in Job /\ job'.left = job.left \ {l} /\ job'.sent = l /\ job'.age = job.age
      /\ job'.broken = job.broken /\ l # None
  BY <1>1, <1>3, NoneIsNew DEF Job
<1>5. \A b \in Bookings : InHand(b)' <=> InHand(b)
  BY <1>1, <1>4 DEF InHand
<1>6. job' # None
  BY <1>4, NoneIsNew
<1>. QED  BY <1>1, <1>2, <1>4, <1>5, <1>6 DEF WaitInv

LEMMA WaitMark == ASSUME TypeOK, WaitInv, MarkSent  PROVE WaitInv'
<1>1. /\ job \in Job /\ job # None /\ job.sent \in Links /\ Waiting
  BY DEF TypeOK, MarkSent, Job
<1>2. waited \in [Bookings -> Nat] /\ waited' \in [Bookings -> Nat] /\ faults \in 0..MaxFaults
  BY <1>1, WaitingType DEF TypeOK
<1>. SUFFICES ASSUME faults' = 0  PROVE WaitInv'
  BY DEF WaitInv
<1>3. faults = 0 /\ marked' = marked \union {job.sent[1]} /\ job' = [job EXCEPT !.sent = None]
  BY <1>2, BoundAssumption DEF MarkSent
<1>4. /\ job' \in Job /\ job'.left = job.left /\ job'.sent = None /\ job'.age = job.age
      /\ job'.broken = job.broken /\ job' # None
  BY <1>1, <1>3, NoneIsNew DEF Job
<1>5. ASSUME NEW b \in Bookings, b = job.sent[1]  PROVE ~Due(b)'
  BY <1>3, <1>5 DEF Due, Candidates, Candidate
<1>6. \A b \in Bookings : waited'[b] <= waited[b] /\ (~Due(b)' => waited'[b] = 0)
  BY <1>1, WaitingShorter
<1>7. ASSUME NEW b \in Bookings
      PROVE  IF InHand(b)' THEN waited'[b] <= MaxRun + 1 + job.age
             ELSE waited'[b] <= job.age
  <2>1. CASE b = job.sent[1]
    <3>1. waited'[b] = 0
      BY <1>5, <1>6, <2>1
    <3>. QED  BY <1>1, <3>1, BoundAssumption DEF Job
  <2>2. CASE b # job.sent[1]
    <3>. InHand(b)' <=> InHand(b)
      BY <1>4, <2>2 DEF InHand
    <3>1. /\ InHand(b)' => waited[b] <= MaxRun + 1 + job.age
          /\ ~InHand(b)' => waited[b] <= job.age
      BY <1>1, <1>3 DEF WaitInv
    <3>2. waited'[b] <= waited[b] /\ waited[b] \in Nat /\ waited'[b] \in Nat /\ job.age \in Nat
      BY <1>1, <1>2, <1>6 DEF Job
    <3>. QED  BY <3>1, <3>2, BoundAssumption
  <2>. QED  BY <2>1, <2>2
<1>. QED  BY <1>1, <1>3, <1>4, <1>6, <1>7 DEF WaitInv

LEMMA WaitTick == ASSUME TypeOK, WaitInv, Tick  PROVE WaitInv'
<1>1. /\ waited \in [Bookings -> Nat] /\ ~trigger /\ trigger' = TRUE
      /\ faults' = faults /\ job \in Job \union {None}
      /\ \A b \in Bookings : waited'[b] = IF Due(b) /\ Due(b)' THEN waited[b] + 1 ELSE 0
  BY DEF TypeOK, Tick
<1>2. ASSUME NEW b \in Bookings
      PROVE  waited'[b] <= waited[b] + 1 /\ (~Due(b)' => waited'[b] = 0) /\ waited[b] \in Nat
             /\ waited'[b] \in Nat
  BY <1>1
<1>. SUFFICES ASSUME faults = 0  PROVE WaitInv'
  BY <1>1 DEF WaitInv
<1>3. CASE job = None
  <2>1. job' = None
    BY <1>3 DEF Tick
  <2>2. \A b \in Bookings : waited'[b] <= MaxRun + 1
    BY <1>1, <1>2, <1>3, BoundAssumption DEF WaitInv
  <2>. QED  BY <1>1, <1>2, <2>1, <2>2 DEF WaitInv
<1>4. CASE job # None
  <2>1. job \in Job /\ job' = [job EXCEPT !.age = @ + 1] /\ job.age < MaxRun
    BY <1>1, <1>4 DEF Tick
  <2>2. /\ job'.left = job.left /\ job'.sent = job.sent /\ job'.broken = job.broken
        /\ job'.age = job.age + 1 /\ job.age \in Nat /\ job' \in Job
    BY <2>1, BoundAssumption DEF Job
  <2>3. ASSUME NEW b \in Bookings
        PROVE  IF InHand(b)' THEN waited'[b] <= MaxRun + 1 + (job.age + 1)
               ELSE waited'[b] <= job.age + 1
    <3>1. InHand(b)' <=> InHand(b)
      BY <2>2 DEF InHand
    <3>2. IF InHand(b) THEN waited[b] <= MaxRun + 1 + job.age ELSE waited[b] <= job.age
      BY <1>4 DEF WaitInv
    <3>. QED  BY <1>2, <2>2, <3>1, <3>2, BoundAssumption
  <2>4. job' # None
    BY <2>2, NoneIsNew
  <2>. QED  BY <1>2, <1>4, <2>2, <2>3, <2>4 DEF WaitInv
<1>. QED  BY <1>3, <1>4

LEMMA WaitStep == ReminderInv /\ WaitInv /\ [Next]_vars => WaitInv'
<1>. SUFFICES ASSUME TypeOK, WaitInv, [Next]_vars  PROVE WaitInv'
  BY DEF ReminderInv
<1>1. CASE Trips
  BY <1>1, WaitTrips
<1>2. CASE StartRun
  BY <1>2, WaitStart
<1>3. CASE \E l \in Links : Remind(l)
  BY <1>3, WaitRemind
<1>4. CASE MarkSent
  BY <1>4, WaitMark
<1>5. CASE EndRun
  <2>1. /\ job \in Job /\ job # None /\ job.left = {} /\ job.sent = None /\ job' = None
        /\ UNCHANGED <<waited, trigger, faults>> /\ \A b \in Bookings : Due(b)' = Due(b)
    BY <1>5 DEF EndRun, TypeOK, tripVars, Due, Candidates, Candidate, InWindow
  <2>2. \A b \in Bookings : ~InHand(b)
    BY <2>1 DEF InHand
  <2>3. \A b \in Bookings : faults = 0 => waited[b] <= job.age
    BY <2>1, <2>2 DEF WaitInv
  <2>4. \A b \in Bookings : faults = 0 => waited[b] <= MaxRun
    BY <2>1, <2>3, BoundAssumption DEF Job, TypeOK
  <2>. QED  BY <2>1, <2>4, BoundAssumption DEF WaitInv, TypeOK
<1>6. CASE Restart
  BY <1>6, BoundAssumption DEF Restart, TypeOK, WaitInv
<1>7. CASE Tick
  BY <1>7, WaitTick
<1>8. CASE UNCHANGED vars
  BY <1>8 DEF vars, tripVars, WaitInv, InHand, Due, Candidates, Candidate, InWindow
<1>. QED  BY <1>1, <1>2, <1>3, <1>4, <1>5, <1>6, <1>7, <1>8 DEF Next, Trips

\* Without faults nobody who stays due is passed over for longer than a run that
\* came too early and the one after it last.
THEOREM NobodyWaitsLong == Spec => []NobodyPassedOver
<1>1. ReminderInv /\ WaitInv => NobodyPassedOver
  <2>. SUFFICES ASSUME TypeOK, WaitInv, faults = 0, NEW b \in Bookings
                PROVE  waited[b] <= 2 * MaxRun + 1
    BY DEF NobodyPassedOver, ReminderInv
  <2>1. CASE job = None
    BY <2>1, BoundAssumption DEF WaitInv, TypeOK
  <2>2. CASE job # None
    <3>1. job.age \in 0..MaxRun
      BY <2>2 DEF TypeOK, Job
    <3>2. waited[b] \in Nat /\ (waited[b] <= MaxRun + 1 + job.age \/ waited[b] <= job.age)
      BY <2>2 DEF WaitInv, TypeOK
    <3>. QED  BY <3>1, <3>2, BoundAssumption
  <2>. QED  BY <2>1, <2>2
<1>. QED  BY <1>1, InitReminder, ReminderStep, InitWait, WaitStep, PTL DEF Spec

-----------------------------------------------------------------------------
(* Alerts: they implement the life that the API promises                   *)

\* Of the rows, what the life of an alert is read from.
LifeInv ==
    /\ alertStatus \in [Alerts -> Sos!AlertStatus]
    /\ level \in [Alerts -> Nat]

LEMMA InitLife == Sos!Init => LifeInv /\ Sos!Lifecycle!Init
BY DEF Sos!Init, LifeInv, Sos!Lifecycle!Init, Sos!Life, Sos!AlertStatus, Sos!Ended

\* A new status of one alert shows in the life of that alert only.
LEMMA LifeOfOne ==
    ASSUME LifeInv, NEW a \in Alerts, NEW s \in Sos!AlertStatus,
           alertStatus' = [alertStatus EXCEPT ![a] = s]
    PROVE  Sos!Life' = [Sos!Life EXCEPT ![a] =
                       CASE s = "NONE" -> "none"
                         [] s = "TRIGGERED" -> "waiting"
                         [] s = "ACKNOWLEDGED" -> "attended"
                         [] s \in Sos!Ended -> "ended"
                         [] OTHER -> "erased"]
<1>1. ASSUME NEW b \in Alerts, b # a  PROVE Sos!Life'[b] = Sos!Life[b]
  <2>1. alertStatus'[b] = alertStatus[b]
    BY <1>1 DEF LifeInv
  <2>. QED  BY <2>1 DEF Sos!Life
<1>2. alertStatus'[a] = s
  BY DEF LifeInv
<1>3. /\ Sos!Life' = [b \in Alerts |-> Sos!Life'[b]]
      /\ Sos!Life = [b \in Alerts |-> Sos!Life[b]]
  BY DEF Sos!Life
<1>4. Sos!Life'[a] = CASE s = "NONE" -> "none"
                   [] s = "TRIGGERED" -> "waiting"
                   [] s = "ACKNOWLEDGED" -> "attended"
                   [] s \in Sos!Ended -> "ended"
                   [] OTHER -> "erased"
  BY <1>2 DEF Sos!Life
<1>. QED  BY <1>1, <1>3, <1>4

\* A status that is written again is no step of the life.
LEMMA LifeStays ==
    ASSUME alertStatus' = alertStatus, level' = level
    PROVE  UNCHANGED Sos!Lifecycle!vars
BY DEF Sos!Life, Sos!Lifecycle!vars

LEMMA TriggerRaises ==
    ASSUME LifeInv, NEW a \in Alerts, Sos!TriggerAlert(a)
    PROVE  LifeInv' /\ Sos!Lifecycle!Raise(a)
<1>1. /\ alertStatus[a] = "NONE" /\ Sos!Waiting(Owner[a]) = {}
      /\ alertStatus' = [alertStatus EXCEPT ![a] = "TRIGGERED"] /\ level' = level
  BY DEF Sos!TriggerAlert
<1>2. LifeInv'
  BY <1>1 DEF LifeInv, Sos!AlertStatus, Sos!Open
<1>3. Sos!Life[a] = "none"
  BY <1>1 DEF Sos!Life, Sos!Ended
<1>4. ASSUME NEW b \in Alerts, Owner[b] = Owner[a]  PROVE Sos!Life[b] # "waiting"
  <2>1. alertStatus[b] # "TRIGGERED"
    BY <1>1, <1>4 DEF Sos!Waiting
  <2>. QED  BY <2>1 DEF Sos!Life, Sos!Ended
<1>5. Sos!Life' = [Sos!Life EXCEPT ![a] = "waiting"]
  BY <1>1, LifeOfOne DEF Sos!AlertStatus, Sos!Open, Sos!Ended
<1>. QED  BY <1>1, <1>2, <1>3, <1>4, <1>5 DEF Sos!Lifecycle!Raise

\* Attending to an alert, or closing it, once more is no step of its life.
LEMMA AcknowledgeAttends ==
    ASSUME LifeInv, NEW a \in Alerts, Sos!AcknowledgeAlert(a)
    PROVE  LifeInv' /\ (Sos!Lifecycle!Attend(a) \/ UNCHANGED Sos!Lifecycle!vars)
<1>1. CASE alertStatus[a] = "TRIGGERED"
  <2>1. alertStatus' = [alertStatus EXCEPT ![a] = "ACKNOWLEDGED"] /\ level' = level
    BY <1>1 DEF Sos!AcknowledgeAlert
  <2>2. Sos!Life[a] = "waiting"
    BY <1>1 DEF Sos!Life, Sos!Ended
  <2>3. Sos!Life' = [Sos!Life EXCEPT ![a] = "attended"]
    BY <2>1, LifeOfOne DEF Sos!AlertStatus, Sos!Open, Sos!Ended
  <2>. QED  BY <2>1, <2>2, <2>3 DEF LifeInv, Sos!AlertStatus, Sos!Open, Sos!Lifecycle!Attend
<1>2. CASE alertStatus[a] # "TRIGGERED"
  <2>1. alertStatus' = alertStatus /\ level' = level
    BY <1>2 DEF Sos!AcknowledgeAlert, LifeInv
  <2>. QED  BY <2>1, LifeStays DEF LifeInv
<1>. QED  BY <1>1, <1>2

LEMMA CloseEnds ==
    ASSUME LifeInv, NEW a \in Alerts, NEW s \in Sos!Ended, Sos!CloseAlert(a, s)
    PROVE  LifeInv' /\ (Sos!Lifecycle!End(a) \/ UNCHANGED Sos!Lifecycle!vars)
<1>1. /\ alertStatus[a] \in Sos!Open \union Sos!Ended
      /\ alertStatus' = [alertStatus EXCEPT ![a] = s] /\ level' = level
  BY DEF Sos!CloseAlert
<1>2. s \in Sos!AlertStatus
  BY DEF Sos!AlertStatus
<1>3. Sos!Life' = [Sos!Life EXCEPT ![a] = "ended"]
  BY <1>1, <1>2, LifeOfOne DEF Sos!Ended
<1>4. LifeInv'
  BY <1>1, <1>2 DEF LifeInv
<1>5. CASE alertStatus[a] \in Sos!Open
  <2>1. Sos!Life[a] \in {"waiting", "attended"}
    BY <1>5 DEF Sos!Life, Sos!Open, Sos!Ended
  <2>. QED  BY <1>1, <1>3, <1>4, <2>1 DEF Sos!Lifecycle!End
<1>6. CASE alertStatus[a] \in Sos!Ended
  <2>1. Sos!Life[a] = "ended"
    BY <1>6 DEF Sos!Life, Sos!Ended
  <2>2. Sos!Life' = Sos!Life
    BY <1>3, <2>1 DEF Sos!Life
  <2>. QED  BY <1>1, <1>4, <2>2 DEF Sos!Lifecycle!vars
<1>. QED  BY <1>1, <1>5, <1>6

LEMMA EscalateEscalates ==
    ASSUME LifeInv, NEW a \in Alerts, Sos!EscalateAlert(a)
    PROVE  LifeInv' /\ Sos!Lifecycle!Escalate(a)
<1>1. /\ alertStatus[a] \in Sos!Open /\ alertStatus' = alertStatus
      /\ level' = [level EXCEPT ![a] = @ + 1]
  BY DEF Sos!EscalateAlert
<1>2. Sos!Life[a] \in {"waiting", "attended"} /\ Sos!Life' = Sos!Life
  BY <1>1 DEF Sos!Life, Sos!Open, Sos!Ended
<1>. QED  BY <1>1, <1>2 DEF LifeInv, Sos!Lifecycle!Escalate

LEMMA DeleteErases ==
    ASSUME LifeInv, NEW a \in Alerts, Sos!DeleteAlert(a)
    PROVE  LifeInv' /\ Sos!Lifecycle!Erase(a)
<1>1. /\ alertStatus[a] \in Sos!Open \union Sos!Ended
      /\ alertStatus' = [alertStatus EXCEPT ![a] = "DELETED"]
      /\ level' = [level EXCEPT ![a] = 0]
  BY DEF Sos!DeleteAlert
<1>2. Sos!Life[a] # "none"
  BY <1>1 DEF Sos!Life, Sos!Open, Sos!Ended
<1>3. Sos!Life' = [Sos!Life EXCEPT ![a] = "erased"]
  <2>1. "DELETED" \in Sos!AlertStatus
    BY DEF Sos!AlertStatus
  <2>. QED  BY <1>1, <2>1, LifeOfOne DEF Sos!Ended
<1>4. LifeInv'
  BY <1>1 DEF LifeInv, Sos!AlertStatus
<1>. QED  BY <1>1, <1>2, <1>3, <1>4 DEF Sos!Lifecycle!Erase

\* Neither the configurations nor the tasks, and no restart, touch the alerts.
LEMMA OthersKeepLife ==
    ASSUME LifeInv,
           \/ \E t \in Keepers :
                  \/ \E team \in Sos!Teams : Sos!CreateConfigCheck(t, team)
                  \/ \E c \in Configs, s \in Shapes : Sos!CreateConfigInsert(t, c, s)
           \/ \E c \in Configs : Sos!DeleteConfig(c) \/ \E s \in Shapes : Sos!UpdateConfig(c, s)
           \/ \E k \in Sos!Slots : Sos!RunTask(k)
           \/ Sos!Restart
           \/ UNCHANGED Sos!vars
    PROVE  LifeInv' /\ UNCHANGED Sos!Lifecycle!vars
<1>1. alertStatus' = alertStatus /\ level' = level
  BY DEF Sos!CreateConfigCheck, Sos!CreateConfigInsert, Sos!DeleteConfig, Sos!UpdateConfig,
         Sos!RunTask, Sos!TaskStart, Sos!TaskSend, Sos!TaskMailed, Sos!TaskEnd, Sos!Restart,
         Sos!alertVars, Sos!vars
<1>. QED  BY <1>1, LifeStays DEF LifeInv

LEMMA LifeStep ==
    LifeInv /\ [Sos!Next]_(Sos!vars) => LifeInv' /\ [Sos!Lifecycle!Next]_(Sos!Lifecycle!vars)
<1>. SUFFICES ASSUME LifeInv, [Sos!Next]_(Sos!vars)
              PROVE  LifeInv' /\ [Sos!Lifecycle!Next]_(Sos!Lifecycle!vars)
  OBVIOUS
<1>1. ASSUME NEW a \in Alerts, Sos!TriggerAlert(a)
      PROVE  LifeInv' /\ [Sos!Lifecycle!Next]_(Sos!Lifecycle!vars)
  BY <1>1, TriggerRaises DEF Sos!Lifecycle!Next
<1>2. ASSUME NEW a \in Alerts, Sos!AcknowledgeAlert(a)
      PROVE  LifeInv' /\ [Sos!Lifecycle!Next]_(Sos!Lifecycle!vars)
  BY <1>2, AcknowledgeAttends DEF Sos!Lifecycle!Next
<1>3. ASSUME NEW a \in Alerts, NEW s \in Sos!Ended, Sos!CloseAlert(a, s)
      PROVE  LifeInv' /\ [Sos!Lifecycle!Next]_(Sos!Lifecycle!vars)
  BY <1>3, CloseEnds DEF Sos!Lifecycle!Next
<1>4. ASSUME NEW a \in Alerts, Sos!EscalateAlert(a)
      PROVE  LifeInv' /\ [Sos!Lifecycle!Next]_(Sos!Lifecycle!vars)
  BY <1>4, EscalateEscalates DEF Sos!Lifecycle!Next
<1>5. ASSUME NEW a \in Alerts, Sos!DeleteAlert(a)
      PROVE  LifeInv' /\ [Sos!Lifecycle!Next]_(Sos!Lifecycle!vars)
  BY <1>5, DeleteErases DEF Sos!Lifecycle!Next
<1>. QED  BY <1>1, <1>2, <1>3, <1>4, <1>5, OthersKeepLife DEF Sos!Next

\* Whatever is asked of an alert, by whom and in which order, its end is final, it
\* is escalated only before, and an employee waits with one alert at most.
THEOREM AlertsRefined == NoticesSpec => ImplementsLifecycle
<1>1. NoticesInit => LifeInv /\ Sos!Lifecycle!Init
  BY InitLife DEF NoticesInit
<1>2. LifeInv /\ [NoticesNext]_<<focus, alertsVars, newsVars, chatVars, vars>>
          => LifeInv' /\ [Sos!Lifecycle!Next]_(Sos!Lifecycle!vars)
  <2>1. [NoticesNext]_<<focus, alertsVars, newsVars, chatVars, vars>> => [Sos!Next]_(Sos!vars)
    BY DEF NoticesNext, alertsVars, Sos!vars, Sos!alertVars
  <2>. QED  BY <2>1, LifeStep
<1>. QED
  BY <1>1, <1>2, PTL
  DEF NoticesSpec, ImplementsLifecycle, Sos!ImplementsLifecycle, Sos!Lifecycle!Spec

-----------------------------------------------------------------------------
(* Alerts: the task that announces one tries everybody on its list         *)

\* The task has tried whom the list names before the rest that it has left.
TriedBefore(t) ==
    \E s \in Shapes : \E i \in 1..(Len(s.primary) + 1) :
        /\ t.left = SubSeq(s.primary, i, Len(s.primary))
        /\ \A j \in 1..(i - 1) :
               [alert |-> t.alert, event |-> "TRIGGERED", to |-> s.primary[j]] \in told

SkipInv ==
    /\ Sos!TypeOK
    /\ \A k \in Sos!Slots :
           tasks[k] # None =>
               /\ tasks[k].at = "mailing" => tasks[k].left # <<>>
               /\ /\ tasks[k].event = "TRIGGERED" /\ tasks[k].at # "queued"
                  /\ alertStatus[tasks[k].alert] # "DELETED"
                  => TriedBefore(tasks[k])

\* The rest of a list, and the rest of that.
LEMMA RestOfList ==
    ASSUME NEW S, NEW l \in Seq(S)
    PROVE  /\ SubSeq(l, 1, Len(l)) = l
           /\ \A i \in 1..(Len(l) + 1) :
                  LET rest == SubSeq(l, i, Len(l))
                  IN  /\ rest \in Seq(S)
                      /\ rest # <<>> => /\ i \in 1..Len(l) /\ Head(rest) = l[i] /\ l[i] \in S
                                        /\ Tail(rest) = SubSeq(l, i + 1, Len(l))
<1>1. SubSeq(l, 1, Len(l)) = l
  OBVIOUS
<1>2. ASSUME NEW i \in 1..(Len(l) + 1)
      PROVE  /\ SubSeq(l, i, Len(l)) \in Seq(S)
             /\ SubSeq(l, i, Len(l)) # <<>> =>
                    /\ i \in 1..Len(l) /\ Head(SubSeq(l, i, Len(l))) = l[i] /\ l[i] \in S
                    /\ Tail(SubSeq(l, i, Len(l))) = SubSeq(l, i + 1, Len(l))
  <2>1. SubSeq(l, i, Len(l)) \in Seq(S)
    OBVIOUS
  <2>2. CASE i = Len(l) + 1
    <3>1. SubSeq(l, i, Len(l)) = <<>>
      BY <2>2
    <3>. QED  BY <3>1, <2>1
  <2>3. CASE i \in 1..Len(l)
    <3>1. Head(SubSeq(l, i, Len(l))) = l[i] /\ l[i] \in S
      BY <2>3
    <3>2. Tail(SubSeq(l, i, Len(l))) = SubSeq(l, i + 1, Len(l))
      BY <2>3
    <3>. QED  BY <2>1, <2>3, <3>1, <3>2
  <2>. QED  BY <2>2, <2>3
<1>. QED  BY <1>1, <1>2

\* The lists of recipients that a task may have left.
LEMMA ListsLeft ==
    ASSUME NEW l \in Sos!Lists
    PROVE  /\ l \in Sos!Lefts /\ l \in Seq(Sos!Recipients)
<1>1. l \in Seq(Sos!Recipients)
  <2>1. PICK s \in Shapes : l \in {s.primary, s.escalation, s.primary \o s.escalation}
    BY DEF Sos!Lists
  <2>2. s.primary \in Seq(Sos!Recipients) /\ s.escalation \in Seq(Sos!Recipients)
    BY SosAssumption DEF Sos!Recipients
  <2>3. s.primary \o s.escalation \in Seq(Sos!Recipients)
    BY <2>2
  <2>. QED  BY <2>1, <2>2, <2>3
<1>2. SubSeq(l, 1, Len(l)) = l /\ 1 \in 1..(Len(l) + 1)
  BY <1>1
<1>. QED  BY <1>1, <1>2 DEF Sos!Lefts

LEMMA RestLeft ==
    ASSUME NEW left \in Sos!Lefts, left # <<>>
    PROVE  Head(left) \in Sos!Recipients /\ Tail(left) \in Sos!Lefts
<1>0. PICK l \in Sos!Lists : \E i \in 1..(Len(l) + 1) : left = SubSeq(l, i, Len(l))
  BY DEF Sos!Lefts
<1>1. PICK i \in 1..(Len(l) + 1) : left = SubSeq(l, i, Len(l))
  BY <1>0
<1>2. l \in Seq(Sos!Recipients)
  BY ListsLeft
<1>3. /\ i \in 1..Len(l) /\ Head(left) \in Sos!Recipients
      /\ Tail(left) = SubSeq(l, i + 1, Len(l))
  BY <1>1, <1>2, RestOfList
<1>4. i + 1 \in 1..(Len(l) + 1)
  BY <1>2, <1>3
<1>5. Tail(left) \in {SubSeq(l, j, Len(l)) : j \in 1..(Len(l) + 1)}
  BY <1>3, <1>4
<1>. QED  BY <1>3, <1>5 DEF Sos!Lefts

\* Nothing new is told by one who announces, and what was told of an alert that is
\* there stays on record.
LEMMA SkipKeeps ==
    ASSUME SkipInv, Sos!TypeOK',
           \A k \in Sos!Slots :
               tasks'[k] = tasks[k] \/ tasks'[k] = None \/ tasks'[k].at = "queued",
           \A a \in Alerts : alertStatus'[a] # "DELETED" =>
               alertStatus[a] # "DELETED" /\ \A n \in told : n.alert = a => n \in told'
    PROVE  SkipInv'
<1>1. ASSUME NEW k \in Sos!Slots, tasks'[k] # None, tasks'[k].event = "TRIGGERED",
             tasks'[k].at # "queued", alertStatus'[tasks'[k].alert] # "DELETED"
      PROVE  TriedBefore(tasks[k])'
  <2>1. PICK t : t = tasks[k]
    OBVIOUS
  <2>2. tasks'[k] = t /\ t \in Sos!Task
    BY <1>1, <2>1 DEF SkipInv, Sos!TypeOK
  <2>3. t.alert \in Alerts
    BY <2>2 DEF Sos!Task
  <2>4. alertStatus[t.alert] # "DELETED" /\ \A n \in told : n.alert = t.alert => n \in told'
    BY <1>1, <2>2, <2>3
  <2>5. TriedBefore(t)
    BY <1>1, <2>1, <2>2, <2>4 DEF SkipInv
  <2>6. PICK s \in Shapes : \E i \in 1..(Len(s.primary) + 1) :
            /\ t.left = SubSeq(s.primary, i, Len(s.primary))
            /\ \A j \in 1..(i - 1) :
                   [alert |-> t.alert, event |-> "TRIGGERED", to |-> s.primary[j]] \in told
    BY <2>5 DEF TriedBefore
  <2>7. PICK i \in 1..(Len(s.primary) + 1) :
            /\ t.left = SubSeq(s.primary, i, Len(s.primary))
            /\ \A j \in 1..(i - 1) :
                   [alert |-> t.alert, event |-> "TRIGGERED", to |-> s.primary[j]] \in told
    BY <2>6
  <2>8. \A j \in 1..(i - 1) :
            [alert |-> t.alert, event |-> "TRIGGERED", to |-> s.primary[j]] \in told'
    BY <2>4, <2>7
  <2>. QED  BY <2>2, <2>7, <2>8 DEF TriedBefore
<1>2. ASSUME NEW k \in Sos!Slots, tasks'[k] # None, tasks'[k].at = "mailing"
      PROVE  tasks'[k].left # <<>>
  BY <1>2 DEF SkipInv
<1>. QED  BY <1>1, <1>2 DEF SkipInv

LEMMA SosApplicable ==
    ASSUME NEW team, NEW type  PROVE Sos!Applicable(team, type) \subseteq Configs
BY DEF Sos!Applicable, Sos!Highest, Sos!Covering

LEMMA SosAnnounce ==
    ASSUME SkipInv, NEW a \in Alerts, NEW event \in Sos!Events, NEW C \in SUBSET Configs,
           Sos!Announce(a, event, C)
    PROVE  /\ tasks' \in [Sos!Slots -> Sos!Task \union {None}]
           /\ \A k \in Sos!Slots :
                  tasks'[k] = tasks[k] \/ tasks'[k] = None \/ tasks'[k].at = "queued"
<1>1. tasks \in [Sos!Slots -> Sos!Task \union {None}]
  BY DEF SkipInv, Sos!TypeOK
<1>2. CASE UNCHANGED tasks
  BY <1>1, <1>2
<1>3. CASE C # {}
  <2>1. PICK c \in C, k \in Sos!Slots :
            tasks' = [tasks EXCEPT ![k] = [event |-> event, alert |-> a, config |-> c,
                                           at |-> "queued", left |-> <<>>]]
    BY <1>3 DEF Sos!Announce
  <2>2. PICK t : t = [event |-> event, alert |-> a, config |-> c, at |-> "queued", left |-> <<>>]
    OBVIOUS
  <2>3. t \in Sos!Task /\ t.at = "queued"
    BY <2>2 DEF Sos!Task
  <2>. QED  BY <1>1, <2>1, <2>2, <2>3
<1>. QED  BY <1>2, <1>3 DEF Sos!Announce

LEMMA SosAnnounceStatus ==
    ASSUME SkipInv, NEW a \in Alerts, NEW s \in Sos!Open \union Sos!Ended,
           Sos!AnnounceStatus(a, s)
    PROVE  /\ tasks' \in [Sos!Slots -> Sos!Task \union {None}]
           /\ \A k \in Sos!Slots :
                  tasks'[k] = tasks[k] \/ tasks'[k] = None \/ tasks'[k].at = "queued"
<1>1. PICK D : D = {c \in Sos!Applicable(None, TypeOf[a]) : config[c].notifyStatus}
  OBVIOUS
<1>2. D \in SUBSET Configs /\ s \in Sos!Events
  BY <1>1, SosApplicable DEF Sos!Events
<1>3. CASE Sos!Announce(a, s, D)
  BY <1>2, <1>3, SosAnnounce
<1>4. CASE UNCHANGED tasks
  BY <1>4 DEF SkipInv, Sos!TypeOK
<1>. QED  BY <1>1, <1>3, <1>4 DEF Sos!AnnounceStatus

LEMMA SosEndpoints ==
    ASSUME SkipInv, NEW a \in Alerts,
           \/ Sos!TriggerAlert(a) \/ Sos!AcknowledgeAlert(a) \/ Sos!EscalateAlert(a)
           \/ \E s \in Sos!Ended : Sos!CloseAlert(a, s)
    PROVE  SkipInv'
<1>1. ASSUME UNCHANGED <<config, creating, told, restarts>>,
             level' \in [Alerts -> 0..MaxLevel],
             NEW s \in Sos!AlertStatus, s # "DELETED", alertStatus[a] # "DELETED",
             alertStatus' = [alertStatus EXCEPT ![a] = s],
             tasks' \in [Sos!Slots -> Sos!Task \union {None}],
             \A k \in Sos!Slots :
                 tasks'[k] = tasks[k] \/ tasks'[k] = None \/ tasks'[k].at = "queued"
      PROVE  SkipInv'
  <2>1. Sos!TypeOK'
    BY <1>1 DEF SkipInv, Sos!TypeOK
  <2>2. \A b \in Alerts : alertStatus'[b] # "DELETED" => alertStatus[b] # "DELETED"
    BY <1>1 DEF SkipInv, Sos!TypeOK
  <2>. QED  BY <1>1, <2>1, <2>2, SkipKeeps
<1>2. alertStatus \in [Alerts -> Sos!AlertStatus] /\ level \in [Alerts -> 0..MaxLevel]
  BY DEF SkipInv, Sos!TypeOK
<1>3. CASE Sos!TriggerAlert(a)
  <2>1. PICK D : D = Sos!Applicable(Sos!TokenTeam, TypeOf[a])
    OBVIOUS
  <2>2. D \in SUBSET Configs /\ "TRIGGERED" \in Sos!Events
    BY <2>1, SosApplicable DEF Sos!Events
  <2>3. Sos!Announce(a, "TRIGGERED", D)
    BY <1>3, <2>1 DEF Sos!TriggerAlert
  <2>4. /\ tasks' \in [Sos!Slots -> Sos!Task \union {None}]
        /\ \A k \in Sos!Slots :
               tasks'[k] = tasks[k] \/ tasks'[k] = None \/ tasks'[k].at = "queued"
    BY <2>2, <2>3, SosAnnounce
  <2>5. /\ "TRIGGERED" \in Sos!AlertStatus /\ alertStatus[a] # "DELETED"
        /\ alertStatus' = [alertStatus EXCEPT ![a] = "TRIGGERED"]
        /\ UNCHANGED <<level, config, creating, told, restarts>>
    BY <1>3 DEF Sos!TriggerAlert, Sos!AlertStatus, Sos!Open
  <2>. QED  BY <1>1, <1>2, <2>4, <2>5
<1>4. CASE Sos!AcknowledgeAlert(a)
  <2>1. PICK s : s = IF alertStatus[a] = "TRIGGERED" THEN "ACKNOWLEDGED" ELSE alertStatus[a]
    OBVIOUS
  <2>2. /\ alertStatus[a] \in Sos!Open \union Sos!Ended /\ Sos!AnnounceStatus(a, s)
        /\ alertStatus' = [alertStatus EXCEPT ![a] = s]
        /\ UNCHANGED <<level, config, creating, told, restarts>>
    BY <1>4, <2>1 DEF Sos!AcknowledgeAlert
  <2>3. s \in Sos!Open \union Sos!Ended
    BY <2>1, <2>2 DEF Sos!Open
  <2>4. /\ tasks' \in [Sos!Slots -> Sos!Task \union {None}]
        /\ \A k \in Sos!Slots :
               tasks'[k] = tasks[k] \/ tasks'[k] = None \/ tasks'[k].at = "queued"
    BY <2>2, <2>3, SosAnnounceStatus
  <2>5. s \in Sos!AlertStatus /\ s # "DELETED" /\ alertStatus[a] # "DELETED"
    BY <2>2, <2>3 DEF Sos!AlertStatus, Sos!Open, Sos!Ended
  <2>. QED  BY <1>1, <1>2, <2>2, <2>4, <2>5
<1>5. ASSUME NEW s \in Sos!Ended, Sos!CloseAlert(a, s)  PROVE SkipInv'
  <2>1. /\ alertStatus[a] \in Sos!Open \union Sos!Ended /\ Sos!AnnounceStatus(a, s)
        /\ alertStatus' = [alertStatus EXCEPT ![a] = s]
        /\ UNCHANGED <<level, config, creating, told, restarts>>
    BY <1>5 DEF Sos!CloseAlert
  <2>2. /\ tasks' \in [Sos!Slots -> Sos!Task \union {None}]
        /\ \A k \in Sos!Slots :
               tasks'[k] = tasks[k] \/ tasks'[k] = None \/ tasks'[k].at = "queued"
    BY <2>1, SosAnnounceStatus
  <2>3. s \in Sos!AlertStatus /\ s # "DELETED" /\ alertStatus[a] # "DELETED"
    BY <2>1 DEF Sos!AlertStatus, Sos!Open, Sos!Ended
  <2>. QED  BY <1>1, <1>2, <2>1, <2>2, <2>3
<1>6. CASE Sos!EscalateAlert(a)
  <2>1. PICK D : D = Sos!Applicable(None, TypeOf[a])
    OBVIOUS
  <2>2. D \in SUBSET Configs /\ "ESCALATED" \in Sos!Events
    BY <2>1, SosApplicable DEF Sos!Events
  <2>3. Sos!Announce(a, "ESCALATED", D)
    BY <1>6, <2>1 DEF Sos!EscalateAlert
  <2>4. /\ tasks' \in [Sos!Slots -> Sos!Task \union {None}]
        /\ \A k \in Sos!Slots :
               tasks'[k] = tasks[k] \/ tasks'[k] = None \/ tasks'[k].at = "queued"
    BY <2>2, <2>3, SosAnnounce
  <2>5. /\ alertStatus[a] \in Sos!Open /\ level[a] < MaxLevel
        /\ level' = [level EXCEPT ![a] = @ + 1]
        /\ UNCHANGED <<alertStatus, config, creating, told, restarts>>
    BY <1>6 DEF Sos!EscalateAlert
  <2>6. level' \in [Alerts -> 0..MaxLevel]
    BY <1>2, <2>5, SosAssumption
  <2>7. PICK s : s = alertStatus[a]
    OBVIOUS
  <2>8. /\ s \in Sos!AlertStatus /\ s # "DELETED" /\ alertStatus[a] # "DELETED"
        /\ alertStatus' = [alertStatus EXCEPT ![a] = s]
    BY <1>2, <2>5, <2>7 DEF Sos!Open
  <2>. QED  BY <1>1, <2>4, <2>5, <2>6, <2>8
<1>. QED  BY <1>3, <1>4, <1>5, <1>6

\* An alert that is deleted takes its records along.
LEMMA SosDelete == ASSUME SkipInv, NEW a \in Alerts, Sos!DeleteAlert(a)  PROVE SkipInv'
<1>1. /\ alertStatus' = [alertStatus EXCEPT ![a] = "DELETED"]
      /\ level' = [level EXCEPT ![a] = 0]
      /\ told' = {n \in told : n.alert # a}
      /\ UNCHANGED <<config, creating, tasks, restarts>>
  BY DEF Sos!DeleteAlert
<1>2. alertStatus \in [Alerts -> Sos!AlertStatus] /\ level \in [Alerts -> 0..MaxLevel]
  BY DEF SkipInv, Sos!TypeOK
<1>3. level' \in [Alerts -> 0..MaxLevel]
  BY <1>1, <1>2, SosAssumption
<1>4. alertStatus' \in [Alerts -> Sos!AlertStatus]
  BY <1>1, <1>2 DEF Sos!AlertStatus
<1>5. Sos!TypeOK'
  BY <1>1, <1>3, <1>4 DEF SkipInv, Sos!TypeOK
<1>6. \A b \in Alerts : alertStatus'[b] # "DELETED" =>
          alertStatus[b] # "DELETED" /\ \A n \in told : n.alert = b => n \in told'
  BY <1>1, <1>2
<1>. QED  BY <1>1, <1>5, <1>6, SkipKeeps

\* Configurations come and go under the tasks.
LEMMA SosConfigs ==
    ASSUME SkipInv,
           \/ \E t \in Keepers :
                  \/ \E team \in Sos!Teams : Sos!CreateConfigCheck(t, team)
                  \/ \E c \in Configs, s \in Shapes : Sos!CreateConfigInsert(t, c, s)
           \/ \E c \in Configs : Sos!DeleteConfig(c) \/ \E s \in Shapes : Sos!UpdateConfig(c, s)
    PROVE  SkipInv'
<1>1. config' \in [Configs -> Shapes \union {None}]
  BY DEF SkipInv, Sos!TypeOK, Sos!CreateConfigCheck, Sos!CreateConfigInsert,
         Sos!DeleteConfig, Sos!UpdateConfig
<1>2. creating' \in [Keepers -> Sos!Teams \union {"nothing"}]
  BY DEF SkipInv, Sos!TypeOK, Sos!CreateConfigCheck, Sos!CreateConfigInsert,
         Sos!DeleteConfig, Sos!UpdateConfig
<1>3. UNCHANGED <<alertStatus, level, tasks, told, restarts>>
  BY DEF Sos!CreateConfigCheck, Sos!CreateConfigInsert, Sos!DeleteConfig, Sos!UpdateConfig,
         Sos!alertVars
<1>4. Sos!TypeOK'
  BY <1>1, <1>2, <1>3 DEF SkipInv, Sos!TypeOK
<1>. QED  BY <1>3, <1>4, SkipKeeps

LEMMA SosRestart == ASSUME SkipInv, Sos!Restart  PROVE SkipInv'
<1>1. /\ restarts < MaxRestarts /\ restarts' = restarts + 1
      /\ tasks' = [k \in Sos!Slots |-> None]
      /\ creating' = [t \in Keepers |-> "nothing"]
      /\ UNCHANGED <<alertStatus, level, config, told>>
  BY DEF Sos!Restart, Sos!alertVars
<1>2. restarts' \in 0..MaxRestarts
  BY <1>1, SosAssumption DEF SkipInv, Sos!TypeOK
<1>3. Sos!TypeOK'
  BY <1>1, <1>2 DEF SkipInv, Sos!TypeOK
<1>. QED  BY <1>1, <1>3, SkipKeeps

-----------------------------------------------------------------------------
\* A task with a new rest to tell of; the others keep what they have.
LEMMA SkipMoves ==
    ASSUME SkipInv, NEW k \in Sos!Slots, NEW t \in Sos!Task, tasks' = [tasks EXCEPT ![k] = t],
           told \subseteq told', told' \in SUBSET Sos!Notice,
           UNCHANGED <<alertStatus, level, config, creating, restarts>>,
           t.at = "mailing" => t.left # <<>>,
           t.event = "TRIGGERED" /\ alertStatus[t.alert] # "DELETED" => TriedBefore(t)'
    PROVE  SkipInv'
<1>1. tasks \in [Sos!Slots -> Sos!Task \union {None}]
  BY DEF SkipInv, Sos!TypeOK
<1>2. Sos!TypeOK'
  BY <1>1 DEF SkipInv, Sos!TypeOK
<1>3. ASSUME NEW u \in Sos!Task, TriedBefore(u)  PROVE TriedBefore(u)'
  BY <1>3 DEF TriedBefore
<1>4. ASSUME NEW j \in Sos!Slots, tasks'[j] # None
      PROVE  /\ tasks'[j].at = "mailing" => tasks'[j].left # <<>>
             /\ /\ tasks'[j].event = "TRIGGERED" /\ tasks'[j].at # "queued"
                /\ alertStatus'[tasks'[j].alert] # "DELETED"
                => TriedBefore(tasks[j])'
  <2>1. CASE j = k
    <3>1. tasks'[j] = t
      BY <1>1, <2>1
    <3>. QED  BY <3>1 DEF TriedBefore
  <2>2. CASE j # k
    <3>1. PICK u : u = tasks[j]
      OBVIOUS
    <3>2. tasks'[j] = u /\ u \in Sos!Task
      BY <1>1, <1>4, <2>2, <3>1
    <3>3. /\ u.at = "mailing" => u.left # <<>>
          /\ u.event = "TRIGGERED" /\ u.at # "queued" /\ alertStatus[u.alert] # "DELETED"
                => TriedBefore(u)
      BY <1>4, <3>1, <3>2 DEF SkipInv
    <3>. QED  BY <1>3, <3>2, <3>3 DEF TriedBefore
  <2>. QED  BY <2>1, <2>2
<1>. QED  BY <1>2, <1>4 DEF SkipInv

\* A task is done, or has died.
LEMMA SkipEnds ==
    ASSUME SkipInv, NEW k \in Sos!Slots, tasks' = [tasks EXCEPT ![k] = None],
           UNCHANGED <<alertStatus, level, config, creating, told, restarts>>
    PROVE  SkipInv'
<1>1. tasks \in [Sos!Slots -> Sos!Task \union {None}]
  BY DEF SkipInv, Sos!TypeOK
<1>2. Sos!TypeOK'
  BY <1>1 DEF SkipInv, Sos!TypeOK
<1>3. \A j \in Sos!Slots : tasks'[j] = tasks[j] \/ tasks'[j] = None
  BY <1>1
<1>. QED  BY <1>2, <1>3, SkipKeeps

LEMMA SosTaskStart == ASSUME SkipInv, NEW k \in Sos!Slots, Sos!TaskStart(k)  PROVE SkipInv'
<1>1. PICK t : t = tasks[k]
  OBVIOUS
<1>2. /\ tasks \in [Sos!Slots -> Sos!Task \union {None}] /\ t \in Sos!Task /\ t.at = "queued"
      /\ UNCHANGED <<alertStatus, level, config, creating, told, restarts>>
      /\ told \in SUBSET Sos!Notice
      /\ config \in [Configs -> Shapes \union {None}]
  BY <1>1 DEF SkipInv, Sos!TypeOK, Sos!TaskStart, Sos!alertVars
<1>3. CASE alertStatus[t.alert] = "DELETED" \/ config[t.config] = None
  <2>1. tasks' = [tasks EXCEPT ![k] = None]
    BY <1>1, <1>3 DEF Sos!TaskStart
  <2>. QED  BY <1>2, <2>1, SkipEnds
<1>4. CASE ~(alertStatus[t.alert] = "DELETED" \/ config[t.config] = None)
  <2>1. PICK s : s = config[t.config]
    OBVIOUS
  <2>2. t.config \in Configs
    BY <1>2 DEF Sos!Task
  <2>3. s \in Shapes
    BY <1>2, <1>4, <2>1, <2>2
  <2>4. PICK l : l = Sos!RecipientsOf(t.event, s)
    OBVIOUS
  <2>5. PICK u : u = [t EXCEPT !.at = "sending", !.left = l]
    OBVIOUS
  <2>6. tasks' = [tasks EXCEPT ![k] = u]
    <3>1. tasks' = [tasks EXCEPT ![k].at = "sending", ![k].left = l]
      BY <1>1, <1>4, <2>1, <2>4 DEF Sos!TaskStart
    <3>. QED  BY <1>1, <1>2, <2>5, <3>1
  <2>7. l \in Sos!Lefts \union {<<>>}
    <3>1. {s.primary, s.escalation, s.primary \o s.escalation} \subseteq Sos!Lists
      BY <2>3 DEF Sos!Lists
    <3>2. l \in Sos!Lists \union {<<>>}
      BY <2>4, <3>1 DEF Sos!RecipientsOf
    <3>. QED  BY <3>2, ListsLeft
  <2>8. u \in Sos!Task /\ u.at = "sending" /\ u.event = t.event /\ u.left = l /\ u.alert = t.alert
    BY <1>2, <2>5, <2>7 DEF Sos!Task
  <2>9. ASSUME u.event = "TRIGGERED"  PROVE TriedBefore(u)'
    <3>1. l = s.primary /\ s.primary \in Seq(Sos!Recipients)
      BY <2>3, <2>4, <2>8, <2>9, SosAssumption DEF Sos!RecipientsOf, Sos!Recipients
    <3>2. u.left = SubSeq(s.primary, 1, Len(s.primary)) /\ 1 \in 1..(Len(s.primary) + 1)
      BY <2>8, <3>1
    <3>3. 1..(1 - 1) = {}
      OBVIOUS
    <3>. QED  BY <2>3, <3>2, <3>3 DEF TriedBefore
  <2>. QED  BY <1>2, <2>6, <2>8, <2>9, SkipMoves
<1>. QED  BY <1>3, <1>4

\* Whoever is next on the list is on record, whatever came of it.
LEMMA SosDeliver ==
    ASSUME SkipInv, NEW k \in Sos!Slots, tasks[k] # None, tasks[k].at # "queued",
           tasks[k].left # <<>>, Sos!Deliver(k),
           UNCHANGED <<alertStatus, level, config, creating, restarts>>
    PROVE  SkipInv'
<1>1. PICK t : t = tasks[k]
  OBVIOUS
<1>2. /\ tasks \in [Sos!Slots -> Sos!Task \union {None}] /\ t \in Sos!Task
      /\ told \in SUBSET Sos!Notice
  BY <1>1 DEF SkipInv, Sos!TypeOK
<1>3. CASE alertStatus[t.alert] = "DELETED"
  BY <1>1, <1>3, SkipEnds DEF Sos!Deliver
<1>4. CASE alertStatus[t.alert] # "DELETED"
  <2>1. PICK n : n = [alert |-> t.alert, event |-> t.event, to |-> Head(t.left)]
    OBVIOUS
  <2>2. PICK l : l = Tail(t.left)
    OBVIOUS
  <2>3. PICK u : u = [t EXCEPT !.at = "sending", !.left = l]
    OBVIOUS
  <2>4. t.left \in Sos!Lefts /\ Head(t.left) \in Sos!Recipients /\ l \in Sos!Lefts
    <3>1. t.left \in Sos!Lefts
      BY <1>1, <1>2 DEF Sos!Task
    <3>. QED  BY <1>1, <2>2, <3>1, RestLeft
  <2>5. n \in Sos!Notice
    BY <1>2, <2>1, <2>4 DEF Sos!Notice, Sos!Task
  <2>6. told' = told \union {n} /\ tasks' = [tasks EXCEPT ![k] = u]
    <3>1. /\ told' = told \union {n}
          /\ tasks' = [tasks EXCEPT ![k].at = "sending", ![k].left = Tail(@)]
      BY <1>1, <1>4, <2>1 DEF Sos!Deliver
    <3>2. [tasks EXCEPT ![k].at = "sending", ![k].left = Tail(@)] = [tasks EXCEPT ![k] = u]
      BY <1>1, <1>2, <2>2, <2>3 DEF Sos!Task
    <3>. QED  BY <3>1, <3>2
  <2>7. u \in Sos!Task /\ u.at = "sending" /\ u.event = t.event /\ u.left = l /\ u.alert = t.alert
    BY <1>2, <2>3, <2>4 DEF Sos!Task
  <2>8. ASSUME u.event = "TRIGGERED"  PROVE TriedBefore(u)'
    <3>1. TriedBefore(t)
      BY <1>1, <1>2, <1>4, <2>7, <2>8 DEF SkipInv
    <3>2. PICK s \in Shapes : \E i \in 1..(Len(s.primary) + 1) :
              /\ t.left = SubSeq(s.primary, i, Len(s.primary))
              /\ \A j \in 1..(i - 1) :
                     [alert |-> t.alert, event |-> "TRIGGERED", to |-> s.primary[j]] \in told
      BY <3>1 DEF TriedBefore
    <3>3. PICK i \in 1..(Len(s.primary) + 1) :
              /\ t.left = SubSeq(s.primary, i, Len(s.primary))
              /\ \A j \in 1..(i - 1) :
                     [alert |-> t.alert, event |-> "TRIGGERED", to |-> s.primary[j]] \in told
      BY <3>2
    <3>4. s.primary \in Seq(Sos!Recipients)
      BY SosAssumption DEF Sos!Recipients
    <3>5. /\ i \in 1..Len(s.primary) /\ Head(t.left) = s.primary[i]
          /\ l = SubSeq(s.primary, i + 1, Len(s.primary))
      BY <1>1, <2>2, <3>3, <3>4, RestOfList
    <3>6. i + 1 \in 1..(Len(s.primary) + 1) /\ 1..((i + 1) - 1) = 1..(i - 1) \union {i}
      BY <3>4, <3>5
    <3>7. [alert |-> t.alert, event |-> "TRIGGERED", to |-> s.primary[i]] \in told'
      BY <2>1, <2>6, <2>7, <2>8, <3>5
    <3>8. \A j \in 1..((i + 1) - 1) :
              [alert |-> u.alert, event |-> "TRIGGERED", to |-> s.primary[j]] \in told'
      BY <2>6, <2>7, <3>3, <3>6, <3>7
    <3>. QED  BY <2>7, <3>5, <3>6, <3>8 DEF TriedBefore
  <2>. QED  BY <1>2, <2>5, <2>6, <2>7, <2>8, SkipMoves
<1>. QED  BY <1>3, <1>4

LEMMA SosRunTask == ASSUME SkipInv, NEW k \in Sos!Slots, Sos!RunTask(k)  PROVE SkipInv'
<1>1. CASE Sos!TaskStart(k)
  BY <1>1, SosTaskStart
<1>2. CASE Sos!TaskSend(k)
  <2>1. /\ tasks[k] # None /\ tasks[k].at = "sending" /\ tasks[k].left # <<>>
        /\ UNCHANGED <<alertStatus, level, config, creating, restarts>>
        /\ \/ tasks' = [tasks EXCEPT ![k].at = "mailing"] /\ UNCHANGED told
           \/ Sos!Deliver(k)
    BY <1>2 DEF Sos!TaskSend, Sos!alertVars
  <2>2. CASE tasks' = [tasks EXCEPT ![k].at = "mailing"] /\ UNCHANGED told
    <3>1. PICK t : t = tasks[k]
      OBVIOUS
    <3>2. PICK u : u = [t EXCEPT !.at = "mailing"]
      OBVIOUS
    <3>3. /\ tasks \in [Sos!Slots -> Sos!Task \union {None}] /\ t \in Sos!Task
          /\ told \in SUBSET Sos!Notice
      BY <2>1, <3>1 DEF SkipInv, Sos!TypeOK
    <3>4. /\ u \in Sos!Task /\ u.event = t.event /\ u.left = t.left /\ u.alert = t.alert
          /\ tasks' = [tasks EXCEPT ![k] = u]
      BY <2>2, <3>1, <3>2, <3>3 DEF Sos!Task
    <3>5. ASSUME u.event = "TRIGGERED", alertStatus[u.alert] # "DELETED"  PROVE TriedBefore(u)'
      <4>1. TriedBefore(t)
        BY <2>1, <3>1, <3>4, <3>5 DEF SkipInv
      <4>. QED  BY <2>2, <3>4, <4>1 DEF TriedBefore
    <3>. QED  BY <2>1, <2>2, <3>1, <3>3, <3>4, <3>5, SkipMoves
  <2>3. CASE Sos!Deliver(k)
    BY <2>1, <2>3, SosDeliver
  <2>. QED  BY <2>1, <2>2, <2>3
<1>3. CASE Sos!TaskMailed(k)
  <2>1. /\ tasks[k] # None /\ tasks[k].at = "mailing" /\ Sos!Deliver(k)
        /\ UNCHANGED <<alertStatus, level, config, creating, restarts>>
    BY <1>3 DEF Sos!TaskMailed, Sos!alertVars
  <2>2. tasks[k].left # <<>>
    BY <2>1 DEF SkipInv
  <2>. QED  BY <2>1, <2>2, SosDeliver
<1>4. CASE Sos!TaskEnd(k)
  BY <1>4, SkipEnds DEF Sos!TaskEnd, Sos!alertVars
<1>. QED  BY <1>1, <1>2, <1>3, <1>4 DEF Sos!RunTask

LEMMA SosInit == Sos!Init => SkipInv
BY SosAssumption DEF Sos!Init, Sos!TypeOK, SkipInv, Sos!AlertStatus

LEMMA SosNext == ASSUME SkipInv, Sos!Next  PROVE SkipInv'
BY SosEndpoints, SosDelete, SosConfigs, SosRestart, SosRunTask DEF Sos!Next

LEMMA SosFrame == ASSUME SkipInv, UNCHANGED alertsVars  PROVE SkipInv'
BY DEF SkipInv, Sos!TypeOK, TriedBefore, alertsVars

\* Whoever a list names first is tried first, on every channel and whatever failed
\* or changed before (notify_alert_triggered).
THEOREM NobodySkipped == NoticesSpec => []NoneSkipped
<1>1. NoticesInit => SkipInv
  BY SosInit DEF NoticesInit
<1>2. SkipInv /\ [NoticesNext]_<<focus, alertsVars, newsVars, chatVars, vars>> => SkipInv'
  BY SosNext, SosFrame DEF NoticesNext
<1>3. SkipInv => NoneSkipped
  <2>. SUFFICES ASSUME SkipInv, NEW k \in Sos!Slots, tasks[k] # None,
                       tasks[k].event = "TRIGGERED", tasks[k].at # "queued",
                       alertStatus[tasks[k].alert] # "DELETED"
                PROVE  \E s \in Shapes : \E i \in 1..(Len(s.primary) + 1) :
                           /\ tasks[k].left = SubSeq(s.primary, i, Len(s.primary))
                           /\ Sos!Tried(tasks[k].alert, SubSeq(s.primary, 1, i - 1))
    BY DEF NoneSkipped, Sos!NoneSkipped, SkipInv
  <2>1. PICK s \in Shapes : \E i \in 1..(Len(s.primary) + 1) :
            /\ tasks[k].left = SubSeq(s.primary, i, Len(s.primary))
            /\ \A j \in 1..(i - 1) :
                   [alert |-> tasks[k].alert, event |-> "TRIGGERED", to |-> s.primary[j]] \in told
    BY DEF SkipInv, TriedBefore
  <2>2. PICK i \in 1..(Len(s.primary) + 1) :
            /\ tasks[k].left = SubSeq(s.primary, i, Len(s.primary))
            /\ \A j \in 1..(i - 1) :
                   [alert |-> tasks[k].alert, event |-> "TRIGGERED", to |-> s.primary[j]] \in told
    BY <2>1
  <2>3. s.primary \in Seq(Sos!Recipients)
    BY SosAssumption DEF Sos!Recipients
  <2>4. /\ Len(SubSeq(s.primary, 1, i - 1)) = i - 1
        /\ \A j \in 1..(i - 1) : SubSeq(s.primary, 1, i - 1)[j] = s.primary[j]
    BY <2>3
  <2>. QED  BY <2>2, <2>4 DEF Sos!Tried
<1>. QED  BY <1>1, <1>2, <1>3, PTL DEF NoticesSpec

-----------------------------------------------------------------------------
(* Announcements: how often one is pushed, and the rows that are left      *)

\* The publications under way, and those that have not pushed yet.
Publishing == {t \in Threads : publications[t] # None}
Unsent     == {t \in Publishing : ~publications[t].sent}

\* While the announcement is a draft no publication has come to its end: whatever
\* was pushed since the last fault was pushed by those under way.
PushInv ==
    /\ News!TypeOK
    /\ Cardinality(Publishing) <= peak
    /\ \A p \in News!People :
           /\ pushed[p] + Cardinality(Unsent) <= peak * annFaults + peak
           /\ annStatus = "draft" =>
                  pushed[p] + Cardinality(Unsent) <= peak * annFaults + Cardinality(Publishing)

\* A publication that nobody overlapped leaves no row pending.
PendingInv ==
    peak <= 1 /\ annStatus = "published" =>
        /\ Publishing = {}
        /\ target # {} => \A i \in DOMAIN receipts : receipts[i].state # "pending"

LEMMA NewsFinite ==
    \A S : News!Cardinality(S) = Cardinality(S) /\ (News!IsFiniteSet(S) <=> IsFiniteSet(S))
BY DEF News!Cardinality, Cardinality, News!IsFiniteSet, IsFiniteSet

\* Counting publications.
LEMMA CountThreads ==
    ASSUME NEW S \in SUBSET Threads
    PROVE  /\ IsFiniteSet(S) /\ Cardinality(S) \in Nat
           /\ Cardinality(S) <= Cardinality(Threads) /\ Cardinality(Threads) \in Nat
           /\ \A T \in SUBSET S : Cardinality(T) <= Cardinality(S)
           /\ \A t \in S : Cardinality(S \ {t}) = Cardinality(S) - 1
           /\ \A t \in Threads \ S : Cardinality(S \union {t}) = Cardinality(S) + 1
           /\ S = {} <=> Cardinality(S) = 0
<1>1. IsFiniteSet(Threads)
  BY NewsAssumption
<1>2. /\ IsFiniteSet(S) /\ Cardinality(S) \in Nat /\ Cardinality(S) <= Cardinality(Threads)
      /\ Cardinality(Threads) \in Nat
  BY <1>1, FS_Subset, FS_CardinalityType
<1>3. \A T \in SUBSET S : Cardinality(T) <= Cardinality(S)
  BY <1>2, FS_Subset
<1>4. \A t \in S : Cardinality(S \ {t}) = Cardinality(S) - 1
  BY <1>2, FS_RemoveElement
<1>5. \A t \in Threads \ S : Cardinality(S \union {t}) = Cardinality(S) + 1
  BY <1>2, FS_AddElement
<1>6. S = {} <=> Cardinality(S) = 0
  BY <1>2, FS_EmptySet
<1>. QED  BY <1>2, <1>3, <1>4, <1>5, <1>6

LEMMA NewsNumbers ==
    ASSUME News!TypeOK
    PROVE  /\ peak \in Nat /\ annFaults \in Nat /\ peak * annFaults \in Nat
           /\ \A p \in News!People : pushed[p] \in Nat
           /\ Publishing \in SUBSET Threads /\ Unsent \in SUBSET Publishing
           /\ Cardinality(Publishing) \in Nat /\ Cardinality(Unsent) \in Nat
           /\ Cardinality(Unsent) <= Cardinality(Publishing)
<1>1. peak \in Nat /\ annFaults \in Nat /\ \A p \in News!People : pushed[p] \in Nat
  BY NewsFinite, NewsAssumption, CountThreads DEF News!TypeOK
<1>2. peak * annFaults \in Nat
  BY <1>1
<1>3. Publishing \in SUBSET Threads /\ Unsent \in SUBSET Publishing
  BY DEF Publishing, Unsent
<1>4. Unsent \in SUBSET Threads
  BY <1>3
<1>. QED  BY <1>1, <1>2, <1>3, <1>4, CountThreads

\* What a call adds to the peak.
LEMMA NewsAtOnce ==
    ASSUME News!TypeOK, peak' = News!AtOnce
    PROVE  /\ peak' \in 0..(1 + Cardinality(Threads)) /\ peak <= peak'
           /\ Cardinality(Publishing) + 1 <= peak'
<1>1. peak' = LET n == 1 + Cardinality(Publishing) IN IF n > peak THEN n ELSE peak
  BY NewsFinite DEF News!AtOnce, Publishing
<1>2. Cardinality(Publishing) \in 0..Cardinality(Threads) /\ Cardinality(Threads) \in Nat
  BY CountThreads DEF Publishing
<1>3. peak \in 0..(1 + Cardinality(Threads))
  BY NewsFinite DEF News!TypeOK
<1>. QED  BY <1>1, <1>2, <1>3

\* More room for pushes, when the peak and the faults grow.
LEMMA PushRoom ==
    ASSUME NEW a \in Nat, NEW b \in Nat, NEW f \in Nat, NEW g \in Nat, a <= b, f <= g
    PROVE  a * f <= b * g
<1>1. a * f <= a * g
  OBVIOUS
<1>2. a * g <= b * g
  OBVIOUS
<1>3. a * f \in Nat /\ a * g \in Nat /\ b * g \in Nat
  OBVIOUS
<1>. QED  BY <1>1, <1>2, <1>3

NewsRows ==
    /\ IsFiniteSet(DOMAIN receipts) /\ DOMAIN receipts \subseteq Nat
    /\ receipts \in [DOMAIN receipts -> News!Row]
    /\ \A i \in DOMAIN receipts :
           receipts[i].open # None => publications[receipts[i].open] # None

\* The types of the rest.
NewsRest ==
    /\ annStatus \in {"draft", "published", "cancelled"} /\ live \in BOOLEAN
    /\ target \in Targets /\ device \in [News!People -> {"ok", "gone", "none"}]
    /\ publications \in [Threads -> News!Call \union {None}]
    /\ pushed \in [News!People -> Nat]
    /\ peak \in 0..(1 + Cardinality(Threads)) /\ annFaults \in 0..MaxFaults

LEMMA NewsTypes == News!TypeOK <=> NewsRows /\ NewsRest
BY NewsFinite DEF News!TypeOK, NewsRows, NewsRest

LEMMA NewsTypesNext == News!TypeOK' <=> NewsRows' /\ NewsRest'
<1>1. \A S : News!Cardinality(S) = Cardinality(S) /\ (News!IsFiniteSet(S) <=> IsFiniteSet(S))
  BY NewsFinite
<1>. QED  BY <1>1 DEF News!TypeOK, NewsRows, NewsRest

LEMMA NewsNumbersNext ==
    ASSUME News!TypeOK'
    PROVE  /\ peak' \in Nat /\ annFaults' \in Nat /\ \A p \in News!People : pushed'[p] \in Nat
           /\ Publishing' \in SUBSET Threads /\ Unsent' \in SUBSET Publishing'
           /\ Cardinality(Publishing') \in Nat /\ Cardinality(Unsent') \in Nat
<1>1. peak' \in Nat /\ annFaults' \in Nat /\ \A p \in News!People : pushed'[p] \in Nat
  BY NewsTypesNext, NewsAssumption, CountThreads DEF NewsRest
<1>2. Publishing' \in SUBSET Threads /\ Unsent' \in SUBSET Publishing'
  BY DEF Publishing, Unsent
<1>3. PICK P \in SUBSET Threads, U \in SUBSET Threads : P = Publishing' /\ U = Unsent'
  BY <1>2
<1>. QED  BY <1>1, <1>2, <1>3, CountThreads

\* The last of finitely many ids: a set without a last one would have a smallest
\* such subset.
LEMMA LastOne ==
    ASSUME NEW S \in SUBSET Nat, IsFiniteSet(S)
    PROVE  \E i \in S \union {0} : \A j \in S : j <= i
<1>. DEFINE HasLast(U) == \E i \in U \union {0} : \A j \in U : j <= i
            T == {U \in SUBSET S : ~HasLast(U)}
<1>1. IsWellFoundedOn(StrictSubsetOrdering(S), SUBSET S)
  BY FS_StrictSubsetOrderingWellFounded, FS_FiniteSubsetsOfFinite
<1>2. SUFFICES ASSUME T # {}  PROVE FALSE
  OBVIOUS
<1>3. PICK U \in T : \A V \in T : <<V, U>> \notin StrictSubsetOrdering(S)
  <2>. HIDE DEF T
  <2>1. T \subseteq SUBSET S
    BY DEF T
  <2>. QED  BY <1>1, <1>2, <2>1, WFMin
<1>4. PICK x : x \in U
  BY <1>3
<1>5. U \ {x} \notin T
  BY <1>3, <1>4 DEF StrictSubsetOrdering
<1>6. PICK m \in (U \ {x}) \union {0} : \A j \in U \ {x} : j <= m
  BY <1>3, <1>5
<1>7. \A j \in U : j <= IF m <= x THEN x ELSE m
  BY <1>3, <1>4, <1>6
<1>. QED  BY <1>3, <1>4, <1>6, <1>7

LEMMA PeopleFinite == IsFiniteSet(News!People)
<1>1. PICK n \in Nat : DOMAIN Roster = 1..n
  BY NewsAssumption
<1>2. PICK f : f = [i \in 1..n |-> Roster[i]]
  OBVIOUS
<1>3. f \in Surjection(1..n, News!People)
  BY <1>1, <1>2 DEF News!People, Surjection
<1>. QED  BY <1>3, FS_Interval, FS_Surjection

\* A push that is sent reaches each person at most once.
LEMMA NewsSent ==
    ASSUME PushInv, News!TypeOK', NEW t \in Unsent, Publishing' = Publishing,
           Unsent' = Unsent \ {t}, UNCHANGED <<annStatus, peak, annFaults>>,
           \A p \in News!People : pushed'[p] \in {pushed[p], pushed[p] + 1}
    PROVE  PushInv'
<1>1. /\ peak \in Nat /\ annFaults \in Nat /\ Cardinality(Publishing) \in Nat
      /\ peak * annFaults \in Nat
      /\ Cardinality(Unsent) \in Nat /\ \A p \in News!People : pushed[p] \in Nat
  BY NewsNumbers DEF PushInv
<1>2. Cardinality(Unsent') = Cardinality(Unsent) - 1
  <2>1. PICK U \in SUBSET Threads : U = Unsent
    BY DEF Publishing, Unsent
  <2>. QED  BY <2>1, CountThreads
<1>3. ASSUME NEW p \in News!People
      PROVE  /\ pushed'[p] + Cardinality(Unsent') <= pushed[p] + Cardinality(Unsent)
             /\ pushed'[p] + Cardinality(Unsent') \in Nat /\ pushed[p] + Cardinality(Unsent) \in Nat
  <2>1. pushed'[p] \in {pushed[p], pushed[p] + 1} /\ pushed[p] \in Nat
    BY <1>1
  <2>2. Cardinality(Unsent') \in Nat
    BY NewsNumbersNext
  <2>. QED  BY <1>1, <1>2, <2>1, <2>2
<1>4. ASSUME NEW p \in News!People
      PROVE  /\ pushed'[p] + Cardinality(Unsent') <= peak * annFaults + peak
             /\ annStatus = "draft" =>
                    pushed'[p] + Cardinality(Unsent') <= peak * annFaults + Cardinality(Publishing)
  <2>1. /\ pushed[p] + Cardinality(Unsent) <= peak * annFaults + peak
        /\ annStatus = "draft" =>
               pushed[p] + Cardinality(Unsent) <= peak * annFaults + Cardinality(Publishing)
    BY DEF PushInv
  <2>. HIDE DEF PushInv
  <2>2. peak * annFaults + peak \in Nat /\ peak * annFaults + Cardinality(Publishing) \in Nat
    BY <1>1
  <2>3. PICK a \in Nat, b \in Nat, m \in Nat, n \in Nat :
            /\ a = peak * annFaults + peak /\ b = peak * annFaults + Cardinality(Publishing)
            /\ m = pushed'[p] + Cardinality(Unsent') /\ n = pushed[p] + Cardinality(Unsent)
    BY <1>3, <2>2
  <2>4. m <= n /\ n <= a /\ (annStatus = "draft" => n <= b)
    BY <1>3, <2>1, <2>3
  <2>5. m <= a /\ (annStatus = "draft" => m <= b)
    BY <2>4
  <2>. QED  BY <2>3, <2>5
<1>5. peak' * annFaults' = peak * annFaults /\ peak' = peak /\ annStatus' = annStatus
  OBVIOUS
<1>6. Cardinality(Publishing') <= peak'
  BY <1>5 DEF PushInv
<1>7. ASSUME NEW p \in News!People
      PROVE  /\ pushed'[p] + Cardinality(Unsent') <= peak' * annFaults' + peak'
             /\ annStatus' = "draft" =>
                    pushed'[p] + Cardinality(Unsent')
                        <= peak' * annFaults' + Cardinality(Publishing')
  BY <1>4, <1>5
<1>. QED  BY <1>6, <1>7 DEF PushInv

\* A fault makes room for as many pushes again as were under way.
LEMMA NewsFault ==
    ASSUME PushInv, News!TypeOK', annFaults' = annFaults + 1, UNCHANGED <<pushed, peak>>,
           Cardinality(Unsent') <= Cardinality(Unsent),
           Cardinality(Publishing') <= peak
    PROVE  PushInv'
<1>1. /\ peak \in Nat /\ annFaults \in Nat /\ peak * annFaults \in Nat
      /\ Cardinality(Unsent) \in Nat /\ \A p \in News!People : pushed[p] \in Nat
  BY NewsNumbers DEF PushInv
<1>2. Cardinality(Unsent') \in Nat /\ Cardinality(Publishing') \in Nat
  BY NewsNumbersNext
<1>3. peak' * annFaults' = peak * annFaults + peak
  BY <1>1
<1>4. ASSUME NEW p \in News!People
      PROVE  pushed'[p] + Cardinality(Unsent') <= peak' * annFaults'
  <2>1. pushed[p] + Cardinality(Unsent) <= peak * annFaults + peak
    BY DEF PushInv
  <2>2. PICK a \in Nat : a = peak * annFaults + peak
    BY <1>1
  <2>3. pushed[p] + Cardinality(Unsent') <= a
    BY <1>1, <1>2, <2>1, <2>2
  <2>. QED  BY <1>3, <2>2, <2>3
<1>5. PICK b \in Nat : b = peak' * annFaults'
  BY <1>1, <1>3
<1>6. ASSUME NEW p \in News!People
      PROVE  /\ pushed'[p] + Cardinality(Unsent') <= b + peak'
             /\ pushed'[p] + Cardinality(Unsent') <= b + Cardinality(Publishing')
  BY <1>1, <1>2, <1>4, <1>5
<1>. QED  BY <1>5, <1>6 DEF PushInv

\* Nothing that is counted moves.
LEMMA PushKeeps ==
    ASSUME PushInv, News!TypeOK', UNCHANGED <<publications, pushed, peak, annFaults>>,
           annStatus' = "draft" => annStatus = "draft"
    PROVE  PushInv'
<1>1. Publishing' = Publishing /\ Unsent' = Unsent
  BY DEF Publishing, Unsent
<1>. QED  BY <1>1 DEF PushInv

-----------------------------------------------------------------------------
\* Drafts, devices and readers.
LEMMA NewsOutside ==
    ASSUME PushInv, PendingInv,
           \/ \E to \in Targets : News!UpdateAnnouncement(to)
           \/ News!DeleteAnnouncement
           \/ \E p \in News!People : News!DeviceChanges(p)
    PROVE  PushInv' /\ PendingInv'
<1>1. NewsRows /\ NewsRest
  BY NewsTypes DEF PushInv
<1>2. UNCHANGED <<receipts, publications, pushed, peak, annFaults>>
  BY DEF News!UpdateAnnouncement, News!DeleteAnnouncement, News!DeviceChanges
<1>3. annStatus' \in {"draft", "published", "cancelled"} /\ live' \in BOOLEAN
      /\ target' \in Targets
  BY <1>1 DEF NewsRest, News!UpdateAnnouncement, News!DeleteAnnouncement, News!DeviceChanges
<1>4. device' \in [News!People -> {"ok", "gone", "none"}]
  BY <1>1 DEF NewsRest, News!UpdateAnnouncement, News!DeleteAnnouncement, News!DeviceChanges
<1>5. News!TypeOK'
  BY <1>1, <1>2, <1>3, <1>4, NewsTypesNext DEF NewsRows, NewsRest
<1>6. /\ annStatus' = "draft" => annStatus = "draft"
      /\ annStatus' = "published" => annStatus = "published" /\ target' = target
  BY DEF News!UpdateAnnouncement, News!DeleteAnnouncement, News!DeviceChanges
<1>7. PushInv'
  BY <1>2, <1>5, <1>6, PushKeeps
<1>8. PendingInv'
  BY <1>2, <1>6 DEF PendingInv, Publishing
<1>. QED  BY <1>7, <1>8

LEMMA NewsMarkRead ==
    ASSUME PushInv, PendingInv, NEW p \in News!People, News!MarkRead(p)
    PROVE  PushInv' /\ PendingInv'
<1>1. NewsRows /\ NewsRest
  BY NewsTypes DEF PushInv
<1>2. PICK i \in DOMAIN receipts :
          receipts' = [receipts EXCEPT ![i].state = "read", ![i].seen = TRUE]
  BY DEF News!MarkRead
<1>3. UNCHANGED <<annStatus, live, target, device, publications, pushed, peak, annFaults>>
  BY DEF News!MarkRead
<1>4. PICK r : r = [receipts[i] EXCEPT !.state = "read", !.seen = TRUE]
  OBVIOUS
<1>5. receipts \in [DOMAIN receipts -> News!Row] /\ receipts[i] \in News!Row
  BY <1>1 DEF NewsRows
<1>6. r \in News!Row /\ r.state = "read" /\ r.open = receipts[i].open
  BY <1>4, <1>5 DEF News!Row
<1>7. receipts' = [receipts EXCEPT ![i] = r]
  BY <1>2, <1>4, <1>5
<1>8. /\ DOMAIN receipts' = DOMAIN receipts /\ receipts' \in [DOMAIN receipts -> News!Row]
      /\ \A j \in DOMAIN receipts : receipts'[j] = IF j = i THEN r ELSE receipts[j]
  BY <1>5, <1>6, <1>7
<1>9. NewsRows'
  BY <1>1, <1>3, <1>6, <1>8 DEF NewsRows
<1>10. News!TypeOK'
  BY <1>1, <1>3, <1>9, NewsTypesNext DEF NewsRest
<1>11. PushInv'
  BY <1>3, <1>10, PushKeeps
<1>12. PendingInv'
  BY <1>3, <1>6, <1>8 DEF PendingInv, Publishing
<1>. QED  BY <1>11, <1>12

LEMMA NewsToNobody ==
    ASSUME PushInv, PendingInv, News!PublishToNobody
    PROVE  PushInv' /\ PendingInv'
<1>1. NewsRows /\ NewsRest
  BY NewsTypes DEF PushInv
<1>2. /\ target = {} /\ annStatus' = "published" /\ peak' = News!AtOnce
      /\ UNCHANGED <<live, target, device, receipts, publications, pushed, annFaults>>
  BY DEF News!PublishToNobody
<1>3. peak' \in 0..(1 + Cardinality(Threads)) /\ peak <= peak' /\ Cardinality(Publishing) + 1 <= peak'
  BY <1>2, NewsAtOnce DEF PushInv
<1>4. News!TypeOK'
  BY <1>1, <1>2, <1>3, NewsTypesNext DEF NewsRows, NewsRest
<1>5. Publishing' = Publishing /\ Unsent' = Unsent
  BY <1>2 DEF Publishing, Unsent
<1>6. /\ peak \in Nat /\ peak' \in Nat /\ annFaults \in Nat /\ Cardinality(Publishing) \in Nat
      /\ peak * annFaults \in Nat /\ peak' * annFaults \in Nat
      /\ Cardinality(Unsent) \in Nat /\ \A p \in News!People : pushed[p] \in Nat
  BY <1>3, NewsNumbers DEF PushInv
<1>7. peak * annFaults <= peak' * annFaults
  <2>1. PICK a \in Nat, b \in Nat, f \in Nat : a = peak /\ b = peak' /\ f = annFaults
    BY <1>6
  <2>2. a <= b /\ f <= f
    BY <1>3, <2>1
  <2>3. a * f <= b * f
    BY <2>2, PushRoom
  <2>. QED  BY <2>1, <2>3
<1>8. PushInv'
  <2>1. ASSUME NEW p \in News!People
        PROVE  pushed[p] + Cardinality(Unsent) <= peak' * annFaults + peak'
    <3>1. pushed[p] + Cardinality(Unsent) <= peak * annFaults + peak
      BY DEF PushInv
    <3>. HIDE DEF PushInv
    <3>. QED  BY <1>3, <1>6, <1>7, <3>1
  <2>2. Cardinality(Publishing) <= peak'
    BY <1>3, <1>6
  <2>. QED  BY <1>2, <1>4, <1>5, <2>1, <2>2 DEF PushInv
<1>9. PendingInv'
  <2>. SUFFICES ASSUME peak' <= 1  PROVE Publishing = {}
    BY <1>2, <1>5 DEF PendingInv
  <2>1. Cardinality(Publishing) = 0
    BY <1>3, <1>6
  <2>. QED  BY <2>1, CountThreads DEF Publishing
<1>. QED  BY <1>8, <1>9

\* The rows a publication adds.
LEMMA NewsRecipients ==
    ASSUME News!TypeOK, NEW t \in Threads
    PROVE  /\ IsFiniteSet(News!Recipients(target)) /\ News!Recipients(target) \subseteq Nat
           /\ \A i \in News!Recipients(target) : News!NewRow(i, t) \in News!Row
<1>1. IsFiniteSet(DOMAIN receipts) /\ DOMAIN receipts \subseteq Nat
  BY NewsTypes DEF NewsRows
<1>2. PICK last : last = News!LastRow
  OBVIOUS
<1>3. last \in Nat
  <2>1. PICK S : S = DOMAIN receipts
    OBVIOUS
  <2>2. \E i \in S \union {0} : \A j \in S : j <= i
    BY <1>1, <2>1, LastOne
  <2>. QED  BY <1>1, <1>2, <2>1, <2>2 DEF News!LastRow
<1>4. Roster \in Seq(News!People) /\ DOMAIN Roster = 1..Len(Roster) /\ Len(Roster) \in Nat
  BY NewsAssumption
<1>5. PICK K : K = {i \in DOMAIN Roster : Roster[i] \in target}
  OBVIOUS
<1>6. K \subseteq 1..Len(Roster)
  BY <1>4, <1>5
<1>7. News!Recipients(target) = {last + k : k \in K}
  BY <1>2, <1>5 DEF News!Recipients
<1>8. IsFiniteSet({last + k : k \in K})
  <2>1. PICK n \in Nat : n = last + Len(Roster)
    BY <1>3, <1>4
  <2>2. \A k \in K : last + k \in Nat /\ last + k <= n
    BY <1>3, <1>4, <1>6, <2>1
  <2>. QED  BY <2>2, FS_BoundedSetOfNaturals
<1>9. ASSUME NEW i \in News!Recipients(target)  PROVE News!NewRow(i, t) \in News!Row
  <2>1. PICK k \in K : i = last + k
    BY <1>7
  <2>2. i - last = k /\ k \in DOMAIN Roster
    BY <1>3, <1>4, <1>6, <2>1
  <2>3. Roster[i - last] \in News!People
    BY <2>2 DEF News!People
  <2>. QED  BY <1>2, <2>3 DEF News!NewRow, News!Row
<1>. QED  BY <1>3, <1>4, <1>6, <1>7, <1>8, <1>9

\* Rows for the recipients, and one more publication.
LEMMA NewsPublish ==
    ASSUME PushInv, NEW t \in Threads, News!Publish(t)
    PROVE  PushInv' /\ PendingInv'
<1>1. NewsRows /\ NewsRest
  BY NewsTypes DEF PushInv
<1>2. PICK c : c = [to |-> target, sent |-> FALSE, ok |-> 0, bare |-> 0]
  OBVIOUS
<1>3. /\ publications[t] = None /\ annStatus = "draft"
      /\ receipts' = News!WithRows(target, t)
      /\ publications' = [publications EXCEPT ![t] = c]
      /\ peak' = News!AtOnce
      /\ UNCHANGED <<annStatus, live, target, device, pushed, annFaults>>
  BY <1>2 DEF News!Publish
<1>4. c \in News!Call /\ c # None /\ ~c.sent
  <2>1. PICK to : to = target
    OBVIOUS
  <2>2. Targets \in SUBSET (SUBSET News!People) /\ None \notin News!Call
    BY NewsAssumption
  <2>3. to \subseteq News!People
    BY <1>1, <2>1, <2>2 DEF NewsRest
  <2>4. c \in News!Call
    BY <1>2, <2>1, <2>3 DEF News!Call
  <2>. QED  BY <1>2, <2>2, <2>4
<1>5. /\ publications' \in [Threads -> News!Call \union {None}]
      /\ \A u \in Threads : publications'[u] = IF u = t THEN c ELSE publications[u]
  BY <1>1, <1>3, <1>4 DEF NewsRest
<1>6. peak' \in 0..(1 + Cardinality(Threads)) /\ peak <= peak' /\ Cardinality(Publishing) + 1 <= peak'
  BY <1>3, NewsAtOnce DEF PushInv
<1>7. Publishing' = Publishing \union {t} /\ Unsent' = Unsent \union {t} /\ t \notin Publishing
  BY <1>3, <1>4, <1>5 DEF Publishing, Unsent
<1>8. NewsRows'
  <2>1. /\ DOMAIN receipts' = DOMAIN receipts \union News!Recipients(target)
        /\ \A i \in DOMAIN receipts' :
               receipts'[i] = IF i \in DOMAIN receipts THEN receipts[i] ELSE News!NewRow(i, t)
    BY <1>3 DEF News!WithRows
  <2>2. /\ IsFiniteSet(News!Recipients(target)) /\ News!Recipients(target) \subseteq Nat
        /\ \A i \in News!Recipients(target) : News!NewRow(i, t) \in News!Row
    BY NewsRecipients DEF PushInv
  <2>3. IsFiniteSet(DOMAIN receipts') /\ DOMAIN receipts' \subseteq Nat
    <3>1. PICK D, R : D = DOMAIN receipts /\ R = News!Recipients(target)
      OBVIOUS
    <3>2. IsFiniteSet(D) /\ IsFiniteSet(R) /\ D \subseteq Nat /\ R \subseteq Nat
      BY <1>1, <2>2, <3>1 DEF NewsRows
    <3>3. IsFiniteSet(D \union R) /\ D \union R \subseteq Nat
      BY <3>2, FS_Union
    <3>. QED  BY <2>1, <3>1, <3>3
  <2>4. \A i \in DOMAIN receipts' : receipts'[i] \in News!Row
    BY <1>1, <2>1, <2>2 DEF NewsRows
  <2>5. receipts' = [i \in DOMAIN receipts' |-> receipts'[i]]
    BY <1>3 DEF News!WithRows
  <2>6. receipts' \in [DOMAIN receipts' -> News!Row]
    BY <2>4, <2>5
  <2>7. ASSUME NEW i \in DOMAIN receipts', receipts'[i].open # None
        PROVE  publications'[receipts'[i].open] # None
    <3>1. CASE i \in DOMAIN receipts
      BY <1>1, <1>4, <1>5, <2>1, <2>7, <3>1 DEF NewsRows, News!Row
    <3>2. CASE i \notin DOMAIN receipts
      <4>1. receipts'[i] = News!NewRow(i, t)
        BY <2>1, <3>2
      <4>2. receipts'[i].open = t
        BY <4>1 DEF News!NewRow
      <4>. QED  BY <1>4, <1>5, <4>2
    <3>. QED  BY <3>1, <3>2
  <2>. QED  BY <2>3, <2>6, <2>7 DEF NewsRows
<1>9. News!TypeOK'
  BY <1>1, <1>3, <1>5, <1>6, <1>8, NewsTypesNext DEF NewsRest
<1>10. PushInv'
  <2>1. /\ peak \in Nat /\ peak' \in Nat /\ annFaults \in Nat /\ Cardinality(Publishing) \in Nat
        /\ peak * annFaults \in Nat /\ peak' * annFaults \in Nat
        /\ Cardinality(Unsent) \in Nat /\ \A p \in News!People : pushed[p] \in Nat
    BY <1>6, NewsNumbers DEF PushInv
  <2>2. peak * annFaults <= peak' * annFaults
    <3>1. PICK a \in Nat, b \in Nat, f \in Nat : a = peak /\ b = peak' /\ f = annFaults
      BY <2>1
    <3>2. a <= b /\ f <= f
      BY <1>6, <3>1
    <3>3. a * f <= b * f
      BY <3>2, PushRoom
    <3>. QED  BY <3>1, <3>3
  <2>3. /\ Cardinality(Publishing') = Cardinality(Publishing) + 1
        /\ Cardinality(Unsent') = Cardinality(Unsent) + 1
    <3>1. PICK P \in SUBSET Threads, U \in SUBSET Threads : P = Publishing /\ U = Unsent
      BY DEF Publishing, Unsent
    <3>2. t \in Threads \ P /\ t \in Threads \ U
      BY <1>7, <3>1 DEF Unsent
    <3>. QED  BY <1>7, <3>1, <3>2, CountThreads
  <2>4. ASSUME NEW p \in News!People
        PROVE  /\ pushed[p] + Cardinality(Unsent') <= peak' * annFaults + peak'
               /\ pushed[p] + Cardinality(Unsent') <= peak' * annFaults + Cardinality(Publishing')
    <3>1. pushed[p] + Cardinality(Unsent) <= peak * annFaults + Cardinality(Publishing)
      BY <1>3 DEF PushInv
    <3>. HIDE DEF PushInv
    <3>. QED  BY <1>6, <2>1, <2>2, <2>3, <3>1
  <2>5. Cardinality(Publishing') <= peak'
    BY <1>6, <2>1, <2>3
  <2>. QED  BY <1>3, <1>9, <2>4, <2>5 DEF PushInv
<1>11. PendingInv'
  BY <1>3 DEF PendingInv
<1>. QED  BY <1>10, <1>11

\* The batch goes out, and people get it.
LEMMA NewsPush ==
    ASSUME PushInv, PendingInv, NEW t \in Threads, News!Push(t)
    PROVE  PushInv' /\ PendingInv'
<1>1. NewsRows /\ NewsRest
  BY NewsTypes DEF PushInv
<1>2. PICK c : c = [publications[t] EXCEPT !.sent = TRUE,
                       !.ok = News!Cardinality(News!With("ok", publications[t].to)),
                       !.bare = News!Cardinality(News!With("none", publications[t].to))]
  OBVIOUS
<1>3. /\ publications[t] # None /\ ~publications[t].sent
      /\ publications' = [publications EXCEPT ![t] = c]
      /\ UNCHANGED <<annStatus, live, target, peak, annFaults>>
  BY <1>2 DEF News!Push
<1>4. c \in News!Call /\ c # None /\ c.sent
  <2>1. publications[t] \in News!Call
    BY <1>1, <1>3 DEF NewsRest
  <2>2. ASSUME NEW d  PROVE News!Cardinality(News!With(d, publications[t].to)) \in Nat
    <3>1. News!With(d, publications[t].to) \subseteq News!People
      BY <2>1 DEF News!With, News!Call
    <3>. QED  BY <3>1, PeopleFinite, FS_Subset, FS_CardinalityType, NewsFinite
  <2>3. PICK k \in Nat, b \in Nat :
            /\ k = News!Cardinality(News!With("ok", publications[t].to))
            /\ b = News!Cardinality(News!With("none", publications[t].to))
    BY <2>2
  <2>4. c = [publications[t] EXCEPT !.sent = TRUE, !.ok = k, !.bare = b]
    BY <1>2, <2>3
  <2>5. c \in News!Call /\ c.sent
    BY <2>1, <2>4 DEF News!Call
  <2>. QED  BY <2>5, NewsAssumption
<1>5. /\ publications' \in [Threads -> News!Call \union {None}]
      /\ \A u \in Threads : publications'[u] = IF u = t THEN c ELSE publications[u]
  BY <1>1, <1>3, <1>4 DEF NewsRest
<1>6. Publishing' = Publishing /\ Unsent' = Unsent \ {t} /\ t \in Unsent
  BY <1>3, <1>4, <1>5 DEF Publishing, Unsent
<1>7. /\ pushed' \in [News!People -> Nat]
      /\ \A p \in News!People : pushed'[p] \in {pushed[p], pushed[p] + 1}
  BY <1>1 DEF News!Push, NewsRest
<1>8. device' \in [News!People -> {"ok", "gone", "none"}]
  BY <1>1 DEF News!Push, NewsRest
<1>9. NewsRows'
  <2>1. /\ DOMAIN receipts' = DOMAIN receipts
        /\ receipts' = [i \in DOMAIN receipts |-> receipts'[i]]
        /\ \A i \in DOMAIN receipts :
               receipts'[i] \in {receipts[i], [receipts[i] EXCEPT !.open = None]}
    <3>1. receipts = [i \in DOMAIN receipts |-> receipts[i]]
      BY <1>1 DEF NewsRows
    <3>. QED  BY <3>1 DEF News!Push
  <2>2. ASSUME NEW i \in DOMAIN receipts
        PROVE  receipts'[i] \in News!Row /\ receipts'[i].open \in {receipts[i].open, None}
    <3>1. receipts[i] \in News!Row
      BY <1>1 DEF NewsRows
    <3>. QED  BY <2>1, <3>1 DEF News!Row
  <2>3. receipts' \in [DOMAIN receipts' -> News!Row]
    BY <2>1, <2>2
  <2>4. ASSUME NEW i \in DOMAIN receipts, receipts'[i].open # None
        PROVE  publications'[receipts'[i].open] # None
    <3>1. PICK u : u = receipts[i].open
      OBVIOUS
    <3>2. receipts'[i].open = u /\ publications[u] # None /\ u # None
      BY <1>1, <2>2, <2>4, <3>1 DEF NewsRows
    <3>3. u \in Threads
      BY <1>1, <3>1, <3>2 DEF NewsRows, News!Row
    <3>. QED  BY <1>4, <1>5, <3>2, <3>3
  <2>. QED  BY <1>1, <2>1, <2>3, <2>4 DEF NewsRows
<1>10. News!TypeOK'
  BY <1>1, <1>3, <1>5, <1>7, <1>8, <1>9, NewsTypesNext DEF NewsRest
<1>11. PushInv'
  BY <1>3, <1>6, <1>7, <1>10, NewsSent
<1>12. PendingInv'
  BY <1>3, <1>6 DEF PendingInv, Unsent
<1>. QED  BY <1>11, <1>12

LEMMA NewsPushFails ==
    ASSUME PushInv, PendingInv, NEW t \in Threads, News!PushFails(t)
    PROVE  PushInv' /\ PendingInv'
<1>1. NewsRows /\ NewsRest
  BY NewsTypes DEF PushInv
<1>2. PICK c : c = [publications[t] EXCEPT !.sent = TRUE]
  OBVIOUS
<1>3. /\ publications[t] # None /\ ~publications[t].sent
      /\ annFaults < MaxFaults /\ annFaults' = annFaults + 1
      /\ publications' = [publications EXCEPT ![t] = c]
      /\ UNCHANGED <<annStatus, live, target, device, receipts, pushed, peak>>
  BY <1>2 DEF News!PushFails
<1>4. c \in News!Call /\ c # None /\ c.sent
  <2>1. publications[t] \in News!Call
    BY <1>1, <1>3 DEF NewsRest
  <2>2. c \in News!Call /\ c.sent
    BY <1>2, <2>1 DEF News!Call
  <2>. QED  BY <2>2, NewsAssumption
<1>5. /\ publications' \in [Threads -> News!Call \union {None}]
      /\ \A u \in Threads : publications'[u] = IF u = t THEN c ELSE publications[u]
  BY <1>1, <1>3, <1>4 DEF NewsRest
<1>6. Publishing' = Publishing /\ Unsent' = Unsent \ {t}
  BY <1>3, <1>4, <1>5 DEF Publishing, Unsent
<1>7. NewsRows'
  <2>1. ASSUME NEW i \in DOMAIN receipts, receipts[i].open # None
        PROVE  publications'[receipts[i].open] # None
    <3>1. PICK u \in Threads : u = receipts[i].open
      BY <1>1, <2>1 DEF NewsRows, News!Row
    <3>2. publications[u] # None
      BY <1>1, <2>1, <3>1 DEF NewsRows
    <3>. QED  BY <1>4, <1>5, <3>1, <3>2
  <2>. QED  BY <1>1, <1>3, <2>1 DEF NewsRows
<1>8. annFaults' \in 0..MaxFaults
  <2>1. annFaults \in 0..MaxFaults /\ MaxFaults \in Nat
    BY <1>1, NewsAssumption DEF NewsRest
  <2>. QED  BY <1>3, <2>1
<1>9. News!TypeOK'
  BY <1>1, <1>3, <1>5, <1>7, <1>8, NewsTypesNext DEF NewsRest
<1>10. PushInv'
  <2>1. Cardinality(Unsent') <= Cardinality(Unsent)
    <3>1. PICK U \in SUBSET Threads : U = Unsent
      BY DEF Publishing, Unsent
    <3>2. U \ {t} \in SUBSET U
      OBVIOUS
    <3>. QED  BY <1>6, <3>1, <3>2, CountThreads
  <2>2. Cardinality(Publishing') <= peak
    BY <1>6 DEF PushInv
  <2>. QED  BY <1>3, <1>9, <2>1, <2>2, NewsFault
<1>11. PendingInv'
  BY <1>3, <1>6 DEF PendingInv
<1>. QED  BY <1>10, <1>11

\* The outcome is written into the rows, and the announcement is published.
LEMMA NewsCommit ==
    ASSUME PushInv, PendingInv, NEW t \in Threads, News!PublishCommit(t)
    PROVE  PushInv' /\ PendingInv'
<1>1. NewsRows /\ NewsRest
  BY NewsTypes DEF PushInv
<1>2. /\ publications[t] # None /\ publications[t].sent
      /\ receipts' = News!Filled(t) /\ annStatus' = "published"
      /\ publications' = [publications EXCEPT ![t] = None]
      /\ UNCHANGED <<live, target, device, pushed, peak, annFaults>>
  BY DEF News!PublishCommit
<1>3. /\ publications' \in [Threads -> News!Call \union {None}]
      /\ \A u \in Threads : publications'[u] = IF u = t THEN None ELSE publications[u]
  BY <1>1, <1>2 DEF NewsRest
<1>4. Publishing' = Publishing \ {t} /\ Unsent' = Unsent /\ t \in Publishing
  BY <1>2, <1>3 DEF Publishing, Unsent
<1>5. /\ DOMAIN receipts' = DOMAIN receipts
      /\ receipts' = [i \in DOMAIN receipts |-> receipts'[i]]
      /\ \A i \in DOMAIN receipts :
             IF receipts[i].open \in {None, t}
             THEN \E x \in {"delivered", "no_device", "failed"} :
                      receipts'[i] = [receipts[i] EXCEPT !.open = None, !.state = x]
             ELSE receipts'[i] = receipts[i]
  <2>1. PICK x : x = [i \in DOMAIN receipts |->
                         IF News!Nth(t, i) <= publications[t].ok THEN "delivered"
                         ELSE IF News!Nth(t, i) <= publications[t].ok + publications[t].bare
                              THEN "no_device" ELSE "failed"]
    OBVIOUS
  <2>2. \A i \in DOMAIN receipts : x[i] \in {"delivered", "no_device", "failed"}
    BY <2>1
  <2>3. receipts' = [i \in DOMAIN receipts |->
                        IF i \notin News!Seen(t) THEN receipts[i]
                        ELSE [receipts[i] EXCEPT !.open = None, !.state = x[i]]]
    BY <1>2, <2>1 DEF News!Filled
  <2>4. \A i \in DOMAIN receipts : i \in News!Seen(t) <=> receipts[i].open \in {None, t}
    BY DEF News!Seen
  <2>. QED  BY <2>2, <2>3, <2>4
<1>6. ASSUME NEW i \in DOMAIN receipts
      PROVE  /\ receipts'[i] \in News!Row
             /\ receipts[i].open \in {None, t} =>
                    receipts'[i].open = None /\ receipts'[i].state # "pending"
             /\ receipts[i].open \notin {None, t} => receipts'[i] = receipts[i]
  <2>1. receipts[i] \in News!Row
    BY <1>1 DEF NewsRows
  <2>. QED  BY <1>5, <2>1 DEF News!Row
<1>7. NewsRows'
  <2>1. receipts' \in [DOMAIN receipts' -> News!Row]
    BY <1>5, <1>6
  <2>2. ASSUME NEW i \in DOMAIN receipts, receipts'[i].open # None
        PROVE  publications'[receipts'[i].open] # None
    <3>1. receipts[i].open \notin {None, t} /\ receipts'[i] = receipts[i]
      BY <1>6, <2>2
    <3>2. PICK u \in Threads : u = receipts[i].open
      BY <1>1, <3>1 DEF NewsRows, News!Row
    <3>3. publications[u] # None /\ u # t
      BY <1>1, <3>1, <3>2 DEF NewsRows
    <3>. QED  BY <1>3, <3>1, <3>2, <3>3
  <2>. QED  BY <1>1, <1>5, <2>1, <2>2 DEF NewsRows
<1>8. News!TypeOK'
  BY <1>1, <1>2, <1>3, <1>7, NewsTypesNext DEF NewsRest
<1>9. Cardinality(Publishing') = Cardinality(Publishing) - 1 /\ Cardinality(Publishing) \in Nat
  <2>1. PICK P \in SUBSET Threads : P = Publishing
    BY DEF Publishing
  <2>. QED  BY <1>4, <2>1, CountThreads
<1>10. PushInv'
  <2>1. Cardinality(Publishing') <= peak'
    <3>1. Cardinality(Publishing) <= peak /\ peak \in Nat
      BY NewsNumbers DEF PushInv
    <3>. QED  BY <1>2, <1>9, <3>1
  <2>2. ASSUME NEW p \in News!People
        PROVE  pushed'[p] + Cardinality(Unsent') <= peak' * annFaults' + peak'
    BY <1>2, <1>4 DEF PushInv
  <2>. QED  BY <1>2, <1>8, <2>1, <2>2 DEF PushInv
<1>11. PendingInv'
  <2>. SUFFICES ASSUME peak <= 1
                PROVE  Publishing' = {} /\ \A i \in DOMAIN receipts' : receipts'[i].state # "pending"
    BY <1>2 DEF PendingInv
  <2>1. Publishing' = {}
    <3>1. PICK P \in SUBSET Threads : P = Publishing'
      BY DEF Publishing
    <3>2. Cardinality(P) \in Nat /\ (P = {} <=> Cardinality(P) = 0)
      BY CountThreads
    <3>3. Cardinality(Publishing) <= 1
      BY <1>9, NewsNumbers DEF PushInv
    <3>. QED  BY <1>9, <3>1, <3>2, <3>3
  <2>2. ASSUME NEW i \in DOMAIN receipts'  PROVE receipts'[i].state # "pending"
    <3>1. receipts[i].open \in {None, t}
      <4>. SUFFICES ASSUME receipts[i].open # None  PROVE receipts[i].open = t
        OBVIOUS
      <4>1. PICK u \in Threads : u = receipts[i].open
        BY <1>1, <1>5 DEF NewsRows, News!Row
      <4>2. publications[u] # None
        BY <1>1, <1>5, <4>1 DEF NewsRows
      <4>3. u \in Publishing
        BY <4>2 DEF Publishing
      <4>. QED  BY <1>4, <2>1, <4>1, <4>3
    <3>. QED  BY <1>5, <1>6, <3>1
  <2>. QED  BY <2>1, <2>2
<1>. QED  BY <1>10, <1>11

\* What is open is lost with the process.
LEMMA NewsRestart ==
    ASSUME PushInv, PendingInv, News!Restart
    PROVE  PushInv' /\ PendingInv'
<1>1. NewsRows /\ NewsRest
  BY NewsTypes DEF PushInv
<1>2. /\ annFaults < MaxFaults /\ annFaults' = annFaults + 1
      /\ publications' = [t \in Threads |-> None]
      /\ receipts' = [i \in {j \in DOMAIN receipts : receipts[j].open = None} |-> receipts[i]]
      /\ UNCHANGED <<annStatus, live, target, device, pushed, peak>>
  BY DEF News!Restart
<1>3. Publishing' = {} /\ Unsent' = {}
  BY <1>2 DEF Publishing, Unsent
<1>4. /\ DOMAIN receipts' \subseteq DOMAIN receipts
      /\ \A i \in DOMAIN receipts' : receipts'[i] = receipts[i] /\ receipts'[i].open = None
  BY <1>2
<1>5. NewsRows'
  <2>1. IsFiniteSet(DOMAIN receipts') /\ DOMAIN receipts' \subseteq Nat
    <3>1. PICK D, E : D = DOMAIN receipts /\ E = DOMAIN receipts'
      OBVIOUS
    <3>2. IsFiniteSet(D) /\ D \subseteq Nat /\ E \subseteq D
      BY <1>1, <1>4, <3>1 DEF NewsRows
    <3>3. IsFiniteSet(E) /\ E \subseteq Nat
      BY <3>2, FS_Subset
    <3>. QED  BY <3>1, <3>3
  <2>2. receipts' \in [DOMAIN receipts' -> News!Row]
    BY <1>1, <1>2 DEF NewsRows
  <2>. QED  BY <1>4, <2>1, <2>2 DEF NewsRows
<1>6. annFaults' \in 0..MaxFaults
  <2>1. annFaults \in 0..MaxFaults /\ MaxFaults \in Nat
    BY <1>1, NewsAssumption DEF NewsRest
  <2>. QED  BY <1>2, <2>1
<1>7. publications' \in [Threads -> News!Call \union {None}]
  BY <1>2
<1>8. News!TypeOK'
  BY <1>1, <1>2, <1>5, <1>6, <1>7, NewsTypesNext DEF NewsRest
<1>9. PushInv'
  <2>1. Cardinality(Publishing') = 0 /\ Cardinality(Unsent') = 0
    BY <1>3, FS_EmptySet
  <2>. QED  BY <1>2, <1>8, <2>1, NewsFault, NewsNumbers DEF PushInv
<1>10. PendingInv'
  BY <1>2, <1>3, <1>4 DEF PendingInv
<1>. QED  BY <1>9, <1>10

LEMMA NewsNextKeeps ==
    ASSUME PushInv, PendingInv, News!Next
    PROVE  PushInv' /\ PendingInv'
<1>1. CASE \E to \in Targets : News!UpdateAnnouncement(to)
  BY <1>1, NewsOutside
<1>2. CASE News!DeleteAnnouncement
  BY <1>2, NewsOutside
<1>3. CASE News!PublishToNobody
  BY <1>3, NewsToNobody
<1>4. CASE News!Restart
  BY <1>4, NewsRestart
<1>5. CASE \E p \in News!People : News!DeviceChanges(p)
  BY <1>5, NewsOutside
<1>6. CASE \E p \in News!People : News!MarkRead(p)
  BY <1>6, NewsMarkRead
<1>7. CASE \E t \in Threads : News!Publish(t)
  BY <1>7, NewsPublish
<1>8. CASE \E t \in Threads : News!Push(t)
  BY <1>8, NewsPush
<1>9. CASE \E t \in Threads : News!PushFails(t)
  BY <1>9, NewsPushFails
<1>10. CASE \E t \in Threads : News!PublishCommit(t)
  BY <1>10, NewsCommit
<1>. QED  BY <1>1, <1>2, <1>3, <1>4, <1>5, <1>6, <1>7, <1>8, <1>9, <1>10 DEF News!Next

LEMMA NewsInit ==
    ASSUME News!Init  PROVE PushInv /\ PendingInv
<1>1. /\ annStatus = "draft" /\ live = TRUE /\ target \in Targets
      /\ device \in [News!People -> {"ok", "gone", "none"}]
      /\ receipts = <<>> /\ publications = [t \in Threads |-> None]
      /\ pushed = [p \in News!People |-> 0] /\ peak = 0 /\ annFaults = 0
  BY DEF News!Init
<1>2. Publishing = {} /\ Unsent = {}
  BY <1>1 DEF Publishing, Unsent
<1>3. Cardinality(Publishing) = 0 /\ Cardinality(Unsent) = 0
  BY <1>2, FS_EmptySet
<1>4. DOMAIN receipts = {}
  BY <1>1
<1>5. NewsRows
  <2>1. IsFiniteSet(DOMAIN receipts)
    BY <1>4, FS_EmptySet
  <2>2. receipts \in [DOMAIN receipts -> News!Row]
    BY <1>1, <1>4
  <2>. QED  BY <1>4, <2>1, <2>2 DEF NewsRows
<1>6. /\ Cardinality(Threads) \in Nat /\ MaxFaults \in Nat
  <2>1. PICK S \in SUBSET Threads : S = Threads
    OBVIOUS
  <2>. QED  BY <2>1, CountThreads, NewsAssumption
<1>7. /\ peak \in 0..(1 + Cardinality(Threads)) /\ annFaults \in 0..MaxFaults
  BY <1>1, <1>6
<1>8. /\ publications \in [Threads -> News!Call \union {None}] /\ pushed \in [News!People -> Nat]
  BY <1>1
<1>9. NewsRest
  BY <1>1, <1>7, <1>8 DEF NewsRest
<1>10. News!TypeOK
  BY <1>5, <1>9, NewsTypes
<1>11. \A p \in News!People : pushed[p] + Cardinality(Unsent) <= peak * annFaults + peak
  BY <1>1, <1>3
<1>12. \A p \in News!People :
           pushed[p] + Cardinality(Unsent) <= peak * annFaults + Cardinality(Publishing)
  BY <1>1, <1>3
<1>13. Cardinality(Publishing) <= peak
  BY <1>1, <1>3
<1>14. PendingInv
  BY <1>1 DEF PendingInv
<1>. QED  BY <1>10, <1>11, <1>12, <1>13, <1>14 DEF PushInv

LEMMA NewsFrame ==
    ASSUME PushInv, PendingInv, UNCHANGED newsVars
    PROVE  PushInv' /\ PendingInv'
<1>1. News!TypeOK' <=> News!TypeOK
  BY NewsTypes, NewsTypesNext DEF NewsRows, NewsRest, newsVars
<1>2. PushInv'
  BY <1>1, PushKeeps DEF newsVars, PushInv
<1>3. PendingInv'
  BY DEF PendingInv, Publishing, newsVars
<1>. QED  BY <1>2, <1>3

\* Nobody is told an announcement more often than publications of it overlapped,
\* and that many times again for each fault that cut them off; and once it is out,
\* no row of it waits for an outcome that nobody will write (publish_announcement
\* reads the draft, pushes and commits with no lock).
THEOREM ToldAsPublished == NoticesSpec => []PublishedOnce
<1>1. NoticesInit => PushInv /\ PendingInv
  BY NewsInit DEF NoticesInit
<1>2. ASSUME PushInv, PendingInv, [NoticesNext]_<<focus, alertsVars, newsVars, chatVars, vars>>
      PROVE  PushInv' /\ PendingInv'
  <2>1. News!Next \/ UNCHANGED newsVars
    BY <1>2 DEF NoticesNext
  <2>. QED  BY <1>2, <2>1, NewsNextKeeps, NewsFrame
<1>3. PushInv /\ PendingInv => PublishedOnce
  <2>. SUFFICES ASSUME PushInv, PendingInv  PROVE PublishedOnce
    OBVIOUS
  <2>1. News!PushesBounded
    <3>. SUFFICES ASSUME NEW p \in News!People
                  PROVE  pushed[p] <= peak * (1 + annFaults)
      BY DEF News!PushesBounded
    <3>1. /\ peak \in Nat /\ annFaults \in Nat /\ pushed[p] \in Nat /\ Cardinality(Unsent) \in Nat
          /\ peak * annFaults \in Nat
      BY NewsNumbers DEF PushInv
    <3>2. pushed[p] + Cardinality(Unsent) <= peak * annFaults + peak
      BY DEF PushInv
    <3>3. peak * (1 + annFaults) = peak * annFaults + peak
      BY <3>1
    <3>. HIDE DEF PushInv
    <3>. QED  BY <3>1, <3>2, <3>3
  <2>2. News!NothingPending
    BY DEF PendingInv, News!NothingPending
  <2>. QED  BY <2>1, <2>2 DEF PushInv, PublishedOnce
<1>. QED  BY <1>1, <1>2, <1>3, PTL DEF NoticesSpec

-----------------------------------------------------------------------------
(* Chat: what the calls have left to do                                    *)

\* What a call may have left to do: all of a plan, or the rest of one.
Starting ==
    {<<"create", "init", "warn">>, <<"create", "init", "warn", "reconcile">>,
     <<"create", "init", "warn", "row", "node">>,
     <<"create", "save", "init", "warn", "write", "push">>,
     <<"create", "reconcile", "save", "init", "warn", "write", "push">>}
Opening ==
    {<<"init", "warn">>, <<"warn">>, <<"init", "warn", "reconcile">>, <<"warn", "reconcile">>,
     <<"reconcile">>, <<"init", "warn", "row", "node">>, <<"warn", "row", "node">>,
     <<"row", "node">>, <<"node">>}
Sending ==
    {<<"reconcile", "save", "init", "warn", "write", "push">>,
     <<"save", "init", "warn", "write", "push">>, <<"init", "warn", "write", "push">>,
     <<"warn", "write", "push">>, <<"write", "push">>, <<"push">>,
     <<"reconcile", "save", "write", "push">>, <<"save", "write", "push">>}
Translating ==
    {<<"reconcile", "save", "write", "push", "patch", "note">>,
     <<"save", "write", "push", "patch", "note">>, <<"write", "push", "patch", "note">>,
     <<"push", "patch", "note">>, <<"patch", "note">>, <<"note">>}
Plans == Starting \union Opening \union Sending \union Translating

Left(p) == {p[i] : i \in DOMAIN p}

\* Its message is there, and the call is not done with it.
Saved(c) == "save" \notin Left(c.todo)
            /\ Left(c.todo) \intersect {"write", "push", "patch", "note"} # {}

Talking == {t \in Threads : chats[t] # None}

CallInv(c) ==
    /\ c.todo \in Plans
    /\ c.side = "driver" => c.driver # None
    /\ "reconcile" \in Left(c.todo) => c.side = "driver"
    /\ "node" \in Left(c.todo) => c.lang \in Langs
    /\ IF "create" \in Left(c.todo) THEN c.seen = None ELSE c.seen # None /\ session # None
    /\ c.due # None => c.side = "employee" /\ c.seen # None /\ c.seen.driver = c.due
    /\ Saved(c) => /\ c.msg \in 2..Len(messages)
                   /\ messages[c.msg].due = c.due /\ messages[c.msg].from = c.side

ChatInv ==
    /\ Chat!TypeOK
    /\ \A t \in Talking : CallInv(chats[t])
    /\ session = None <=> messages = <<>>
    /\ Chat!WarnedOnce
    /\ Chat!PushedToDriver

FollowInv ==
    ~crossed =>
        /\ came => session # None /\ assigned # None /\ session.driver = assigned
        /\ \A t \in Talking :
               LET c == chats[t]
               IN  "reconcile" \in Left(c.todo) =>
                       /\ assigned \in {None, c.driver}
                       /\ c.seen # None /\ assigned # None /\ c.seen.driver = assigned =>
                              session.driver = assigned

\* The message of a call has what the call has done for it.
Half(c) ==
    LET m == messages[c.msg]
    IN  /\ m.noted = None
        /\ m.shown = IF "note" \in Left(c.todo) /\ "patch" \notin Left(c.todo)
                     THEN c.seen.lang[CHOOSE s \in Chat!Sides : s # c.side] ELSE None
        /\ "write" \notin Left(c.todo) => m.node = "whole"

\* Who is about to write the warning, and who is not done with a message.
Warns(c) == "warn" \in Left(c.todo) /\ "create" \notin Left(c.todo)
Speaking == {t \in Talking : Saved(chats[t])}
Done(m)  == m.node = "whole" /\ m.shown = m.noted

\* As long as nothing has failed, the apps see what the tables say of every message,
\* but for those that some call is not done with.
MirrorInv ==
    chatFaults = 0 =>
        /\ messages # <<>> =>
               /\ messages[1].shown = None /\ messages[1].noted = None
               /\ messages[1].node = "whole" \/ \E t \in Talking : Warns(chats[t])
        /\ \A t, u \in Speaking : chats[t].msg = chats[u].msg => t = u
        /\ \A t \in Speaking : Half(chats[t])
        /\ \A i \in 2..Len(messages) : Done(messages[i]) \/ \E t \in Speaking : chats[t].msg = i

\* Of the only call: its chat is new, or it knows the languages of the session as
\* long as it needs them, and the node has them, but for the one it brings.
Abreast(c) ==
    LET L == Left(c.todo)
    IN  IF "create" \in L THEN session = None
        ELSE /\ "init" \in L \/ "row" \in L => c.seen.lang = session.lang
             /\ "init" \notin L /\ ("row" \in L \/ "node" \notin L) => mirror = session.lang
             /\ "init" \notin L /\ "node" \in L /\ "row" \notin L =>
                    /\ session.lang[c.side] = c.lang
                    /\ \A s \in Chat!Sides \ {c.side} : mirror[s] = session.lang[s]

LangInv ==
    chatFaults = 0 /\ ~overlapped =>
        /\ \A t, u \in Talking : t = u
        /\ session # None /\ Talking = {} => mirror = session.lang
        /\ \A t \in Talking : Abreast(chats[t])

-----------------------------------------------------------------------------
\* A step of a plan is taken once, and in the order of the code.
LEMMA PlanSteps ==
    ASSUME NEW p \in Plans
    PROVE  /\ p \in Seq(Chat!Steps) /\ p # <<>> /\ Head(p) \in Left(p)
           /\ IF Len(p) = 1 THEN Left(p) = {Head(p)}
              ELSE Tail(p) \in Plans /\ Left(Tail(p)) = Left(p) \ {Head(p)}
<1>1. CASE p \in Starting
  <2>1. CASE p = <<"create", "init", "warn">>
    BY <2>1 DEF Left, Plans, Opening, Sending, Translating, Chat!Steps
  <2>2. CASE p = <<"create", "init", "warn", "reconcile">>
    BY <2>2 DEF Left, Plans, Opening, Sending, Translating, Chat!Steps
  <2>3. CASE p = <<"create", "init", "warn", "row", "node">>
    BY <2>3 DEF Left, Plans, Opening, Sending, Translating, Chat!Steps
  <2>4. CASE p = <<"create", "save", "init", "warn", "write", "push">>
    BY <2>4 DEF Left, Plans, Opening, Sending, Translating, Chat!Steps
  <2>5. CASE p = <<"create", "reconcile", "save", "init", "warn", "write", "push">>
    BY <2>5 DEF Left, Plans, Opening, Sending, Translating, Chat!Steps
  <2>. QED  BY <1>1, <2>1, <2>2, <2>3, <2>4, <2>5 DEF Starting
<1>2. CASE p \in Opening
  <2>1. CASE p = <<"init", "warn">>
    BY <2>1 DEF Left, Plans, Opening, Sending, Translating, Chat!Steps
  <2>2. CASE p = <<"warn">>
    BY <2>2 DEF Left, Chat!Steps
  <2>3. CASE p = <<"init", "warn", "reconcile">>
    BY <2>3 DEF Left, Plans, Opening, Sending, Translating, Chat!Steps
  <2>4. CASE p = <<"warn", "reconcile">>
    BY <2>4 DEF Left, Plans, Opening, Sending, Translating, Chat!Steps
  <2>5. CASE p = <<"reconcile">>
    BY <2>5 DEF Left, Chat!Steps
  <2>6. CASE p = <<"init", "warn", "row", "node">>
    BY <2>6 DEF Left, Plans, Opening, Sending, Translating, Chat!Steps
  <2>7. CASE p = <<"warn", "row", "node">>
    BY <2>7 DEF Left, Plans, Opening, Sending, Translating, Chat!Steps
  <2>8. CASE p = <<"row", "node">>
    BY <2>8 DEF Left, Plans, Opening, Sending, Translating, Chat!Steps
  <2>9. CASE p = <<"node">>
    BY <2>9 DEF Left, Chat!Steps
  <2>. QED  BY <1>2, <2>1, <2>2, <2>3, <2>4, <2>5, <2>6, <2>7, <2>8, <2>9 DEF Opening
<1>3. CASE p \in Sending
  <2>1. CASE p = <<"reconcile", "save", "init", "warn", "write", "push">>
    BY <2>1 DEF Left, Plans, Opening, Sending, Translating, Chat!Steps
  <2>2. CASE p = <<"save", "init", "warn", "write", "push">>
    BY <2>2 DEF Left, Plans, Opening, Sending, Translating, Chat!Steps
  <2>3. CASE p = <<"init", "warn", "write", "push">>
    BY <2>3 DEF Left, Plans, Opening, Sending, Translating, Chat!Steps
  <2>4. CASE p = <<"warn", "write", "push">>
    BY <2>4 DEF Left, Plans, Opening, Sending, Translating, Chat!Steps
  <2>5. CASE p = <<"write", "push">>
    BY <2>5 DEF Left, Plans, Opening, Sending, Translating, Chat!Steps
  <2>6. CASE p = <<"push">>
    BY <2>6 DEF Left, Chat!Steps
  <2>7. CASE p = <<"reconcile", "save", "write", "push">>
    BY <2>7 DEF Left, Plans, Opening, Sending, Translating, Chat!Steps
  <2>8. CASE p = <<"save", "write", "push">>
    BY <2>8 DEF Left, Plans, Opening, Sending, Translating, Chat!Steps
  <2>. QED  BY <1>3, <2>1, <2>2, <2>3, <2>4, <2>5, <2>6, <2>7, <2>8 DEF Sending
<1>4. CASE p \in Translating
  <2>1. CASE p = <<"reconcile", "save", "write", "push", "patch", "note">>
    BY <2>1 DEF Left, Plans, Opening, Sending, Translating, Chat!Steps
  <2>2. CASE p = <<"save", "write", "push", "patch", "note">>
    BY <2>2 DEF Left, Plans, Opening, Sending, Translating, Chat!Steps
  <2>3. CASE p = <<"write", "push", "patch", "note">>
    BY <2>3 DEF Left, Plans, Opening, Sending, Translating, Chat!Steps
  <2>4. CASE p = <<"push", "patch", "note">>
    BY <2>4 DEF Left, Plans, Opening, Sending, Translating, Chat!Steps
  <2>5. CASE p = <<"patch", "note">>
    BY <2>5 DEF Left, Plans, Opening, Sending, Translating, Chat!Steps
  <2>6. CASE p = <<"note">>
    BY <2>6 DEF Left, Chat!Steps
  <2>. QED  BY <1>4, <2>1, <2>2, <2>3, <2>4, <2>5, <2>6 DEF Translating
<1>. QED  BY <1>1, <1>2, <1>3, <1>4 DEF Plans

\* What the order of a plan says of the steps that are left.
LEMMA PlanOrder ==
    ASSUME NEW p \in Plans
    PROVE  /\ "create" \in Left(p) => Head(p) = "create" /\ {"init", "warn"} \subseteq Left(p)
           /\ Head(p) = "save" => "write" \in Left(p)
           /\ "save" \in Left(p) => ("patch" \in Left(p) <=> "note" \in Left(p))
           /\ Head(p) \in {"write", "push", "patch", "note"} => "save" \notin Left(p)
           /\ Head(p) = "patch" => p = <<"patch", "note">>
           /\ Head(p) = "note" => p = <<"note">>
           /\ Head(p) = "row" => p = <<"row", "node">>
           /\ Head(p) = "node" => p = <<"node">>
           /\ "init" \in Left(p) /\ "node" \in Left(p) => "row" \in Left(p)
           /\ Head(p) = "warn" => "create" \notin Left(p)
           /\ {"create", "save"} \intersect Left(p) # {} \/ Head(p) \in {"write", "push"}
                  => ("patch" \in Left(p) <=> "note" \in Left(p))
           /\ Head(p) = "write" => "push" \in Left(p)
           /\ "create" \in Left(p) /\ "save" \notin Left(p) =>
                  Left(p) \intersect {"write", "push", "patch", "note"} = {}
           /\ Head(p) = "init" => "warn" \in Left(p)
<1>1. "create" \in Left(p) => Head(p) = "create" /\ {"init", "warn"} \subseteq Left(p)
  <2>1. CASE p \in Starting
    <3>1. Head(p) = "create"
      BY <2>1 DEF Starting
    <3>2. "init" \in Left(p)
      BY <2>1 DEF Starting, Left
    <3>3. "warn" \in Left(p)
      BY <2>1 DEF Starting, Left
    <3>. QED  BY <3>1, <3>2, <3>3
  <2>2. CASE p \notin Starting
    <3>1. "create" \notin Left(p)
      BY <2>2 DEF Plans, Opening, Sending, Translating, Left
    <3>. QED  BY <3>1
  <2>. QED  BY <2>1, <2>2
<1>2. Head(p) = "save" => "write" \in Left(p)
  BY DEF Plans, Starting, Opening, Sending, Translating, Left
<1>3. "save" \in Left(p) => ("patch" \in Left(p) <=> "note" \in Left(p))
  BY DEF Plans, Starting, Opening, Sending, Translating, Left
<1>4. Head(p) \in {"write", "push", "patch", "note"} => "save" \notin Left(p)
  BY DEF Plans, Starting, Opening, Sending, Translating, Left
<1>5. Head(p) = "patch" => p = <<"patch", "note">>
  BY DEF Plans, Starting, Opening, Sending, Translating, Left
<1>6. Head(p) = "note" => p = <<"note">>
  BY DEF Plans, Starting, Opening, Sending, Translating, Left
<1>7. Head(p) = "row" => p = <<"row", "node">>
  BY DEF Plans, Starting, Opening, Sending, Translating, Left
<1>8. Head(p) = "node" => p = <<"node">>
  BY DEF Plans, Starting, Opening, Sending, Translating, Left
<1>9. "init" \in Left(p) /\ "node" \in Left(p) => "row" \in Left(p)
  BY DEF Plans, Starting, Opening, Sending, Translating, Left
<1>10. Head(p) = "warn" => "create" \notin Left(p)
  BY <1>1
<1>11. {"create", "save"} \intersect Left(p) # {} \/ Head(p) \in {"write", "push"}
           => ("patch" \in Left(p) <=> "note" \in Left(p))
  BY DEF Plans, Starting, Opening, Sending, Translating, Left
<1>12. Head(p) = "write" => "push" \in Left(p)
  BY DEF Plans, Starting, Opening, Sending, Translating, Left
<1>13. "create" \in Left(p) /\ "save" \notin Left(p) =>
           Left(p) \intersect {"write", "push", "patch", "note"} = {}
  BY DEF Plans, Starting, Opening, Sending, Translating, Left
<1>14. Head(p) = "init" => "warn" \in Left(p)
  BY DEF Plans, Starting, Opening, Sending, Translating, Left
<1>. QED  BY <1>1, <1>2, <1>3, <1>4, <1>5, <1>6, <1>7, <1>8, <1>9, <1>10, <1>11, <1>12, <1>13, <1>14

\* What is put together is one plan: one step more, two steps more.
LEMMA OneMore ==
    ASSUME NEW S, NEW s \in Seq(S), NEW a \in S, NEW r \in Seq(S), Len(r) = Len(s) + 1,
           \A i \in 1..Len(s) : r[i] = s[i], r[Len(s) + 1] = a
    PROVE  s \o <<a>> = r
<1>1. s \o <<a>> \in Seq(S) /\ Len(s \o <<a>>) = Len(r)
  OBVIOUS
<1>2. ASSUME NEW i \in 1..Len(r)  PROVE (s \o <<a>>)[i] = r[i]
  OBVIOUS
<1>. QED  BY <1>1, <1>2, SeqEqual

LEMMA TwoMore ==
    ASSUME NEW S, NEW s \in Seq(S), NEW a \in S, NEW b \in S, NEW r \in Seq(S),
           Len(r) = Len(s) + 2, \A i \in 1..Len(s) : r[i] = s[i],
           r[Len(s) + 1] = a, r[Len(s) + 2] = b
    PROVE  s \o <<a, b>> = r
<1>1. s \o <<a, b>> \in Seq(S) /\ Len(s \o <<a, b>>) = Len(r)
  OBVIOUS
<1>2. ASSUME NEW i \in 1..Len(r)  PROVE (s \o <<a, b>>)[i] = r[i]
  <2>1. i \in 1..Len(s) \/ i = Len(s) + 1 \/ i = Len(s) + 2
    OBVIOUS
  <2>2. CASE i \in 1..Len(s)
    BY <2>2
  <2>3. CASE i = Len(s) + 1
    BY <2>3
  <2>4. CASE i = Len(s) + 2
    BY <2>4
  <2>. QED  BY <2>1, <2>2, <2>3, <2>4
<1>. QED  BY <1>1, <1>2, SeqEqual

\* The plans as the code puts them together, piece by piece.
LEMMA OneAndOne ==
    ASSUME NEW a, NEW b
    PROVE  <<a>> \o <<b>> = <<a, b>>
<1>. DEFINE s == <<a>>
            r == <<a, b>>
            S == {a, b}
<1>1. s \in Seq(S) /\ r \in Seq(S) /\ b \in S
  OBVIOUS
<1>2. Len(r) = Len(s) + 1
  OBVIOUS
<1>3. \A i \in 1..Len(s) : r[i] = s[i]
  OBVIOUS
<1>4. r[Len(s) + 1] = b
  OBVIOUS
<1>. HIDE DEF s, r, S
<1>5. s \o <<b>> = r
  BY <1>1, <1>2, <1>3, <1>4, OneMore
<1>. QED  BY <1>5 DEF s, r

LEMMA TwoAndOne ==
    ASSUME NEW a, NEW b, NEW c
    PROVE  <<a, b>> \o <<c>> = <<a, b, c>>
<1>. DEFINE s == <<a, b>>
            r == <<a, b, c>>
            S == {a, b, c}
<1>1. s \in Seq(S) /\ r \in Seq(S) /\ c \in S
  OBVIOUS
<1>2. Len(r) = Len(s) + 1
  OBVIOUS
<1>3. \A i \in 1..Len(s) : r[i] = s[i]
  OBVIOUS
<1>4. r[Len(s) + 1] = c
  OBVIOUS
<1>. HIDE DEF s, r, S
<1>5. s \o <<c>> = r
  BY <1>1, <1>2, <1>3, <1>4, OneMore
<1>. QED  BY <1>5 DEF s, r

LEMMA ThreeAndOne ==
    ASSUME NEW a, NEW b, NEW c, NEW d
    PROVE  <<a, b, c>> \o <<d>> = <<a, b, c, d>>
<1>. DEFINE s == <<a, b, c>>
            r == <<a, b, c, d>>
            S == {a, b, c, d}
<1>1. s \in Seq(S) /\ r \in Seq(S) /\ d \in S
  OBVIOUS
<1>2. Len(r) = Len(s) + 1
  OBVIOUS
<1>3. \A i \in 1..Len(s) : r[i] = s[i]
  OBVIOUS
<1>4. r[Len(s) + 1] = d
  OBVIOUS
<1>. HIDE DEF s, r, S
<1>5. s \o <<d>> = r
  BY <1>1, <1>2, <1>3, <1>4, OneMore
<1>. QED  BY <1>5 DEF s, r

LEMMA OneAndTwo ==
    ASSUME NEW a, NEW b, NEW c
    PROVE  <<a>> \o <<b, c>> = <<a, b, c>>
<1>. DEFINE s == <<a>>
            r == <<a, b, c>>
            S == {a, b, c}
<1>1. s \in Seq(S) /\ r \in Seq(S) /\ b \in S /\ c \in S
  OBVIOUS
<1>2. Len(r) = Len(s) + 2
  OBVIOUS
<1>3. \A i \in 1..Len(s) : r[i] = s[i]
  OBVIOUS
<1>4. r[Len(s) + 1] = b /\ r[Len(s) + 2] = c
  OBVIOUS
<1>. HIDE DEF s, r, S
<1>5. s \o <<b, c>> = r
  BY <1>1, <1>2, <1>3, <1>4, TwoMore
<1>. QED  BY <1>5 DEF s, r

LEMMA TwoAndTwo ==
    ASSUME NEW a, NEW b, NEW c, NEW d
    PROVE  <<a, b>> \o <<c, d>> = <<a, b, c, d>>
<1>. DEFINE s == <<a, b>>
            r == <<a, b, c, d>>
            S == {a, b, c, d}
<1>1. s \in Seq(S) /\ r \in Seq(S) /\ c \in S /\ d \in S
  OBVIOUS
<1>2. Len(r) = Len(s) + 2
  OBVIOUS
<1>3. \A i \in 1..Len(s) : r[i] = s[i]
  OBVIOUS
<1>4. r[Len(s) + 1] = c /\ r[Len(s) + 2] = d
  OBVIOUS
<1>. HIDE DEF s, r, S
<1>5. s \o <<c, d>> = r
  BY <1>1, <1>2, <1>3, <1>4, TwoMore
<1>. QED  BY <1>5 DEF s, r

LEMMA ThreeAndTwo ==
    ASSUME NEW a, NEW b, NEW c, NEW d, NEW e
    PROVE  <<a, b, c>> \o <<d, e>> = <<a, b, c, d, e>>
<1>. DEFINE s == <<a, b, c>>
            r == <<a, b, c, d, e>>
            S == {a, b, c, d, e}
<1>1. s \in Seq(S) /\ r \in Seq(S) /\ d \in S /\ e \in S
  OBVIOUS
<1>2. Len(r) = Len(s) + 2
  OBVIOUS
<1>3. \A i \in 1..Len(s) : r[i] = s[i]
  OBVIOUS
<1>4. r[Len(s) + 1] = d /\ r[Len(s) + 2] = e
  OBVIOUS
<1>. HIDE DEF s, r, S
<1>5. s \o <<d, e>> = r
  BY <1>1, <1>2, <1>3, <1>4, TwoMore
<1>. QED  BY <1>5 DEF s, r

LEMMA FourAndTwo ==
    ASSUME NEW a, NEW b, NEW c, NEW d, NEW e, NEW f
    PROVE  <<a, b, c, d>> \o <<e, f>> = <<a, b, c, d, e, f>>
<1>. DEFINE s == <<a, b, c, d>>
            r == <<a, b, c, d, e, f>>
            S == {a, b, c, d, e, f}
<1>1. s \in Seq(S) /\ r \in Seq(S) /\ e \in S /\ f \in S
  OBVIOUS
<1>2. Len(r) = Len(s) + 2
  OBVIOUS
<1>3. \A i \in 1..Len(s) : r[i] = s[i]
  OBVIOUS
<1>4. r[Len(s) + 1] = e /\ r[Len(s) + 2] = f
  OBVIOUS
<1>. HIDE DEF s, r, S
<1>5. s \o <<e, f>> = r
  BY <1>1, <1>2, <1>3, <1>4, TwoMore
<1>. QED  BY <1>5 DEF s, r

LEMMA FiveAndTwo ==
    ASSUME NEW a, NEW b, NEW c, NEW d, NEW e, NEW f, NEW g
    PROVE  <<a, b, c, d, e>> \o <<f, g>> = <<a, b, c, d, e, f, g>>
<1>. DEFINE s == <<a, b, c, d, e>>
            r == <<a, b, c, d, e, f, g>>
            S == {a, b, c, d, e, f, g}
<1>1. s \in Seq(S) /\ r \in Seq(S) /\ f \in S /\ g \in S
  OBVIOUS
<1>2. Len(r) = Len(s) + 2
  OBVIOUS
<1>3. \A i \in 1..Len(s) : r[i] = s[i]
  OBVIOUS
<1>4. r[Len(s) + 1] = f /\ r[Len(s) + 2] = g
  OBVIOUS
<1>. HIDE DEF s, r, S
<1>5. s \o <<f, g>> = r
  BY <1>1, <1>2, <1>3, <1>4, TwoMore
<1>. QED  BY <1>5 DEF s, r

\* The plans of the calls, and what a call has to do when it begins.
Fresh(p, side) ==
    /\ p \in Plans
    /\ "create" \in Left(p) <=> session = None
    /\ "reconcile" \in Left(p) => side = "driver"
    /\ Left(p) \intersect {"write", "push", "patch", "note"} # {} => "save" \in Left(p)
    /\ session # None => "init" \notin Left(p)
    /\ "node" \in Left(p) => "row" \in Left(p)

\* A piece that is not there adds nothing.
LEMMA NothingMore ==
    ASSUME NEW p \in Seq(Chat!Steps)
    PROVE  p \o <<>> = p /\ <<>> \o p = p
BY ConcatEmptySeq

\* The pieces and what they make are sequences of steps.
LEMMA Pieces ==
    /\ <<>> \in Seq(Chat!Steps) /\ <<"create">> \in Seq(Chat!Steps) /\ <<"reconcile">> \in Seq(Chat!Steps)
    /\ <<"create", "init", "warn">> \in Seq(Chat!Steps)
    /\ <<"save", "write", "push">> \in Seq(Chat!Steps)
    /\ <<"reconcile", "save", "write", "push">> \in Seq(Chat!Steps)
    /\ <<"save">> \in Seq(Chat!Steps) /\ <<"reconcile", "save">> \in Seq(Chat!Steps)
    /\ <<"row", "node">> \in Seq(Chat!Steps)
    /\ <<"create", "save", "init", "warn", "write", "push">> \in Seq(Chat!Steps)
    /\ <<"create", "reconcile", "save", "init", "warn", "write", "push">> \in Seq(Chat!Steps)
BY DEF Chat!Steps

\* What a call that opens the chat has to do.
LEMMA OpenPlan ==
    ASSUME NEW side \in Chat!Sides, Chat!OpenChat(side) # <<>>
    PROVE  Fresh(Chat!OpenChat(side), side) /\ "node" \notin Left(Chat!OpenChat(side))
<1>1. CASE session = None /\ side = "driver"
  <2>1. Chat!OpenChat(side) = <<"create", "init", "warn", "reconcile">>
    BY <1>1, ThreeAndOne DEF Chat!OpenChat, Chat!If, Chat!Met, Chat!New
  <2>. QED  BY <1>1, <2>1 DEF Fresh, Plans, Starting, Left
<1>2. CASE session = None /\ side # "driver"
  <2>1. Chat!OpenChat(side) = <<"create", "init", "warn">>
    BY <1>2, Pieces, NothingMore DEF Chat!OpenChat, Chat!If, Chat!Met, Chat!New
  <2>. QED  BY <1>2, <2>1 DEF Fresh, Plans, Starting, Left
<1>3. CASE session # None /\ side = "driver"
  <2>1. Chat!OpenChat(side) = <<"reconcile">>
    BY <1>3, Pieces, NothingMore DEF Chat!OpenChat, Chat!If, Chat!Met, Chat!New
  <2>. QED  BY <1>3, <2>1 DEF Fresh, Plans, Opening, Left
<1>4. CASE session # None /\ side # "driver"
  <2>1. Chat!OpenChat(side) = <<>>
    BY <1>4, Pieces, NothingMore DEF Chat!OpenChat, Chat!If, Chat!Met, Chat!New
  <2>. QED  BY <2>1
<1>. QED  BY <1>1, <1>2, <1>3, <1>4

\* What a call that reads the messages has to do.
LEMMA ReadPlan ==
    ASSUME NEW side \in Chat!Sides, Chat!GetMessages(side) # <<>>
    PROVE  Fresh(Chat!GetMessages(side), side) /\ "node" \notin Left(Chat!GetMessages(side))
<1>1. session # None /\ side = "driver" /\ Chat!GetMessages(side) = <<"reconcile">>
  BY DEF Chat!GetMessages, Chat!If, Chat!Met, Chat!New
<1>. QED  BY <1>1 DEF Fresh, Plans, Opening, Left

\* What a call that sets a language has to do.
LEMMA LanguagePlan ==
    ASSUME NEW side \in Chat!Sides
    PROVE  Fresh(Chat!SetLanguage, side)
<1>1. CASE session = None
  <2>1. Chat!SetLanguage = <<"create", "init", "warn", "row", "node">>
    BY <1>1, ThreeAndTwo DEF Chat!SetLanguage, Chat!If, Chat!New
  <2>. QED  BY <1>1, <2>1 DEF Fresh, Plans, Starting, Left
<1>2. CASE session # None
  <2>1. Chat!SetLanguage = <<"row", "node">>
    BY <1>2, Pieces, NothingMore DEF Chat!SetLanguage, Chat!If, Chat!New
  <2>. QED  BY <1>2, <2>1 DEF Fresh, Plans, Opening, Left
<1>. QED  BY <1>1, <1>2

\* What a call that sends a message has to do.
LEMMA SendPlan ==
    ASSUME NEW side \in Chat!Sides
    PROVE  Fresh(Chat!SendMessage(side), side) /\ "node" \notin Left(Chat!SendMessage(side))
<1>. DEFINE create == Chat!If(Chat!New, <<"create">>)
            met == Chat!Met(side)
            warn == Chat!If(Chat!New, <<"init", "warn">>)
            more == Chat!If(Chat!Translate, <<"patch", "note">>)
<1>0. Chat!SendMessage(side) =
          (((((create \o met) \o <<"save">>) \o warn) \o <<"write", "push">>) \o more)
  BY DEF Chat!SendMessage
<1>1. CASE session = None /\ side = "driver"
  <2>1. /\ create = <<"create">> /\ met = <<"reconcile">> /\ warn = <<"init", "warn">> /\ more = <<>>
    BY <1>1 DEF Chat!If, Chat!Met, Chat!New, Chat!Translate
  <2>. HIDE DEF create, met, warn, more
  <2>2. create \o met = <<"create", "reconcile">>
    BY <2>1, OneAndOne
  <2>3. <<"create", "reconcile">> \o <<"save">> = <<"create", "reconcile", "save">>
    BY TwoAndOne
  <2>4. <<"create", "reconcile", "save">> \o <<"init", "warn">>
            = <<"create", "reconcile", "save", "init", "warn">>
    BY ThreeAndTwo
  <2>5. <<"create", "reconcile", "save", "init", "warn">> \o <<"write", "push">>
            = <<"create", "reconcile", "save", "init", "warn", "write", "push">>
    BY FiveAndTwo
  <2>6. Chat!SendMessage(side) = <<"create", "reconcile", "save", "init", "warn", "write", "push">> \o more
    BY <1>0, <2>1, <2>2, <2>3, <2>4, <2>5
  <2>7. Chat!SendMessage(side) = <<"create", "reconcile", "save", "init", "warn", "write", "push">>
    BY <2>1, <2>6, Pieces, NothingMore
  <2>. QED  BY <1>1, <2>7 DEF Fresh, Plans, Starting, Left
<1>2. CASE session = None /\ side # "driver"
  <2>1. /\ create = <<"create">> /\ met = <<>> /\ warn = <<"init", "warn">> /\ more = <<>>
    BY <1>2 DEF Chat!If, Chat!Met, Chat!New, Chat!Translate
  <2>. HIDE DEF create, met, warn, more
  <2>2. create \o met = <<"create">>
    BY <2>1, Pieces, NothingMore
  <2>3. <<"create">> \o <<"save">> = <<"create", "save">>
    BY OneAndOne
  <2>4. <<"create", "save">> \o <<"init", "warn">> = <<"create", "save", "init", "warn">>
    BY TwoAndTwo
  <2>5. <<"create", "save", "init", "warn">> \o <<"write", "push">>
            = <<"create", "save", "init", "warn", "write", "push">>
    BY FourAndTwo
  <2>6. Chat!SendMessage(side) = <<"create", "save", "init", "warn", "write", "push">> \o more
    BY <1>0, <2>1, <2>2, <2>3, <2>4, <2>5
  <2>7. Chat!SendMessage(side) = <<"create", "save", "init", "warn", "write", "push">>
    BY <2>1, <2>6, Pieces, NothingMore
  <2>. QED  BY <1>2, <2>7 DEF Fresh, Plans, Starting, Left
<1>3. CASE session # None /\ side = "driver"
  <2>1. /\ create = <<>> /\ met = <<"reconcile">> /\ warn = <<>>
        /\ more \in {<<>>, <<"patch", "note">>}
    BY <1>3 DEF Chat!If, Chat!Met, Chat!New
  <2>. HIDE DEF create, met, warn, more
  <2>2. create \o met = <<"reconcile">>
    BY <2>1, Pieces, NothingMore
  <2>3. <<"reconcile">> \o <<"save">> = <<"reconcile", "save">>
    BY OneAndOne
  <2>4. <<"reconcile", "save">> \o warn = <<"reconcile", "save">>
    BY <2>1, Pieces, NothingMore
  <2>5. <<"reconcile", "save">> \o <<"write", "push">> = <<"reconcile", "save", "write", "push">>
    BY TwoAndTwo
  <2>6. Chat!SendMessage(side) = <<"reconcile", "save", "write", "push">> \o more
    BY <1>0, <2>2, <2>3, <2>4, <2>5
  <2>7. <<"reconcile", "save", "write", "push">> \o <<"patch", "note">>
            = <<"reconcile", "save", "write", "push", "patch", "note">>
    BY FourAndTwo
  <2>8. \/ Chat!SendMessage(side) = <<"reconcile", "save", "write", "push">>
        \/ Chat!SendMessage(side) = <<"reconcile", "save", "write", "push", "patch", "note">>
    BY <2>1, <2>6, <2>7, Pieces, NothingMore
  <2>. QED  BY <1>3, <2>8 DEF Fresh, Plans, Sending, Translating, Left
<1>4. CASE session # None /\ side # "driver"
  <2>1. /\ create = <<>> /\ met = <<>> /\ warn = <<>>
        /\ more \in {<<>>, <<"patch", "note">>}
    BY <1>4 DEF Chat!If, Chat!Met, Chat!New
  <2>. HIDE DEF create, met, warn, more
  <2>2. (create \o met) \o <<"save">> = <<"save">>
    BY <2>1, Pieces, NothingMore
  <2>4. <<"save">> \o warn = <<"save">>
    BY <2>1, Pieces, NothingMore
  <2>5. <<"save">> \o <<"write", "push">> = <<"save", "write", "push">>
    BY OneAndTwo
  <2>6. Chat!SendMessage(side) = <<"save", "write", "push">> \o more
    BY <1>0, <2>2, <2>4, <2>5
  <2>7. <<"save", "write", "push">> \o <<"patch", "note">>
            = <<"save", "write", "push", "patch", "note">>
    BY ThreeAndTwo
  <2>8. \/ Chat!SendMessage(side) = <<"save", "write", "push">>
        \/ Chat!SendMessage(side) = <<"save", "write", "push", "patch", "note">>
    BY <2>1, <2>6, <2>7, Pieces, NothingMore
  <2>. QED  BY <1>4, <2>8 DEF Fresh, Plans, Sending, Translating, Left
<1>. QED  BY <1>1, <1>2, <1>3, <1>4

-----------------------------------------------------------------------------
(* Chat: the rows and the calls, step by step                              *)

\* The call d is the call c without a step.
Onward(c, d, step) ==
    /\ d.todo \in Plans /\ Left(d.todo) = Left(c.todo) \ {step}
    /\ d.side = c.side /\ d.driver = c.driver /\ d.lang = c.lang
    /\ d.seen = c.seen /\ d.msg = c.msg /\ d.due = c.due

\* The call of t goes on as c, without a step, or ends; the others stay.
Moves(t, c, step) ==
    /\ chats' \in [Threads -> Chat!Call \union {None}]
    /\ \A u \in Threads : chats'[u] # None => chats'[u].todo # <<>>
    /\ \A u \in Threads \ {t} : chats'[u] = chats[u]
    /\ chats'[t] # None => Onward(c, chats'[t], step)

\* What is in the chat stays there, with its sender.
Keeps ==
    /\ session # None => session' # None
    /\ messages' \in Seq(Chat!Message) /\ Len(messages) <= Len(messages')
    /\ \A i \in 1..Len(messages) : /\ messages'[i].due = messages[i].due
                                   /\ messages'[i].from = messages[i].from

\* A call that takes its step goes on with the rest of its plan, or that was its last.
LEMMA Going ==
    ASSUME ChatInv, NEW t \in Threads, NEW step, Chat!At(t, step),
           NEW c \in Chat!Call, c.todo = chats[t].todo, Chat!Goes(t, c)
    PROVE  /\ t \in Talking /\ chats[t] \in Chat!Call /\ c.todo \in Plans
           /\ Head(c.todo) = step /\ step \in Left(c.todo)
           /\ Moves(t, c, step)
           /\ chats'[t] = None => Left(c.todo) = {step}
<1>1. t \in Talking /\ chats[t] \in Chat!Call /\ CallInv(chats[t])
  BY DEF Chat!At, Talking, ChatInv, Chat!TypeOK
<1>2. c.todo \in Plans /\ Head(c.todo) = step
  BY <1>1 DEF CallInv, Chat!At
<1>3. /\ c.todo \in Seq(Chat!Steps) /\ c.todo # <<>> /\ step \in Left(c.todo)
      /\ IF Len(c.todo) = 1 THEN Left(c.todo) = {step}
         ELSE Tail(c.todo) \in Plans /\ Left(Tail(c.todo)) = Left(c.todo) \ {step}
  BY <1>2, PlanSteps
<1>4. chats' = [chats EXCEPT ![t] = IF Len(c.todo) = 1 THEN None ELSE [c EXCEPT !.todo = Tail(c.todo)]]
  BY DEF Chat!Goes
<1>5. chats \in [Threads -> Chat!Call \union {None}] /\ \A u \in Threads : chats[u] # None => chats[u].todo # <<>>
  BY DEF ChatInv, Chat!TypeOK
<1>6. PICK d : d = [c EXCEPT !.todo = Tail(c.todo)]
  OBVIOUS
<1>7. /\ d.todo = Tail(c.todo)
      /\ d.side = c.side /\ d.driver = c.driver /\ d.lang = c.lang
      /\ d.seen = c.seen /\ d.msg = c.msg /\ d.due = c.due
  BY <1>6 DEF Chat!Call
<1>8. None \notin Chat!Call
  BY ChatAssumption
<1>9. CASE Len(c.todo) = 1
  <2>1. chats' = [chats EXCEPT ![t] = None]
    BY <1>4, <1>9
  <2>. QED  BY <1>1, <1>2, <1>3, <1>5, <1>9, <2>1 DEF Moves
<1>10. CASE Len(c.todo) # 1
  <2>1. Tail(c.todo) \in Plans
    BY <1>3, <1>10
  <2>2. Tail(c.todo) \in Seq(Chat!Steps) /\ Tail(c.todo) # <<>>
    BY <2>1, PlanSteps
  <2>3. d \in Chat!Call
    BY <1>6, <2>2 DEF Chat!Call
  <2>4. chats' = [chats EXCEPT ![t] = d]
    BY <1>4, <1>6, <1>10
  <2>5. Onward(c, d, step)
    BY <1>3, <1>7, <1>10 DEF Onward
  <2>. QED  BY <1>1, <1>2, <1>3, <1>5, <1>7, <1>8, <2>2, <2>3, <2>4, <2>5 DEF Moves
<1>. QED  BY <1>9, <1>10

\* A call that takes no step is left as it was, for what is in the chat stays there.
LEMMA CallKept ==
    ASSUME Keeps, messages \in Seq(Chat!Message), NEW c \in Chat!Call, CallInv(c)
    PROVE  CallInv(c)'
<1>1. Saved(c)' <=> Saved(c)
  BY DEF Saved
<1>2. Saved(c) => /\ c.msg \in 1..Len(messages) /\ c.msg \in 2..Len(messages')
                  /\ messages'[c.msg].due = c.due /\ messages'[c.msg].from = c.side
  BY DEF CallInv, Keeps
<1>. QED  BY <1>1, <1>2 DEF CallInv, Keeps

\* After the step of one call all calls are as they should be.
LEMMA CallsGoOn ==
    ASSUME ChatInv, Keeps, NEW t \in Talking, NEW step, NEW c, Moves(t, c, step),
           c.todo = chats[t].todo, c.side = chats[t].side, c.driver = chats[t].driver,
           c.lang = chats[t].lang, c.due = chats[t].due, step \in Left(chats[t].todo),
           Head(chats[t].todo) = step,
           chats'[t] # None =>
               /\ c.seen # None /\ session' # None
               /\ c.due # None => c.seen.driver = c.due
               /\ IF step = "save"
                  THEN /\ c.msg \in 2..Len(messages')
                       /\ messages'[c.msg].due = c.due /\ messages'[c.msg].from = c.side
                  ELSE c.msg = chats[t].msg
    PROVE  \A u \in Talking' : CallInv(chats[u])'
<1>. SUFFICES ASSUME NEW u \in Talking'  PROVE CallInv(chats[u])'
  OBVIOUS
<1>0. /\ chats \in [Threads -> Chat!Call \union {None}] /\ messages \in Seq(Chat!Message)
      /\ u \in Threads /\ t \in Threads /\ chats'[u] # None
  BY DEF ChatInv, Chat!TypeOK, Talking
<1>1. CASE u # t
  <2>1. chats'[u] = chats[u] /\ u \in Talking
    BY <1>0, <1>1 DEF Moves, Talking
  <2>2. PICK d \in Chat!Call : d = chats[u]
    BY <1>0, <2>1
  <2>3. CallInv(d)'
    BY <1>0, <2>1, <2>2, CallKept DEF ChatInv
  <2>. QED  BY <2>1, <2>2, <2>3 DEF CallInv, Saved
<1>2. CASE u = t
  <2>1. PICK d : d = chats'[t]
    OBVIOUS
  <2>2. Onward(c, d, step)
    BY <1>0, <1>2, <2>1 DEF Moves
  <2>3. PICK b : b = chats[t]
    OBVIOUS
  <2>4. CallInv(b) /\ b.todo \in Plans
    BY <2>3 DEF ChatInv, CallInv
  <2>5. "create" \notin Left(d.todo)
    BY <2>2, <2>3, <2>4, PlanOrder DEF Onward
  <2>6. "save" \notin Left(d.todo) /\ step # "save" => "save" \notin Left(b.todo)
    BY <2>2, <2>3 DEF Onward
  <2>7. Saved(d) => /\ d.msg \in 2..Len(messages')
                    /\ messages'[d.msg].due = d.due /\ messages'[d.msg].from = d.side
    <3>. SUFFICES ASSUME Saved(d)  PROVE /\ d.msg \in 2..Len(messages')
                                         /\ messages'[d.msg].due = d.due /\ messages'[d.msg].from = d.side
      OBVIOUS
    <3>1. CASE step = "save"
      BY <1>0, <1>2, <2>2, <3>1 DEF Onward
    <3>2. CASE step # "save"
      <4>1. Saved(b)
        BY <2>2, <2>3, <2>6, <3>2 DEF Saved, Onward
      <4>2. b.msg \in 2..Len(messages) /\ messages[b.msg].due = b.due /\ messages[b.msg].from = b.side
        BY <2>4, <4>1 DEF CallInv
      <4>3. d.msg = b.msg /\ d.due = b.due /\ d.side = b.side
        BY <1>0, <1>2, <2>2, <2>3, <3>2 DEF Onward
      <4>. QED  BY <1>0, <4>2, <4>3 DEF Keeps
    <3>. QED  BY <3>1, <3>2
  <2>8. CallInv(d)'
    <3>1. d.todo \in Plans /\ Left(d.todo) \subseteq Left(b.todo)
      BY <2>2, <2>3 DEF Onward
    <3>2. d.side = b.side /\ d.driver = b.driver /\ d.lang = b.lang /\ d.due = b.due /\ d.seen = c.seen
      BY <2>2, <2>3 DEF Onward
    <3>3. d.seen # None /\ session' # None /\ (d.due # None => d.seen.driver = d.due)
      BY <1>0, <1>2, <2>2 DEF Onward
    <3>4. /\ d.side = "driver" => d.driver # None
          /\ "reconcile" \in Left(d.todo) => d.side = "driver"
          /\ "node" \in Left(d.todo) => d.lang \in Langs
          /\ d.due # None => d.side = "employee"
      BY <2>4, <3>1, <3>2 DEF CallInv
    <3>5. Saved(d)' <=> Saved(d)
      BY DEF Saved
    <3>. QED  BY <2>5, <2>7, <3>1, <3>3, <3>4, <3>5 DEF CallInv
  <2>. QED  BY <1>2, <2>1, <2>8 DEF CallInv, Saved
<1>. QED  BY <1>1, <1>2

\* What is known of a call at a step.
LEMMA AtStep ==
    ASSUME ChatInv, NEW t \in Threads, NEW step, Chat!At(t, step)
    PROVE  /\ t \in Talking /\ chats[t] \in Chat!Call /\ CallInv(chats[t])
           /\ chats[t].todo \in Plans /\ Head(chats[t].todo) = step /\ step \in Left(chats[t].todo)
           /\ step # "create" => /\ "create" \notin Left(chats[t].todo)
                                 /\ chats[t].seen \in Chat!Session /\ chats[t].seen # None
                                 /\ session \in Chat!Session /\ session # None
                                 /\ messages # <<>> /\ 1 \in 1..Len(messages)
           /\ step = "create" => chats[t].seen = None /\ chats[t].due = None
           /\ step \in {"write", "push", "patch", "note"} =>
                  /\ Saved(chats[t])
                  /\ chats[t].msg \in 2..Len(messages) /\ chats[t].msg \in 1..Len(messages)
                  /\ messages[chats[t].msg].due = chats[t].due
                  /\ messages[chats[t].msg].from = chats[t].side
<1>. DEFINE b == chats[t]
<1>1. t \in Talking /\ b \in Chat!Call /\ CallInv(b)
  BY DEF Chat!At, Talking, ChatInv, Chat!TypeOK
<1>2. b.todo \in Plans /\ Head(b.todo) = step
  BY <1>1 DEF CallInv, Chat!At
<1>3. step \in Left(b.todo)
  BY <1>2, PlanSteps
<1>4. step # "create" => "create" \notin Left(b.todo)
  BY <1>2, PlanOrder
<1>5. step # "create" => /\ b.seen \in Chat!Session /\ b.seen # None
                         /\ session \in Chat!Session /\ session # None
  BY <1>1, <1>4 DEF CallInv, ChatInv, Chat!TypeOK, Chat!Call
<1>6. step # "create" => messages # <<>> /\ 1 \in 1..Len(messages)
  BY <1>5 DEF ChatInv, Chat!TypeOK
<1>7. step = "create" => b.seen = None /\ b.due = None
  BY <1>1, <1>3 DEF CallInv
<1>8. step \in {"write", "push", "patch", "note"} => Saved(b)
  BY <1>2, <1>3, PlanOrder DEF Saved
<1>9. Saved(b) => /\ b.msg \in 2..Len(messages) /\ b.msg \in 1..Len(messages)
                  /\ messages[b.msg].due = b.due /\ messages[b.msg].from = b.side
  BY <1>1 DEF CallInv, ChatInv, Chat!TypeOK
<1>. QED  BY <1>1, <1>2, <1>3, <1>4, <1>5, <1>6, <1>7, <1>8, <1>9

\* A step leaves the invariant standing if it leaves the rows as they should be.
LEMMA ChatOnward ==
    ASSUME ChatInv, Keeps, NEW t \in Threads, NEW step, Chat!At(t, step),
           NEW c \in Chat!Call, Chat!Goes(t, c),
           c.todo = chats[t].todo, c.side = chats[t].side, c.driver = chats[t].driver,
           c.lang = chats[t].lang, c.due = chats[t].due,
           c.seen # None, c.due # None => c.seen.driver = c.due,
           IF step = "save"
           THEN /\ c.msg \in 2..Len(messages')
                /\ messages'[c.msg].due = c.due /\ messages'[c.msg].from = c.side
           ELSE c.msg = chats[t].msg,
           UNCHANGED <<assigned, begun, moves, crossed, overlapped>>,
           came' \in BOOLEAN, chatFaults' \in 0..MaxFaults,
           session' \in Chat!Session, mirror' \in [Chat!Sides -> Langs \union {None}],
           messages' # <<>>, Chat!WarnedOnce', Chat!PushedToDriver'
    PROVE  ChatInv'
<1>1. t \in Talking /\ Moves(t, c, step) /\ Head(c.todo) = step /\ step \in Left(c.todo)
  BY Going
<1>2. session' # None
  BY ChatAssumption
<1>3. \A u \in Talking' : CallInv(chats[u])'
  BY <1>1, <1>2, CallsGoOn
<1>4. Chat!TypeOK'
  BY <1>1 DEF ChatInv, Chat!TypeOK, Moves, Keeps
<1>. QED  BY <1>2, <1>3, <1>4 DEF ChatInv

\* One message is changed, but for its sender and whom it is for.
Edits(i, r) ==
    /\ i \in 1..Len(messages) /\ r \in Chat!Message
    /\ messages' = [messages EXCEPT ![i] = r]
    /\ r.from = messages[i].from /\ r.due = messages[i].due

\* One message is changed: the rest, and who wrote what, stays.
LEMMA Edited ==
    ASSUME ChatInv, NEW i, NEW r, Edits(i, r)
    PROVE  /\ messages' \in Seq(Chat!Message) /\ Len(messages') = Len(messages) /\ messages' # <<>>
           /\ messages'[i] = r
           /\ \A j \in 1..Len(messages) : j # i => messages'[j] = messages[j]
           /\ \A j \in 1..Len(messages) : /\ messages'[j].due = messages[j].due
                                          /\ messages'[j].from = messages[j].from
           /\ Chat!WarnedOnce'
           /\ (r.due # None /\ r.to # None => r.to = r.due) => Chat!PushedToDriver'
<1>1. messages \in Seq(Chat!Message) /\ DOMAIN messages = 1..Len(messages)
  BY DEF ChatInv, Chat!TypeOK
<1>2. /\ messages' \in Seq(Chat!Message) /\ Len(messages') = Len(messages)
      /\ \A j \in 1..Len(messages) : messages'[j] = IF j = i THEN r ELSE messages[j]
  BY <1>1, ExceptSeq DEF Edits
<1>3. messages' # <<>> /\ DOMAIN messages' = 1..Len(messages)
  BY <1>1, <1>2 DEF Edits
<1>4. \A j \in 1..Len(messages) : /\ messages'[j].due = messages[j].due
                                  /\ messages'[j].from = messages[j].from
  BY <1>2 DEF Edits
<1>5. Chat!WarnedOnce'
  BY <1>1, <1>3, <1>4 DEF ChatInv, Chat!WarnedOnce
<1>6. (r.due # None /\ r.to # None => r.to = r.due) => Chat!PushedToDriver'
  BY <1>1, <1>2, <1>3 DEF ChatInv, Chat!PushedToDriver
<1>. QED  BY <1>2, <1>3, <1>4, <1>5, <1>6 DEF Edits

\* One message is added.
LEMMA Added ==
    ASSUME ChatInv, NEW m \in Chat!Message, messages' = Append(messages, m),
           m.to = None, m.from = "system" <=> messages = <<>>
    PROVE  /\ messages' \in Seq(Chat!Message) /\ Len(messages') = Len(messages) + 1 /\ messages' # <<>>
           /\ \A j \in 1..Len(messages) : messages'[j] = messages[j]
           /\ messages'[Len(messages) + 1] = m
           /\ Chat!WarnedOnce' /\ Chat!PushedToDriver'
<1>1. messages \in Seq(Chat!Message) /\ DOMAIN messages = 1..Len(messages) /\ Len(messages) \in Nat
  BY DEF ChatInv, Chat!TypeOK
<1>2. /\ messages' \in Seq(Chat!Message) /\ Len(messages') = Len(messages) + 1 /\ messages' # <<>>
      /\ \A j \in 1..Len(messages) : messages'[j] = messages[j]
      /\ messages'[Len(messages) + 1] = m
  BY <1>1, AppendProperties
<1>3. DOMAIN messages' = 1..(Len(messages) + 1)
  BY <1>2
<1>4. messages = <<>> <=> Len(messages) = 0
  BY <1>1
<1>5. Chat!WarnedOnce'
  <2>. SUFFICES ASSUME NEW j \in 1..(Len(messages) + 1)
                PROVE  messages'[j].from = "system" <=> j = 1
    BY <1>3 DEF Chat!WarnedOnce
  <2>1. CASE j \in 1..Len(messages)
    BY <1>1, <1>2, <2>1 DEF ChatInv, Chat!WarnedOnce
  <2>2. CASE j = Len(messages) + 1
    BY <1>1, <1>2, <1>4, <2>2
  <2>. QED  BY <1>1, <2>1, <2>2
<1>6. Chat!PushedToDriver'
  <2>. SUFFICES ASSUME NEW j \in 1..(Len(messages) + 1), messages'[j].due # None, messages'[j].to # None
                PROVE  messages'[j].to = messages'[j].due
    BY <1>3 DEF Chat!PushedToDriver
  <2>1. j # Len(messages) + 1
    BY <1>2
  <2>. QED  BY <1>1, <1>2, <2>1 DEF ChatInv, Chat!PushedToDriver
<1>. QED  BY <1>2, <1>5, <1>6

\* Steps that write no message.
LEMMA ChatQuiet ==
    ASSUME ChatInv, NEW t \in Threads, NEW step \in Chat!Steps \ {"create", "save"}, Chat!At(t, step),
           NEW c \in Chat!Call, Chat!Goes(t, c), c.todo = chats[t].todo,
           c.side = chats[t].side, c.driver = chats[t].driver, c.lang = chats[t].lang,
           c.due = chats[t].due, c.msg = chats[t].msg,
           c.seen # None, c.due # None => c.seen.driver = c.due,
           UNCHANGED <<assigned, begun, moves, crossed, overlapped, messages>>,
           came' \in BOOLEAN, chatFaults' \in 0..MaxFaults,
           session' \in Chat!Session, mirror' \in [Chat!Sides -> Langs \union {None}]
    PROVE  ChatInv'
<1>1. messages # <<>>
  BY AtStep
<1>2. messages \in Seq(Chat!Message)
  BY DEF ChatInv, Chat!TypeOK
<1>3. session' # None
  BY ChatAssumption
<1>4. Keeps
  BY <1>2, <1>3 DEF Keeps
<1>5. Chat!WarnedOnce' /\ Chat!PushedToDriver'
  BY DEF ChatInv, Chat!WarnedOnce, Chat!PushedToDriver
<1>. QED  BY <1>1, <1>4, <1>5, ChatOnward

\* The steps, one by one.
LEMMA ChatInitNode == ASSUME ChatInv, NEW t \in Threads, Chat!InitNode(t)  PROVE ChatInv'
<1>1. PICK c : c = chats[t]
  OBVIOUS
<1>2. Chat!At(t, "init") /\ Chat!Goes(t, c)
  BY <1>1 DEF Chat!InitNode, Chat!GoesOn
<1>3. c \in Chat!Call /\ c.seen \in Chat!Session /\ c.seen # None /\ session \in Chat!Session /\ CallInv(chats[t])
  BY <1>1, <1>2, AtStep
<1>4. mirror' \in [Chat!Sides -> Langs \union {None}]
  BY <1>1, <1>3 DEF Chat!InitNode, Chat!Session
<1>. QED  BY <1>1, <1>2, <1>3, <1>4, ChatQuiet DEF CallInv, Chat!InitNode, Chat!Steps, ChatInv, Chat!TypeOK, Chat!office

LEMMA ChatReconcile == ASSUME ChatInv, NEW t \in Threads, Chat!Reconcile(t)  PROVE ChatInv'
<1>1. PICK b : b = chats[t]
  OBVIOUS
<1>2. PICK c : c = [b EXCEPT !.seen.driver = b.driver]
  OBVIOUS
<1>3. Chat!At(t, "reconcile") /\ Chat!Goes(t, c)
  BY <1>1, <1>2 DEF Chat!Reconcile
<1>4. /\ b \in Chat!Call /\ b.seen \in Chat!Session /\ session \in Chat!Session /\ CallInv(chats[t])
      /\ "reconcile" \in Left(b.todo)
  BY <1>1, <1>3, AtStep
<1>5. /\ c \in Chat!Call /\ c.seen \in Chat!Session
      /\ c.todo = b.todo /\ c.side = b.side /\ c.driver = b.driver /\ c.lang = b.lang
      /\ c.due = b.due /\ c.msg = b.msg
  BY <1>2, <1>4 DEF Chat!Call, Chat!Session
<1>6. b.due = None
  BY <1>1, <1>4 DEF CallInv
<1>7. session' \in Chat!Session
  BY <1>1, <1>4 DEF Chat!Reconcile, Chat!Session, Chat!Call
<1>8. c.seen # None
  BY <1>5, ChatAssumption
<1>9. /\ UNCHANGED <<assigned, begun, moves, crossed, overlapped, messages>>
      /\ came' \in BOOLEAN /\ chatFaults' \in 0..MaxFaults
      /\ mirror' \in [Chat!Sides -> Langs \union {None}]
  BY DEF Chat!Reconcile, Chat!office, ChatInv, Chat!TypeOK
<1>. QED  BY <1>1, <1>3, <1>5, <1>6, <1>7, <1>8, <1>9, ChatQuiet DEF Chat!Steps

\* A call without a translation ends.
LEMMA NoTranslationEnds ==
    ASSUME ChatInv, NEW t \in Threads, Chat!NoTranslation(t)
    PROVE  chats' = [chats EXCEPT ![t] = None] /\ chats[t].todo = <<"patch", "note">>
<1>1. PICK b : b = chats[t]
  OBVIOUS
<1>2. PICK c : c = [b EXCEPT !.todo = <<"note">>]
  OBVIOUS
<1>3. Chat!At(t, "patch")
  BY DEF Chat!NoTranslation
<1>4. b \in Chat!Call /\ b.todo \in Plans /\ Head(b.todo) = "patch"
  BY <1>1, <1>3, AtStep
<1>5. b.todo = <<"patch", "note">>
  BY <1>4, PlanOrder
<1>6. Tail(b.todo) = <<"note">> /\ c.todo = <<"note">>
  BY <1>2, <1>4, <1>5 DEF Chat!Call
<1>7. Chat!Goes(t, c)
  BY <1>1, <1>2, <1>6 DEF Chat!NoTranslation
<1>. QED  BY <1>1, <1>5, <1>6, <1>7 DEF Chat!Goes

LEMMA ChatNoTranslation == ASSUME ChatInv, NEW t \in Threads, Chat!NoTranslation(t)  PROVE ChatInv'
<1>1. /\ Chat!TypeOK /\ chats \in [Threads -> Chat!Call \union {None}]
      /\ chats' = [chats EXCEPT ![t] = None]
      /\ UNCHANGED <<assigned, begun, moves, crossed, overlapped, messages, session, mirror, came, chatFaults>>
  BY NoTranslationEnds DEF Chat!NoTranslation, Chat!office, ChatInv, Chat!TypeOK
<1>2. Chat!TypeOK'
  BY <1>1 DEF Chat!TypeOK
<1>3. \A u \in Talking' : CallInv(chats[u])'
  BY <1>1 DEF ChatInv, Talking, CallInv, Saved
<1>. QED  BY <1>1, <1>2, <1>3 DEF ChatInv, Chat!WarnedOnce, Chat!PushedToDriver

LEMMA ChatSetRow == ASSUME ChatInv, NEW t \in Threads, Chat!SetRowLanguage(t)  PROVE ChatInv'
<1>1. PICK c : c = chats[t]
  OBVIOUS
<1>2. Chat!At(t, "row") /\ Chat!Goes(t, c)
  BY <1>1 DEF Chat!SetRowLanguage, Chat!GoesOn
<1>3. /\ c \in Chat!Call /\ c.seen \in Chat!Session /\ c.seen # None /\ session \in Chat!Session
      /\ CallInv(chats[t]) /\ c.todo \in Plans /\ Head(c.todo) = "row"
  BY <1>1, <1>2, AtStep
<1>4. "node" \in Left(c.todo)
  BY <1>3, PlanOrder DEF Left
<1>5. c.lang \in Langs /\ c.side \in Chat!Sides
  BY <1>1, <1>3, <1>4 DEF CallInv, Chat!Call
<1>6. session' \in Chat!Session
  BY <1>1, <1>3, <1>5 DEF Chat!SetRowLanguage, Chat!Session
<1>7. /\ UNCHANGED <<assigned, begun, moves, crossed, overlapped, messages>>
      /\ came' \in BOOLEAN /\ chatFaults' \in 0..MaxFaults
      /\ mirror' \in [Chat!Sides -> Langs \union {None}]
  BY DEF Chat!SetRowLanguage, Chat!office, ChatInv, Chat!TypeOK
<1>. QED  BY <1>1, <1>2, <1>3, <1>6, <1>7, ChatQuiet DEF CallInv, Chat!Steps

LEMMA ChatSetNode == ASSUME ChatInv, NEW t \in Threads, Chat!SetNodeLanguage(t)  PROVE ChatInv'
<1>1. PICK c : c = chats[t]
  OBVIOUS
<1>2. Chat!At(t, "node") /\ Chat!Goes(t, c)
  BY <1>1 DEF Chat!SetNodeLanguage, Chat!GoesOn
<1>3. /\ c \in Chat!Call /\ c.seen \in Chat!Session /\ c.seen # None /\ session \in Chat!Session
      /\ CallInv(chats[t])
  BY <1>1, <1>2, AtStep
<1>4. /\ UNCHANGED <<assigned, begun, moves, crossed, overlapped, messages, session>>
      /\ came' \in BOOLEAN /\ chatFaults' \in 0..MaxFaults
      /\ mirror' \in [Chat!Sides -> Langs \union {None}]
  BY <1>1, <1>3 DEF Chat!SetNodeLanguage, Chat!office, ChatInv, Chat!TypeOK, Chat!Call
<1>. QED  BY <1>1, <1>2, <1>3, <1>4, ChatQuiet DEF CallInv, Chat!Steps

LEMMA ChatFails == ASSUME ChatInv, NEW t \in Threads, Chat!FirebaseFails(t)  PROVE ChatInv'
<1>1. PICK c : c = chats[t]
  OBVIOUS
<1>2. PICK step \in {"init", "warn", "write", "patch", "node"} : Chat!At(t, step)
  BY DEF Chat!FirebaseFails
<1>3. Chat!Goes(t, c)
  BY <1>1 DEF Chat!FirebaseFails, Chat!GoesOn
<1>4. /\ c \in Chat!Call /\ c.seen \in Chat!Session /\ c.seen # None /\ session \in Chat!Session
      /\ CallInv(chats[t])
  BY <1>1, <1>2, AtStep
<1>5. /\ UNCHANGED <<assigned, begun, moves, crossed, overlapped, messages, session>>
      /\ came' \in BOOLEAN /\ chatFaults' \in 0..MaxFaults
      /\ mirror' \in [Chat!Sides -> Langs \union {None}]
  BY NewsAssumption DEF Chat!FirebaseFails, Chat!office, ChatInv, Chat!TypeOK
<1>. QED  BY <1>1, <1>2, <1>3, <1>4, <1>5, ChatQuiet DEF CallInv, Chat!Steps

\* Steps that change a message.
LEMMA ChatEdit ==
    ASSUME ChatInv, NEW t \in Threads, NEW step \in Chat!Steps \ {"create", "save"}, Chat!At(t, step),
           Chat!GoesOn(t), NEW i, NEW r, Edits(i, r), r.due # None /\ r.to # None => r.to = r.due,
           UNCHANGED <<assigned, begun, moves, crossed, overlapped, session, mirror, came, chatFaults>>
    PROVE  ChatInv'
<1>1. PICK c : c = chats[t]
  OBVIOUS
<1>2. Chat!Goes(t, c)
  BY <1>1 DEF Chat!GoesOn
<1>3. /\ c \in Chat!Call /\ c.seen \in Chat!Session /\ c.seen # None /\ session \in Chat!Session
      /\ session # None /\ CallInv(chats[t])
  BY <1>1, AtStep
<1>4. /\ messages' \in Seq(Chat!Message) /\ Len(messages') = Len(messages) /\ messages' # <<>>
      /\ \A j \in 1..Len(messages) : /\ messages'[j].due = messages[j].due
                                     /\ messages'[j].from = messages[j].from
      /\ Chat!WarnedOnce' /\ Chat!PushedToDriver'
  BY Edited
<1>5. Keeps
  BY <1>3, <1>4 DEF Keeps, ChatInv, Chat!TypeOK
<1>6. /\ came' \in BOOLEAN /\ chatFaults' \in 0..MaxFaults
      /\ session' \in Chat!Session /\ mirror' \in [Chat!Sides -> Langs \union {None}]
  BY <1>3 DEF ChatInv, Chat!TypeOK
<1>. QED  BY <1>1, <1>2, <1>3, <1>4, <1>5, <1>6, ChatOnward DEF CallInv

\* The messages that the steps write.
LEMMA WarningEdit ==
    ASSUME ChatInv, NEW t \in Threads, Chat!WriteWarning(t)
    PROVE  \E r : /\ Edits(1, r) /\ r = [messages[1] EXCEPT !.node = "whole"]
                  /\ r.node = "whole" /\ r.shown = messages[1].shown
                  /\ r.noted = messages[1].noted /\ r.to = messages[1].to
<1>1. 1 \in 1..Len(messages) /\ messages \in Seq(Chat!Message)
  BY AtStep DEF Chat!WriteWarning, ChatInv, Chat!TypeOK
<1>2. PICK r : r = [messages[1] EXCEPT !.node = "whole"]
  OBVIOUS
<1>3. messages[1] \in Chat!Message
  BY <1>1
<1>4. r \in Chat!Message /\ r.node = "whole" /\ r.shown = messages[1].shown /\ r.due = messages[1].due
      /\ r.noted = messages[1].noted /\ r.to = messages[1].to /\ r.from = messages[1].from
  BY <1>2, <1>3 DEF Chat!Message
<1>5. messages' = [messages EXCEPT ![1] = r]
  BY <1>1, <1>2 DEF Chat!WriteWarning
<1>. QED  BY <1>1, <1>2, <1>4, <1>5 DEF Edits

LEMMA WriteEdit ==
    ASSUME ChatInv, NEW t \in Threads, Chat!WriteMessage(t)
    PROVE  \E r : /\ Edits(chats[t].msg, r)
                  /\ r.node = "whole" /\ r.shown = None
                  /\ r.noted = messages[chats[t].msg].noted /\ r.to = messages[chats[t].msg].to
<1>1. PICK i : i = chats[t].msg
  OBVIOUS
<1>2. i \in 1..Len(messages) /\ messages \in Seq(Chat!Message)
  BY <1>1, AtStep DEF Chat!WriteMessage, ChatInv, Chat!TypeOK
<1>3. PICK m : m = messages[i]
  OBVIOUS
<1>4. m \in Chat!Message
  BY <1>2, <1>3
<1>5. PICK r : r = [m EXCEPT !.node = "whole", !.shown = None]
  OBVIOUS
<1>6. r \in Chat!Message /\ r.node = "whole" /\ r.shown = None /\ r.due = m.due
      /\ r.noted = m.noted /\ r.to = m.to /\ r.from = m.from
  BY <1>4, <1>5 DEF Chat!Message
<1>7. messages' = [messages EXCEPT ![i] = r]
  BY <1>1, <1>2, <1>3, <1>5 DEF Chat!WriteMessage
<1>. QED  BY <1>1, <1>2, <1>3, <1>6, <1>7 DEF Edits

LEMMA PushEdit ==
    ASSUME ChatInv, NEW t \in Threads, Chat!PushMessage(t)
    PROVE  \E r : /\ Edits(chats[t].msg, r)
                  /\ r.due # None /\ r.to # None => r.to = r.due
                  /\ r.node = messages[chats[t].msg].node /\ r.shown = messages[chats[t].msg].shown
                  /\ r.noted = messages[chats[t].msg].noted
<1>1. PICK i : i = chats[t].msg
  OBVIOUS
<1>2. /\ i \in 1..Len(messages) /\ messages \in Seq(Chat!Message)
      /\ messages[i].due = chats[t].due /\ CallInv(chats[t]) /\ chats[t].seen \in Chat!Session
      /\ chats[t] \in Chat!Call
  BY <1>1, AtStep DEF Chat!PushMessage, ChatInv, Chat!TypeOK
<1>3. PICK m : m = messages[i]
  OBVIOUS
<1>4. m \in Chat!Message
  BY <1>2, <1>3
<1>5. PICK to : to = IF chats[t].side = "driver" THEN "employee"
                    ELSE IF chats[t].seen.driver = None THEN "nobody"
                    ELSE chats[t].seen.driver
  OBVIOUS
<1>6. to \in Drivers \union {"employee", "nobody", None}
  BY <1>2, <1>5 DEF Chat!Session
<1>7. PICK r : r = [m EXCEPT !.to = to]
  OBVIOUS
<1>8. r \in Chat!Message /\ r.node = m.node /\ r.shown = m.shown /\ r.due = m.due
      /\ r.noted = m.noted /\ r.to = to /\ r.from = m.from
  BY <1>4, <1>6, <1>7 DEF Chat!Message
<1>9. messages' = [messages EXCEPT ![i] = r]
  BY <1>1, <1>2, <1>3, <1>5, <1>7 DEF Chat!PushMessage
<1>10. r.due # None => r.to = r.due
  <2>. SUFFICES ASSUME r.due # None  PROVE r.to = r.due
    OBVIOUS
  <2>1. chats[t].due = r.due
    BY <1>2, <1>3, <1>8
  <2>2. chats[t].side = "employee" /\ chats[t].seen.driver = r.due
    BY <1>2, <2>1 DEF CallInv
  <2>. QED  BY <1>5, <1>8, <2>2
<1>. QED  BY <1>1, <1>2, <1>3, <1>8, <1>9, <1>10 DEF Edits

LEMMA PatchEdit ==
    ASSUME ChatInv, NEW t \in Threads, Chat!PatchTranslation(t)
    PROVE  \E r : /\ Edits(chats[t].msg, r) /\ r.shown = Chat!TargetLang(t)
                  /\ messages[chats[t].msg].node = "whole" => r.node = "whole"
                  /\ r.noted = messages[chats[t].msg].noted /\ r.to = messages[chats[t].msg].to
<1>1. PICK i : i = chats[t].msg
  OBVIOUS
<1>2. /\ i \in 1..Len(messages) /\ messages \in Seq(Chat!Message) /\ chats[t].seen \in Chat!Session
      /\ chats[t] \in Chat!Call
  BY <1>1, AtStep DEF Chat!PatchTranslation, ChatInv, Chat!TypeOK
<1>3. PICK m : m = messages[i]
  OBVIOUS
<1>4. m \in Chat!Message
  BY <1>2, <1>3
<1>5. PICK l : l = Chat!TargetLang(t)
  OBVIOUS
<1>6. l \in Langs
  BY <1>2, <1>5 DEF Chat!TargetLang, Chat!Session, Chat!Sides, Chat!Call
<1>7. PICK r : r = [m EXCEPT !.shown = l, !.node = IF m.node = "none" THEN "part" ELSE m.node]
  OBVIOUS
<1>8. r \in Chat!Message /\ r.shown = l /\ r.due = m.due /\ (m.node = "whole" => r.node = "whole")
      /\ r.noted = m.noted /\ r.to = m.to /\ r.from = m.from
  BY <1>4, <1>6, <1>7 DEF Chat!Message
<1>9. messages' = [messages EXCEPT ![i] = r]
  BY <1>1, <1>2, <1>3, <1>4, <1>5, <1>7 DEF Chat!PatchTranslation, Chat!Message
<1>. QED  BY <1>1, <1>2, <1>3, <1>5, <1>8, <1>9 DEF Edits

LEMMA NoteEdit ==
    ASSUME ChatInv, NEW t \in Threads, Chat!NoteTranslation(t)
    PROVE  \E r : /\ Edits(chats[t].msg, r) /\ r.noted = Chat!TargetLang(t)
                  /\ r.node = messages[chats[t].msg].node /\ r.shown = messages[chats[t].msg].shown
                  /\ r.to = messages[chats[t].msg].to
<1>1. PICK i : i = chats[t].msg
  OBVIOUS
<1>2. /\ i \in 1..Len(messages) /\ messages \in Seq(Chat!Message) /\ chats[t].seen \in Chat!Session
      /\ chats[t] \in Chat!Call
  BY <1>1, AtStep DEF Chat!NoteTranslation, ChatInv, Chat!TypeOK
<1>3. PICK m : m = messages[i]
  OBVIOUS
<1>4. m \in Chat!Message
  BY <1>2, <1>3
<1>5. PICK l : l = Chat!TargetLang(t)
  OBVIOUS
<1>6. l \in Langs
  BY <1>2, <1>5 DEF Chat!TargetLang, Chat!Session, Chat!Sides, Chat!Call
<1>7. PICK r : r = [m EXCEPT !.noted = l]
  OBVIOUS
<1>8. r \in Chat!Message /\ r.noted = l /\ r.due = m.due /\ r.node = m.node
      /\ r.shown = m.shown /\ r.to = m.to /\ r.from = m.from
  BY <1>4, <1>6, <1>7 DEF Chat!Message
<1>9. messages' = [messages EXCEPT ![i] = r]
  BY <1>1, <1>2, <1>3, <1>5, <1>7 DEF Chat!NoteTranslation
<1>. QED  BY <1>1, <1>2, <1>3, <1>5, <1>8, <1>9 DEF Edits

\* Who is told does not change where nobody is told.
LEMMA ToldAsBefore ==
    ASSUME ChatInv, NEW i, NEW r, Edits(i, r), r.to = messages[i].to
    PROVE  r.due # None /\ r.to # None => r.to = r.due
BY DEF ChatInv, Chat!TypeOK, Chat!PushedToDriver, Edits

\* All steps that change a message.
LEMMA ChatWrites ==
    ASSUME ChatInv, NEW t \in Threads,
           \/ Chat!WriteWarning(t) \/ Chat!WriteMessage(t) \/ Chat!PushMessage(t)
           \/ Chat!PatchTranslation(t) \/ Chat!NoteTranslation(t)
    PROVE  ChatInv'
<1>1. CASE Chat!WriteWarning(t)
  <2>1. PICK r : Edits(1, r) /\ r.to = messages[1].to
    BY <1>1, WarningEdit
  <2>. QED  BY <1>1, <2>1, ToldAsBefore, ChatEdit DEF Chat!WriteWarning, Chat!Steps, Chat!office
<1>2. CASE Chat!WriteMessage(t)
  <2>1. PICK i : i = chats[t].msg
    OBVIOUS
  <2>2. PICK r : Edits(i, r) /\ r.to = messages[i].to
    BY <1>2, <2>1, WriteEdit
  <2>. QED  BY <1>2, <2>2, ToldAsBefore, ChatEdit DEF Chat!WriteMessage, Chat!Steps, Chat!office
<1>3. CASE Chat!PushMessage(t)
  <2>1. PICK i : i = chats[t].msg
    OBVIOUS
  <2>2. PICK r : Edits(i, r) /\ (r.due # None /\ r.to # None => r.to = r.due)
    BY <1>3, <2>1, PushEdit
  <2>. QED  BY <1>3, <2>2, ChatEdit DEF Chat!PushMessage, Chat!Steps, Chat!office
<1>4. CASE Chat!PatchTranslation(t)
  <2>1. PICK i : i = chats[t].msg
    OBVIOUS
  <2>2. PICK r : Edits(i, r) /\ r.to = messages[i].to
    BY <1>4, <2>1, PatchEdit
  <2>. QED  BY <1>4, <2>2, ToldAsBefore, ChatEdit DEF Chat!PatchTranslation, Chat!Steps, Chat!office
<1>5. CASE Chat!NoteTranslation(t)
  <2>1. PICK i : i = chats[t].msg
    OBVIOUS
  <2>2. PICK r : Edits(i, r) /\ r.to = messages[i].to
    BY <1>5, <2>1, NoteEdit
  <2>. QED  BY <1>5, <2>2, ToldAsBefore, ChatEdit DEF Chat!NoteTranslation, Chat!Steps, Chat!office
<1>. QED  BY <1>1, <1>2, <1>3, <1>4, <1>5

LEMMA ChatCreate == ASSUME ChatInv, NEW t \in Threads, Chat!CreateSession(t)  PROVE ChatInv'
<1>1. PICK b : b = chats[t]
  OBVIOUS
<1>2. PICK row : row = [driver |-> b.driver, lang |-> [s \in Chat!Sides |-> English]]
  OBVIOUS
<1>3. PICK c : c = [b EXCEPT !.seen = row]
  OBVIOUS
<1>4. Chat!At(t, "create") /\ Chat!Goes(t, c) /\ session' = row /\ session = None
  BY <1>1, <1>2, <1>3 DEF Chat!CreateSession
<1>5. b \in Chat!Call /\ b.due = None
  BY <1>1, <1>4, AtStep
<1>6. row \in Chat!Session
  BY <1>2, <1>5, ChatAssumption DEF Chat!Session, Chat!Call
<1>7. /\ c \in Chat!Call /\ c.seen = row /\ c.todo = b.todo /\ c.side = b.side
      /\ c.driver = b.driver /\ c.lang = b.lang /\ c.due = b.due /\ c.msg = b.msg
  BY <1>3, <1>5, <1>6 DEF Chat!Call
<1>8. row # None
  BY <1>6, ChatAssumption
<1>9. PICK m : m = Chat!NewMessage("system", None)
  OBVIOUS
<1>10. m \in Chat!Message /\ m.to = None /\ m.from = "system"
  BY <1>9 DEF Chat!NewMessage, Chat!Message
<1>11. messages' = Append(messages, m) /\ messages = <<>>
  BY <1>4, <1>9 DEF Chat!CreateSession, ChatInv
<1>12. /\ messages' \in Seq(Chat!Message) /\ Len(messages') = Len(messages) + 1 /\ messages' # <<>>
       /\ \A j \in 1..Len(messages) : messages'[j] = messages[j]
       /\ Chat!WarnedOnce' /\ Chat!PushedToDriver'
  BY <1>10, <1>11, Added
<1>13. Keeps
  BY <1>4, <1>8, <1>12 DEF Keeps, ChatInv, Chat!TypeOK
<1>14. /\ UNCHANGED <<assigned, begun, moves, crossed, overlapped>>
       /\ came' \in BOOLEAN /\ chatFaults' \in 0..MaxFaults
       /\ mirror' \in [Chat!Sides -> Langs \union {None}]
  BY DEF Chat!CreateSession, Chat!office, ChatInv, Chat!TypeOK
<1>. QED  BY <1>1, <1>4, <1>5, <1>6, <1>7, <1>8, <1>12, <1>13, <1>14, ChatOnward

LEMMA ChatSave == ASSUME ChatInv, NEW t \in Threads, Chat!SaveMessage(t)  PROVE ChatInv'
<1>1. PICK b : b = chats[t]
  OBVIOUS
<1>2. PICK c : c = [b EXCEPT !.msg = Len(messages) + 1]
  OBVIOUS
<1>3. Chat!At(t, "save") /\ Chat!Goes(t, c)
  BY <1>1, <1>2 DEF Chat!SaveMessage
<1>4. /\ b \in Chat!Call /\ b.seen # None /\ CallInv(chats[t]) /\ session # None /\ session \in Chat!Session
      /\ messages # <<>>
  BY <1>1, <1>3, AtStep
<1>5. messages \in Seq(Chat!Message) /\ Len(messages) \in Nat \ {0}
  BY <1>4 DEF ChatInv, Chat!TypeOK
<1>6. /\ c \in Chat!Call /\ c.msg = Len(messages) + 1 /\ c.todo = b.todo /\ c.side = b.side
      /\ c.driver = b.driver /\ c.lang = b.lang /\ c.due = b.due /\ c.seen = b.seen
  <2>1. PICK n \in Nat : n = Len(messages) + 1
    BY <1>5
  <2>2. b \in Chat!Call /\ c = [b EXCEPT !.msg = n]
    BY <1>2, <1>4, <2>1
  <2>3. c \in Chat!Call
    BY <2>1, <2>2 DEF Chat!Call
  <2>. QED  BY <2>1, <2>2, <2>3 DEF Chat!Call
<1>7. PICK m : m = Chat!NewMessage(b.side, b.due)
  OBVIOUS
<1>8. m \in Chat!Message /\ m.to = None /\ m.from = b.side /\ m.from # "system" /\ m.due = b.due
  BY <1>4, <1>7 DEF Chat!NewMessage, Chat!Message, Chat!Call, Chat!Sides
<1>9. messages' = Append(messages, m)
  BY <1>1, <1>7 DEF Chat!SaveMessage
<1>10. /\ messages' \in Seq(Chat!Message) /\ Len(messages') = Len(messages) + 1 /\ messages' # <<>>
       /\ \A j \in 1..Len(messages) : messages'[j] = messages[j]
       /\ messages'[Len(messages) + 1] = m
       /\ Chat!WarnedOnce' /\ Chat!PushedToDriver'
  BY <1>4, <1>8, <1>9, Added
<1>11. /\ UNCHANGED <<assigned, begun, moves, crossed, overlapped, session, mirror, came, chatFaults>>
       /\ came' \in BOOLEAN /\ chatFaults' \in 0..MaxFaults
       /\ mirror' \in [Chat!Sides -> Langs \union {None}]
  BY DEF Chat!SaveMessage, Chat!office, ChatInv, Chat!TypeOK
<1>12. Keeps
  BY <1>4, <1>5, <1>10, <1>11 DEF Keeps
<1>13. /\ c.msg \in 2..Len(messages') /\ messages'[c.msg].due = c.due
       /\ messages'[c.msg].from = c.side
  BY <1>5, <1>6, <1>8, <1>10
<1>14. c.due # None => c.seen.driver = c.due
  BY <1>1, <1>4, <1>6 DEF CallInv
<1>. QED  BY <1>1, <1>3, <1>4, <1>6, <1>10, <1>11, <1>12, <1>13, <1>14, ChatOnward

LEMMA ChatRefused == ASSUME ChatInv, NEW t \in Threads, Chat!CreateRefused(t)  PROVE ChatInv'
<1>1. /\ Chat!TypeOK /\ chats' = [chats EXCEPT ![t] = None]
      /\ UNCHANGED <<assigned, begun, moves, crossed, overlapped, messages, session, mirror, came, chatFaults>>
  BY DEF Chat!CreateRefused, Chat!office, ChatInv
<1>2. Chat!TypeOK'
  BY <1>1 DEF Chat!TypeOK
<1>3. \A u \in Talking' : CallInv(chats[u])'
  BY <1>1 DEF ChatInv, Chat!TypeOK, Talking, CallInv, Saved
<1>. QED  BY <1>1, <1>2, <1>3 DEF ChatInv, Chat!WarnedOnce, Chat!PushedToDriver

LEMMA ChatRestart == ASSUME ChatInv, Chat!Restart  PROVE ChatInv'
<1>1. /\ Chat!TypeOK /\ chats' = [t \in Threads |-> None]
      /\ UNCHANGED <<assigned, begun, moves, crossed, overlapped, messages, session, mirror, came>>
      /\ chatFaults' = chatFaults + 1 /\ chatFaults < MaxFaults
  BY DEF Chat!Restart, Chat!office, ChatInv
<1>2. Chat!TypeOK'
  BY <1>1, NewsAssumption DEF Chat!TypeOK
<1>3. Talking' = {}
  BY <1>1 DEF Talking
<1>. QED  BY <1>1, <1>2, <1>3 DEF ChatInv, Chat!WarnedOnce, Chat!PushedToDriver

LEMMA ChatAssign ==
    ASSUME ChatInv, NEW d \in Drivers \union {None}, Chat!AssignDriver(d)  PROVE ChatInv'
<1>1. /\ Chat!TypeOK /\ assigned' = d /\ moves' = moves + 1 /\ moves < MaxMoves
      /\ UNCHANGED <<begun, overlapped, messages, session, mirror, chats, chatFaults>>
      /\ came' \in BOOLEAN /\ crossed' \in BOOLEAN
  BY DEF Chat!AssignDriver, ChatInv, Chat!TypeOK
<1>2. Chat!TypeOK'
  BY <1>1, ChatAssumption DEF Chat!TypeOK
<1>3. \A u \in Talking' : CallInv(chats[u])'
  BY <1>1 DEF ChatInv, Talking, CallInv, Saved
<1>. QED  BY <1>1, <1>2, <1>3 DEF ChatInv, Chat!WarnedOnce, Chat!PushedToDriver

\* A call that begins.
LEMMA Begins ==
    ASSUME ChatInv, NEW t \in Threads, NEW side \in Chat!Sides, NEW d \in Drivers \union {None},
           side = "driver" => d # None, NEW p, Fresh(p, side), NEW l \in Langs \union {None},
           "node" \in Left(p) => l # None, FollowInv, Chat!Begin(t, side, d, p, l)
    PROVE  /\ ChatInv'
           /\ chats'[t] # None /\ chats'[t].todo = p /\ chats'[t].side = side
           /\ chats'[t].driver = d /\ chats'[t].seen = session /\ chats[t] = None
           /\ \A u \in Threads \ {t} : chats'[u] = chats[u]
<1>1. PICK due : due = IF came /\ ~crossed /\ side = "employee" /\ Chat!Has(p, "save")
                       THEN assigned ELSE None
  OBVIOUS
<1>2. PICK c : c = [side |-> side, driver |-> d, todo |-> p, lang |-> l, seen |-> session,
                    msg |-> 0, due |-> due]
  OBVIOUS
<1>3. /\ chats[t] = None /\ chats' = [chats EXCEPT ![t] = c] /\ p # <<>>
      /\ UNCHANGED <<assigned, session, mirror, messages, moves, came, crossed, chatFaults>>
      /\ overlapped' \in BOOLEAN /\ begun' = begun + 1 /\ begun + chatFaults < MaxCalls
  BY <1>1, <1>2 DEF Chat!Begin, ChatInv, Chat!TypeOK
<1>4. Chat!TypeOK
  BY DEF ChatInv
<1>5. p \in Seq(Chat!Steps)
  BY PlanSteps DEF Fresh
<1>6. c \in Chat!Call
  BY <1>1, <1>2, <1>4, <1>5 DEF Chat!TypeOK, Chat!Call
<1>7. c # None
  BY <1>6, ChatAssumption
<1>8. begun' \in 0..MaxCalls
  BY <1>3, <1>4, ChatAssumption, NewsAssumption DEF Chat!TypeOK
<1>9. Chat!TypeOK'
  BY <1>2, <1>3, <1>4, <1>6, <1>8 DEF Chat!TypeOK
<1>10. c.due # None => c.side = "employee" /\ c.seen # None /\ c.seen.driver = c.due
  BY <1>1, <1>2 DEF FollowInv
<1>11. ~Saved(c)
  BY <1>2 DEF Fresh, Saved
<1>12. CallInv(c)
  BY <1>2, <1>6, <1>10, <1>11 DEF CallInv, Fresh, Chat!Call
<1>13. \A u \in Talking' : CallInv(chats[u])'
  BY <1>3, <1>4, <1>12 DEF ChatInv, Chat!TypeOK, Talking, CallInv, Saved
<1>14. ChatInv'
  BY <1>3, <1>9, <1>13 DEF ChatInv, Chat!WarnedOnce, Chat!PushedToDriver
<1>. QED  BY <1>2, <1>3, <1>4, <1>7, <1>14 DEF Chat!TypeOK

\* What a call that begins has to do.
LEMMA Beginnings ==
    ASSUME NEW t, Chat!BeginAny(t)
    PROVE  \E side \in Chat!Sides, d \in Drivers \union {None}, l \in Langs \union {None} : \E p :
               /\ side = "driver" => d # None
               /\ Fresh(p, side) /\ ("node" \in Left(p) => l # None)
               /\ Chat!Begin(t, side, d, p, l)
<1>1. PICK side \in Chat!Sides, d \in Drivers \union {None} :
          /\ side = "driver" => d # None
          /\ \/ Chat!Begin(t, side, d, Chat!OpenChat(side), None)
             \/ Chat!Begin(t, side, d, Chat!SendMessage(side), None)
             \/ Chat!Begin(t, side, d, Chat!GetMessages(side), None)
             \/ \E l \in Choices : Chat!Begin(t, side, d, Chat!SetLanguage, l)
  BY DEF Chat!BeginAny
<1>2. \A l \in Choices : l \in Langs /\ l # None
  BY ChatAssumption
<1>3. \A q, l : Chat!Begin(t, side, d, q, l) => q # <<>>
  BY DEF Chat!Begin
<1>4. CASE Chat!Begin(t, side, d, Chat!OpenChat(side), None)
  BY <1>1, <1>3, <1>4, OpenPlan
<1>5. CASE Chat!Begin(t, side, d, Chat!SendMessage(side), None)
  BY <1>1, <1>5, SendPlan
<1>6. CASE Chat!Begin(t, side, d, Chat!GetMessages(side), None)
  BY <1>1, <1>3, <1>6, ReadPlan
<1>7. ASSUME NEW l \in Choices, Chat!Begin(t, side, d, Chat!SetLanguage, l)
      PROVE  Fresh(Chat!SetLanguage, side) /\ l # None /\ l \in Langs
  BY <1>2, LanguagePlan
<1>8. CASE \E l \in Choices : Chat!Begin(t, side, d, Chat!SetLanguage, l)
  <2>1. PICK l \in Choices : Chat!Begin(t, side, d, Chat!SetLanguage, l)
    BY <1>8
  <2>2. Fresh(Chat!SetLanguage, side) /\ l # None /\ l \in Langs
    BY <1>7, <2>1
  <2>. QED  BY <1>1, <2>1, <2>2
<1>. QED  BY <1>1, <1>4, <1>5, <1>6, <1>8

-----------------------------------------------------------------------------
(* Chat: the session follows the assigned driver                           *)

\* Calls that are there were there, with what they have read and not done yet.
Fewer ==
    \A u \in Talking' :
        /\ u \in Talking
        /\ Left(chats'[u].todo) \subseteq Left(chats[u].todo)
        /\ chats'[u].driver = chats[u].driver /\ chats'[u].seen = chats[u].seen

\* Where calls only go on, and the session keeps its driver, it names the assigned one.
LEMMA FollowKept ==
    ASSUME FollowInv, Fewer, UNCHANGED <<assigned, came, crossed>>,
           session # None => session' # None /\ session'.driver = session.driver, ChatInv
    PROVE  FollowInv'
<1>. SUFFICES ASSUME ~crossed
              PROVE  /\ came => session' # None /\ assigned # None /\ session'.driver = assigned
                     /\ \A t \in Talking' :
                            "reconcile" \in Left(chats'[t].todo) =>
                                /\ assigned \in {None, chats'[t].driver}
                                /\ chats'[t].seen # None /\ assigned # None /\ chats'[t].seen.driver = assigned =>
                                       session'.driver = assigned
  BY DEF FollowInv, Left
<1>1. came => session' # None /\ assigned # None /\ session'.driver = assigned
  BY DEF FollowInv
<1>2. ASSUME NEW t \in Talking', "reconcile" \in Left(chats'[t].todo)
      PROVE  /\ assigned \in {None, chats'[t].driver}
             /\ chats'[t].seen # None /\ assigned # None /\ chats'[t].seen.driver = assigned =>
                    session'.driver = assigned
  <2>1. t \in Talking /\ "reconcile" \in Left(chats[t].todo)
        /\ chats'[t].driver = chats[t].driver /\ chats'[t].seen = chats[t].seen
    BY <1>2 DEF Fewer
  <2>2. chats[t].seen # None => session # None
    BY <2>1 DEF ChatInv, CallInv
  <2>. QED  BY <2>1, <2>2 DEF FollowInv
<1>. QED  BY <1>1, <1>2

\* A step that reads nothing, and any that goes on with the call as it is.
LEMMA FewerMoves ==
    ASSUME NEW t \in Talking, NEW c, NEW step, Moves(t, c, step),
           c.todo = chats[t].todo, c.driver = chats[t].driver, c.seen = chats[t].seen
    PROVE  Fewer
BY DEF Fewer, Moves, Onward, Talking

LEMMA FewerOn ==
    ASSUME ChatInv, NEW t \in Threads, NEW step, Chat!At(t, step), Chat!GoesOn(t)
    PROVE  Fewer
<1>1. PICK c : c = chats[t]
  OBVIOUS
<1>2. c \in Chat!Call /\ Chat!Goes(t, c)
  BY <1>1, AtStep DEF Chat!GoesOn
<1>3. t \in Talking /\ Moves(t, c, step)
  BY <1>1, <1>2, Going
<1>. QED  BY <1>1, <1>3, FewerMoves

\* Steps that leave the session alone.
LEMMA FollowPlain ==
    ASSUME ChatInv, FollowInv, NEW t \in Threads,
           \/ Chat!InitNode(t) \/ Chat!WriteWarning(t) \/ Chat!WriteMessage(t) \/ Chat!PushMessage(t)
           \/ Chat!PatchTranslation(t) \/ Chat!NoteTranslation(t) \/ Chat!SetNodeLanguage(t)
           \/ Chat!FirebaseFails(t)
    PROVE  FollowInv'
<1>1. UNCHANGED <<assigned, came, crossed, session>> /\ Chat!GoesOn(t) /\ \E step : Chat!At(t, step)
  BY DEF Chat!InitNode, Chat!WriteWarning, Chat!WriteMessage, Chat!PushMessage, Chat!PatchTranslation,
         Chat!NoteTranslation, Chat!SetNodeLanguage, Chat!FirebaseFails, Chat!office
<1>2. Fewer
  BY <1>1, FewerOn
<1>. QED  BY <1>1, <1>2, FollowKept

\* The language of the row is not its driver.
LEMMA FollowSetRow ==
    ASSUME ChatInv, FollowInv, NEW t \in Threads, Chat!SetRowLanguage(t)  PROVE FollowInv'
<1>1. Chat!At(t, "row") /\ Chat!GoesOn(t) /\ UNCHANGED <<assigned, came, crossed>>
  BY DEF Chat!SetRowLanguage, Chat!office
<1>2. Fewer
  BY <1>1, FewerOn
<1>3. session \in Chat!Session /\ session # None
  BY <1>1, AtStep
<1>4. session' # None /\ session'.driver = session.driver
  <2>1. PICK l, s : session' = session \/ session' = [session EXCEPT !.lang[s] = l]
    BY DEF Chat!SetRowLanguage
  <2>2. session' \in Chat!Session
    BY <1>3, ChatSetRow DEF ChatInv, Chat!TypeOK, Chat!SetRowLanguage
  <2>. QED  BY <1>3, <2>1, <2>2, ChatAssumption DEF Chat!Session
<1>. QED  BY <1>1, <1>2, <1>4, FollowKept

\* A saved message names no other driver.
LEMMA FollowSave ==
    ASSUME ChatInv, FollowInv, NEW t \in Threads, Chat!SaveMessage(t)  PROVE FollowInv'
<1>1. PICK b : b = chats[t]
  OBVIOUS
<1>2. PICK c : c = [b EXCEPT !.msg = Len(messages) + 1]
  OBVIOUS
<1>3. Chat!At(t, "save") /\ Chat!Goes(t, c) /\ UNCHANGED <<assigned, came, crossed, session>>
  BY <1>1, <1>2 DEF Chat!SaveMessage, Chat!office
<1>4. b \in Chat!Call /\ Len(messages) \in Nat
  BY <1>1, <1>3, AtStep DEF ChatInv, Chat!TypeOK
<1>5. c \in Chat!Call /\ c.todo = b.todo /\ c.driver = b.driver /\ c.seen = b.seen
  BY <1>2, <1>4 DEF Chat!Call
<1>6. t \in Talking /\ Moves(t, c, "save")
  BY <1>1, <1>3, <1>5, Going
<1>7. Fewer
  BY <1>1, <1>5, <1>6, FewerMoves
<1>. QED  BY <1>3, <1>7, FollowKept

\* Calls that end.
LEMMA FollowEnds ==
    ASSUME ChatInv, FollowInv,
           Chat!Restart \/ \E t \in Threads : Chat!NoTranslation(t) \/ Chat!CreateRefused(t)
    PROVE  FollowInv'
<1>1. UNCHANGED <<assigned, came, crossed, session>>
  BY DEF Chat!Restart, Chat!NoTranslation, Chat!CreateRefused, Chat!office
<1>2. CASE Chat!Restart
  BY <1>1, <1>2, FollowKept DEF Chat!Restart, Talking, Fewer
<1>3. ASSUME NEW t \in Threads, Chat!CreateRefused(t)  PROVE Fewer
  BY <1>3 DEF Chat!CreateRefused, Fewer, Talking, ChatInv, Chat!TypeOK
<1>4. ASSUME NEW t \in Threads, Chat!NoTranslation(t)  PROVE Fewer
  BY <1>4, NoTranslationEnds DEF Fewer, Talking, ChatInv, Chat!TypeOK
<1>. QED  BY <1>1, <1>2, <1>3, <1>4, FollowKept

\* An assignment that crosses no call of a driver: the session is followed anew.
LEMMA FollowAssign ==
    ASSUME ChatInv, FollowInv, NEW d \in Drivers \union {None}, Chat!AssignDriver(d)  PROVE FollowInv'
<1>1. came' = FALSE /\ UNCHANGED chats
      /\ crossed' = (crossed \/ \E t \in Threads : chats[t] # None /\ Chat!Has(chats[t].todo, "reconcile"))
  BY DEF Chat!AssignDriver
<1>2. \A t \in Talking : "reconcile" \in Left(chats[t].todo) => Chat!Has(chats[t].todo, "reconcile")
  BY DEF Left, Chat!Has
<1>3. \A t \in Talking : t \in Threads /\ chats[t] # None
  BY DEF Talking
<1>4. ~crossed' => \A t \in Talking : "reconcile" \notin Left(chats[t].todo)
  BY <1>1, <1>2, <1>3
<1>5. Talking' = Talking /\ \A t \in Talking : Left(chats[t].todo)' = Left(chats[t].todo)
  BY <1>1 DEF Talking, Left
<1>. QED  BY <1>1, <1>4, <1>5 DEF FollowInv

\* The session follows the driver who calls.
LEMMA FollowReconcile ==
    ASSUME ChatInv, FollowInv, NEW t \in Threads, Chat!Reconcile(t)  PROVE FollowInv'
<1>1. PICK b : b = chats[t]
  OBVIOUS
<1>2. PICK c : c = [b EXCEPT !.seen.driver = b.driver]
  OBVIOUS
<1>3. Chat!At(t, "reconcile") /\ Chat!Goes(t, c) /\ UNCHANGED <<assigned, crossed>>
  BY <1>1, <1>2 DEF Chat!Reconcile, Chat!office
<1>4. /\ b \in Chat!Call /\ b.seen \in Chat!Session /\ session \in Chat!Session /\ CallInv(b) /\ t \in Talking
      /\ "reconcile" \in Left(b.todo) /\ b.seen # None /\ session # None
  BY <1>1, <1>3, AtStep
<1>5. /\ c \in Chat!Call /\ c.seen \in Chat!Session /\ c.todo = b.todo /\ c.driver = b.driver
      /\ c.seen.driver = b.driver
  BY <1>2, <1>4 DEF Chat!Call, Chat!Session
<1>6. Moves(t, c, "reconcile")
  BY <1>1, <1>3, <1>5, Going
<1>7. b.driver # None
  BY <1>4 DEF CallInv
<1>8. session' = IF b.seen.driver = b.driver THEN session ELSE [session EXCEPT !.driver = b.driver]
  BY <1>1 DEF Chat!Reconcile
<1>9. /\ session' \in Chat!Session /\ session' # None
      /\ session'.driver = IF b.seen.driver = b.driver THEN session.driver ELSE b.driver
  BY <1>4, <1>8, ChatAssumption DEF Chat!Session, Chat!Call
<1>10. came' = (came \/ b.driver = assigned)
  BY <1>1 DEF Chat!Reconcile
<1>. SUFFICES ASSUME ~crossed
              PROVE  /\ came' => session' # None /\ assigned # None /\ session'.driver = assigned
                     /\ \A u \in Talking' :
                            "reconcile" \in Left(chats'[u].todo) =>
                                /\ assigned \in {None, chats'[u].driver}
                                /\ chats'[u].seen # None /\ assigned # None /\ chats'[u].seen.driver = assigned =>
                                       session'.driver = assigned
  BY <1>3 DEF FollowInv, Left
<1>11. assigned \in {None, b.driver}
  BY <1>1, <1>4 DEF FollowInv
<1>12. assigned # None => session'.driver = assigned
  <2>1. b.seen.driver = b.driver /\ assigned = b.driver => session.driver = assigned
    BY <1>1, <1>4, <1>7 DEF FollowInv
  <2>. QED  BY <1>9, <1>11, <2>1
<1>13. came' => assigned # None
  BY <1>7, <1>10 DEF FollowInv
<1>14. ASSUME NEW u \in Talking', "reconcile" \in Left(chats'[u].todo)
       PROVE  assigned \in {None, chats'[u].driver}
  <2>1. u # t
    BY <1>6, <1>14 DEF Moves, Onward, Talking
  <2>2. u \in Talking /\ chats'[u] = chats[u]
    BY <1>6, <2>1 DEF Moves, Talking
  <2>. QED  BY <1>14, <2>2 DEF FollowInv
<1>. QED  BY <1>9, <1>12, <1>13, <1>14

\* The new session names its caller, or whom the booking had.
LEMMA FollowCreate ==
    ASSUME ChatInv, FollowInv, NEW t \in Threads, Chat!CreateSession(t)  PROVE FollowInv'
<1>1. PICK b : b = chats[t]
  OBVIOUS
<1>2. PICK row : row = [driver |-> b.driver, lang |-> [s \in Chat!Sides |-> English]]
  OBVIOUS
<1>3. PICK c : c = [b EXCEPT !.seen = row]
  OBVIOUS
<1>4. /\ Chat!At(t, "create") /\ Chat!Goes(t, c) /\ session' = row /\ session = None
      /\ UNCHANGED <<assigned, crossed, came>>
  BY <1>1, <1>2, <1>3 DEF Chat!CreateSession, Chat!office
<1>5. b \in Chat!Call /\ t \in Talking
  BY <1>1, <1>4, AtStep
<1>6. row \in Chat!Session
  BY <1>2, <1>5, ChatAssumption DEF Chat!Session, Chat!Call
<1>7. c \in Chat!Call /\ c.seen = row /\ c.todo = b.todo /\ c.driver = b.driver
  BY <1>3, <1>5, <1>6 DEF Chat!Call
<1>8. Moves(t, c, "create")
  BY <1>1, <1>4, <1>7, Going
<1>9. ~crossed => ~came
  BY <1>4 DEF FollowInv
<1>10. \A u \in Talking : chats[u].seen = None
  BY <1>4 DEF ChatInv, CallInv
<1>11. ASSUME NEW u \in Talking', ~crossed, "reconcile" \in Left(chats'[u].todo)
       PROVE  /\ assigned \in {None, chats'[u].driver}
              /\ chats'[u].seen # None /\ assigned # None /\ chats'[u].seen.driver = assigned =>
                     session'.driver = assigned
  <2>1. CASE u = t
    <3>1. chats'[u].driver = b.driver /\ chats'[u].seen = row /\ "reconcile" \in Left(b.todo)
      BY <1>7, <1>8, <1>11, <2>1 DEF Moves, Onward, Talking
    <3>. QED  BY <1>1, <1>4, <1>5, <1>11, <3>1 DEF FollowInv
  <2>2. CASE u # t
    <3>1. u \in Talking /\ chats'[u] = chats[u]
      BY <1>8, <2>2 DEF Moves, Talking
    <3>. QED  BY <1>10, <1>11, <3>1 DEF FollowInv
  <2>. QED  BY <2>1, <2>2
<1>. QED  BY <1>4, <1>9, <1>11 DEF FollowInv, Left

\* A driver who begins a call is the one assigned, or nobody is.
LEMMA FollowBegin ==
    ASSUME ChatInv, FollowInv, NEW t \in Threads, Chat!BeginAny(t)  PROVE FollowInv'
<1>1. PICK side \in Chat!Sides, d \in Drivers \union {None}, l \in Langs \union {None} : \E p :
          /\ side = "driver" => d # None
          /\ Fresh(p, side) /\ ("node" \in Left(p) => l # None)
          /\ Chat!Begin(t, side, d, p, l)
  BY Beginnings
<1>2. PICK p : /\ side = "driver" => d # None
               /\ Fresh(p, side) /\ ("node" \in Left(p) => l # None)
               /\ Chat!Begin(t, side, d, p, l)
  BY <1>1
<1>3. /\ chats'[t] # None /\ chats'[t].todo = p /\ chats'[t].side = side
      /\ chats'[t].driver = d /\ chats'[t].seen = session /\ chats[t] = None
      /\ \A u \in Threads \ {t} : chats'[u] = chats[u]
  BY <1>2, Begins
<1>4. UNCHANGED <<assigned, session, came, crossed>>
      /\ (side = "driver" => assigned \in {None, d})
  BY <1>2 DEF Chat!Begin
<1>5. ASSUME NEW u \in Talking', ~crossed, "reconcile" \in Left(chats'[u].todo)
       PROVE  /\ assigned \in {None, chats'[u].driver}
              /\ chats'[u].seen # None /\ assigned # None /\ chats'[u].seen.driver = assigned =>
                     session'.driver = assigned
  <2>1. CASE u = t
    BY <1>2, <1>3, <1>4, <1>5, <2>1 DEF Fresh
  <2>2. CASE u # t
    <3>1. u \in Talking /\ chats'[u] = chats[u]
      BY <1>3, <2>2 DEF Talking
    <3>. QED  BY <1>4, <1>5, <3>1 DEF FollowInv
  <2>. QED  BY <2>1, <2>2
<1>. QED  BY <1>4, <1>5 DEF FollowInv, Left

-----------------------------------------------------------------------------
(* Chat: the nodes of the messages                                         *)

\* The step of one call, with what it writes to its own message or to the warning.
LEMMA MirrorTurn ==
    ASSUME ChatInv, MirrorInv, NEW t \in Talking, UNCHANGED chatFaults,
           \A u \in Threads \ {t} : chats'[u] = chats[u],
           t \in Speaking' => t \in Speaking /\ chats'[t].msg = chats[t].msg,
           messages' \in Seq(Chat!Message), Len(messages') = Len(messages),
           \A i \in 2..Len(messages) : messages'[i] # messages[i] => t \in Speaking /\ i = chats[t].msg,
           chatFaults = 0 /\ t \in Speaking' => Half(chats[t])',
           chatFaults = 0 /\ t \in Speaking \ Speaking' => Done(messages'[chats[t].msg]),
           messages # <<>> => /\ messages'[1].shown = messages[1].shown
                              /\ messages'[1].noted = messages[1].noted
                              /\ messages[1].node = "whole" => messages'[1].node = "whole"
                              /\ \/ messages'[1].node = "whole"
                                 \/ Warns(chats[t]) => t \in Talking' /\ Warns(chats'[t])
    PROVE  MirrorInv'
<1>. SUFFICES ASSUME chatFaults = 0  PROVE MirrorInv'
  BY DEF MirrorInv
<1>0. /\ messages \in Seq(Chat!Message) /\ chats \in [Threads -> Chat!Call \union {None}]
      /\ Talking \subseteq Threads /\ Talking' \subseteq Threads
      /\ Speaking \subseteq Talking /\ Speaking' \subseteq Talking'
  BY DEF ChatInv, Chat!TypeOK, Talking, Speaking
<1>1. \A u \in Threads \ {t} : /\ u \in Talking' <=> u \in Talking
                               /\ u \in Speaking' <=> u \in Speaking
  BY DEF Talking, Speaking, Saved
<1>9. /\ \A a, b \in Speaking : chats[a].msg = chats[b].msg => a = b
      /\ \A a \in Speaking : Half(chats[a])
  BY DEF MirrorInv
<1>2. messages' # <<>> => messages # <<>>
  BY <1>0
<1>3. messages # <<>> => messages[1].node = "whole" \/ \E u \in Talking : Warns(chats[u])
  BY DEF MirrorInv
<1>4. messages' # <<>> => messages'[1].node = "whole" \/ \E u \in Talking' : Warns(chats'[u])
  <2>. SUFFICES ASSUME messages # <<>>, messages'[1].node # "whole"
                PROVE  \E u \in Talking' : Warns(chats'[u])
    BY <1>2
  <2>1. PICK u \in Talking : Warns(chats[u])
    BY <1>3
  <2>2. CASE u = t
    BY <2>1, <2>2
  <2>3. CASE u # t
    BY <1>0, <1>1, <2>1, <2>3
  <2>. QED  BY <2>2, <2>3
<1>5. \A u, v \in Speaking' : chats'[u].msg = chats'[v].msg => u = v
  <2>. SUFFICES ASSUME NEW u \in Speaking', NEW v \in Speaking', chats'[u].msg = chats'[v].msg
                PROVE  u = v
    OBVIOUS
  <2>1. u \in Speaking /\ v \in Speaking /\ chats'[u].msg = chats[u].msg /\ chats'[v].msg = chats[v].msg
    BY <1>0, <1>1
  <2>. QED  BY <1>9, <2>1
<1>6. ASSUME NEW u \in Speaking'  PROVE Half(chats[u])'
  <2>1. CASE u = t
    BY <1>6, <2>1 DEF Half
  <2>2. CASE u # t
    <3>1. u \in Speaking /\ chats'[u] = chats[u]
      BY <1>0, <1>1, <1>6, <2>2
    <3>2. chats[u].msg \in 2..Len(messages)
      BY <1>0, <3>1 DEF ChatInv, CallInv, Speaking
    <3>3. ~(t \in Speaking /\ chats[u].msg = chats[t].msg)
      BY <1>9, <2>2, <3>1
    <3>4. messages'[chats[u].msg] = messages[chats[u].msg]
      BY <3>2, <3>3
    <3>5. Half(chats[u])
      BY <1>9, <3>1
    <3>. QED  BY <3>1, <3>4, <3>5 DEF Half
  <2>. QED  BY <2>1, <2>2
<1>7. ASSUME NEW i \in 2..Len(messages)
      PROVE  Done(messages'[i]) \/ \E u \in Speaking' : chats'[u].msg = i
  <2>1. CASE \E u \in Speaking : chats[u].msg = i
    <3>1. PICK u \in Speaking : chats[u].msg = i
      BY <2>1
    <3>2. CASE u # t
      <4>1. u \in Speaking' /\ chats'[u] = chats[u]
        BY <1>0, <1>1, <3>2
      <4>. QED  BY <3>1, <4>1
    <3>3. CASE u = t /\ t \in Speaking'
      BY <3>1, <3>3
    <3>4. CASE u = t /\ t \notin Speaking'
      BY <3>1, <3>4
    <3>. QED  BY <3>2, <3>3, <3>4
  <2>2. CASE ~\E u \in Speaking : chats[u].msg = i
    <3>1. Done(messages[i]) /\ messages'[i] = messages[i]
      BY <2>2 DEF MirrorInv
    <3>. QED  BY <3>1
  <2>. QED  BY <2>1, <2>2
<1>8. messages' # <<>> => messages'[1].shown = None /\ messages'[1].noted = None
  BY <1>2 DEF MirrorInv
<1>. QED  BY <1>4, <1>5, <1>6, <1>7, <1>8 DEF MirrorInv, Warns, Done

\* Steps that leave the messages after the warning alone.
LEMMA MirrorQuiet ==
    ASSUME ChatInv, MirrorInv, NEW t \in Threads,
           NEW step \in {"init", "warn", "reconcile", "row", "node"}, Chat!At(t, step),
           NEW c \in Chat!Call, Chat!Goes(t, c), c.todo = chats[t].todo, c.side = chats[t].side,
           c.msg = chats[t].msg, c.seen.lang = chats[t].seen.lang, UNCHANGED chatFaults,
           messages' \in Seq(Chat!Message), Len(messages') = Len(messages),
           \A i \in 2..Len(messages) : messages'[i] = messages[i],
           messages # <<>> => /\ messages'[1].shown = messages[1].shown
                              /\ messages'[1].noted = messages[1].noted
                              /\ messages[1].node = "whole" => messages'[1].node = "whole"
                              /\ step = "warn" => messages'[1].node = "whole"
    PROVE  MirrorInv'
<1>1. PICK b : b = chats[t]
  OBVIOUS
<1>2. /\ t \in Talking /\ Moves(t, c, step) /\ step \in Left(b.todo)
      /\ chats'[t] = None => Left(b.todo) = {step}
  <2>1. /\ t \in Talking /\ Moves(t, c, step) /\ step \in Left(c.todo)
        /\ chats'[t] = None => Left(c.todo) = {step}
    BY Going
  <2>. QED  BY <1>1, <2>1
<1>3. PICK d : d = chats'[t]
  OBVIOUS
<1>4. d # None => Onward(c, d, step)
  BY <1>2, <1>3 DEF Moves
<1>5. d # None => (Saved(d) <=> Saved(b))
  <2>1. d # None => \A s \in {"save", "write", "push", "patch", "note"} :
                        s \in Left(d.todo) <=> s \in Left(b.todo)
    BY <1>1, <1>4 DEF Onward
  <2>2. d # None => (Left(d.todo) \intersect {"write", "push", "patch", "note"} # {}
                     <=> Left(b.todo) \intersect {"write", "push", "patch", "note"} # {})
    BY <2>1
  <2>. QED  BY <2>1, <2>2 DEF Saved
<1>6. d = None => ~Saved(b)
  BY <1>2, <1>3 DEF Saved
<1>7. t \in Speaking' <=> t \in Speaking
  BY <1>1, <1>2, <1>3, <1>5, <1>6 DEF Speaking, Talking, Saved
<1>8. t \in Speaking' => d # None /\ d.msg = b.msg
  BY <1>1, <1>3, <1>4 DEF Speaking, Talking, Onward
<1>9. chatFaults = 0 /\ t \in Speaking' => Half(chats[t])'
  <2>. SUFFICES ASSUME chatFaults = 0, t \in Speaking'  PROVE Half(chats[t])'
    OBVIOUS
  <2>1. Half(b) /\ b.msg \in 2..Len(messages)
    BY <1>1, <1>7 DEF MirrorInv, ChatInv, CallInv, Speaking
  <2>2. messages'[d.msg] = messages[b.msg]
    BY <1>8, <2>1
  <2>3. /\ d.side = b.side /\ d.seen.lang = b.seen.lang
        /\ \A s \in {"note", "patch", "write"} : s \in Left(d.todo) <=> s \in Left(b.todo)
    BY <1>1, <1>4, <1>8 DEF Onward
  <2>. QED  BY <1>3, <2>1, <2>2, <2>3 DEF Half
<1>10. \/ step = "warn"
       \/ Warns(b) => d # None /\ Warns(d)
  BY <1>1, <1>2, <1>3, <1>4 DEF Warns, Onward
<1>11. messages # <<>> => \/ messages'[1].node = "whole"
                          \/ Warns(chats[t]) => t \in Talking' /\ Warns(chats'[t])
  BY <1>1, <1>2, <1>3, <1>10 DEF Talking
<1>12. \A u \in Threads \ {t} : chats'[u] = chats[u]
  BY <1>2 DEF Moves
<1>13. t \in Speaking' => t \in Speaking /\ chats'[t].msg = chats[t].msg
  BY <1>1, <1>3, <1>7, <1>8
<1>14. \A i \in 2..Len(messages) : messages'[i] # messages[i] => t \in Speaking /\ i = chats[t].msg
  OBVIOUS
<1>15. chatFaults = 0 /\ t \in Speaking \ Speaking' => Done(messages'[chats[t].msg])
  BY <1>7
<1>. QED  BY <1>2, <1>9, <1>11, <1>12, <1>13, <1>14, <1>15, MirrorTurn

\* Messages that stay as they are.
LEMMA MirrorSame ==
    ASSUME ChatInv, UNCHANGED messages
    PROVE  /\ messages' \in Seq(Chat!Message) /\ Len(messages') = Len(messages)
           /\ \A i \in 2..Len(messages) : messages'[i] = messages[i]
           /\ messages'[1] = messages[1]
BY DEF ChatInv, Chat!TypeOK

\* The node of the session is not that of a message.
LEMMA MirrorRows ==
    ASSUME ChatInv, MirrorInv, NEW t \in Threads,
           Chat!InitNode(t) \/ Chat!SetRowLanguage(t) \/ Chat!SetNodeLanguage(t)
    PROVE  MirrorInv'
<1>1. PICK c : c = chats[t]
  OBVIOUS
<1>2. PICK step \in {"init", "row", "node"} : Chat!At(t, step)
  BY DEF Chat!InitNode, Chat!SetRowLanguage, Chat!SetNodeLanguage
<1>3. Chat!Goes(t, c) /\ UNCHANGED <<messages, chatFaults>>
  BY <1>1 DEF Chat!InitNode, Chat!SetRowLanguage, Chat!SetNodeLanguage, Chat!GoesOn
<1>4. c \in Chat!Call
  BY <1>1, <1>2, AtStep
<1>. QED  BY <1>1, <1>2, <1>3, <1>4, MirrorSame, MirrorQuiet

\* The driver of the session is in no message.
LEMMA MirrorReconcile ==
    ASSUME ChatInv, MirrorInv, NEW t \in Threads, Chat!Reconcile(t)  PROVE MirrorInv'
<1>1. PICK b : b = chats[t]
  OBVIOUS
<1>2. PICK c : c = [b EXCEPT !.seen.driver = b.driver]
  OBVIOUS
<1>3. Chat!At(t, "reconcile") /\ Chat!Goes(t, c) /\ UNCHANGED <<messages, chatFaults>>
  BY <1>1, <1>2 DEF Chat!Reconcile
<1>4. b \in Chat!Call /\ b.seen \in Chat!Session
  BY <1>1, <1>3, AtStep
<1>5. c \in Chat!Call /\ c.todo = b.todo /\ c.side = b.side /\ c.msg = b.msg /\ c.seen.lang = b.seen.lang
  BY <1>2, <1>4 DEF Chat!Call, Chat!Session
<1>. QED  BY <1>1, <1>3, <1>5, MirrorSame, MirrorQuiet

\* The warning is written to its node.
LEMMA MirrorWarning ==
    ASSUME ChatInv, MirrorInv, NEW t \in Threads, Chat!WriteWarning(t)  PROVE MirrorInv'
<1>1. PICK c : c = chats[t]
  OBVIOUS
<1>2. Chat!At(t, "warn") /\ Chat!Goes(t, c) /\ UNCHANGED chatFaults
  BY <1>1 DEF Chat!WriteWarning, Chat!GoesOn
<1>3. c \in Chat!Call
  BY <1>1, <1>2, AtStep
<1>4. PICK r : /\ Edits(1, r) /\ r.node = "whole" /\ r.shown = messages[1].shown
               /\ r.noted = messages[1].noted
  BY WarningEdit
<1>5. /\ messages' \in Seq(Chat!Message) /\ Len(messages') = Len(messages) /\ messages'[1] = r
      /\ \A j \in 1..Len(messages) : j # 1 => messages'[j] = messages[j]
  BY <1>4, Edited
<1>6. \A i \in 2..Len(messages) : messages'[i] = messages[i]
  BY <1>5
<1>. QED  BY <1>1, <1>2, <1>3, <1>4, <1>5, <1>6, MirrorQuiet

\* Steps that write to the call's own message.
LEMMA MirrorEdit ==
    ASSUME ChatInv, MirrorInv, NEW t \in Threads,
           NEW step \in {"write", "push", "patch", "note"}, Chat!At(t, step), Chat!GoesOn(t),
           NEW r, Edits(chats[t].msg, r), UNCHANGED chatFaults,
           chatFaults = 0 /\ t \in Speaking' => Half(chats[t])',
           chatFaults = 0 /\ t \notin Speaking' => Done(r)
    PROVE  MirrorInv'
<1>1. PICK b : b = chats[t]
  OBVIOUS
<1>2. b \in Chat!Call /\ Chat!Goes(t, b)
  BY <1>1, AtStep DEF Chat!GoesOn
<1>3. t \in Talking /\ Moves(t, b, step) /\ (chats'[t] = None => Left(b.todo) = {step})
  BY <1>1, <1>2, Going
<1>4. t \in Speaking /\ b.msg \in 2..Len(messages)
  BY <1>1, <1>3, AtStep DEF Speaking
<1>5. PICK i : i = b.msg
  OBVIOUS
<1>6. /\ messages' \in Seq(Chat!Message) /\ Len(messages') = Len(messages) /\ messages'[i] = r
      /\ \A j \in 1..Len(messages) : j # i => messages'[j] = messages[j]
  BY <1>1, <1>5, Edited
<1>7. t \in Speaking' => chats'[t].msg = b.msg
  BY <1>1, <1>3 DEF Speaking, Talking, Moves, Onward
<1>8. messages'[1] = messages[1]
  BY <1>4, <1>5, <1>6
<1>9. Warns(b) => t \in Talking' /\ Warns(chats'[t])
  BY <1>1, <1>3 DEF Warns, Moves, Onward, Talking
<1>10. \A u \in Threads \ {t} : chats'[u] = chats[u]
  BY <1>3 DEF Moves
<1>11. chatFaults = 0 /\ t \in Speaking \ Speaking' => Done(messages'[chats[t].msg])
  BY <1>1, <1>5, <1>6
<1>12. \A j \in 2..Len(messages) : messages'[j] # messages[j] => t \in Speaking /\ j = chats[t].msg
  BY <1>1, <1>4, <1>5, <1>6
<1>. QED  BY <1>1, <1>3, <1>4, <1>6, <1>7, <1>8, <1>9, <1>10, <1>11, <1>12, MirrorTurn

\* The call after a step that writes to its message.
LEMMA AfterWriting ==
    ASSUME ChatInv, NEW t \in Threads,
           NEW step \in {"write", "push", "patch", "note"}, Chat!At(t, step), Chat!GoesOn(t)
    PROVE  /\ chats'[t] # None => Onward(chats[t], chats'[t], step)
           /\ chats'[t] = None => Left(chats[t].todo) = {step}
           /\ t \in Speaking /\ chats[t].msg \in 1..Len(messages)
           /\ t \in Speaking' <=> chats'[t] # None /\ Saved(chats'[t])
           /\ t \notin Speaking' => Left(chats[t].todo) \intersect {"write", "push", "patch", "note"} = {step}
<1>1. PICK b : b = chats[t]
  OBVIOUS
<1>2. b \in Chat!Call /\ Chat!Goes(t, b) /\ Saved(b) /\ b.msg \in 1..Len(messages) /\ step \in Left(b.todo)
  BY <1>1, AtStep DEF Chat!GoesOn
<1>3. t \in Talking /\ Moves(t, b, step) /\ (chats'[t] = None => Left(b.todo) = {step})
  BY <1>1, <1>2, Going
<1>4. PICK d : d = chats'[t]
  OBVIOUS
<1>5. d # None => Onward(b, d, step)
  BY <1>3, <1>4 DEF Moves
<1>6. d # None => "save" \notin Left(d.todo)
  BY <1>2, <1>5 DEF Saved, Onward
<1>7. d # None /\ ~Saved(d) => Left(b.todo) \intersect {"write", "push", "patch", "note"} = {step}
  BY <1>2, <1>5, <1>6 DEF Saved, Onward
<1>8. t \in Speaking' <=> d # None /\ Saved(d)
  BY <1>4 DEF Speaking, Talking, Saved
<1>9. t \in Speaking
  BY <1>1, <1>2, <1>3 DEF Speaking
<1>. QED  BY <1>1, <1>2, <1>3, <1>4, <1>5, <1>7, <1>8, <1>9

\* A call that speaks and is not done with the message, as the step finds it.
LEMMA HalfBefore ==
    ASSUME MirrorInv, chatFaults = 0, NEW t \in Speaking
    PROVE  /\ messages[chats[t].msg].noted = None
           /\ messages[chats[t].msg].shown = IF "note" \in Left(chats[t].todo) /\ "patch" \notin Left(chats[t].todo)
                                             THEN Chat!TargetLang(t) ELSE None
           /\ "write" \notin Left(chats[t].todo) => messages[chats[t].msg].node = "whole"
BY DEF MirrorInv, Half, Chat!TargetLang

\* The steps that follow a message to its node, to the phone and to its translation.
LEMMA MirrorWrite ==
    ASSUME ChatInv, MirrorInv, NEW t \in Threads, Chat!WriteMessage(t)  PROVE MirrorInv'
<1>1. Chat!At(t, "write") /\ Chat!GoesOn(t) /\ UNCHANGED chatFaults
  BY DEF Chat!WriteMessage
<1>2. PICK i : i = chats[t].msg
  OBVIOUS
<1>3. PICK r : Edits(i, r) /\ r.node = "whole" /\ r.shown = None /\ r.noted = messages[i].noted
  BY <1>2, WriteEdit
<1>4. PICK b : b = chats[t]
  OBVIOUS
<1>5. PICK d : d = chats'[t]
  OBVIOUS
<1>6. /\ d # None => Onward(b, d, "write")
      /\ t \in Speaking /\ (t \in Speaking' => d # None)
      /\ t \notin Speaking' => Left(b.todo) \intersect {"write", "push", "patch", "note"} = {"write"}
  BY <1>1, <1>4, <1>5, AfterWriting
<1>7. b.todo \in Plans /\ Head(b.todo) = "write"
  BY <1>1, <1>4, AtStep
<1>8. t \in Speaking'
  BY <1>6, <1>7, PlanOrder
<1>9. messages'[i] = r
  BY <1>3, Edited
<1>10. "patch" \in Left(d.todo) <=> "note" \in Left(d.todo)
  BY <1>6, <1>7, <1>8, PlanOrder DEF Onward
<1>11. chatFaults = 0 => Half(chats[t])'
  <2>1. d.msg = i
    BY <1>2, <1>4, <1>6, <1>8 DEF Onward
  <2>2. chatFaults = 0 => r.noted = None
    BY <1>2, <1>3, <1>6, HalfBefore
  <2>. QED  BY <1>3, <1>5, <1>9, <1>10, <2>1, <2>2 DEF Half
<1>. QED  BY <1>1, <1>2, <1>3, <1>8, <1>11, MirrorEdit

LEMMA MirrorPush ==
    ASSUME ChatInv, MirrorInv, NEW t \in Threads, Chat!PushMessage(t)  PROVE MirrorInv'
<1>1. Chat!At(t, "push") /\ Chat!GoesOn(t) /\ UNCHANGED chatFaults
  BY DEF Chat!PushMessage
<1>2. PICK i : i = chats[t].msg
  OBVIOUS
<1>3. PICK r : /\ Edits(i, r) /\ r.node = messages[i].node /\ r.shown = messages[i].shown
               /\ r.noted = messages[i].noted
  BY <1>2, PushEdit
<1>4. PICK b : b = chats[t]
  OBVIOUS
<1>5. PICK d : d = chats'[t]
  OBVIOUS
<1>6. /\ d # None => Onward(b, d, "push")
      /\ t \in Speaking /\ (t \in Speaking' => d # None)
      /\ t \notin Speaking' => Left(b.todo) \intersect {"write", "push", "patch", "note"} = {"push"}
  BY <1>1, <1>4, <1>5, AfterWriting
<1>7. messages'[i] = r
  BY <1>3, Edited
<1>8. chatFaults = 0 =>
          /\ r.noted = None
          /\ r.shown = IF "note" \in Left(b.todo) /\ "patch" \notin Left(b.todo) THEN Chat!TargetLang(t) ELSE None
          /\ "write" \notin Left(b.todo) => r.node = "whole"
  BY <1>2, <1>3, <1>4, <1>6, HalfBefore
<1>9. chatFaults = 0 /\ t \in Speaking' => Half(chats[t])'
  <2>. SUFFICES ASSUME chatFaults = 0, t \in Speaking'  PROVE Half(chats[t])'
    OBVIOUS
  <2>1. /\ d.msg = i /\ d.side = b.side /\ d.seen = b.seen
        /\ \A s \in {"note", "patch", "write"} : s \in Left(d.todo) <=> s \in Left(b.todo)
    BY <1>2, <1>4, <1>6 DEF Onward
  <2>2. Chat!TargetLang(t) = b.seen.lang[CHOOSE s \in Chat!Sides : s # b.side]
    BY <1>4 DEF Chat!TargetLang
  <2>. QED  BY <1>5, <1>7, <1>8, <2>1, <2>2 DEF Half
<1>10. chatFaults = 0 /\ t \notin Speaking' => Done(r)
  <2>1. t \notin Speaking' => "write" \notin Left(b.todo) /\ "note" \notin Left(b.todo)
    BY <1>6
  <2>. QED  BY <1>8, <2>1 DEF Done
<1>. QED  BY <1>1, <1>2, <1>3, <1>9, <1>10, MirrorEdit

LEMMA MirrorPatch ==
    ASSUME ChatInv, MirrorInv, NEW t \in Threads, Chat!PatchTranslation(t)  PROVE MirrorInv'
<1>1. Chat!At(t, "patch") /\ Chat!GoesOn(t) /\ UNCHANGED chatFaults
  BY DEF Chat!PatchTranslation
<1>2. PICK i : i = chats[t].msg
  OBVIOUS
<1>3. PICK r : /\ Edits(i, r) /\ r.shown = Chat!TargetLang(t) /\ r.noted = messages[i].noted
               /\ messages[i].node = "whole" => r.node = "whole"
  BY <1>2, PatchEdit
<1>4. PICK b : b = chats[t]
  OBVIOUS
<1>5. PICK d : d = chats'[t]
  OBVIOUS
<1>6. /\ d # None => Onward(b, d, "patch")
      /\ t \in Speaking /\ (t \in Speaking' => d # None)
      /\ t \notin Speaking' => Left(b.todo) \intersect {"write", "push", "patch", "note"} = {"patch"}
  BY <1>1, <1>4, <1>5, AfterWriting
<1>7. Left(b.todo) = {"patch", "note"}
  <2>1. b.todo = <<"patch", "note">>
    BY <1>1, <1>4, AtStep, PlanOrder
  <2>. QED  BY <2>1 DEF Left
<1>8. t \in Speaking'
  BY <1>6, <1>7
<1>9. messages'[i] = r
  BY <1>3, Edited
<1>10. chatFaults = 0 => Half(chats[t])'
  <2>1. d.msg = i /\ d.side = b.side /\ d.seen = b.seen /\ Left(d.todo) = {"note"}
    BY <1>2, <1>4, <1>6, <1>7, <1>8 DEF Onward
  <2>2. Chat!TargetLang(t) = b.seen.lang[CHOOSE s \in Chat!Sides : s # b.side]
    BY <1>4 DEF Chat!TargetLang
  <2>3. chatFaults = 0 => r.noted = None /\ r.node = "whole"
    BY <1>2, <1>3, <1>4, <1>6, <1>7, HalfBefore
  <2>. QED  BY <1>3, <1>5, <1>9, <2>1, <2>2, <2>3 DEF Half
<1>. QED  BY <1>1, <1>2, <1>3, <1>8, <1>10, MirrorEdit

LEMMA MirrorNote ==
    ASSUME ChatInv, MirrorInv, NEW t \in Threads, Chat!NoteTranslation(t)  PROVE MirrorInv'
<1>1. Chat!At(t, "note") /\ Chat!GoesOn(t) /\ UNCHANGED chatFaults
  BY DEF Chat!NoteTranslation
<1>2. PICK i : i = chats[t].msg
  OBVIOUS
<1>3. PICK r : /\ Edits(i, r) /\ r.noted = Chat!TargetLang(t) /\ r.node = messages[i].node
               /\ r.shown = messages[i].shown
  BY <1>2, NoteEdit
<1>4. PICK b : b = chats[t]
  OBVIOUS
<1>5. PICK d : d = chats'[t]
  OBVIOUS
<1>6. t \in Speaking /\ (t \in Speaking' => d # None) /\ (d # None => Onward(b, d, "note"))
  BY <1>1, <1>4, <1>5, AfterWriting
<1>7. Left(b.todo) = {"note"}
  <2>1. b.todo = <<"note">>
    BY <1>1, <1>4, AtStep, PlanOrder
  <2>. QED  BY <2>1 DEF Left
<1>8. t \notin Speaking'
  <2>. SUFFICES ASSUME t \in Speaking'  PROVE FALSE
    OBVIOUS
  <2>1. Left(d.todo) = {} /\ d.todo \in Plans
    BY <1>6, <1>7 DEF Onward
  <2>2. Head(d.todo) \in Left(d.todo)
    BY <2>1, PlanSteps
  <2>. QED  BY <2>1, <2>2
<1>9. chatFaults = 0 => Done(r)
  BY <1>2, <1>3, <1>4, <1>6, <1>7, HalfBefore DEF Done
<1>. QED  BY <1>1, <1>2, <1>3, <1>8, <1>9, MirrorEdit

LEMMA MirrorFaults ==
    ASSUME ChatInv, Chat!Restart \/ \E t \in Threads : Chat!FirebaseFails(t)
    PROVE  MirrorInv'
<1>1. chatFaults \in Nat /\ chatFaults' = chatFaults + 1
  BY NewsAssumption DEF Chat!Restart, Chat!FirebaseFails, ChatInv, Chat!TypeOK
<1>. QED  BY <1>1 DEF MirrorInv

\* An assignment touches no message.
LEMMA MirrorAssign ==
    ASSUME MirrorInv, NEW d, Chat!AssignDriver(d)  PROVE MirrorInv'
<1>1. UNCHANGED <<messages, chats, chatFaults>>
  BY DEF Chat!AssignDriver
<1>2. Talking' = Talking /\ Speaking' = Speaking
  BY <1>1 DEF Talking, Speaking, Saved
<1>3. \A u \in Talking : (Half(chats[u])' <=> Half(chats[u])) /\ (Warns(chats[u])' <=> Warns(chats[u]))
  BY <1>1 DEF Half, Warns
<1>4. \A i : Done(messages[i])' <=> Done(messages[i])
  BY <1>1 DEF Done
<1>5. Speaking \subseteq Talking
  BY DEF Speaking
<1>. QED  BY <1>1, <1>2, <1>3, <1>4, <1>5 DEF MirrorInv

\* A call that ends with its step.
LEMMA MirrorEnds ==
    ASSUME ChatInv, MirrorInv, NEW t \in Threads, Chat!NoTranslation(t) \/ Chat!CreateRefused(t)
    PROVE  MirrorInv'
<1>1. PICK b : b = chats[t]
  OBVIOUS
<1>2. /\ t \in Talking /\ chats' = [chats EXCEPT ![t] = None] /\ UNCHANGED <<messages, chatFaults>>
      /\ b.todo \in Plans /\ (b.todo = <<"patch", "note">> \/ "create" \in Left(b.todo))
  <2>1. CASE Chat!NoTranslation(t)
    BY <1>1, <2>1, NoTranslationEnds, AtStep DEF Chat!NoTranslation
  <2>2. CASE Chat!CreateRefused(t)
    BY <1>1, <2>2, AtStep DEF Chat!CreateRefused
  <2>. QED  BY <2>1, <2>2
<1>3. t \notin Talking' /\ t \notin Speaking' /\ \A u \in Threads \ {t} : chats'[u] = chats[u]
  BY <1>2 DEF Talking, Speaking, ChatInv, Chat!TypeOK
<1>4. ~Warns(b)
  BY <1>2 DEF Warns, Left
<1>5. chatFaults = 0 /\ t \in Speaking => Done(messages[b.msg])
  <2>. SUFFICES ASSUME chatFaults = 0, t \in Speaking  PROVE Done(messages[b.msg])
    OBVIOUS
  <2>1. Saved(b)
    BY <1>1 DEF Speaking
  <2>2. "create" \notin Left(b.todo)
    BY <1>2, <2>1, PlanOrder DEF Saved
  <2>3. Left(b.todo) = {"patch", "note"}
    BY <1>2, <2>2 DEF Left
  <2>. QED  BY <1>1, <2>3, HalfBefore DEF Done
<1>6. /\ messages' \in Seq(Chat!Message) /\ Len(messages') = Len(messages)
      /\ \A i \in 2..Len(messages) : messages'[i] = messages[i]
      /\ messages'[1] = messages[1] /\ messages'[b.msg] = messages[b.msg]
  BY <1>2, MirrorSame
<1>. QED  BY <1>1, <1>2, <1>3, <1>4, <1>5, <1>6, MirrorTurn

\* A call that begins has no message yet.
LEMMA MirrorBegin ==
    ASSUME ChatInv, FollowInv, MirrorInv, NEW t \in Threads, Chat!BeginAny(t)  PROVE MirrorInv'
<1>1. PICK side \in Chat!Sides, d \in Drivers \union {None}, l \in Langs \union {None} : \E p :
          /\ side = "driver" => d # None
          /\ Fresh(p, side) /\ ("node" \in Left(p) => l # None)
          /\ Chat!Begin(t, side, d, p, l)
  BY Beginnings
<1>2. PICK p : /\ side = "driver" => d # None
               /\ Fresh(p, side) /\ ("node" \in Left(p) => l # None)
               /\ Chat!Begin(t, side, d, p, l)
  BY <1>1
<1>3. /\ chats'[t] # None /\ chats'[t].todo = p /\ chats[t] = None
      /\ \A u \in Threads \ {t} : chats'[u] = chats[u]
  BY <1>2, Begins
<1>4. UNCHANGED <<messages, chatFaults>>
  BY <1>2 DEF Chat!Begin
<1>5. Talking \subseteq Threads \ {t} /\ Talking' = Talking \union {t}
  BY <1>3 DEF Talking
<1>6. ~Saved(chats'[t])
  BY <1>2, <1>3 DEF Saved, Fresh
<1>7. Speaking' = Speaking /\ Speaking \subseteq Threads \ {t}
  BY <1>3, <1>5, <1>6 DEF Speaking, Saved
<1>8. \A u \in Talking : chats'[u] = chats[u]
  BY <1>3, <1>5
<1>9. \A u \in Talking : (Half(chats[u])' <=> Half(chats[u])) /\ (Warns(chats[u])' <=> Warns(chats[u]))
  <2>. SUFFICES ASSUME NEW u \in Talking
                PROVE  (Half(chats[u])' <=> Half(chats[u])) /\ (Warns(chats[u])' <=> Warns(chats[u]))
    OBVIOUS
  <2>1. chats'[u] = chats[u] /\ messages' = messages
    BY <1>4, <1>8
  <2>2. Half(chats[u])' <=> Half(chats[u])
    BY <2>1 DEF Half
  <2>3. Warns(chats[u])' <=> Warns(chats[u])
    BY <2>1 DEF Warns
  <2>. QED  BY <2>2, <2>3
<1>10. \A i : Done(messages[i])' <=> Done(messages[i])
  BY <1>4 DEF Done
<1>11. Speaking \subseteq Talking
  BY DEF Speaking
<1>. QED  BY <1>4, <1>5, <1>7, <1>8, <1>9, <1>10, <1>11 DEF MirrorInv

\* The new chat has its warning, which the call that made it is to write.
LEMMA MirrorCreate ==
    ASSUME ChatInv, MirrorInv, NEW t \in Threads, Chat!CreateSession(t)  PROVE MirrorInv'
<1>1. PICK b : b = chats[t]
  OBVIOUS
<1>2. PICK row : row = [driver |-> b.driver, lang |-> [s \in Chat!Sides |-> English]]
  OBVIOUS
<1>3. PICK c : c = [b EXCEPT !.seen = row]
  OBVIOUS
<1>4. Chat!At(t, "create") /\ Chat!Goes(t, c) /\ session = None
  BY <1>1, <1>2, <1>3 DEF Chat!CreateSession
<1>5. b \in Chat!Call /\ b.todo \in Plans /\ "create" \in Left(b.todo)
  BY <1>1, <1>4, AtStep
<1>6. row \in Chat!Session
  BY <1>2, <1>5, ChatAssumption DEF Chat!Session, Chat!Call
<1>7. c \in Chat!Call /\ c.todo = b.todo
  BY <1>3, <1>5, <1>6 DEF Chat!Call
<1>8. Moves(t, c, "create") /\ (chats'[t] = None => Left(c.todo) = {"create"})
  BY <1>1, <1>4, <1>7, Going
<1>9. "warn" \in Left(b.todo)
  BY <1>5, PlanOrder
<1>10. PICK d : d = chats'[t]
  OBVIOUS
<1>11. d # None /\ Onward(c, d, "create")
  BY <1>7, <1>8, <1>9, <1>10 DEF Moves
<1>12. Warns(d) /\ t \in Talking'
  BY <1>7, <1>9, <1>10, <1>11 DEF Warns, Onward, Talking
<1>13. ~Saved(d)
  <2>1. "save" \notin Left(d.todo) => "save" \notin Left(b.todo)
    BY <1>7, <1>11 DEF Onward
  <2>2. Left(d.todo) \subseteq Left(b.todo)
    BY <1>7, <1>11 DEF Onward
  <2>3. "save" \notin Left(b.todo) => Left(b.todo) \intersect {"write", "push", "patch", "note"} = {}
    BY <1>5, PlanOrder
  <2>. QED  BY <2>1, <2>2, <2>3 DEF Saved
<1>14. messages = <<>> /\ Len(messages) = 0
  BY <1>4 DEF ChatInv
<1>15. Speaking = {}
  BY <1>14 DEF Speaking, ChatInv, CallInv
<1>16. Speaking' = {}
  <2>1. \A u \in Threads \ {t} : u \in Speaking' => u \in Speaking
    BY <1>8 DEF Speaking, Talking, Saved, Moves
  <2>2. t \notin Speaking'
    BY <1>10, <1>13 DEF Speaking, Saved
  <2>. QED  BY <1>15, <2>1, <2>2 DEF Speaking, Talking
<1>17. PICK m : m = Chat!NewMessage("system", None)
  OBVIOUS
<1>18. m \in Chat!Message /\ m.to = None /\ m.from = "system" /\ m.shown = None /\ m.noted = None
  BY <1>17 DEF Chat!NewMessage, Chat!Message
<1>19. Len(messages') = 1 /\ messages'[1] = m
  BY <1>14, <1>17, <1>18, Added DEF Chat!CreateSession
<1>. QED  BY <1>10, <1>12, <1>16, <1>18, <1>19 DEF MirrorInv, Warns

\* The new message is the one of its call.
LEMMA MirrorSave ==
    ASSUME ChatInv, MirrorInv, NEW t \in Threads, Chat!SaveMessage(t)  PROVE MirrorInv'
<1>1. PICK b : b = chats[t]
  OBVIOUS
<1>2. PICK n : n = Len(messages) + 1
  OBVIOUS
<1>3. PICK c : c = [b EXCEPT !.msg = n]
  OBVIOUS
<1>4. Chat!At(t, "save") /\ Chat!Goes(t, c) /\ UNCHANGED chatFaults
  BY <1>1, <1>2, <1>3 DEF Chat!SaveMessage
<1>5. /\ b \in Chat!Call /\ b.todo \in Plans /\ Head(b.todo) = "save" /\ messages # <<>> /\ t \in Talking
      /\ "save" \in Left(b.todo)
  BY <1>1, <1>4, AtStep
<1>6. messages \in Seq(Chat!Message) /\ Len(messages) \in Nat \ {0}
  BY <1>5 DEF ChatInv, Chat!TypeOK
<1>7. c \in Chat!Call /\ c.todo = b.todo /\ c.msg = n
  BY <1>2, <1>3, <1>5, <1>6 DEF Chat!Call
<1>8. Moves(t, c, "save") /\ (chats'[t] = None => Left(c.todo) = {"save"})
  BY <1>1, <1>4, <1>7, Going
<1>9. "write" \in Left(b.todo) /\ ("patch" \in Left(b.todo) <=> "note" \in Left(b.todo))
  BY <1>5, PlanOrder
<1>10. PICK d : d = chats'[t]
  OBVIOUS
<1>11. d # None /\ Onward(c, d, "save")
  BY <1>7, <1>8, <1>9, <1>10 DEF Moves
<1>12. /\ "save" \notin Left(d.todo) /\ "write" \in Left(d.todo) /\ d.msg = n
       /\ "patch" \in Left(d.todo) <=> "note" \in Left(d.todo)
  BY <1>7, <1>9, <1>11 DEF Onward
<1>13. Saved(d)
  BY <1>12 DEF Saved
<1>14. PICK m : m = Chat!NewMessage(b.side, b.due)
  OBVIOUS
<1>15. m \in Chat!Message /\ m.to = None /\ m.from # "system" /\ m.shown = None /\ m.noted = None
  BY <1>5, <1>14 DEF Chat!NewMessage, Chat!Message, Chat!Call, Chat!Sides
<1>16. /\ Len(messages') = n /\ messages'[n] = m
       /\ \A j \in 1..Len(messages) : messages'[j] = messages[j]
  BY <1>1, <1>2, <1>5, <1>14, <1>15, Added DEF Chat!SaveMessage
<1>17. t \notin Speaking /\ t \in Speaking' /\ Speaking \subseteq Threads
  BY <1>1, <1>5, <1>10, <1>11, <1>13 DEF Speaking, Talking, Saved
<1>18. \A u \in Threads \ {t} : /\ chats'[u] = chats[u]
                                /\ u \in Talking' <=> u \in Talking
                                /\ u \in Speaking' <=> u \in Speaking
  BY <1>8 DEF Moves, Talking, Speaking, Saved
<1>. SUFFICES ASSUME chatFaults = 0  PROVE MirrorInv'
  BY <1>4 DEF MirrorInv
<1>19. \A u \in Speaking : chats[u].msg \in 2..Len(messages) /\ chats[u].msg # n
  BY <1>2, <1>6 DEF ChatInv, CallInv, Speaking
<1>20. /\ \A u, v \in Speaking : chats[u].msg = chats[v].msg => u = v
       /\ \A u \in Speaking : Half(chats[u])
       /\ \A i \in 2..Len(messages) : Done(messages[i]) \/ \E u \in Speaking : chats[u].msg = i
  BY DEF MirrorInv
<1>21. ASSUME NEW u \in Speaking'  PROVE Half(chats[u])'
  <2>1. CASE u = t
    BY <1>10, <1>12, <1>15, <1>16, <2>1 DEF Half
  <2>2. CASE u # t
    <3>1. u \in Speaking /\ chats'[u] = chats[u]
      BY <1>18, <1>21, <2>2 DEF Speaking, Talking
    <3>2. messages'[chats[u].msg] = messages[chats[u].msg]
      BY <1>6, <1>16, <1>19, <3>1
    <3>3. Half(chats[u])
      BY <1>20, <3>1
    <3>. QED  BY <3>1, <3>2, <3>3 DEF Half
  <2>. QED  BY <2>1, <2>2
<1>22. ASSUME NEW u \in Speaking', NEW v \in Speaking', chats'[u].msg = chats'[v].msg
       PROVE  u = v
  <2>1. \A w \in Speaking' : w # t => w \in Speaking /\ chats'[w] = chats[w]
    BY <1>18 DEF Speaking, Talking
  <2>. QED  BY <1>10, <1>12, <1>19, <1>20, <1>22, <2>1
<1>23. ASSUME NEW i \in 2..n
       PROVE  Done(messages'[i]) \/ \E u \in Speaking' : chats'[u].msg = i
  <2>1. CASE i = n
    BY <1>10, <1>12, <1>17, <2>1
  <2>2. CASE i # n
    <3>1. i \in 2..Len(messages) /\ messages'[i] = messages[i]
      BY <1>2, <1>6, <1>16, <1>23, <2>2
    <3>2. CASE Done(messages[i])
      BY <3>1, <3>2
    <3>3. CASE \E u \in Speaking : chats[u].msg = i
      <4>1. PICK u \in Speaking : chats[u].msg = i
        BY <3>3
      <4>2. u # t /\ u \in Threads
        BY <1>17
      <4>. QED  BY <1>18, <4>1, <4>2
    <3>. QED  BY <1>20, <3>1, <3>2, <3>3
  <2>. QED  BY <2>1, <2>2
<1>24. /\ messages'[1] = messages[1]
       /\ messages[1].shown = None /\ messages[1].noted = None
       /\ messages[1].node = "whole" \/ \E u \in Talking' : Warns(chats'[u])
  <2>1. messages'[1] = messages[1]
    BY <1>6, <1>16
  <2>2. /\ messages[1].shown = None /\ messages[1].noted = None
        /\ messages[1].node = "whole" \/ \E u \in Talking : Warns(chats[u])
    BY <1>5 DEF MirrorInv
  <2>3. ASSUME NEW u \in Talking, Warns(chats[u])  PROVE \E v \in Talking' : Warns(chats'[v])
    <3>1. CASE u = t
      <4>1. Warns(b)
        BY <1>1, <2>3, <3>1
      <4>2. Warns(d)
        BY <1>7, <1>11, <4>1 DEF Warns, Onward
      <4>. QED  BY <1>10, <1>17, <4>2 DEF Speaking
    <3>2. CASE u # t
      BY <1>18, <2>3, <3>2 DEF Talking
    <3>. QED  BY <3>1, <3>2
  <2>. QED  BY <2>1, <2>2, <2>3
<1>. QED  BY <1>16, <1>21, <1>22, <1>23, <1>24 DEF MirrorInv, Warns, Done

-----------------------------------------------------------------------------
(* Chat: the languages in the node                                         *)

\* The turn of one call, beside which there is no other.
LEMMA LangTurn ==
    ASSUME LangInv, NEW t \in Talking, UNCHANGED <<chatFaults, overlapped>>,
           \A u \in Threads \ {t} : chats'[u] = chats[u],
           chatFaults = 0 /\ ~overlapped /\ Abreast(chats[t]) =>
               IF chats'[t] # None THEN Abreast(chats[t])' ELSE mirror' = session'.lang
    PROVE  LangInv'
<1>. SUFFICES ASSUME chatFaults = 0, ~overlapped
              PROVE  /\ \A u, v \in Talking' : u = v
                     /\ Talking' = {} => mirror' = session'.lang
                     /\ \A u \in Talking' : Abreast(chats[u])'
  BY DEF LangInv
<1>1. Talking = {t} /\ Abreast(chats[t])
  BY DEF LangInv
<1>2. Talking' \subseteq {t}
  BY <1>1 DEF Talking
<1>3. t \in Talking' <=> chats'[t] # None
  BY DEF Talking
<1>. QED  BY <1>1, <1>2, <1>3

\* A step that has nothing to do with languages.
LEMMA LangQuiet ==
    ASSUME ChatInv, LangInv, NEW t \in Threads,
           NEW step \in Chat!Steps \ {"create", "init", "row", "node"}, Chat!At(t, step),
           NEW c \in Chat!Call, Chat!Goes(t, c), c.todo = chats[t].todo, c.side = chats[t].side,
           c.lang = chats[t].lang, c.seen.lang = chats[t].seen.lang,
           UNCHANGED <<chatFaults, overlapped, mirror>>, session'.lang = session.lang
    PROVE  LangInv'
<1>1. PICK b : b = chats[t]
  OBVIOUS
<1>2. PICK d : d = chats'[t]
  OBVIOUS
<1>3. t \in Talking /\ "create" \notin Left(b.todo)
  BY <1>1, AtStep
<1>4. Moves(t, c, step) /\ (d = None => Left(b.todo) = {step})
  BY <1>1, <1>2, Going
<1>5. d # None => /\ Left(d.todo) = Left(b.todo) \ {step} /\ d.side = b.side /\ d.lang = b.lang
                  /\ d.seen.lang = b.seen.lang
  BY <1>1, <1>2, <1>4 DEF Moves, Onward
<1>6. ASSUME Abreast(b)  PROVE IF d # None THEN Abreast(d)' ELSE mirror' = session'.lang
  <2>1. CASE d = None
    BY <1>3, <1>4, <1>6, <2>1 DEF Abreast
  <2>2. CASE d # None
    <3>1. \A s : s \in Left(d.todo) <=> s \in Left(b.todo) \ {step}
      BY <1>5, <2>2
    <3>2. /\ "create" \notin Left(d.todo) /\ ("init" \in Left(d.todo) <=> "init" \in Left(b.todo))
          /\ ("row" \in Left(d.todo) <=> "row" \in Left(b.todo))
          /\ ("node" \in Left(d.todo) <=> "node" \in Left(b.todo))
      BY <1>3, <3>1
    <3>3. Left(d.todo)' = Left(d.todo)
      BY DEF Left
    <3>. HIDE DEF Left
    <3>. QED  BY <1>3, <1>5, <1>6, <2>2, <3>2, <3>3 DEF Abreast
  <2>. QED  BY <2>1, <2>2
<1>7. \A u \in Threads \ {t} : chats'[u] = chats[u]
  BY <1>4 DEF Moves
<1>8. Abreast(chats[t])' <=> Abreast(d)'
  BY <1>2 DEF Abreast, Left
<1>. QED  BY <1>1, <1>2, <1>3, <1>6, <1>7, <1>8, LangTurn

\* Steps that write to messages.
LEMMA LangPlain ==
    ASSUME ChatInv, LangInv, NEW t \in Threads,
           \/ Chat!WriteWarning(t) \/ Chat!WriteMessage(t) \/ Chat!PushMessage(t)
           \/ Chat!PatchTranslation(t) \/ Chat!NoteTranslation(t)
    PROVE  LangInv'
<1>1. /\ UNCHANGED <<chatFaults, overlapped, mirror, session>> /\ Chat!GoesOn(t)
      /\ \E step \in Chat!Steps \ {"create", "init", "row", "node"} : Chat!At(t, step)
  BY DEF Chat!WriteWarning, Chat!WriteMessage, Chat!PushMessage, Chat!PatchTranslation,
         Chat!NoteTranslation, Chat!office, Chat!Steps
<1>2. PICK c : c = chats[t]
  OBVIOUS
<1>3. c \in Chat!Call /\ Chat!Goes(t, c)
  BY <1>1, <1>2, AtStep DEF Chat!GoesOn
<1>. QED  BY <1>1, <1>2, <1>3, LangQuiet

\* A saved message leaves the languages.
LEMMA LangSave ==
    ASSUME ChatInv, LangInv, NEW t \in Threads, Chat!SaveMessage(t)  PROVE LangInv'
<1>1. PICK b : b = chats[t]
  OBVIOUS
<1>2. PICK c : c = [b EXCEPT !.msg = Len(messages) + 1]
  OBVIOUS
<1>3. /\ Chat!At(t, "save") /\ Chat!Goes(t, c) /\ UNCHANGED <<chatFaults, overlapped, mirror, session>>
      /\ "save" \in Chat!Steps \ {"create", "init", "row", "node"}
  BY <1>1, <1>2 DEF Chat!SaveMessage, Chat!office, Chat!Steps
<1>4. b \in Chat!Call /\ Len(messages) \in Nat
  BY <1>1, <1>3, AtStep DEF ChatInv, Chat!TypeOK
<1>5. c \in Chat!Call /\ c.todo = b.todo /\ c.side = b.side /\ c.lang = b.lang /\ c.seen = b.seen
  BY <1>2, <1>4 DEF Chat!Call
<1>. QED  BY <1>1, <1>3, <1>5, LangQuiet

\* The driver of the session is not its language.
LEMMA LangReconcile ==
    ASSUME ChatInv, LangInv, NEW t \in Threads, Chat!Reconcile(t)  PROVE LangInv'
<1>1. PICK b : b = chats[t]
  OBVIOUS
<1>2. PICK c : c = [b EXCEPT !.seen.driver = b.driver]
  OBVIOUS
<1>3. /\ Chat!At(t, "reconcile") /\ Chat!Goes(t, c) /\ UNCHANGED <<chatFaults, overlapped, mirror>>
      /\ "reconcile" \in Chat!Steps \ {"create", "init", "row", "node"}
  BY <1>1, <1>2 DEF Chat!Reconcile, Chat!office, Chat!Steps
<1>4. b \in Chat!Call /\ b.seen \in Chat!Session /\ session \in Chat!Session
  BY <1>1, <1>3, AtStep
<1>5. /\ c \in Chat!Call /\ c.todo = b.todo /\ c.side = b.side /\ c.lang = b.lang
      /\ c.seen.lang = b.seen.lang
  BY <1>2, <1>4 DEF Chat!Call, Chat!Session
<1>6. session' = IF b.seen.driver = b.driver THEN session ELSE [session EXCEPT !.driver = b.driver]
  BY <1>1 DEF Chat!Reconcile
<1>7. session'.lang = session.lang
  BY <1>4, <1>6 DEF Chat!Session
<1>. QED  BY <1>1, <1>3, <1>5, <1>7, LangQuiet

\* Calls that end: without a translation, or second to another that made the session.
LEMMA LangEnds ==
    ASSUME ChatInv, LangInv, NEW t \in Threads, Chat!NoTranslation(t) \/ Chat!CreateRefused(t)
    PROVE  LangInv'
<1>1. PICK b : b = chats[t]
  OBVIOUS
<1>2. /\ t \in Talking /\ chats' = [chats EXCEPT ![t] = None]
      /\ UNCHANGED <<chatFaults, overlapped, mirror, session>>
      /\ b.todo = <<"patch", "note">> \/ ("create" \in Left(b.todo) /\ session # None)
  <2>1. CASE Chat!NoTranslation(t)
    BY <1>1, <2>1, NoTranslationEnds, AtStep DEF Chat!NoTranslation, Chat!office
  <2>2. CASE Chat!CreateRefused(t)
    BY <1>1, <2>2, AtStep DEF Chat!CreateRefused, Chat!office
  <2>. QED  BY <2>1, <2>2
<1>3. chats'[t] = None /\ \A u \in Threads \ {t} : chats'[u] = chats[u]
  BY <1>2 DEF Talking, ChatInv, Chat!TypeOK
<1>4. Abreast(b) => mirror = session.lang
  <2>1. CASE b.todo = <<"patch", "note">>
    <3>1. Left(b.todo) = {"patch", "note"}
      BY <2>1 DEF Left
    <3>. QED  BY <3>1 DEF Abreast
  <2>2. CASE "create" \in Left(b.todo) /\ session # None
    BY <2>2 DEF Abreast
  <2>. QED  BY <1>2, <2>1, <2>2
<1>. QED  BY <1>1, <1>2, <1>3, <1>4, LangTurn

LEMMA LangCreate ==
    ASSUME ChatInv, LangInv, NEW t \in Threads, Chat!CreateSession(t)  PROVE LangInv'
<1>1. PICK b : b = chats[t]
  OBVIOUS
<1>2. PICK row : row = [driver |-> b.driver, lang |-> [s \in Chat!Sides |-> English]]
  OBVIOUS
<1>3. PICK c : c = [b EXCEPT !.seen = row]
  OBVIOUS
<1>4. /\ Chat!At(t, "create") /\ Chat!Goes(t, c) /\ session' = row
      /\ UNCHANGED <<chatFaults, overlapped>>
  BY <1>1, <1>2, <1>3 DEF Chat!CreateSession, Chat!office
<1>5. b \in Chat!Call /\ b.todo \in Plans /\ "create" \in Left(b.todo) /\ t \in Talking
  BY <1>1, <1>4, AtStep
<1>6. row \in Chat!Session
  BY <1>2, <1>5, ChatAssumption DEF Chat!Session, Chat!Call
<1>7. c \in Chat!Call /\ c.todo = b.todo /\ c.seen = row
  BY <1>3, <1>5, <1>6 DEF Chat!Call
<1>8. Moves(t, c, "create") /\ (chats'[t] = None => Left(c.todo) = {"create"})
  BY <1>1, <1>4, <1>7, Going
<1>9. "init" \in Left(b.todo)
  BY <1>5, PlanOrder
<1>10. PICK d : d = chats'[t]
  OBVIOUS
<1>11. d # None /\ Left(d.todo) = Left(b.todo) \ {"create"} /\ d.seen = row
  BY <1>7, <1>8, <1>9, <1>10 DEF Moves, Onward
<1>12. Abreast(d)'
  <2>1. Left(d.todo)' = Left(d.todo)
    BY DEF Left
  <2>2. "create" \notin Left(d.todo) /\ "init" \in Left(d.todo)
    BY <1>9, <1>11
  <2>. QED  BY <1>4, <1>11, <2>1, <2>2 DEF Abreast
<1>13. Abreast(chats[t])' <=> Abreast(d)'
  BY <1>10 DEF Abreast, Left
<1>14. \A u \in Threads \ {t} : chats'[u] = chats[u]
  BY <1>8 DEF Moves
<1>. QED  BY <1>4, <1>5, <1>10, <1>11, <1>12, <1>13, <1>14, LangTurn

\* The node gets the languages of the new session.
LEMMA LangInitNode ==
    ASSUME ChatInv, LangInv, NEW t \in Threads, Chat!InitNode(t)  PROVE LangInv'
<1>1. PICK b : b = chats[t]
  OBVIOUS
<1>2. /\ Chat!At(t, "init") /\ Chat!Goes(t, b) /\ UNCHANGED <<chatFaults, overlapped, session>>
      /\ mirror' = b.seen.lang
  BY <1>1 DEF Chat!InitNode, Chat!GoesOn, Chat!office
<1>3. /\ b \in Chat!Call /\ b.todo \in Plans /\ t \in Talking /\ Head(b.todo) = "init"
      /\ "init" \in Left(b.todo) /\ "create" \notin Left(b.todo)
  BY <1>1, <1>2, AtStep
<1>4. Moves(t, b, "init") /\ (chats'[t] = None => Left(b.todo) = {"init"})
  BY <1>1, <1>2, <1>3, Going
<1>5. "warn" \in Left(b.todo) /\ ("node" \in Left(b.todo) => "row" \in Left(b.todo))
  BY <1>3, PlanOrder
<1>6. PICK d : d = chats'[t]
  OBVIOUS
<1>7. d # None /\ Left(d.todo) = Left(b.todo) \ {"init"} /\ d.seen = b.seen
  BY <1>4, <1>5, <1>6 DEF Moves, Onward
<1>8. Abreast(b) => Abreast(d)'
  <2>1. Left(d.todo)' = Left(d.todo)
    BY DEF Left
  <2>2. /\ "create" \notin Left(d.todo) /\ "init" \notin Left(d.todo)
        /\ "node" \in Left(d.todo) => "row" \in Left(d.todo)
    BY <1>3, <1>5, <1>7
  <2>3. Abreast(b) => b.seen.lang = session.lang
    BY <1>3 DEF Abreast
  <2>. QED  BY <1>2, <1>7, <2>1, <2>2, <2>3 DEF Abreast
<1>9. Abreast(chats[t])' <=> Abreast(d)'
  BY <1>6 DEF Abreast, Left
<1>10. \A u \in Threads \ {t} : chats'[u] = chats[u]
  BY <1>4 DEF Moves
<1>. QED  BY <1>1, <1>2, <1>3, <1>6, <1>7, <1>8, <1>9, <1>10, LangTurn

\* A language is set in the row, and then in the node.
LEMMA LangSetRow ==
    ASSUME ChatInv, LangInv, NEW t \in Threads, Chat!SetRowLanguage(t)  PROVE LangInv'
<1>1. PICK b : b = chats[t]
  OBVIOUS
<1>2. /\ Chat!At(t, "row") /\ Chat!Goes(t, b) /\ UNCHANGED <<chatFaults, overlapped, mirror>>
      /\ session' = IF b.seen.lang[b.side] = b.lang THEN session
                    ELSE [session EXCEPT !.lang[b.side] = b.lang]
  BY <1>1 DEF Chat!SetRowLanguage, Chat!GoesOn, Chat!office
<1>3. /\ b \in Chat!Call /\ b.todo \in Plans /\ t \in Talking /\ Head(b.todo) = "row"
      /\ session \in Chat!Session
  BY <1>1, <1>2, AtStep
<1>4. Moves(t, b, "row") /\ (chats'[t] = None => Left(b.todo) = {"row"})
  BY <1>1, <1>2, <1>3, Going
<1>5. Left(b.todo) = {"row", "node"}
  <2>1. b.todo = <<"row", "node">>
    BY <1>3, PlanOrder
  <2>. QED  BY <2>1 DEF Left
<1>6. PICK d : d = chats'[t]
  OBVIOUS
<1>7. d # None /\ Left(d.todo) = {"node"} /\ d.side = b.side /\ d.lang = b.lang
  BY <1>4, <1>5, <1>6 DEF Moves, Onward
<1>8. b.side \in Chat!Sides /\ session.lang \in [Chat!Sides -> Langs]
  BY <1>3 DEF Chat!Call, Chat!Session
<1>9. Abreast(b) => Abreast(d)'
  <2>. SUFFICES ASSUME Abreast(b)  PROVE Abreast(d)'
    OBVIOUS
  <2>1. b.seen.lang = session.lang /\ mirror = session.lang
    BY <1>5 DEF Abreast
  <2>2. session'.lang[b.side] = b.lang /\ \A s \in Chat!Sides \ {b.side} : mirror[s] = session'.lang[s]
    <3>1. CASE b.seen.lang[b.side] = b.lang
      BY <1>2, <2>1, <3>1
    <3>2. CASE b.seen.lang[b.side] # b.lang
      <4>1. session' = [session EXCEPT !.lang[b.side] = b.lang]
        BY <1>2, <3>2
      <4>2. session'.lang = [session.lang EXCEPT ![b.side] = b.lang]
        BY <1>3, <4>1 DEF Chat!Session
      <4>. QED  BY <1>8, <2>1, <4>2
    <3>. QED  BY <3>1, <3>2
  <2>3. Left(d.todo)' = Left(d.todo)
    BY DEF Left
  <2>. QED  BY <1>2, <1>7, <2>2, <2>3 DEF Abreast
<1>10. Abreast(chats[t])' <=> Abreast(d)'
  BY <1>6 DEF Abreast, Left
<1>11. \A u \in Threads \ {t} : chats'[u] = chats[u]
  BY <1>4 DEF Moves
<1>. QED  BY <1>1, <1>2, <1>3, <1>6, <1>7, <1>9, <1>10, <1>11, LangTurn

LEMMA LangSetNode ==
    ASSUME ChatInv, LangInv, NEW t \in Threads, Chat!SetNodeLanguage(t)  PROVE LangInv'
<1>1. PICK b : b = chats[t]
  OBVIOUS
<1>2. /\ Chat!At(t, "node") /\ Chat!Goes(t, b) /\ UNCHANGED <<chatFaults, overlapped, session>>
      /\ mirror' = [mirror EXCEPT ![b.side] = b.lang]
  BY <1>1 DEF Chat!SetNodeLanguage, Chat!GoesOn, Chat!office
<1>3. /\ b \in Chat!Call /\ b.todo \in Plans /\ t \in Talking /\ Head(b.todo) = "node"
      /\ session \in Chat!Session
  BY <1>1, <1>2, AtStep
<1>4. b.todo = <<"node">> /\ Left(b.todo) = {"node"}
  <2>1. b.todo = <<"node">>
    BY <1>3, PlanOrder
  <2>. QED  BY <2>1 DEF Left
<1>5. chats'[t] = None /\ \A u \in Threads \ {t} : chats'[u] = chats[u]
  <2>1. chats \in [Threads -> Chat!Call \union {None}]
    BY DEF ChatInv, Chat!TypeOK
  <2>2. chats' = [chats EXCEPT ![t] = None]
    BY <1>2, <1>4 DEF Chat!Goes
  <2>. QED  BY <2>1, <2>2
<1>6. Abreast(b) => mirror' = session.lang
  <2>. SUFFICES ASSUME Abreast(b)  PROVE mirror' = session.lang
    OBVIOUS
  <2>1. session.lang[b.side] = b.lang /\ \A s \in Chat!Sides \ {b.side} : mirror[s] = session.lang[s]
    BY <1>4 DEF Abreast
  <2>2. session.lang \in [Chat!Sides -> Langs] /\ mirror \in [Chat!Sides -> Langs \union {None}]
    BY <1>3 DEF ChatInv, Chat!TypeOK, Chat!Session
  <2>3. \A s \in Chat!Sides : mirror'[s] = session.lang[s]
    BY <1>2, <2>1, <2>2
  <2>. QED  BY <1>2, <2>2, <2>3
<1>. QED  BY <1>1, <1>2, <1>3, <1>5, <1>6, LangTurn

\* A fault is the end of the claim, an assignment touches no language.
LEMMA LangFaults ==
    ASSUME ChatInv, Chat!Restart \/ \E t \in Threads : Chat!FirebaseFails(t)
    PROVE  LangInv'
<1>1. chatFaults \in Nat /\ chatFaults' = chatFaults + 1
  BY NewsAssumption DEF Chat!Restart, Chat!FirebaseFails, ChatInv, Chat!TypeOK
<1>. QED  BY <1>1 DEF LangInv

LEMMA LangAssign ==
    ASSUME LangInv, NEW d, Chat!AssignDriver(d)  PROVE LangInv'
<1>1. UNCHANGED <<session, mirror, chats, overlapped, chatFaults>>
  BY DEF Chat!AssignDriver
<1>2. Talking' = Talking
  BY <1>1 DEF Talking
<1>3. \A u \in Talking : Abreast(chats[u])' <=> Abreast(chats[u])
  BY <1>1 DEF Abreast, Left
<1>. QED  BY <1>1, <1>2, <1>3 DEF LangInv

\* A call that begins beside no other finds the node as the session says.
LEMMA LangBegin ==
    ASSUME ChatInv, FollowInv, LangInv, NEW t \in Threads, Chat!BeginAny(t)  PROVE LangInv'
<1>1. PICK side \in Chat!Sides, d \in Drivers \union {None}, l \in Langs \union {None} : \E p :
          /\ side = "driver" => d # None
          /\ Fresh(p, side) /\ ("node" \in Left(p) => l # None)
          /\ Chat!Begin(t, side, d, p, l)
  BY Beginnings
<1>2. PICK p : /\ side = "driver" => d # None
               /\ Fresh(p, side) /\ ("node" \in Left(p) => l # None)
               /\ Chat!Begin(t, side, d, p, l)
  BY <1>1
<1>3. /\ chats'[t] # None /\ chats'[t].todo = p /\ chats'[t].seen = session /\ chats[t] = None
      /\ \A u \in Threads \ {t} : chats'[u] = chats[u]
  BY <1>2, Begins
<1>4. /\ UNCHANGED <<session, mirror, chatFaults>>
      /\ overlapped' = (overlapped \/ \E u \in Threads : chats[u] # None)
  BY <1>2 DEF Chat!Begin
<1>. SUFFICES ASSUME chatFaults = 0, ~overlapped'
              PROVE  /\ \A u, v \in Talking' : u = v
                     /\ Talking' # {}
                     /\ \A u \in Talking' : Abreast(chats[u])'
  BY <1>4 DEF LangInv
<1>5. Talking = {} /\ ~overlapped
  BY <1>4 DEF Talking
<1>6. Talking' = {t}
  BY <1>3, <1>5 DEF Talking
<1>7. session # None => mirror = session.lang
  BY <1>5 DEF LangInv
<1>8. Abreast(chats[t])'
  <2>1. /\ "create" \in Left(p) <=> session = None
        /\ session # None => "init" \notin Left(p)
        /\ "node" \in Left(p) => "row" \in Left(p)
    BY <1>2 DEF Fresh
  <2>2. Left(chats[t].todo)' = Left(p)
    BY <1>3 DEF Left
  <2>. QED  BY <1>3, <1>4, <1>7, <2>1, <2>2 DEF Abreast
<1>. QED  BY <1>6, <1>8

-----------------------------------------------------------------------------
(* Chat: what the apps and the driver are told                             *)

LEMMA ChatInit == Chat!Init => ChatInv /\ FollowInv /\ MirrorInv /\ LangInv
<1>. SUFFICES ASSUME Chat!Init  PROVE ChatInv /\ FollowInv /\ MirrorInv /\ LangInv
  OBVIOUS
<1>1. /\ assigned \in First /\ session = None /\ mirror = [s \in Chat!Sides |-> None]
      /\ messages = <<>> /\ chats = [t \in Threads |-> None]
      /\ begun = 0 /\ moves = 0 /\ chatFaults = 0 /\ came = FALSE /\ crossed = FALSE /\ overlapped = FALSE
  BY DEF Chat!Init
<1>2. Talking = {} /\ Speaking = {}
  BY <1>1 DEF Talking, Speaking
<1>3. Chat!TypeOK
  <2>1. begun \in 0..MaxCalls /\ moves \in 0..MaxMoves /\ chatFaults \in 0..MaxFaults
    BY <1>1, ChatAssumption, NewsAssumption
  <2>2. assigned \in Drivers \union {None}
    BY <1>1, ChatAssumption
  <2>3. mirror \in [Chat!Sides -> Langs \union {None}] /\ messages \in Seq(Chat!Message)
    BY <1>1
  <2>4. /\ chats \in [Threads -> Chat!Call \union {None}]
        /\ \A t \in Threads : chats[t] # None => chats[t].todo # <<>>
    BY <1>1
  <2>5. {came, crossed, overlapped} \subseteq BOOLEAN
    BY <1>1
  <2>. QED  BY <1>1, <2>1, <2>2, <2>3, <2>4, <2>5 DEF Chat!TypeOK
<1>4. Chat!WarnedOnce /\ Chat!PushedToDriver
  BY <1>1 DEF Chat!WarnedOnce, Chat!PushedToDriver
<1>. QED  BY <1>1, <1>2, <1>3, <1>4 DEF ChatInv, FollowInv, MirrorInv, LangInv

\* Every step of the chat keeps all four parts of the invariant.
LEMMA ChatNext ==
    ASSUME ChatInv, FollowInv, MirrorInv, LangInv, Chat!Next
    PROVE  ChatInv' /\ FollowInv' /\ MirrorInv' /\ LangInv'
<1>1. CASE \E d \in Drivers \union {None} : Chat!AssignDriver(d)
  BY <1>1, ChatAssign, FollowAssign, MirrorAssign, LangAssign
<1>2. CASE Chat!Restart
  BY <1>2, ChatRestart, FollowEnds, MirrorFaults, LangFaults
<1>3. CASE \E t \in Threads : Chat!BeginAny(t)
  <2>1. PICK t \in Threads : Chat!BeginAny(t)
    BY <1>3
  <2>2. PICK side \in Chat!Sides, d \in Drivers \union {None}, l \in Langs \union {None} : \E p :
            /\ side = "driver" => d # None
            /\ Fresh(p, side) /\ ("node" \in Left(p) => l # None)
            /\ Chat!Begin(t, side, d, p, l)
    BY <2>1, Beginnings
  <2>. QED  BY <2>1, <2>2, Begins, FollowBegin, MirrorBegin, LangBegin
<1>4. CASE \E t \in Threads : Chat!CreateSession(t)
  BY <1>4, ChatCreate, FollowCreate, MirrorCreate, LangCreate
<1>5. CASE \E t \in Threads : Chat!CreateRefused(t)
  BY <1>5, ChatRefused, FollowEnds, MirrorEnds, LangEnds
<1>6. CASE \E t \in Threads : Chat!InitNode(t)
  BY <1>6, ChatInitNode, FollowPlain, MirrorRows, LangInitNode
<1>7. CASE \E t \in Threads : Chat!WriteWarning(t)
  BY <1>7, ChatWrites, FollowPlain, MirrorWarning, LangPlain
<1>8. CASE \E t \in Threads : Chat!Reconcile(t)
  BY <1>8, ChatReconcile, FollowReconcile, MirrorReconcile, LangReconcile
<1>9. CASE \E t \in Threads : Chat!SaveMessage(t)
  BY <1>9, ChatSave, FollowSave, MirrorSave, LangSave
<1>10. CASE \E t \in Threads : Chat!WriteMessage(t)
  BY <1>10, ChatWrites, FollowPlain, MirrorWrite, LangPlain
<1>11. CASE \E t \in Threads : Chat!PushMessage(t)
  BY <1>11, ChatWrites, FollowPlain, MirrorPush, LangPlain
<1>12. CASE \E t \in Threads : Chat!PatchTranslation(t)
  BY <1>12, ChatWrites, FollowPlain, MirrorPatch, LangPlain
<1>13. CASE \E t \in Threads : Chat!NoteTranslation(t)
  BY <1>13, ChatWrites, FollowPlain, MirrorNote, LangPlain
<1>14. CASE \E t \in Threads : Chat!NoTranslation(t)
  BY <1>14, ChatNoTranslation, FollowEnds, MirrorEnds, LangEnds
<1>15. CASE \E t \in Threads : Chat!SetRowLanguage(t)
  BY <1>15, ChatSetRow, FollowSetRow, MirrorRows, LangSetRow
<1>16. CASE \E t \in Threads : Chat!SetNodeLanguage(t)
  BY <1>16, ChatSetNode, FollowPlain, MirrorRows, LangSetNode
<1>17. CASE \E t \in Threads : Chat!FirebaseFails(t)
  BY <1>17, ChatFails, FollowPlain, MirrorFaults, LangFaults
<1>. QED
  BY <1>1, <1>2, <1>3, <1>4, <1>5, <1>6, <1>7, <1>8, <1>9, <1>10, <1>11, <1>12, <1>13, <1>14,
     <1>15, <1>16, <1>17 DEF Chat!Next

\* So does every step of another part.
LEMMA ChatFrame ==
    ASSUME ChatInv, FollowInv, MirrorInv, LangInv, UNCHANGED chatVars
    PROVE  ChatInv' /\ FollowInv' /\ MirrorInv' /\ LangInv'
<1>1. UNCHANGED <<assigned, session, mirror, messages, chats, begun, moves, came, crossed,
                  overlapped, chatFaults>>
  BY DEF chatVars
<1>2. Talking' = Talking /\ Speaking' = Speaking /\ Speaking \subseteq Talking
  BY <1>1 DEF Talking, Speaking, Saved
<1>3. \A t : /\ CallInv(chats[t])' <=> CallInv(chats[t])
             /\ Half(chats[t])' <=> Half(chats[t])
             /\ Warns(chats[t])' <=> Warns(chats[t])
             /\ Abreast(chats[t])' <=> Abreast(chats[t])
             /\ Left(chats[t].todo)' = Left(chats[t].todo)
  BY <1>1 DEF CallInv, Half, Warns, Abreast, Saved, Left
<1>4. \A i : Done(messages[i])' <=> Done(messages[i])
  BY <1>1 DEF Done
<1>5. /\ Chat!TypeOK' <=> Chat!TypeOK
      /\ Chat!WarnedOnce' <=> Chat!WarnedOnce
      /\ Chat!PushedToDriver' <=> Chat!PushedToDriver
  BY <1>1 DEF Chat!TypeOK, Chat!WarnedOnce, Chat!PushedToDriver
<1>6. ChatInv'
  BY <1>1, <1>2, <1>3, <1>5 DEF ChatInv
<1>7. FollowInv'
  BY <1>1, <1>2, <1>3 DEF FollowInv
<1>8. MirrorInv'
  BY <1>1, <1>2, <1>3, <1>4 DEF MirrorInv
<1>9. LangInv'
  BY <1>1, <1>2, <1>3 DEF LangInv
<1>. QED  BY <1>6, <1>7, <1>8, <1>9

\* Once the assigned driver has been in the chat, the messages of the employee are
\* pushed to that driver (send_message reads the session, reconcile_session_driver
\* follows the caller); there is one warning, the first message; and when nothing is
\* under way and nothing failed, Firebase shows every message with the translation
\* of its row and, where no two calls overlapped, the languages of the session,
\* although every call writes them behind its response and in an order of its own.
THEOREM ChatToldRight == NoticesSpec => []ChatTold
<1>1. NoticesInit => ChatInv /\ FollowInv /\ MirrorInv /\ LangInv
  BY ChatInit DEF NoticesInit
<1>2. ASSUME ChatInv, FollowInv, MirrorInv, LangInv,
             [NoticesNext]_<<focus, alertsVars, newsVars, chatVars, vars>>
      PROVE  ChatInv' /\ FollowInv' /\ MirrorInv' /\ LangInv'
  <2>1. Chat!Next \/ UNCHANGED chatVars
    BY <1>2 DEF NoticesNext
  <2>. QED  BY <1>2, <2>1, ChatNext, ChatFrame
<1>3. ASSUME ChatInv, MirrorInv, LangInv  PROVE ChatTold
  <2>1. ASSUME \A t \in Threads : chats[t] = None, chatFaults = 0
        PROVE  /\ \A i \in DOMAIN messages : /\ messages[i].node = "whole"
                                             /\ messages[i].shown = messages[i].noted
               /\ session # None /\ ~overlapped => mirror = session.lang
    <3>1. Talking = {} /\ Speaking = {}
      BY <2>1 DEF Talking, Speaking
    <3>2. DOMAIN messages = 1..Len(messages) /\ Len(messages) \in Nat
      BY <1>3 DEF ChatInv, Chat!TypeOK
    <3>3. messages # <<>> =>
              messages[1].node = "whole" /\ messages[1].shown = None /\ messages[1].noted = None
      BY <1>3, <2>1, <3>1 DEF MirrorInv
    <3>4. \A i \in 2..Len(messages) : Done(messages[i])
      BY <1>3, <2>1, <3>1 DEF MirrorInv
    <3>5. session # None /\ ~overlapped => mirror = session.lang
      BY <1>3, <2>1, <3>1 DEF LangInv
    <3>6. ASSUME NEW i \in DOMAIN messages
          PROVE  messages[i].node = "whole" /\ messages[i].shown = messages[i].noted
      <4>1. CASE i = 1
        BY <3>2, <3>3, <3>6, <4>1
      <4>2. CASE i # 1
        BY <3>2, <3>4, <3>6, <4>2 DEF Done
      <4>. QED  BY <4>1, <4>2
    <3>. QED  BY <3>5, <3>6
  <2>2. Chat!MirrorMatches
    BY <2>1 DEF Chat!MirrorMatches
  <2>. QED  BY <1>3, <2>2 DEF ChatInv, ChatTold
<1>. QED  BY <1>1, <1>2, <1>3, PTL DEF NoticesSpec
=============================================================================
