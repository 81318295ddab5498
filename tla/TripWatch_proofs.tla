--------------------------- MODULE TripWatch_proofs ---------------------------
(***************************************************************************)
(* Proofs about TripWatch: the arrival notices and the driver's node, for  *)
(* any routes, stops and number of requests at a time, and the spacing of  *)
(* the alerts of the job.                                                  *)
(***************************************************************************)
EXTENDS TripWatch, FiniteSetTheorems, WellFoundedInduction, TLAPS

\* Who has a task, and who is about to tell of the arrival for a link row.
Busy       == {k \in Live!Slots : tasks[k] # None}
Telling(b) == {k \in Live!Slots : /\ tasks[k] # None /\ tasks[k].at \in {"mark", "arrive"}
                                  /\ tasks[k].row = b}

\* Every notice of a link row comes from a request that had its task before the row
\* was marked: all of them were there at a time.
LiveInv ==
    /\ Live!TypeOK
    /\ Cardinality(Busy) <= peak
    /\ \A b \in Live!Rows : told[b] + Cardinality(Telling(b)) <= peak
    /\ \A b \in Live!Rows \ notified : told[b] = 0
    /\ \A k \in Live!Slots :
           tasks[k] # None =>
               /\ tasks[k].at \in {"mark", "arrive"} => tasks[k].row \in Live!Rows
               /\ tasks[k].at = "arrive" => tasks[k].row \in notified

\* One request after the other: a driver off duty is on the map only until the
\* task that clears the node has run.
MapInv ==
    Live!Calm /\ peak <= 1 =>
        /\ \A j, k \in Busy : j = k
        /\ Live!Ongoing = {} =>
               \/ node = None \/ ~node.active
               \/ \E k \in Busy : tasks[k].at \in {"look", "clear"}
        /\ \A k \in Busy : tasks[k].at \notin {"look", "clear"} => Live!Ongoing # {}

\* Only a node that is there is cleared, and it stays there.
NodeInv == \A k \in Busy : tasks[k].at = "clear" => node # None

\* The types of what is neither a task nor a notice.
Rest ==
    /\ DOMAIN StopsOf \subseteq Routes /\ StopsOf \in [DOMAIN StopsOf -> Live!Links]
    /\ edition \in [Routes -> 0..MaxRegroups]
    /\ duty \in [DOMAIN StopsOf -> Live!Statuses]
    /\ rider \in [Stops -> {"waiting", "settled"}]
    /\ node \in Live!Node \union {None}
    /\ liveFaults \in 0..MaxFaults

LEMMA LiveCardinality == \A S : Live!Cardinality(S) = Cardinality(S)
BY DEF Live!Cardinality, Cardinality

\* Counting slots.
LEMMA CountSlots ==
    ASSUME NEW S \in SUBSET Live!Slots
    PROVE  /\ IsFiniteSet(S) /\ Cardinality(S) \in 0..MaxRequests
           /\ \A T \in SUBSET S : Cardinality(T) <= Cardinality(S)
           /\ \A k \in S : Cardinality(S \ {k}) = Cardinality(S) - 1
           /\ \A k \in Live!Slots \ S : Cardinality(S) + 1 <= MaxRequests
           /\ \A k \in Live!Slots \ S : Cardinality(S \union {k}) = Cardinality(S) + 1
           /\ Cardinality(S) <= 1 => \A j, k \in S : j = k
<1>. USE LiveAssumption
<1>1. IsFiniteSet(Live!Slots) /\ Cardinality(Live!Slots) = MaxRequests
  BY FS_Interval DEF Live!Slots
<1>2. /\ IsFiniteSet(S) /\ Cardinality(S) \in Nat /\ Cardinality(S) <= MaxRequests
  BY <1>1, FS_Subset, FS_CardinalityType
<1>3. \A T \in SUBSET S : Cardinality(T) <= Cardinality(S)
  BY <1>2, FS_Subset
<1>4. \A k \in S : Cardinality(S \ {k}) = Cardinality(S) - 1
  BY <1>2, FS_RemoveElement
<1>5. \A k \in Live!Slots \ S : Cardinality(S \union {k}) = Cardinality(S) + 1
  BY <1>2, FS_AddElement
<1>6. \A k \in Live!Slots \ S : Cardinality(S \union {k}) <= MaxRequests
  BY <1>1, FS_Subset
<1>7. ASSUME Cardinality(S) <= 1, NEW j \in S, NEW k \in S, j # k  PROVE FALSE
  <2>1. k \in S \ {j} /\ IsFiniteSet(S \ {j})
    BY <1>2, <1>7, FS_RemoveElement
  <2>2. Cardinality(S \ {j}) = 0
    BY <1>2, <1>4, <1>7, <2>1, FS_CardinalityType
  <2>3. S \ {j} = {}
    BY <2>1, <2>2, FS_EmptySet
  <2>. QED  BY <2>1, <2>3
<1>8. \A k \in Live!Slots \ S : Cardinality(S) + 1 <= MaxRequests
  BY <1>5, <1>6
<1>9. Cardinality(S) \in 0..MaxRequests
  BY <1>2
<1>10. Cardinality(S) <= 1 => \A j, k \in S : j = k
  BY <1>7
<1>. QED  BY <1>2, <1>3, <1>4, <1>5, <1>8, <1>9, <1>10

LEMMA LeastNat ==
    ASSUME NEW S \in SUBSET Nat, S # {}
    PROVE  \E x \in S : \A y \in S : x <= y
<1>1. PICK x \in S : \A y \in S : ~(<<y, x>> \in OpToRel(<, Nat))
  BY NatLessThanWellFounded, WFMin
<1>2. \A y \in S : ~(y < x)
  BY <1>1 DEF OpToRel
<1>. QED  BY <1>2

\* The link row that a ping looks at was not notified.
LEMMA NextUnnotified ==
    ASSUME NEW r, Live!NextStop(r) # None
    PROVE  Live!RowOf(r, Live!NextStop(r)) \notin notified
<1>. DEFINE left == {i \in Live!Ahead(r) : Live!RowOf(r, StopsOf[r][i]) \notin notified}
<1>1. Live!NextStop(r) = IF left = {} THEN None
                         ELSE StopsOf[r][CHOOSE i \in left : \A j \in left : i <= j]
  BY DEF Live!NextStop, Live!FirstOf
<1>2. left # {} /\ left \in SUBSET Nat
  <2>1. Cardinality(Stops) \in Nat
    BY LiveAssumption, FS_CardinalityType
  <2>2. Live!Places \subseteq Nat
    BY <2>1, LiveCardinality DEF Live!Places
  <2>. QED  BY <1>1, <2>2 DEF Live!Ahead
<1>3. PICK i \in left : \A j \in left : i <= j
  <2>. HIDE DEF left
  <2>. QED  BY <1>2, LeastNat
<1>4. (CHOOSE x \in left : \A j \in left : x <= j) \in left
  <2>. HIDE DEF left
  <2>. QED  BY <1>3
<1>. QED  BY <1>1, <1>2, <1>4

LEMMA LiveInit == Live!Init => LiveInv /\ MapInv /\ NodeInv
<1>. SUFFICES ASSUME Live!Init  PROVE LiveInv /\ MapInv /\ NodeInv
  OBVIOUS
<1>. USE LiveAssumption
<1>1. Busy = {} /\ \A b \in Live!Rows : Telling(b) = {}
  BY DEF Live!Init, Busy, Telling
<1>2. Cardinality({}) = 0
  BY FS_EmptySet
<1>3. Live!TypeOK
  <2>1. PICK p \in Plans : /\ StopsOf = p.stops /\ edition = [r \in Routes |-> p.edition]
                           /\ liveFaults = p.faults
    BY DEF Live!Init
  <2>2. /\ DOMAIN StopsOf \subseteq Routes /\ StopsOf \in [DOMAIN StopsOf -> Live!Links]
        /\ edition \in [Routes -> 0..MaxRegroups] /\ liveFaults \in 0..MaxFaults
    BY <2>1
  <2>. QED  BY <2>2 DEF Live!Init, Live!TypeOK, Live!Statuses
<1>4. LiveInv
  <2>1. \A b \in Live!Rows : told[b] = 0 /\ Cardinality(Telling(b)) = 0
    BY <1>1, <1>2 DEF Live!Init
  <2>2. Cardinality(Busy) = 0 /\ peak = 0 /\ \A k \in Live!Slots : tasks[k] = None
    BY <1>1, <1>2 DEF Live!Init
  <2>. QED  BY <1>3, <2>1, <2>2 DEF LiveInv
<1>5. MapInv
  BY <1>1 DEF Live!Init, MapInv
<1>. QED  BY <1>1, <1>4, <1>5 DEF NodeInv

\* A request leaves a task.
LEMMA LiveLeave ==
    ASSUME LiveInv, Rest', NEW at \in {"init", "push", "look"}, NEW r \in Routes,
           Live!Leave(at, r),
           UNCHANGED <<notified, told>>
    PROVE  /\ LiveInv' /\ peak <= peak'
           /\ peak' <= 1 => /\ Busy = {}
                            /\ \E k \in Live!Slots : Busy' = {k} /\ tasks'[k].at = at
<1>. USE LiveAssumption
<1>1. PICK k \in Live!Slots :
          /\ tasks[k] = None
          /\ tasks' = [tasks EXCEPT ![k] = [at |-> at, route |-> r, row |-> None]]
          /\ peak' = LET n == 1 + Cardinality(Busy) IN IF n > peak THEN n ELSE peak
  BY LiveCardinality DEF Live!Leave, Busy
<1>2. PICK c : c = [at |-> at, route |-> r, row |-> None]
  OBVIOUS
<1>3. c \in Live!Task /\ c.at = at /\ c # None
  BY <1>2 DEF Live!Task, Live!Legs
<1>4. tasks \in [Live!Slots -> Live!Task \union {None}] /\ peak \in 0..MaxRequests
  BY DEF LiveInv, Live!TypeOK
<1>5. \A j \in Live!Slots : tasks'[j] = IF j = k THEN c ELSE tasks[j]
  BY <1>1, <1>2, <1>4
<1>6. tasks' \in [Live!Slots -> Live!Task \union {None}]
  BY <1>1, <1>2, <1>3, <1>4
<1>7. Busy' = Busy \union {k} /\ k \notin Busy /\ Busy \in SUBSET Live!Slots
  BY <1>1, <1>3, <1>5 DEF Busy
<1>8. /\ Cardinality(Busy) \in 0..MaxRequests /\ Cardinality(Busy) + 1 <= MaxRequests
      /\ Cardinality(Busy') = Cardinality(Busy) + 1
  BY <1>7, CountSlots
<1>9. peak' \in 0..MaxRequests /\ peak <= peak' /\ Cardinality(Busy') <= peak'
  BY <1>1, <1>4, <1>8
<1>10. \A b \in Live!Rows : Telling(b)' = Telling(b)
  BY <1>1, <1>3, <1>5 DEF Telling
<1>11. Live!TypeOK'
  BY <1>6, <1>9 DEF LiveInv, Live!TypeOK, Rest
<1>12. \A b \in Live!Rows : told'[b] + Cardinality(Telling(b)') <= peak'
  <2>. SUFFICES ASSUME NEW b \in Live!Rows  PROVE told[b] + Cardinality(Telling(b)) <= peak'
    BY <1>10
  <2>1. Telling(b) \in SUBSET Live!Slots
    BY DEF Telling
  <2>2. Cardinality(Telling(b)) \in 0..MaxRequests /\ told[b] \in Nat
    BY <2>1, CountSlots DEF LiveInv, Live!TypeOK
  <2>. QED  BY <1>4, <1>9, <2>2 DEF LiveInv
<1>13. LiveInv'
  BY <1>3, <1>5, <1>9, <1>11, <1>12 DEF LiveInv
<1>14. ASSUME peak' <= 1  PROVE Busy = {}
  <2>1. Cardinality(Busy) = 0
    BY <1>8, <1>9, <1>14
  <2>. QED  BY <1>7, <2>1, CountSlots, FS_EmptySet
<1>. QED  BY <1>3, <1>5, <1>7, <1>9, <1>13, <1>14

\* A task goes on to another one that tells nobody, or is done.
LEMMA LiveGoes ==
    ASSUME LiveInv, Rest', NEW k \in Live!Slots, tasks[k] # None,
           NEW c \in Live!Task \union {None}, tasks' = [tasks EXCEPT ![k] = c],
           c # None => c.at \notin {"mark", "arrive"},
           UNCHANGED <<notified, told, peak>>
    PROVE  LiveInv' /\ \A j \in Live!Slots : tasks'[j] = IF j = k THEN c ELSE tasks[j]
<1>1. tasks \in [Live!Slots -> Live!Task \union {None}] /\ peak \in 0..MaxRequests
  BY DEF LiveInv, Live!TypeOK
<1>2. \A j \in Live!Slots : tasks'[j] = IF j = k THEN c ELSE tasks[j]
  BY <1>1
<1>3. Busy' \subseteq Busy /\ Busy \in SUBSET Live!Slots
  BY <1>2 DEF Busy
<1>4. Cardinality(Busy') <= peak
  <2>1. /\ Cardinality(Busy') <= Cardinality(Busy) /\ Cardinality(Busy) \in Nat
        /\ Cardinality(Busy') \in Nat
    BY <1>3, CountSlots
  <2>. QED  BY <1>1, <2>1 DEF LiveInv
<1>5. \A b \in Live!Rows : told[b] + Cardinality(Telling(b)') <= peak
  <2>. SUFFICES ASSUME NEW b \in Live!Rows  PROVE told[b] + Cardinality(Telling(b)') <= peak
    OBVIOUS
  <2>1. Telling(b)' \subseteq Telling(b) /\ Telling(b) \in SUBSET Live!Slots
    BY <1>2 DEF Telling
  <2>2. /\ Cardinality(Telling(b)') <= Cardinality(Telling(b))
        /\ Cardinality(Telling(b)) \in Nat /\ Cardinality(Telling(b)') \in Nat
    BY <2>1, CountSlots
  <2>3. told[b] \in Nat /\ told[b] + Cardinality(Telling(b)) <= peak
    BY DEF LiveInv, Live!TypeOK
  <2>. QED  BY <1>1, <2>2, <2>3
<1>6. Live!TypeOK'
  BY <1>1 DEF LiveInv, Live!TypeOK, Rest
<1>7. LiveInv'
  BY <1>2, <1>4, <1>5, <1>6 DEF LiveInv
<1>. QED  BY <1>2, <1>7

\* The check finds a link row that was not notified.
LEMMA LiveCheck ==
    ASSUME LiveInv, NEW k \in Live!Slots, NEW near, Live!GeofenceCheck(k, near)
    PROVE  /\ LiveInv'
           /\ \A j \in Live!Slots :
                  /\ j # k => tasks'[j] = tasks[j]
                  /\ tasks'[k] # None => tasks'[k].at = "mark"
<1>. USE LiveAssumption
<1>1. /\ tasks \in [Live!Slots -> Live!Task \union {None}] /\ peak \in 0..MaxRequests
      /\ tasks[k] # None /\ tasks[k] \in Live!Task /\ tasks[k].at = "geofence" /\ Rest'
      /\ UNCHANGED <<StopsOf, edition, duty, rider, notified, node, told, peak, liveFaults>>
  BY DEF LiveInv, Live!TypeOK, Live!GeofenceCheck, Live!At, Rest, Live!dbVars, Live!linkVars
<1>2. PICK r, a : r = tasks[k].route /\ a = Live!NextStop(r)
  OBVIOUS
<1>5. PICK b : b = Live!RowOf(r, a)
  OBVIOUS
<1>3. CASE ~(a # None /\ a \in HasPlace /\ near)
  <2>1. tasks' = [tasks EXCEPT ![k] = None]
    BY <1>2, <1>3 DEF Live!GeofenceCheck, Live!Done
  <2>2. PICK c : c = None
    OBVIOUS
  <2>3. c \in Live!Task \union {None} /\ tasks' = [tasks EXCEPT ![k] = c]
        /\ (c # None => c.at \notin {"mark", "arrive"})
    BY <2>1, <2>2
  <2>4. LiveInv' /\ \A j \in Live!Slots : tasks'[j] = IF j = k THEN c ELSE tasks[j]
    BY <1>1, <2>3, LiveGoes
  <2>. QED  BY <2>2, <2>4
<1>4. CASE a # None /\ a \in HasPlace /\ near
  <2>1. b \in Live!Rows /\ b \notin notified
    <3>1. r \in Routes /\ a \in Stops /\ edition[r] \in 0..MaxRegroups
      BY <1>1, <1>2, <1>4 DEF LiveInv, Live!TypeOK, Live!Task
    <3>2. b \in Live!Rows
      BY <1>5, <3>1 DEF Live!RowOf, Live!Rows
    <3>. QED  BY <1>2, <1>4, <1>5, <3>2, NextUnnotified
  <2>2. PICK c : c = [tasks[k] EXCEPT !.at = "mark", !.row = b]
    OBVIOUS
  <2>3. c \in Live!Task /\ c.at = "mark" /\ c.row = b /\ c # None
    BY <1>1, <2>1, <2>2 DEF Live!Task, Live!Legs
  <2>4. tasks' = [tasks EXCEPT ![k] = c]
    <3>1. tasks' = [tasks EXCEPT ![k].at = "mark", ![k].row = b]
      BY <1>2, <1>4, <1>5 DEF Live!GeofenceCheck
    <3>. QED  BY <1>1, <2>2, <3>1
  <2>5. \A j \in Live!Slots : tasks'[j] = IF j = k THEN c ELSE tasks[j]
    BY <1>1, <2>4
  <2>6. Busy' = Busy /\ Busy \in SUBSET Live!Slots
    BY <1>1, <2>3, <2>5 DEF Busy
  <2>7. Live!TypeOK'
    BY <1>1, <2>3, <2>4 DEF LiveInv, Live!TypeOK
  <2>8. \A d \in Live!Rows : told[d] + Cardinality(Telling(d)') <= peak
    <3>1. ASSUME NEW d \in Live!Rows \ {b}
          PROVE  told[d] + Cardinality(Telling(d)') <= peak
      <4>1. Telling(d)' = Telling(d)
        BY <1>1, <2>3, <2>5 DEF Telling
      <4>. QED  BY <4>1 DEF LiveInv
    <3>2. told[b] + Cardinality(Telling(b)') <= peak
      <4>1. Telling(b)' \subseteq Busy /\ told[b] = 0
        BY <1>1, <2>1, <2>6 DEF LiveInv, Telling, Busy
      <4>2. /\ Cardinality(Telling(b)') <= Cardinality(Busy)
            /\ Cardinality(Telling(b)') \in Nat /\ Cardinality(Busy) \in Nat
        BY <2>6, <4>1, CountSlots
      <4>. QED  BY <1>1, <4>1, <4>2 DEF LiveInv
    <3>. QED  BY <3>1, <3>2
  <2>9. LiveInv'
    BY <1>1, <2>1, <2>3, <2>5, <2>6, <2>7, <2>8 DEF LiveInv
  <2>. QED  BY <2>3, <2>5, <2>9
<1>. QED  BY <1>3, <1>4

\* A row that is there is marked; for a row that is gone nothing more is done.
LEMMA LiveMark ==
    ASSUME LiveInv, NEW k \in Live!Slots, Live!GeofenceMark(k)
    PROVE  /\ LiveInv'
           /\ \A j \in Live!Slots :
                  /\ j # k => tasks'[j] = tasks[j]
                  /\ tasks'[k] # None => tasks'[k].at = "arrive"
<1>. USE LiveAssumption
<1>1. /\ tasks \in [Live!Slots -> Live!Task \union {None}] /\ peak \in 0..MaxRequests
      /\ tasks[k] # None /\ tasks[k] \in Live!Task /\ tasks[k].at = "mark"
      /\ tasks[k].row \in Live!Rows /\ Rest'
      /\ UNCHANGED <<StopsOf, edition, duty, rider, node, told, peak, liveFaults>>
  BY DEF LiveInv, Live!TypeOK, Live!GeofenceMark, Live!At, Live!linkVars, Rest
<1>2. CASE tasks[k].row \in Live!Linked
  <2>1. notified' = notified \union {tasks[k].row} /\ tasks' = [tasks EXCEPT ![k].at = "arrive"]
    BY <1>2 DEF Live!GeofenceMark, Live!Go
  <2>2. PICK c : c = [tasks[k] EXCEPT !.at = "arrive"]
    OBVIOUS
  <2>3. c \in Live!Task /\ c.at = "arrive" /\ c.row = tasks[k].row /\ c # None
    BY <1>1, <2>2 DEF Live!Task, Live!Legs
  <2>4. tasks' = [tasks EXCEPT ![k] = c]
    BY <1>1, <2>1, <2>2
  <2>5. \A j \in Live!Slots : tasks'[j] = IF j = k THEN c ELSE tasks[j]
    BY <1>1, <2>4
  <2>6. Busy' = Busy /\ \A w \in Live!Rows : Telling(w)' = Telling(w)
    BY <1>1, <2>3, <2>5 DEF Busy, Telling
  <2>7. Live!TypeOK'
    BY <1>1, <2>1, <2>3, <2>4 DEF LiveInv, Live!TypeOK, Rest
  <2>8. LiveInv'
    BY <1>1, <2>1, <2>3, <2>5, <2>6, <2>7 DEF LiveInv
  <2>. QED  BY <2>3, <2>5, <2>8
<1>3. CASE tasks[k].row \notin Live!Linked
  <2>1. notified' = notified /\ tasks' = [tasks EXCEPT ![k] = None]
    BY <1>3 DEF Live!GeofenceMark, Live!Done
  <2>2. PICK c : c = None
    OBVIOUS
  <2>3. c \in Live!Task \union {None} /\ tasks' = [tasks EXCEPT ![k] = c]
        /\ (c # None => c.at \notin {"mark", "arrive"})
    BY <2>1, <2>2
  <2>4. LiveInv' /\ \A j \in Live!Slots : tasks'[j] = IF j = k THEN c ELSE tasks[j]
    BY <1>1, <2>1, <2>3, LiveGoes
  <2>. QED  BY <2>2, <2>4
<1>. QED  BY <1>2, <1>3

\* A notice goes out, or is lost: one request less is about to tell.
LEMMA LiveArrive ==
    ASSUME LiveInv, NEW k \in Live!Slots, Live!NotifyArriving(k)
    PROVE  LiveInv' /\ \A j \in Live!Slots : tasks'[j] = IF j = k THEN None ELSE tasks[j]
<1>. USE LiveAssumption
<1>1. /\ tasks \in [Live!Slots -> Live!Task \union {None}] /\ peak \in 0..MaxRequests
      /\ told \in [Live!Rows -> Nat] /\ liveFaults \in 0..MaxFaults
      /\ tasks[k] # None /\ tasks[k].at = "arrive"
      /\ tasks' = [tasks EXCEPT ![k] = None]
      /\ UNCHANGED <<StopsOf, edition, duty, rider, notified, node, peak>>
      /\ \/ told' = [told EXCEPT ![tasks[k].row] = @ + 1] /\ liveFaults' = liveFaults
         \/ told' = told /\ liveFaults < MaxFaults /\ liveFaults' = liveFaults + 1
  BY DEF LiveInv, Live!TypeOK, Live!NotifyArriving, Live!At, Live!Done, Live!NoFault,
         Live!Fault, Live!dbVars, Live!linkVars
<1>2. PICK b : b = tasks[k].row
  OBVIOUS
<1>3. b \in Live!Rows /\ b \in notified /\ k \in Telling(b)
  BY <1>1, <1>2 DEF LiveInv, Telling
<1>4. \A j \in Live!Slots : tasks'[j] = IF j = k THEN None ELSE tasks[j]
  BY <1>1
<1>5. /\ told' \in [Live!Rows -> Nat] /\ told'[b] <= told[b] + 1
      /\ \A d \in Live!Rows \ {b} : told'[d] = told[d]
  BY <1>1, <1>2, <1>3
<1>6. liveFaults' \in 0..MaxFaults
  BY <1>1
<1>7. Live!TypeOK'
  BY <1>1, <1>5, <1>6 DEF LiveInv, Live!TypeOK
<1>8. Busy' \subseteq Busy /\ Busy \in SUBSET Live!Slots
  BY <1>4 DEF Busy
<1>9. Cardinality(Busy') <= peak
  <2>1. /\ Cardinality(Busy') <= Cardinality(Busy) /\ Cardinality(Busy) \in Nat
        /\ Cardinality(Busy') \in Nat
    BY <1>8, CountSlots
  <2>. QED  BY <1>1, <2>1 DEF LiveInv
<1>10. \A d \in Live!Rows : told'[d] + Cardinality(Telling(d)') <= peak
  <2>1. ASSUME NEW d \in Live!Rows \ {b}  PROVE told'[d] + Cardinality(Telling(d)') <= peak
    <3>1. Telling(d)' = Telling(d)
      BY <1>2, <1>4 DEF Telling
    <3>. QED  BY <1>5, <3>1 DEF LiveInv
  <2>2. told'[b] + Cardinality(Telling(b)') <= peak
    <3>1. Telling(b)' = Telling(b) \ {k} /\ Telling(b) \in SUBSET Live!Slots
      BY <1>4 DEF Telling
    <3>2. /\ Cardinality(Telling(b)') = Cardinality(Telling(b)) - 1
          /\ Cardinality(Telling(b)) \in Nat
      BY <1>3, <3>1, CountSlots
    <3>3. told[b] + Cardinality(Telling(b)) <= peak /\ told[b] \in Nat /\ told'[b] \in Nat
      BY <1>1, <1>3, <1>5 DEF LiveInv
    <3>. QED  BY <1>1, <1>5, <3>2, <3>3
  <2>. QED  BY <2>1, <2>2
<1>11. \A d \in Live!Rows \ notified : told'[d] = 0
  BY <1>3, <1>5 DEF LiveInv
<1>12. LiveInv'
  BY <1>1, <1>4, <1>7, <1>9, <1>10, <1>11 DEF LiveInv
<1>. QED  BY <1>4, <1>12

\* Nothing that the count of notices is about moves.
LEMMA LiveStill ==
    ASSUME LiveInv, Rest', UNCHANGED <<tasks, notified, told, peak>>
    PROVE  LiveInv'
<1>1. Live!TypeOK'
  BY DEF LiveInv, Live!TypeOK, Rest
<1>2. Busy' = Busy /\ \A b \in Live!Rows : Telling(b)' = Telling(b)
  BY DEF Busy, Telling
<1>. QED  BY <1>1, <1>2 DEF LiveInv

\* A restart: nobody has a task.
LEMMA LiveRestart == ASSUME LiveInv, Live!Restart  PROVE LiveInv' /\ liveFaults' > 0
<1>. USE LiveAssumption
<1>1. /\ liveFaults' = liveFaults + 1 /\ liveFaults < MaxFaults /\ liveFaults \in 0..MaxFaults
      /\ tasks' = [k \in Live!Slots |-> None] /\ peak \in 0..MaxRequests
      /\ UNCHANGED <<StopsOf, edition, duty, rider, notified, node, told, peak>>
  BY DEF LiveInv, Live!TypeOK, Live!Restart, Live!Fault, Live!dbVars, Live!linkVars
<1>2. liveFaults' \in 0..MaxFaults /\ liveFaults' > 0
  BY <1>1
<1>3. Live!TypeOK'
  BY <1>1, <1>2 DEF LiveInv, Live!TypeOK
<1>4. Busy' = {} /\ \A b \in Live!Rows : Telling(b)' = {}
  BY <1>1 DEF Busy, Telling
<1>5. Cardinality({}) = 0
  BY FS_EmptySet
<1>6. \A b \in Live!Rows : told[b] <= peak
  <2>. SUFFICES ASSUME NEW b \in Live!Rows  PROVE told[b] <= peak
    OBVIOUS
  <2>1. Telling(b) \in SUBSET Live!Slots
    BY DEF Telling
  <2>2. Cardinality(Telling(b)) \in Nat
    BY <2>1, CountSlots
  <2>. QED  BY <1>1, <2>2 DEF LiveInv, Live!TypeOK
<1>7. \A b \in Live!Rows : told'[b] + Cardinality(Telling(b)') <= peak'
  <2>1. told \in [Live!Rows -> Nat] /\ \A b \in Live!Rows : Cardinality(Telling(b)') = 0
    BY <1>4, <1>5 DEF LiveInv, Live!TypeOK
  <2>2. \A b \in Live!Rows : told[b] \in Nat /\ told[b] + 0 = told[b]
    BY <2>1
  <2>. QED  BY <1>1, <1>6, <2>1, <2>2
<1>8. Cardinality(Busy') <= peak' /\ \A k \in Live!Slots : tasks'[k] = None
  BY <1>1, <1>4, <1>5
<1>. QED  BY <1>1, <1>2, <1>3, <1>7, <1>8 DEF LiveInv

\* The routes and stops that a request names.
LEMMA LivePlaces ==
    ASSUME LiveInv, NEW r \in DOMAIN StopsOf
    PROVE  r \in Routes /\ Live!On(r) \subseteq Stops
<1>1. r \in Routes /\ StopsOf[r] \in Live!Links
  BY DEF LiveInv, Live!TypeOK
<1>2. PICK P \in SUBSET Live!Places : StopsOf[r] \in [P -> Stops]
  BY <1>1 DEF Live!Links
<1>. QED  BY <1>1, <1>2 DEF Live!On

-----------------------------------------------------------------------------
\* A driver starts a duty, is synchronised or pings: the driver is on duty when the
\* request's task is left.
LEMMA LiveOnDuty ==
    ASSUME LiveInv, NEW at \in {"init", "push"}, NEW r \in DOMAIN StopsOf,
           Live!Leave(at, r),
           Rest', UNCHANGED <<StopsOf, notified, told>>, duty'[r] = "ONGOING"
    PROVE  LiveInv' /\ MapInv'
<1>1. r \in Routes
  BY LivePlaces
<1>2. /\ LiveInv'
      /\ peak' <= 1 => \E k \in Live!Slots : Busy' = {k} /\ tasks'[k].at = at
  BY <1>1, LiveLeave
<1>3. r \in Live!Ongoing'
  BY DEF Live!Ongoing
<1>4. MapInv'
  BY <1>2, <1>3 DEF MapInv
<1>. QED  BY <1>2, <1>4

LEMMA LiveStartDuty ==
    ASSUME LiveInv, NEW r \in DOMAIN StopsOf, Live!StartDuty(r)
    PROVE  LiveInv' /\ MapInv'
<1>1. /\ Live!Leave("init", r) /\ Rest' /\ duty'[r] = "ONGOING"
      /\ UNCHANGED <<StopsOf, notified, told>>
  BY DEF LiveInv, Live!TypeOK, Live!StartDuty, Live!linkVars, Live!Statuses, Rest
<1>. QED  BY <1>1, LiveOnDuty

LEMMA LivePing ==
    ASSUME LiveInv, NEW r \in DOMAIN StopsOf, Live!UpdateDriverLocation(r)
    PROVE  LiveInv' /\ MapInv'
<1>1. /\ Live!Leave("push", r) /\ Rest' /\ duty'[r] = "ONGOING"
      /\ UNCHANGED <<StopsOf, notified, told>>
  BY DEF LiveInv, Live!TypeOK, Live!UpdateDriverLocation, Rest, Live!dbVars, Live!linkVars
<1>. QED  BY <1>1, LiveOnDuty

LEMMA LiveSync ==
    ASSUME LiveInv, NEW r \in DOMAIN StopsOf, Live!SyncDrivers(r)
    PROVE  LiveInv' /\ MapInv'
<1>1. /\ Live!Leave("init", r) /\ Rest' /\ duty'[r] = "ONGOING"
      /\ UNCHANGED <<StopsOf, notified, told>>
  BY DEF LiveInv, Live!TypeOK, Live!SyncDrivers, Rest, Live!dbVars, Live!linkVars
<1>. QED  BY <1>1, LiveOnDuty

\* The end of a duty leaves the task that clears the node.
LEMMA LiveEndDuty ==
    ASSUME LiveInv, NEW r \in DOMAIN StopsOf, Live!EndDuty(r)
    PROVE  LiveInv' /\ MapInv'
<1>1. /\ Live!Leave("look", r) /\ Rest'
      /\ UNCHANGED <<StopsOf, notified, told>>
  BY DEF LiveInv, Live!TypeOK, Live!EndDuty, Live!linkVars, Live!Statuses, Rest
<1>2. r \in Routes
  BY LivePlaces
<1>3. /\ LiveInv'
      /\ peak' <= 1 => \E k \in Live!Slots : Busy' = {k} /\ tasks'[k].at = "look"
  BY <1>1, <1>2, LiveLeave
<1>4. MapInv'
  BY <1>3 DEF MapInv
<1>. QED  BY <1>3, <1>4

LEMMA LiveSettle ==
    ASSUME LiveInv, MapInv, NEW b \in Stops, Live!Settle(b)
    PROVE  LiveInv' /\ MapInv'
<1>1. /\ Rest' /\ UNCHANGED <<StopsOf, edition, duty, notified, node, tasks, told, peak, liveFaults>>
  BY DEF LiveInv, Live!TypeOK, Live!Settle, Live!linkVars, Rest
<1>2. LiveInv'
  BY <1>1, LiveStill
<1>3. MapInv'
  BY <1>1 DEF MapInv, Live!Calm, Live!Ongoing, Busy
<1>. QED  BY <1>2, <1>3

\* The stops of a route are what it had, less some.
LEMMA LiveWithout ==
    ASSUME LiveInv, NEW q \in DOMAIN StopsOf, NEW S, NEW f, f = Live!Without(q, S)
    PROVE  f \in Live!Links
<1>1. StopsOf[q] \in Live!Links
  BY DEF LiveInv, Live!TypeOK
<1>2. PICK P \in SUBSET Live!Places : StopsOf[q] \in [P -> Stops]
  BY <1>1 DEF Live!Links
<1>3. PICK Q : Q = {j \in DOMAIN StopsOf[q] : StopsOf[q][j] \notin S}
  OBVIOUS
<1>4. Q \in SUBSET Live!Places /\ f = [i \in Q |-> StopsOf[q][i]]
  BY <1>2, <1>3 DEF Live!Without
<1>5. f \in [Q -> Stops]
  BY <1>2, <1>3, <1>4
<1>. QED  BY <1>4, <1>5 DEF Live!Links

\* New stops for the routes that are there: the types hold.
LEMMA LiveRelink ==
    ASSUME LiveInv, DOMAIN StopsOf' = DOMAIN StopsOf,
           StopsOf' \in [DOMAIN StopsOf -> Live!Links],
           edition' \in [Routes -> 0..MaxRegroups], duty' \in [DOMAIN StopsOf -> Live!Statuses],
           UNCHANGED <<rider, notified, node, tasks, told, peak, liveFaults>>
    PROVE  LiveInv'
<1>1. Rest'
  BY DEF LiveInv, Live!TypeOK, Rest
<1>. QED  BY <1>1, LiveStill

LEMMA LiveOfficeTakes ==
    ASSUME LiveInv, NEW r \in DOMAIN StopsOf, Live!OfficeTakes(r)
    PROVE  LiveInv' /\ MapInv'
<1>1. /\ duty \in [DOMAIN StopsOf -> Live!Statuses] /\ edition' \in [Routes -> 0..MaxRegroups]
      /\ UNCHANGED <<edition, rider, notified, node, tasks, told, peak, liveFaults>>
      /\ StopsOf \in [DOMAIN StopsOf -> Live!Links]
  BY DEF LiveInv, Live!TypeOK, Live!OfficeTakes
<1>2. /\ duty' \in [DOMAIN StopsOf -> Live!Statuses] /\ duty'[r] \in {"taken", "deleted"}
      /\ DOMAIN StopsOf' = DOMAIN StopsOf /\ StopsOf' \in [DOMAIN StopsOf -> Live!Links]
  <2>1. CASE duty' = [duty EXCEPT ![r] = "taken"] /\ UNCHANGED StopsOf
    BY <1>1, <2>1 DEF Live!Statuses
  <2>2. CASE duty' = [duty EXCEPT ![r] = "deleted"] /\ StopsOf' = [StopsOf EXCEPT ![r] = <<>>]
    <3>1. PICK f : f = <<>>
      OBVIOUS
    <3>2. f \in [{} -> Stops]
      BY <3>1
    <3>3. f \in Live!Links
      BY <3>2 DEF Live!Links
    <3>. QED  BY <1>1, <2>2, <3>1, <3>3 DEF Live!Statuses
  <2>. QED  BY <2>1, <2>2 DEF Live!OfficeTakes
<1>4. LiveInv'
  BY <1>1, <1>2, LiveRelink
<1>5. ~Live!Calm'
  BY <1>2 DEF Live!Calm
<1>. QED  BY <1>4, <1>5 DEF MapInv

\* The office changes link rows: the map is about other things.
LEMMA MapRelink ==
    ASSUME MapInv, DOMAIN StopsOf' = DOMAIN StopsOf, UNCHANGED <<duty, node, tasks, peak, liveFaults>>
    PROVE  MapInv'
<1>1. Live!Calm' = Live!Calm /\ Live!Ongoing' = Live!Ongoing
  BY DEF Live!Calm, Live!Ongoing
<1>2. Busy' = Busy
  BY DEF Busy
<1>. QED  BY <1>1, <1>2 DEF MapInv

LEMMA LiveRegroup ==
    ASSUME LiveInv, MapInv, NEW r \in DOMAIN StopsOf, NEW stops \in Live!Orders,
           Live!Regroup(r, stops)
    PROVE  LiveInv' /\ MapInv'
<1>. USE LiveAssumption
<1>1. PICK moved :
          StopsOf' = [q \in DOMAIN StopsOf |-> IF q = r THEN stops ELSE Live!Without(q, moved)]
  BY DEF Live!Regroup
<1>2. stops \in Live!Links
  <2>1. PICK n \in 0..Live!Cardinality(Stops) : stops \in [1..n -> Stops]
    BY DEF Live!Orders
  <2>2. Live!Cardinality(Stops) \in Nat
    BY LiveCardinality, FS_CardinalityType
  <2>3. 1..n \subseteq Live!Places
    BY <2>1, <2>2 DEF Live!Places
  <2>. QED  BY <2>1, <2>3 DEF Live!Links
<1>3. StopsOf' \in [DOMAIN StopsOf -> Live!Links]
  <2>. SUFFICES ASSUME NEW q \in DOMAIN StopsOf  PROVE StopsOf'[q] \in Live!Links
    BY <1>1
  <2>1. PICK f : f = Live!Without(q, moved)
    OBVIOUS
  <2>2. StopsOf'[q] = IF q = r THEN stops ELSE f
    BY <1>1, <2>1
  <2>. QED  BY <1>2, <2>1, <2>2, LiveWithout
<1>4. /\ edition' \in [Routes -> 0..MaxRegroups] /\ duty' \in [DOMAIN StopsOf -> Live!Statuses]
      /\ UNCHANGED <<duty, rider, notified, node, tasks, told, peak, liveFaults>>
  <2>1. /\ edition \in [Routes -> 0..MaxRegroups] /\ duty \in [DOMAIN StopsOf -> Live!Statuses]
        /\ r \in Routes
    BY DEF LiveInv, Live!TypeOK
  <2>2. edition[r] < MaxRegroups /\ edition' = [edition EXCEPT ![r] = edition[r] + 1]
    BY <2>1 DEF Live!Regroup
  <2>3. edition[r] + 1 \in 0..MaxRegroups
    BY <2>1, <2>2
  <2>. QED  BY <2>1, <2>2, <2>3 DEF Live!Regroup
<1>5. DOMAIN StopsOf' = DOMAIN StopsOf
  BY <1>1
<1>. QED  BY <1>3, <1>4, <1>5, LiveRelink, MapRelink

LEMMA LiveMoveAway ==
    ASSUME LiveInv, MapInv, NEW S \in SUBSET Stops, Live!MoveAway(S)
    PROVE  LiveInv' /\ MapInv'
<1>1. StopsOf' = [q \in DOMAIN StopsOf |-> Live!Without(q, S)]
  BY DEF Live!MoveAway
<1>2. StopsOf' \in [DOMAIN StopsOf -> Live!Links]
  <2>. SUFFICES ASSUME NEW q \in DOMAIN StopsOf  PROVE StopsOf'[q] \in Live!Links
    BY <1>1
  <2>1. PICK f : f = Live!Without(q, S)
    OBVIOUS
  <2>2. StopsOf'[q] = f
    BY <1>1, <2>1
  <2>. QED  BY <2>1, <2>2, LiveWithout
<1>3. /\ edition' \in [Routes -> 0..MaxRegroups] /\ duty' \in [DOMAIN StopsOf -> Live!Statuses]
      /\ UNCHANGED <<duty, rider, notified, node, tasks, told, peak, liveFaults>>
  BY DEF Live!MoveAway, LiveInv, Live!TypeOK
<1>4. DOMAIN StopsOf' = DOMAIN StopsOf
  BY <1>1
<1>. QED  BY <1>2, <1>3, <1>4, LiveRelink, MapRelink

-----------------------------------------------------------------------------
\* A task of a ping that has nothing to do with the node goes on.
LEMMA MapKeeps ==
    ASSUME MapInv, NEW k \in Busy, tasks[k].at \notin {"look", "clear"},
           \A j \in Live!Slots :
               /\ j # k => tasks'[j] = tasks[j]
               /\ tasks'[k] # None => tasks'[k].at \notin {"look", "clear"},
           UNCHANGED <<StopsOf, edition, duty, peak>>, liveFaults' = 0 => liveFaults = 0
    PROVE  MapInv'
<1>. SUFFICES ASSUME Live!Calm', peak' <= 1
              PROVE  /\ \A j, i \in Busy' : j = i
                     /\ Live!Ongoing' # {}
                     /\ \A j \in Busy' : tasks'[j].at \notin {"look", "clear"}
  BY DEF MapInv
<1>1. Live!Calm /\ peak <= 1
  BY DEF Live!Calm
<1>2. Busy' \subseteq {k} /\ Live!Ongoing # {}
  BY <1>1 DEF MapInv, Busy
<1>. QED  BY <1>2 DEF Live!Ongoing, Busy

\* The node is written, or Firebase fails.
LEMMA NodeWritten ==
    ASSUME LiveInv, NEW r \in Routes, Live!WriteNode(r)
    PROVE  /\ node' \in Live!Node \union {None} /\ liveFaults' \in 0..MaxFaults
           /\ liveFaults' = 0 => liveFaults = 0
<1>. USE LiveAssumption
<1>1. node \in Live!Node \union {None} /\ liveFaults \in 0..MaxFaults
  BY DEF LiveInv, Live!TypeOK
<1>2. CASE node' = [active |-> TRUE, route |-> r] /\ liveFaults' = liveFaults
  BY <1>1, <1>2 DEF Live!Node
<1>3. CASE node' = node /\ liveFaults < MaxFaults /\ liveFaults' = liveFaults + 1
  BY <1>1, <1>3
<1>. QED  BY <1>2, <1>3 DEF Live!WriteNode, Live!NoFault, Live!Fault

LEMMA LiveInitializeNode ==
    ASSUME LiveInv, MapInv, NEW k \in Live!Slots, Live!InitializeNode(k)
    PROVE  LiveInv' /\ MapInv'
<1>1. /\ tasks[k] # None /\ tasks[k] \in Live!Task /\ tasks[k].at = "init"
      /\ tasks' = [tasks EXCEPT ![k] = None]
      /\ UNCHANGED <<StopsOf, edition, duty, rider, notified, told, peak>>
  BY DEF LiveInv, Live!TypeOK, Live!InitializeNode, Live!At, Live!Done, Live!dbVars, Live!linkVars
<1>2. PICK r : r = tasks[k].route
  OBVIOUS
<1>3. r \in Routes /\ Live!WriteNode(r)
  BY <1>1, <1>2 DEF Live!Task, Live!InitializeNode
<1>4. Rest' /\ (liveFaults' = 0 => liveFaults = 0)
  BY <1>1, <1>3, NodeWritten DEF LiveInv, Live!TypeOK, Rest
<1>5. PICK c : c = None
  OBVIOUS
<1>6. c \in Live!Task \union {None} /\ tasks' = [tasks EXCEPT ![k] = c]
      /\ (c # None => c.at \notin {"mark", "arrive"})
  BY <1>1, <1>5
<1>7. LiveInv' /\ \A j \in Live!Slots : tasks'[j] = IF j = k THEN c ELSE tasks[j]
  BY <1>1, <1>4, <1>6, LiveGoes
<1>8. MapInv'
  BY <1>1, <1>4, <1>5, <1>7, MapKeeps DEF Busy
<1>. QED  BY <1>7, <1>8

LEMMA LivePushLocation ==
    ASSUME LiveInv, MapInv, NEW k \in Live!Slots, Live!PushLocation(k)
    PROVE  LiveInv' /\ MapInv'
<1>1. /\ tasks[k] # None /\ tasks[k] \in Live!Task /\ tasks[k].at = "push"
      /\ tasks \in [Live!Slots -> Live!Task \union {None}]
      /\ tasks' = [tasks EXCEPT ![k].at = "geofence"]
      /\ UNCHANGED <<StopsOf, edition, duty, rider, notified, told, peak>>
  BY DEF LiveInv, Live!TypeOK, Live!PushLocation, Live!At, Live!Go, Live!dbVars, Live!linkVars
<1>2. PICK r : r = tasks[k].route
  OBVIOUS
<1>3. r \in Routes /\ Live!WriteNode(r)
  BY <1>1, <1>2 DEF Live!Task, Live!PushLocation
<1>4. Rest' /\ (liveFaults' = 0 => liveFaults = 0)
  BY <1>1, <1>3, NodeWritten DEF LiveInv, Live!TypeOK, Rest
<1>5. PICK c : c = [tasks[k] EXCEPT !.at = "geofence"]
  OBVIOUS
<1>6. c \in Live!Task /\ c.at = "geofence" /\ tasks' = [tasks EXCEPT ![k] = c]
  BY <1>1, <1>5 DEF Live!Task, Live!Legs
<1>7. LiveInv' /\ \A j \in Live!Slots : tasks'[j] = IF j = k THEN c ELSE tasks[j]
  BY <1>1, <1>4, <1>6, LiveGoes
<1>8. MapInv'
  BY <1>1, <1>4, <1>6, <1>7, MapKeeps DEF Busy
<1>. QED  BY <1>7, <1>8

LEMMA LiveClearLook ==
    ASSUME LiveInv, MapInv, NEW k \in Live!Slots, Live!ClearLook(k)
    PROVE  LiveInv' /\ MapInv'
<1>. USE LiveAssumption
<1>1. /\ tasks[k] # None /\ tasks[k] \in Live!Task /\ tasks[k].at = "look"
      /\ tasks \in [Live!Slots -> Live!Task \union {None}] /\ liveFaults \in 0..MaxFaults
      /\ UNCHANGED <<StopsOf, edition, duty, rider, notified, node, told, peak>>
      /\ \/ node = None /\ tasks' = [tasks EXCEPT ![k] = None] /\ liveFaults' = liveFaults
         \/ node # None /\ tasks' = [tasks EXCEPT ![k].at = "clear"] /\ liveFaults' = liveFaults
         \/ /\ tasks' = [tasks EXCEPT ![k] = None]
            /\ liveFaults < MaxFaults /\ liveFaults' = liveFaults + 1
  BY DEF LiveInv, Live!TypeOK, Live!ClearLook, Live!At, Live!Done, Live!Go, Live!dbVars, Live!linkVars,
         Live!NoFault, Live!Fault
<1>2. Rest'
  <2>1. liveFaults' \in 0..MaxFaults
    BY <1>1
  <2>. QED  BY <1>1, <2>1 DEF LiveInv, Live!TypeOK, Rest
<1>3. CASE tasks' = [tasks EXCEPT ![k] = None]
  <2>1. PICK c : c = None
    OBVIOUS
  <2>2. c \in Live!Task \union {None} /\ tasks' = [tasks EXCEPT ![k] = c]
        /\ (c # None => c.at \notin {"mark", "arrive"})
    BY <1>3, <2>1
  <2>3. LiveInv' /\ \A j \in Live!Slots : tasks'[j] = IF j = k THEN c ELSE tasks[j]
    BY <1>1, <1>2, <2>2, LiveGoes
  <2>4. MapInv'
    <3>. SUFFICES ASSUME Live!Calm', peak' <= 1
                  PROVE  Busy' = {} /\ node' = None
      BY DEF MapInv
    <3>1. liveFaults' = 0 /\ Live!Calm /\ peak <= 1 /\ node' = None
      <4>1. liveFaults' = 0
        BY DEF Live!Calm
      <4>2. liveFaults' = liveFaults
        BY <1>1, <4>1
      <4>3. Live!Calm
        BY <1>1, <4>1, <4>2 DEF Live!Calm
      <4>4. tasks' # [tasks EXCEPT ![k].at = "clear"]
        <5>1. tasks'[k] = None
          BY <2>1, <2>3
        <5>2. [tasks EXCEPT ![k].at = "clear"][k] = [tasks[k] EXCEPT !.at = "clear"]
          BY <1>1
        <5>3. [tasks[k] EXCEPT !.at = "clear"] \in Live!Task
          BY <1>1 DEF Live!Task, Live!Legs
        <5>. QED  BY <5>1, <5>2, <5>3
      <4>5. node = None
        BY <1>1, <4>1, <4>4
      <4>. QED  BY <1>1, <4>1, <4>3, <4>5
    <3>2. \A j, i \in Busy : j = i
      BY <3>1 DEF MapInv
    <3>3. Busy' = {}
      BY <1>1, <2>1, <2>3, <3>2 DEF Busy
    <3>. QED  BY <3>1, <3>3
  <2>. QED  BY <2>3, <2>4
<1>4. CASE /\ node # None /\ tasks' = [tasks EXCEPT ![k].at = "clear"]
           /\ liveFaults' = liveFaults
  <2>1. PICK c : c = [tasks[k] EXCEPT !.at = "clear"]
    OBVIOUS
  <2>2. c \in Live!Task /\ c.at = "clear" /\ tasks' = [tasks EXCEPT ![k] = c]
    BY <1>1, <1>4, <2>1 DEF Live!Task, Live!Legs
  <2>3. LiveInv' /\ \A j \in Live!Slots : tasks'[j] = IF j = k THEN c ELSE tasks[j]
    BY <1>1, <1>2, <2>2, LiveGoes
  <2>4. MapInv'
    <3>. SUFFICES ASSUME Live!Calm', peak' <= 1
                  PROVE  Busy' = {k} /\ tasks'[k].at = "clear" /\ node' # None
      BY DEF MapInv
    <3>1. Live!Calm /\ peak <= 1 /\ node' # None
      BY <1>1, <1>4 DEF Live!Calm
    <3>2. \A j, i \in Busy : j = i
      BY <3>1 DEF MapInv
    <3>3. Busy' = {k}
      BY <1>1, <2>2, <2>3, <3>2 DEF Busy
    <3>. QED  BY <2>2, <2>3, <3>1, <3>3
  <2>. QED  BY <2>3, <2>4
<1>. QED  BY <1>1, <1>3, <1>4

LEMMA LiveClears ==
    ASSUME LiveInv, NodeInv, NEW k \in Live!Slots, Live!ClearNode(k)
    PROVE  node' \in Live!Node /\ node' # None
<1>. USE LiveAssumption
<1>1. /\ tasks[k] # None /\ tasks[k].at = "clear" /\ node \in Live!Node \union {None}
      /\ node' = [node EXCEPT !.active = FALSE] \/ node' = node
  BY DEF LiveInv, Live!TypeOK, Live!ClearNode, Live!At
<1>2. node # None
  BY <1>1 DEF NodeInv, Busy
<1>3. [node EXCEPT !.active = FALSE] \in Live!Node
  BY <1>1, <1>2 DEF Live!Node
<1>. QED  BY <1>1, <1>2, <1>3

LEMMA LiveClearNode ==
    ASSUME LiveInv, MapInv, NodeInv, NEW k \in Live!Slots, Live!ClearNode(k)
    PROVE  LiveInv' /\ MapInv'
<1>. USE LiveAssumption
<1>1. /\ tasks[k] # None /\ tasks[k].at = "clear" /\ tasks' = [tasks EXCEPT ![k] = None]
      /\ node \in Live!Node \union {None} /\ liveFaults \in 0..MaxFaults
      /\ UNCHANGED <<StopsOf, edition, duty, rider, notified, told, peak>>
      /\ \/ node' = [node EXCEPT !.active = FALSE] /\ liveFaults' = liveFaults
         \/ node' = node /\ liveFaults < MaxFaults /\ liveFaults' = liveFaults + 1
  BY DEF LiveInv, Live!TypeOK, Live!ClearNode, Live!At, Live!Done, Live!dbVars, Live!linkVars,
         Live!NoFault, Live!Fault
<1>2. node # None /\ node' \in Live!Node
  BY <1>1, LiveClears DEF NodeInv, Busy
<1>3. liveFaults' \in 0..MaxFaults
  BY <1>1
<1>4. Rest'
  BY <1>1, <1>2, <1>3 DEF LiveInv, Live!TypeOK, Rest
<1>5. PICK c : c = None
  OBVIOUS
<1>6. c \in Live!Task \union {None} /\ tasks' = [tasks EXCEPT ![k] = c]
      /\ (c # None => c.at \notin {"mark", "arrive"})
  BY <1>1, <1>5
<1>7. LiveInv' /\ \A j \in Live!Slots : tasks'[j] = IF j = k THEN c ELSE tasks[j]
  BY <1>1, <1>4, <1>6, LiveGoes
<1>8. MapInv'
  <2>. SUFFICES ASSUME Live!Calm', peak' <= 1
                PROVE  Busy' = {} /\ ~node'.active
    BY DEF MapInv
  <2>1. liveFaults' = 0
    BY DEF Live!Calm
  <2>2. liveFaults' = liveFaults /\ node' = [node EXCEPT !.active = FALSE]
    BY <1>1, <2>1
  <2>3. ~node'.active
    BY <1>1, <1>2, <2>2 DEF Live!Node
  <2>4. Live!Calm /\ peak <= 1
    BY <1>1, <2>2 DEF Live!Calm
  <2>5. \A j, i \in Busy : j = i
    BY <2>4 DEF MapInv
  <2>6. Busy' = {}
    BY <1>1, <1>5, <1>7, <2>5 DEF Busy
  <2>. QED  BY <2>3, <2>6
<1>. QED  BY <1>7, <1>8

\* Marking and telling leave the map alone.
LEMMA LiveTells ==
    ASSUME LiveInv, MapInv, NEW k \in Live!Slots,
           (\E near \in BOOLEAN : Live!GeofenceCheck(k, near)) \/ Live!GeofenceMark(k) \/ Live!NotifyArriving(k)
    PROVE  LiveInv' /\ MapInv'
<1>. USE LiveAssumption
<1>1. /\ k \in Busy /\ tasks[k].at \in {"geofence", "mark", "arrive"}
      /\ UNCHANGED <<StopsOf, edition, duty, peak>>
      /\ liveFaults' = liveFaults \/ liveFaults' = liveFaults + 1
      /\ liveFaults \in 0..MaxFaults
  BY DEF LiveInv, Live!TypeOK, Live!GeofenceCheck, Live!GeofenceMark, Live!NotifyArriving,
         Live!At, Live!dbVars, Live!linkVars, Live!NoFault, Live!Fault, Busy
<1>2. /\ LiveInv'
      /\ \A j \in Live!Slots :
             /\ j # k => tasks'[j] = tasks[j]
             /\ tasks'[k] # None => tasks'[k].at \in {"mark", "arrive"}
  <2>1. CASE \E near \in BOOLEAN : Live!GeofenceCheck(k, near)
    BY <2>1, LiveCheck
  <2>2. CASE Live!GeofenceMark(k)
    BY <2>2, LiveMark
  <2>3. CASE Live!NotifyArriving(k)
    BY <2>3, LiveArrive
  <2>. QED  BY <2>1, <2>2, <2>3
<1>3. liveFaults' = 0 => liveFaults = 0
  BY <1>1
<1>4. MapInv'
  BY <1>1, <1>2, <1>3, MapKeeps
<1>. QED  BY <1>2, <1>4

-----------------------------------------------------------------------------
\* No step takes the node away, and only ClearLook, which has seen one, goes on
\* to clear it.
LEMMA NodeStep ==
    ASSUME LiveInv, NodeInv, Live!Next
    PROVE  NodeInv'
<1>. USE LiveAssumption
<1>1. tasks \in [Live!Slots -> Live!Task \union {None}] /\ node \in Live!Node \union {None}
  BY DEF LiveInv, Live!TypeOK
<1>2. ASSUME node' = node \/ node' # None,
             \A k \in Live!Slots :
                 \/ tasks'[k] = tasks[k] \/ tasks'[k] = None
                 \/ tasks'[k].at # "clear" \/ node # None
      PROVE  NodeInv'
  BY <1>2 DEF NodeInv, Busy
<1>3. ASSUME NEW at \in {"init", "push", "look"}, NEW r, Live!Leave(at, r),
             node' = node
      PROVE  NodeInv'
  <2>1. PICK k \in Live!Slots :
            tasks' = [tasks EXCEPT ![k] = [at |-> at, route |-> r, row |-> None]]
    BY <1>3 DEF Live!Leave
  <2>2. \A j \in Live!Slots : tasks'[j] = tasks[j] \/ tasks'[j].at # "clear"
    BY <1>1, <2>1
  <2>. QED  BY <1>2, <1>3, <2>2
<1>4. ASSUME NEW r \in DOMAIN StopsOf,
             \/ Live!StartDuty(r) \/ Live!EndDuty(r) \/ Live!SyncDrivers(r)
             \/ Live!UpdateDriverLocation(r)
      PROVE  NodeInv'
  BY <1>3, <1>4 DEF Live!StartDuty, Live!EndDuty, Live!SyncDrivers, Live!UpdateDriverLocation
<1>5. ASSUME UNCHANGED <<tasks, node>>  PROVE NodeInv'
  BY <1>5 DEF NodeInv, Busy
<1>6. ASSUME NEW k \in Live!Slots, Live!RunTask(k)  PROVE NodeInv'
  <2>1. ASSUME NEW leg, leg # "clear" \/ node # None, tasks[k] # None,
               tasks' = [tasks EXCEPT ![k].at = leg], node' = node \/ node' # None
        PROVE  NodeInv'
    <3>1. tasks[k] \in Live!Task
      BY <1>1, <2>1
    <3>2. tasks'[k].at = leg /\ \A j \in Live!Slots : j # k => tasks'[j] = tasks[j]
      BY <1>1, <2>1, <3>1 DEF Live!Task
    <3>. QED  BY <1>2, <2>1, <3>2
  <2>2. ASSUME tasks' = [tasks EXCEPT ![k] = None], node' = node \/ node' # None
        PROVE  NodeInv'
    <3>1. \A j \in Live!Slots : tasks'[j] = tasks[j] \/ tasks'[j] = None
      BY <1>1, <2>2
    <3>. QED  BY <1>2, <2>2, <3>1
  <2>3. ASSUME tasks[k] # None, Live!WriteNode(tasks[k].route)
        PROVE  node' = node \/ node' # None
    <3>1. PICK r : r = tasks[k].route
      OBVIOUS
    <3>2. r \in Routes /\ Live!WriteNode(r)
      BY <1>1, <2>3, <3>1 DEF Live!Task
    <3>3. [active |-> TRUE, route |-> r] \in Live!Node
      BY <3>2 DEF Live!Node
    <3>. QED  BY <3>2, <3>3 DEF Live!WriteNode
  <2>4. CASE Live!InitializeNode(k)
    BY <2>2, <2>3, <2>4 DEF Live!InitializeNode, Live!At, Live!Done
  <2>5. CASE Live!PushLocation(k)
    <3>1. PICK leg : leg = "geofence"
      OBVIOUS
    <3>2. /\ tasks[k] # None /\ tasks' = [tasks EXCEPT ![k].at = leg]
          /\ node' = node \/ node' # None
      BY <2>3, <2>5, <3>1 DEF Live!PushLocation, Live!At, Live!Go
    <3>3. leg # "clear"
      BY <3>1
    <3>. QED  BY <2>1, <3>2, <3>3
  <2>6. CASE Live!ClearLook(k)
    BY <2>1, <2>2, <2>6 DEF Live!ClearLook, Live!At, Live!Done, Live!Go
  <2>7. CASE Live!ClearNode(k)
    BY <2>2, <2>7, LiveClears DEF Live!ClearNode, Live!Done
  <2>8. CASE \E near \in BOOLEAN : Live!GeofenceCheck(k, near)
    <3>1. node' = node /\ \A j \in Live!Slots :
              /\ j # k => tasks'[j] = tasks[j]
              /\ tasks'[k] # None => tasks'[k].at = "mark"
      BY <2>8, LiveCheck DEF Live!GeofenceCheck
    <3>. QED  BY <1>2, <3>1
  <2>9. CASE Live!GeofenceMark(k)
    <3>1. node' = node /\ \A j \in Live!Slots :
              /\ j # k => tasks'[j] = tasks[j]
              /\ tasks'[k] # None => tasks'[k].at = "arrive"
      BY <2>9, LiveMark DEF Live!GeofenceMark
    <3>. QED  BY <1>2, <3>1
  <2>10. CASE Live!NotifyArriving(k)
    BY <2>2, <2>10 DEF Live!NotifyArriving, Live!Done, Live!dbVars, Live!linkVars
  <2>. QED  BY <1>6, <2>4, <2>5, <2>6, <2>7, <2>8, <2>9, <2>10 DEF Live!RunTask
<1>7. CASE Live!Restart
  <2>1. node' = node /\ \A k \in Live!Slots : tasks'[k] = None
    BY <1>7 DEF Live!Restart
  <2>. QED  BY <1>2, <2>1
<1>8. ASSUME NEW r \in DOMAIN StopsOf,
             \/ Live!OfficeTakes(r) \/ \E b \in Live!On(r) : Live!Settle(b)
             \/ \E stops \in Live!Orders : Live!Regroup(r, stops)
      PROVE  NodeInv'
  BY <1>5, <1>8 DEF Live!OfficeTakes, Live!Settle, Live!Regroup
<1>9. ASSUME NEW S, Live!MoveAway(S)  PROVE NodeInv'
  BY <1>5, <1>9 DEF Live!MoveAway
<1>. QED  BY <1>4, <1>6, <1>7, <1>8, <1>9 DEF Live!Next

LEMMA LiveNext ==
    ASSUME LiveInv, MapInv, NodeInv, Live!Next
    PROVE  LiveInv' /\ MapInv' /\ NodeInv'
<1>1. ASSUME NEW r \in DOMAIN StopsOf,
             \/ Live!StartDuty(r) \/ Live!EndDuty(r) \/ Live!SyncDrivers(r)
             \/ Live!OfficeTakes(r)
             \/ Live!UpdateDriverLocation(r)
             \/ \E b \in Live!On(r) : Live!Settle(b)
             \/ \E stops \in Live!Orders : Live!Regroup(r, stops)
      PROVE  LiveInv' /\ MapInv'
  <2>1. CASE Live!StartDuty(r)
    BY <2>1, LiveStartDuty
  <2>2. CASE Live!EndDuty(r)
    BY <2>2, LiveEndDuty
  <2>3. CASE Live!SyncDrivers(r)
    BY <2>3, LiveSync
  <2>4. CASE Live!OfficeTakes(r)
    BY <2>4, LiveOfficeTakes
  <2>5. CASE Live!UpdateDriverLocation(r)
    BY <2>5, LivePing
  <2>6. CASE \E b \in Live!On(r) : Live!Settle(b)
    <3>1. PICK b \in Live!On(r) : Live!Settle(b)
      BY <2>6
    <3>2. b \in Stops
      BY LivePlaces
    <3>. QED  BY <3>1, <3>2, LiveSettle
  <2>7. CASE \E stops \in Live!Orders : Live!Regroup(r, stops)
    BY <2>7, LiveRegroup
  <2>. QED  BY <1>1, <2>1, <2>2, <2>3, <2>4, <2>5, <2>6, <2>7
<1>2. ASSUME NEW k \in Live!Slots, Live!RunTask(k)  PROVE LiveInv' /\ MapInv'
  <2>1. CASE Live!InitializeNode(k)
    BY <2>1, LiveInitializeNode
  <2>2. CASE Live!PushLocation(k)
    BY <2>2, LivePushLocation
  <2>3. CASE Live!ClearLook(k)
    BY <2>3, LiveClearLook
  <2>4. CASE Live!ClearNode(k)
    BY <2>4, LiveClearNode
  <2>5. CASE (\E near \in BOOLEAN : Live!GeofenceCheck(k, near)) \/ Live!GeofenceMark(k) \/ Live!NotifyArriving(k)
    BY <2>5, LiveTells
  <2>. QED  BY <1>2, <2>1, <2>2, <2>3, <2>4, <2>5 DEF Live!RunTask
<1>3. CASE Live!Restart
  <2>1. LiveInv' /\ ~Live!Calm'
    BY <1>3, LiveRestart DEF Live!Calm
  <2>. QED  BY <2>1, NodeStep DEF MapInv
<1>5. ASSUME NEW S \in SUBSET Stops, Live!MoveAway(S)  PROVE LiveInv' /\ MapInv'
  BY <1>5, LiveMoveAway
<1>4. LiveInv' /\ MapInv'
  BY <1>1, <1>2, <1>3, <1>5 DEF Live!Next
<1>. QED  BY <1>4, NodeStep

LEMMA LiveFrame ==
    ASSUME LiveInv, MapInv, NodeInv, UNCHANGED liveVars
    PROVE  LiveInv' /\ MapInv' /\ NodeInv'
<1>1. UNCHANGED <<StopsOf, edition, duty, rider, notified, node, tasks, told, peak, liveFaults>>
  BY DEF liveVars
<1>2. Rest'
  BY <1>1 DEF LiveInv, Live!TypeOK, Rest
<1>3. LiveInv'
  BY <1>1, <1>2, LiveStill
<1>4. MapInv' /\ NodeInv'
  BY <1>1 DEF MapInv, NodeInv, Live!Calm, Live!Ongoing, Busy
<1>. QED  BY <1>3, <1>4

-----------------------------------------------------------------------------
\* What was told of is stamped, and the stamp is never younger than the alert.
StaleInv ==
    /\ Stale!TypeOK
    /\ staleFaults = 0 => \A r \in Routes :
           /\ stamp[r] <= gap[r]
           /\ staleJob # None /\ r \in staleJob.left => Cooldown + staleJob.age <= gap[r]

\* The job and its fields.
StaleJobs == [left : SUBSET Routes, age : 0..MaxRun]

LEMMA StaleInit == Stale!Init => StaleInv
<1>. USE StaleAssumption
<1>. SUFFICES ASSUME Stale!Init  PROVE StaleInv
  OBVIOUS
<1>1. Stale!TypeOK
  <2>1. 0 \in 0..Threshold /\ Cooldown \in 0..Cooldown /\ 0 \in 0..MaxFaults
        /\ Stale!LongAgo \in 0..Stale!LongAgo
    BY LiveAssumption DEF Stale!LongAgo
  <2>. QED  BY <2>1 DEF Stale!Init, Stale!TypeOK
<1>2. \A r \in Routes : stamp[r] <= gap[r]
  BY DEF Stale!Init, Stale!LongAgo
<1>. QED  BY <1>1, <1>2 DEF StaleInv, Stale!Init

\* Duties, pings and logins.
LEMMA StaleOutside ==
    ASSUME StaleInv, \/ \E r \in Routes : Stale!StartDuty(r) \/ Stale!Ping(r) \/ Stale!EndDuty(r)
                     \/ Stale!AdminsComeAndGo
    PROVE  StaleInv'
<1>. USE StaleAssumption
<1>1. /\ driving' \in SUBSET Routes /\ admins' \in BOOLEAN
      /\ silent' \in [Routes -> 0..Threshold]
      /\ UNCHANGED <<stamp, gap, staleJob, staleTrigger, staleFaults>>
  <2>1. CASE \E r \in Routes : Stale!StartDuty(r) \/ Stale!Ping(r) \/ Stale!EndDuty(r)
    BY <2>1 DEF StaleInv, Stale!TypeOK, Stale!StartDuty, Stale!Ping, Stale!EndDuty
  <2>2. CASE Stale!AdminsComeAndGo
    BY <2>2 DEF StaleInv, Stale!TypeOK, Stale!AdminsComeAndGo
  <2>. QED  BY <2>1, <2>2
<1>2. Stale!TypeOK'
  BY <1>1 DEF StaleInv, Stale!TypeOK
<1>. QED  BY <1>1, <1>2 DEF StaleInv

\* A run finds routes whose stamp is as old as the cooldown.
LEMMA StaleStartRun == ASSUME StaleInv, Stale!StartRun  PROVE StaleInv'
<1>. USE StaleAssumption
<1>1. /\ staleTrigger' = FALSE
      /\ UNCHANGED <<driving, admins, silent, stamp, gap, staleFaults>>
      /\ staleJob' = IF staleJob # None THEN staleJob
                     ELSE IF Stale!Stale = {} THEN None ELSE [left |-> Stale!Stale, age |-> 0]
  BY DEF Stale!StartRun
<1>2. CASE staleJob' = staleJob \/ staleJob' = None
  BY <1>1, <1>2 DEF StaleInv, Stale!TypeOK
<1>3. CASE staleJob' = [left |-> Stale!Stale, age |-> 0]
  <2>1. Stale!Stale \subseteq Routes /\ \A r \in Stale!Stale : Cooldown <= stamp[r]
    BY DEF StaleInv, Stale!TypeOK, Stale!Stale
  <2>2. staleJob' \in StaleJobs /\ staleJob'.left = Stale!Stale /\ staleJob'.age = 0
    BY <1>3, <2>1 DEF StaleJobs
  <2>3. Stale!TypeOK'
    BY <1>1, <2>2 DEF StaleInv, Stale!TypeOK, StaleJobs
  <2>4. ASSUME staleFaults = 0, NEW r \in Stale!Stale  PROVE Cooldown + 0 <= gap[r]
    <3>1. r \in Routes /\ Cooldown <= stamp[r] /\ stamp[r] <= gap[r]
      BY <2>1, <2>4 DEF StaleInv
    <3>2. stamp[r] \in 0..Cooldown /\ gap[r] \in 0..Stale!LongAgo
      BY <3>1 DEF StaleInv, Stale!TypeOK
    <3>. QED  BY <3>1, <3>2 DEF Stale!LongAgo
  <2>. QED  BY <1>1, <2>2, <2>3, <2>4 DEF StaleInv
<1>. QED  BY <1>1, <1>2, <1>3

\* An alert: the time of the check is stamped, whether anyone is there or not.
LEMMA StaleAlert ==
    ASSUME StaleInv, NEW r \in Routes, Stale!AlertAdmins(r)
    PROVE  StaleInv'
<1>. USE StaleAssumption
<1>1. /\ staleJob \in StaleJobs /\ r \in staleJob.left
      /\ staleJob' = [staleJob EXCEPT !.left = @ \ {r}]
      /\ UNCHANGED <<driving, admins, silent, staleTrigger>>
  BY DEF StaleInv, Stale!TypeOK, Stale!AlertAdmins, StaleJobs
<1>2. PICK a : a = staleJob.age
  OBVIOUS
<1>3. /\ staleJob' \in StaleJobs /\ staleJob'.age = a /\ staleJob' # None
      /\ staleJob'.left = staleJob.left \ {r} /\ a \in 0..MaxRun
  BY <1>1, <1>2 DEF StaleJobs
<1>4. PICK s : s = IF a < Cooldown THEN a ELSE Cooldown
  OBVIOUS
<1>5. s \in 0..Cooldown /\ s <= a
  BY <1>3, <1>4
<1>6. CASE /\ stamp' = [stamp EXCEPT ![r] = s] /\ staleFaults' = staleFaults
           /\ gap' = IF admins THEN [gap EXCEPT ![r] = a] ELSE gap
  <2>1. /\ stamp \in [Routes -> 0..Cooldown] /\ gap \in [Routes -> 0..Stale!LongAgo]
        /\ a \in 0..Stale!LongAgo
    BY <1>3 DEF StaleInv, Stale!TypeOK, Stale!LongAgo
  <2>2. /\ stamp' \in [Routes -> 0..Cooldown] /\ gap' \in [Routes -> 0..Stale!LongAgo]
    BY <1>5, <1>6, <2>1
  <2>3. Stale!TypeOK'
    BY <1>1, <1>3, <1>6, <2>2 DEF StaleInv, Stale!TypeOK, StaleJobs
  <2>4. \A q \in Routes : q # r => stamp'[q] = stamp[q] /\ gap'[q] = gap[q]
    BY <1>6, <2>1
  <2>5. stamp'[r] = s /\ gap'[r] = IF admins THEN a ELSE gap[r]
    BY <1>6, <2>1
  <2>6. ASSUME staleFaults = 0  PROVE s <= gap'[r]
    <3>1. Cooldown + a <= gap[r] /\ gap[r] \in 0..Stale!LongAgo
      BY <1>1, <1>2, <2>1, <2>6 DEF StaleInv, StaleJobs
    <3>. QED  BY <1>3, <1>5, <2>5, <3>1 DEF Stale!LongAgo
  <2>7. ASSUME staleFaults = 0, NEW q \in Routes
        PROVE  /\ stamp'[q] <= gap'[q]
               /\ q \in staleJob'.left => Cooldown + a <= gap'[q]
    <3>1. CASE q = r
      BY <1>3, <2>5, <2>6, <2>7, <3>1
    <3>2. CASE q # r
      <4>1. stamp'[q] = stamp[q] /\ gap'[q] = gap[q] /\ stamp[q] <= gap[q]
        BY <2>4, <2>7, <3>2 DEF StaleInv
      <4>2. q \in staleJob'.left => q \in staleJob.left
        BY <1>3
      <4>3. staleJob # None
        BY <1>1 DEF StaleJobs
      <4>4. q \in staleJob.left => Cooldown + a <= gap[q]
        BY <1>2, <2>7, <4>3 DEF StaleInv
      <4>. QED  BY <4>1, <4>2, <4>4
    <3>. QED  BY <3>1, <3>2
  <2>. QED  BY <1>3, <1>6, <2>3, <2>7 DEF StaleInv
<1>7. CASE staleFaults < MaxFaults /\ staleFaults' = staleFaults + 1 /\ UNCHANGED <<stamp, gap>>
  <2>1. staleFaults' \in 0..MaxFaults /\ staleFaults' # 0
    BY <1>7, LiveAssumption DEF StaleInv, Stale!TypeOK
  <2>2. Stale!TypeOK'
    BY <1>1, <1>3, <1>7, <2>1 DEF StaleInv, Stale!TypeOK, StaleJobs
  <2>. QED  BY <2>1, <2>2 DEF StaleInv
<1>. QED  BY <1>2, <1>4, <1>6, <1>7 DEF Stale!AlertAdmins

LEMMA StaleEnds == ASSUME StaleInv, Stale!EndRun \/ Stale!Restart  PROVE StaleInv'
<1>. USE StaleAssumption, LiveAssumption
<1>1. CASE Stale!EndRun
  BY <1>1 DEF StaleInv, Stale!TypeOK, Stale!EndRun
<1>2. CASE Stale!Restart
  <2>1. staleFaults' \in 0..MaxFaults /\ staleFaults' # 0
    BY <1>2 DEF StaleInv, Stale!TypeOK, Stale!Restart
  <2>2. Stale!TypeOK'
    BY <1>2, <2>1 DEF StaleInv, Stale!TypeOK, Stale!Restart
  <2>. QED  BY <2>1, <2>2 DEF StaleInv
<1>. QED  BY <1>1, <1>2

\* Time goes on for the stamp, the alert and the run alike.
LEMMA StaleTick == ASSUME StaleInv, Stale!Tick  PROVE StaleInv'
<1>. USE StaleAssumption
<1>1. /\ stamp \in [Routes -> 0..Cooldown] /\ gap \in [Routes -> 0..Stale!LongAgo]
      /\ silent \in [Routes -> 0..Threshold] /\ staleJob \in StaleJobs \union {None}
      /\ staleTrigger' = TRUE
      /\ UNCHANGED <<driving, admins, staleFaults>>
  BY DEF StaleInv, Stale!TypeOK, Stale!Tick, StaleJobs
<1>2. \A r \in Routes :
          /\ stamp'[r] = IF stamp[r] < Cooldown THEN stamp[r] + 1 ELSE Cooldown
          /\ gap'[r] = IF gap[r] < Stale!LongAgo THEN gap[r] + 1 ELSE Stale!LongAgo
  BY DEF Stale!Tick, Stale!Later
<1>3. /\ stamp' \in [Routes -> 0..Cooldown] /\ gap' \in [Routes -> 0..Stale!LongAgo]
      /\ silent' \in [Routes -> 0..Threshold]
  <2>1. Stale!LongAgo \in Nat
    BY DEF Stale!LongAgo
  <2>2. stamp' \in [Routes -> 0..Cooldown]
    BY <1>1 DEF Stale!Tick, Stale!Later
  <2>3. gap' \in [Routes -> 0..Stale!LongAgo]
    BY <1>1, <2>1 DEF Stale!Tick, Stale!Later
  <2>4. silent' \in [Routes -> 0..Threshold]
    BY <1>1 DEF Stale!Tick, Stale!Later
  <2>. QED  BY <2>2, <2>3, <2>4
<1>4. ASSUME staleJob # None
      PROVE  /\ staleJob' \in StaleJobs /\ staleJob'.left = staleJob.left
             /\ staleJob.age \in 0..(MaxRun - 1) /\ staleJob'.age = staleJob.age + 1
  <2>1. /\ staleJob \in StaleJobs /\ staleJob.age < MaxRun
        /\ staleJob' = [staleJob EXCEPT !.age = @ + 1]
    BY <1>1, <1>4 DEF Stale!Tick
  <2>. QED  BY <2>1 DEF StaleJobs
<1>5. staleJob = None => staleJob' = None
  BY DEF Stale!Tick
<1>6. Stale!TypeOK'
  BY <1>1, <1>3, <1>4, <1>5 DEF StaleInv, Stale!TypeOK, StaleJobs
<1>7. ASSUME staleFaults = 0, NEW r \in Routes  PROVE stamp'[r] <= gap'[r]
  <2>1. stamp[r] <= gap[r] /\ stamp[r] \in 0..Cooldown /\ gap[r] \in 0..Stale!LongAgo
    BY <1>1, <1>7 DEF StaleInv
  <2>. QED  BY <1>2, <2>1 DEF Stale!LongAgo
<1>8. ASSUME staleFaults = 0, NEW r \in Routes, staleJob' # None, r \in staleJob'.left
      PROVE  Cooldown + staleJob'.age <= gap'[r]
  <2>1. /\ Cooldown + staleJob.age <= gap[r] /\ gap[r] \in 0..Stale!LongAgo
        /\ staleJob.age \in 0..(MaxRun - 1) /\ staleJob'.age = staleJob.age + 1
    BY <1>1, <1>4, <1>5, <1>8 DEF StaleInv
  <2>. QED  BY <1>2, <2>1 DEF Stale!LongAgo
<1>. QED  BY <1>1, <1>6, <1>7, <1>8 DEF StaleInv

LEMMA StaleNext == ASSUME StaleInv, Stale!Next \/ UNCHANGED staleVars  PROVE StaleInv'
<1>1. CASE Stale!Next
  BY <1>1, StaleOutside, StaleStartRun, StaleAlert, StaleEnds, StaleTick
     DEF Stale!Next, Stale!Run
<1>2. CASE UNCHANGED staleVars
  BY <1>2 DEF StaleInv, Stale!TypeOK, staleVars
<1>. QED  BY <1>1, <1>2

-----------------------------------------------------------------------------
\* Every variable holds what it may, and a passenger is told of the arrival at most
\* as often as requests of the driver were handled at a time (_run_geofence_check).
THEOREM ArrivalsToldOnce == Spec => []ArrivalsBounded
<1>1. Init => LiveInv /\ MapInv /\ NodeInv /\ StaleInv
  BY LiveInit, StaleInit DEF Init
<1>2. LiveInv /\ MapInv /\ NodeInv /\ StaleInv /\ [Next]_vars
          => (LiveInv /\ MapInv /\ NodeInv /\ StaleInv)'
  BY LiveNext, LiveFrame, StaleNext DEF Next, vars
<1>3. LiveInv /\ StaleInv => ArrivalsBounded
  <2>. SUFFICES ASSUME LiveInv, StaleInv, NEW b \in Live!Rows  PROVE told[b] <= peak
    BY DEF ArrivalsBounded, Live!ArrivalsBounded, LiveInv, StaleInv
  <2>1. Telling(b) \in SUBSET Live!Slots
    BY DEF Telling
  <2>2. Cardinality(Telling(b)) \in Nat
    BY <2>1, CountSlots
  <2>. QED  BY <2>2, LiveAssumption DEF LiveInv, Live!TypeOK
<1>. QED  BY <1>1, <1>2, <1>3, PTL DEF Spec

\* A driver off duty is off the map once the tasks of the requests are done, when
\* they were done one request at a time (sync and clear_driver_location_from_firebase).
THEOREM OffDutyOffTheMap == Spec => []OffTheMap
<1>1. Init => LiveInv /\ MapInv /\ NodeInv
  BY LiveInit DEF Init
<1>2. LiveInv /\ MapInv /\ NodeInv /\ [Next]_vars => (LiveInv /\ MapInv /\ NodeInv)'
  BY LiveNext, LiveFrame DEF Next, vars
<1>3. MapInv => OffTheMap
  BY DEF MapInv, OffTheMap, Live!OffTheMap, Live!Quiet, Busy
<1>. QED  BY <1>1, <1>2, <1>3, PTL DEF Spec

\* Until a restart or an error, two alerts of a route come from checks that are the
\* cooldown apart, however long each run lasts (check_stale_drivers).
THEOREM AlertsKeepTheCooldown == Spec => AlertsSpaced
<1>1. Init => StaleInv
  BY StaleInit DEF Init
<1>2. StaleInv /\ [Next]_vars => StaleInv'
  BY StaleNext DEF Next, vars
<1>3. StaleInv /\ StaleInv' /\ [Next]_vars
          => [\A r \in Routes :
                  staleFaults' = 0 /\ Stale!Alerted(r) => gap[r] >= Cooldown + staleJob.age]_(Stale!vars)
  <2>. SUFFICES ASSUME StaleInv, [Next]_vars, NEW r \in Routes, staleFaults' = 0,
                       Stale!Alerted(r)
                PROVE  gap[r] >= Cooldown + staleJob.age
    OBVIOUS
  <2>1. staleFaults = 0
    <3>1. staleFaults' = staleFaults \/ staleFaults' = staleFaults + 1
      BY DEF Next, vars, staleVars, Stale!Next, Stale!Run, Stale!StartDuty, Stale!Ping,
             Stale!EndDuty, Stale!AdminsComeAndGo, Stale!StartRun, Stale!EndRun,
             Stale!AlertAdmins, Stale!Restart, Stale!Tick
    <3>2. staleFaults \in 0..MaxFaults
      BY DEF StaleInv, Stale!TypeOK
    <3>. QED  BY <3>1, <3>2, LiveAssumption
  <2>2. staleJob # None /\ r \in staleJob.left /\ staleJob \in StaleJobs
    BY DEF Stale!Alerted, StaleInv, Stale!TypeOK, StaleJobs
  <2>3. Cooldown + staleJob.age <= gap[r] /\ gap[r] \in 0..Stale!LongAgo
    BY <2>1, <2>2 DEF StaleInv, Stale!TypeOK
  <2>. QED  BY <2>2, <2>3, StaleAssumption DEF StaleJobs, Stale!LongAgo
<1>. QED  BY <1>1, <1>2, <1>3, PTL DEF Spec, AlertsSpaced, Stale!AlertsSpaced
====
