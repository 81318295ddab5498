------------------------- MODULE BookingDesk_proofs --------------------------
(***************************************************************************)
(* For any number of employees, shifts, concurrent requests and rows: a    *)
(* routed booking keeps its shift, and whoever does not stray has one row  *)
(* in a slot.                                                              *)
(***************************************************************************)
EXTENDS BookingDesk, FiniteSetTheorems, SequenceTheorems, TLAPS

Updating(c) == call[c].op = "update"

\* The event loop is in one update_booking call at most, and the booking of it
\* was not routed since it was read.
LoopInv ==
    /\ \A c, k \in Calls : Updating(c) /\ Updating(k) => c = k
    /\ \A c \in Calls : Updating(c) => rows[call[c].id].status # "SCHEDULED"

DeskInv == TypeOK /\ LoopInv

\* One request at a time is about an employee who did not stray, and the slot that
\* it is about to take is free.
InTurn ==
    \A e \in Employees \ strayed, c \in Calls, k \in Calls :
        e \in About(call[c]) /\ e \in About(call[k]) => c = k

TakesFree ==
    \A e \in Employees \ strayed, c \in Calls :
        call[c].op = "insert" /\ e \in About(call[c]) =>
            \E s \in Shifts : call[c].slots = <<<<e, s>>>> /\ InSlot(e, s) = {}

MovesFree ==
    \A c \in Calls :
        Updating(c) =>
            \/ rows[call[c].id].employee \in strayed
            \/ call[c].shift = rows[call[c].id].shift
            \/ InSlot(rows[call[c].id].employee, call[c].shift) = {}

SlotInv == OneRowPerSlot /\ InTurn /\ TakesFree /\ MovesFree

LEMMA InitDesk == Init => DeskInv /\ SlotInv
<1>. SUFFICES ASSUME Init PROVE DeskInv /\ SlotInv
  OBVIOUS
<1>1. TypeOK
  <2>1. rows \in Seq(Row) /\ strayed \subseteq Employees
    <3>1. rows \in Seq(Row)
      BY EmptySeq DEF Init
    <3>2. strayed \subseteq Employees
      BY DEF Init
    <3>. QED  BY <3>1, <3>2
  <2>2. Idle \in Call
    BY Zenon DEF Call
  <2>3. call \in [Calls -> Call]
    BY <2>2 DEF Init
  <2>4. \A c \in Calls : call[c].op \notin {"cancel", "update"}
    BY DEF Init, Idle
  <2>. QED  BY <2>1, <2>3, <2>4 DEF TypeOK
<1>2. \A c \in Calls : call[c] = Idle /\ call[c].op = "idle"
  BY DEF Init, Idle
<1>3. Ids = {}
  BY DEF Init, Ids
<1>4. \A c \in Calls : About(call[c]) = {}
  BY <1>2 DEF About
<1>. QED  BY <1>1, <1>2, <1>3, <1>4
          DEF DeskInv, LoopInv, SlotInv, OneRowPerSlot, InTurn, TakesFree, MovesFree, Updating

-----------------------------------------------------------------------------
(* What a request holds                                                    *)

LEMMA CallFields ==
    ASSUME TypeOK, NEW c \in Calls
    PROVE  /\ call[c].op \in {"idle", "insert", "cancel", "update"}
           /\ call[c].op = "idle" <=> call[c] = Idle
           /\ call[c].op = "insert" => call[c].slots \in Seq(Slots)
           /\ call[c].op \in {"cancel", "update"} => call[c].id \in Ids
           /\ call[c].op = "update" => call[c].shift \in Shifts
<1>1. call[c] \in Call
  BY DEF TypeOK
<1>. QED  BY <1>1 DEF TypeOK, Call, Idle

LEMMA RowFields ==
    ASSUME TypeOK, NEW i \in Ids
    PROVE  /\ rows[i] \in Row
           /\ rows[i].employee \in Employees /\ rows[i].shift \in Shifts
           /\ rows[i].status \in Status
<1>1. rows[i] \in Row
  BY DEF TypeOK, Ids
<1>. QED  BY <1>1 DEF Row

\* What a request is about does not change as long as rows keep their employees.
LEMMA AboutKept ==
    ASSUME TypeOK, NEW c \in Calls, call'[c] = call[c],
           \A i \in Ids : rows'[i].employee = rows[i].employee
    PROVE  About(call[c])' = About(call[c])
<1>1. call[c].op \in {"cancel", "update"} => rows'[call[c].id].employee = rows[call[c].id].employee
  BY CallFields
<1>. QED  BY <1>1 DEF About

LEMMA AboutIdle == About(Idle) = {}
BY DEF About, Idle

\* What is left of the rows by a step that changes one of them.
LEMMA ChangeRow ==
    ASSUME TypeOK, NEW i \in Ids, NEW new \in Row, rows' = [rows EXCEPT ![i] = new]
    PROVE  /\ rows' \in Seq(Row) /\ Ids' = Ids
           /\ \A j \in Ids : rows'[j] = IF j = i THEN new ELSE rows[j]
  BY DEF TypeOK, Ids

LEMMA InsertRows ==
    ASSUME TypeOK, NEW c \in Calls, InsertCommit(c)
    PROVE  /\ rows' \in Seq(Row) /\ Ids \subseteq Ids'
           /\ \A i \in Ids : rows'[i] = rows[i]
           /\ \A i \in Ids' \ Ids : \E k \in DOMAIN call[c].slots :
                  /\ i = Len(rows) + k
                  /\ rows'[i].employee = call[c].slots[k][1]
                  /\ rows'[i].shift = call[c].slots[k][2]
<1>. DEFINE new == [k \in DOMAIN call[c].slots |->
                      [employee |-> call[c].slots[k][1], shift |-> call[c].slots[k][2],
                       status |-> "REQUEST"]]
<1>1. call[c].slots \in Seq(Slots) /\ rows' = rows \o new
  BY CallFields DEF InsertCommit
<1>2. \A k \in DOMAIN call[c].slots : new[k] \in Row
  BY <1>1 DEF Slots, Row, Status
<1>3. new \in Seq(Row) /\ Len(new) = Len(call[c].slots)
  <2>1. Len(call[c].slots) \in Nat /\ DOMAIN call[c].slots = 1..Len(call[c].slots)
    BY <1>1
  <2>2. DOMAIN new = DOMAIN call[c].slots
    OBVIOUS
  <2>3. new \in [1..Len(call[c].slots) -> Row]
    BY <1>2, <2>1
  <2>. HIDE DEF new
  <2>. QED  BY <2>1, <2>2, <2>3
<1>4. rows \in Seq(Row)
  BY DEF TypeOK
<1>. HIDE DEF new
<1>5. /\ rows' \in Seq(Row) /\ Len(rows') = Len(rows) + Len(new)
      /\ \A i \in 1..(Len(rows) + Len(new)) :
             rows'[i] = IF i <= Len(rows) THEN rows[i] ELSE new[i - Len(rows)]
  BY <1>1, <1>3, <1>4, ConcatProperties
<1>6. \A k \in DOMAIN call[c].slots :
          new[k].employee = call[c].slots[k][1] /\ new[k].shift = call[c].slots[k][2]
  BY DEF new
<1>7. ASSUME NEW i \in Ids' \ Ids
      PROVE  \E k \in DOMAIN call[c].slots :
                  /\ i = Len(rows) + k
                  /\ rows'[i].employee = call[c].slots[k][1]
                  /\ rows'[i].shift = call[c].slots[k][2]
  <2>1. i \in 1..(Len(rows) + Len(new)) /\ i > Len(rows)
    BY <1>4, <1>5, <1>7 DEF Ids
  <2>2. i - Len(rows) \in DOMAIN call[c].slots
    BY <1>1, <1>3, <1>4, <2>1
  <2>. WITNESS i - Len(rows) \in DOMAIN call[c].slots
  <2>. QED  BY <1>4, <1>5, <1>6, <2>1, <2>2
<1>. QED  BY <1>4, <1>5, <1>7 DEF Ids

-----------------------------------------------------------------------------
(* A request decides                                                       *)

LEMMA DecideStep ==
    ASSUME DeskInv, SlotInv, NEW c \in Calls, NEW d \in Call, NEW usual \in BOOLEAN,
           Decide(c, d, usual), d.op # "idle",
           d.op \in {"cancel", "update"} => d.id \in Ids,
           d.op = "update" => LoopIdle /\ rows[d.id].status # "SCHEDULED",
           usual /\ d.op = "insert" => \E e \in Employees, s \in Shifts :
                                           d.slots = <<<<e, s>>>> /\ InSlot(e, s) = {},
           d.op = "update" =>
               d.shift = rows[d.id].shift \/ InSlot(rows[d.id].employee, d.shift) = {}
    PROVE  DeskInv' /\ SlotInv'
<1>1. /\ TypeOK /\ call[c] = Idle /\ rows' = rows
      /\ strayed' = strayed \union
             {e \in About(d) : ~usual \/ \E k \in Calls \ {c} : e \in About(call[k])}
      /\ call' = [call EXCEPT ![c] = d]
  BY DEF Decide, DeskInv
<1>2. Ids' = Ids /\ \A e, s : InSlot(e, s)' = InSlot(e, s)
  BY <1>1 DEF Ids, InSlot
<1>3. call'[c] = d /\ \A k \in Calls \ {c} : call'[k] = call[k]
  BY <1>1 DEF TypeOK
<1>4. TypeOK'
  <2>1. call' \in [Calls -> Call]
    BY <1>1 DEF TypeOK
  <2>2. strayed' \subseteq Employees
    BY <1>1 DEF TypeOK, About
  <2>. QED  BY <1>1, <1>2, <1>3, <2>1, <2>2 DEF TypeOK
<1>5. LoopInv'
  BY <1>1, <1>3 DEF LoopInv, DeskInv, LoopIdle, Updating
<1>6. /\ About(call[c])' = About(d)
      /\ \A k \in Calls \ {c} : About(call[k])' = About(call[k])
  BY <1>1, <1>3 DEF About
<1>7. SlotInv'
  <2>1. OneRowPerSlot'
    BY <1>1, <1>2 DEF SlotInv, OneRowPerSlot
  <2>2. InTurn'
    <3>. SUFFICES ASSUME NEW e \in Employees \ strayed', NEW k \in Calls, NEW l \in Calls,
                         e \in About(call[k])', e \in About(call[l])'
                  PROVE  k = l
      BY DEF InTurn
    <3>1. e \notin strayed /\ (e \in About(d) => \A m \in Calls \ {c} : e \notin About(call[m]))
      BY <1>1
    <3>. QED  BY <1>6, <3>1 DEF SlotInv, InTurn
  <2>3. TakesFree'
    <3>. SUFFICES ASSUME NEW e \in Employees \ strayed', NEW k \in Calls,
                         call'[k].op = "insert", e \in About(call[k])'
                  PROVE  \E s \in Shifts : call'[k].slots = <<<<e, s>>>> /\ InSlot(e, s)' = {}
      BY DEF TakesFree
    <3>1. CASE k = c
      <4>1. usual /\ d.op = "insert" /\ e \in About(d)
        BY <1>1, <1>3, <1>6, <3>1
      <4>2. PICK x \in Employees, s \in Shifts : d.slots = <<<<x, s>>>> /\ InSlot(x, s) = {}
        BY <4>1
      <4>3. e = x
        BY <4>1, <4>2 DEF About
      <4>. QED  BY <1>2, <1>3, <3>1, <4>2, <4>3
    <3>2. CASE k # c
      <4>1. PICK s \in Shifts : call[k].slots = <<<<e, s>>>> /\ InSlot(e, s) = {}
        BY <1>1, <1>3, <1>6, <3>2 DEF SlotInv, TakesFree
      <4>. QED  BY <1>2, <1>3, <3>2, <4>1
    <3>. QED  BY <3>1, <3>2
  <2>4. MovesFree'
    <3>. SUFFICES ASSUME NEW k \in Calls, call'[k].op = "update"
                  PROVE  \/ rows[call'[k].id].employee \in strayed'
                         \/ call'[k].shift = rows[call'[k].id].shift
                         \/ InSlot(rows[call'[k].id].employee, call'[k].shift) = {}
      BY <1>1, <1>2 DEF MovesFree, Updating
    <3>1. CASE k = c
      BY <1>3, <3>1
    <3>2. CASE k # c
      BY <1>1, <1>3, <3>2 DEF SlotInv, MovesFree, Updating
    <3>. QED  BY <3>1, <3>2
  <2>. QED  BY <2>1, <2>2, <2>3, <2>4 DEF SlotInv
<1>. QED  BY <1>4, <1>5, <1>7 DEF DeskInv

LEMMA CreateStep ==
    ASSUME DeskInv, SlotInv, NEW c \in Calls, NEW e \in Employees, NEW s \in Shifts,
           CreateRead(c, e, s)
    PROVE  DeskInv' /\ SlotInv'
<1>. DEFINE d == [op |-> "insert", slots |-> <<<<e, s>>>>]
<1>1. <<e, s>> \in Slots
  BY DEF Slots
<1>2. d \in Call
  BY <1>1 DEF Call
<1>3. Decide(c, d, TRUE) /\ InSlot(e, s) = {}
  BY DEF CreateRead
<1>. QED  BY <1>2, <1>3, DecideStep

LEMMA BulkStep ==
    ASSUME DeskInv, SlotInv, NEW c \in Calls, NEW E \in SUBSET Employees, NEW s \in Shifts,
           BulkRead(c, E, s)
    PROVE  DeskInv' /\ SlotInv'
<1>. DEFINE free == {e \in E : Active(InSlot(e, s)) = {}}
<1>1. PICK q \in SetToSeqs(free \X {s}) : Decide(c, [op |-> "insert", slots |-> q], FALSE)
  BY DEF BulkRead
<1>2. IsFiniteSet(free \X {s})
  <2>1. free \in SUBSET Employees /\ IsFiniteSet(Employees)
    BY DeskAssumption
  <2>. HIDE DEF free
  <2>2. IsFiniteSet(free)
    BY <2>1, FS_Subset
  <2>3. IsFiniteSet({s})
    BY FS_Singleton
  <2>. QED  BY <2>2, <2>3, FS_Product
<1>3. q \in Seq(Slots)
  <2>1. Cardinality(free \X {s}) \in Nat
    BY <1>2, FS_CardinalityType
  <2>2. q \in [1..Cardinality(free \X {s}) -> free \X {s}]
    BY DEF SetToSeqs
  <2>3. free \X {s} \subseteq Slots
    BY DEF Slots
  <2>. HIDE DEF free
  <2>. QED  BY <2>1, <2>2, <2>3
<1>4. [op |-> "insert", slots |-> q] \in Call
  BY <1>3 DEF Call
<1>. QED  BY <1>1, <1>4, DecideStep

LEMMA CancelReadStep ==
    ASSUME DeskInv, SlotInv, NEW c \in Calls, NEW i \in Ids, CancelRead(c, i)
    PROVE  DeskInv' /\ SlotInv'
<1>1. i \in Nat
  BY DEF DeskInv, TypeOK, Ids
<1>2. [op |-> "cancel", id |-> i] \in Call
  BY <1>1 DEF Call
<1>. QED  BY <1>2, DecideStep DEF CancelRead

LEMMA UpdateReadStep ==
    ASSUME DeskInv, SlotInv, NEW c \in Calls, NEW i \in Ids, NEW s \in Shifts,
           UpdateRead(c, i, s)
    PROVE  DeskInv' /\ SlotInv'
<1>. DEFINE d == [op |-> "update", id |-> i, shift |-> s, status |-> rows[i].status]
<1>1. i \in Nat
  BY DEF DeskInv, TypeOK, Ids
<1>2. d \in Call
  BY <1>1 DEF Call, UpdateRead
<1>. QED  BY <1>2, DecideStep DEF UpdateRead

-----------------------------------------------------------------------------
(* A request commits                                                       *)

\* The request is over; the others hold what they held.
LEMMA Finish ==
    ASSUME TypeOK, NEW c \in Calls, call' = [call EXCEPT ![c] = Idle]
    PROVE  /\ call' \in [Calls -> Call]
           /\ call'[c] = Idle /\ call'[c].op = "idle"
           /\ \A k \in Calls \ {c} : call'[k] = call[k]
  BY DEF TypeOK, Call, Idle

LEMMA InsertStep ==
    ASSUME DeskInv, SlotInv, NEW c \in Calls, InsertCommit(c)
    PROVE  DeskInv' /\ SlotInv'
<1>1. TypeOK /\ call[c].op = "insert" /\ strayed' = strayed
      /\ call' = [call EXCEPT ![c] = Idle]
  BY DEF DeskInv, InsertCommit
<1>2. /\ rows' \in Seq(Row) /\ Ids \subseteq Ids'
      /\ \A i \in Ids : rows'[i] = rows[i]
  BY <1>1, InsertRows
<1>3. /\ call' \in [Calls -> Call]
      /\ call'[c] = Idle /\ call'[c].op = "idle"
      /\ \A k \in Calls \ {c} : call'[k] = call[k]
  BY <1>1, Finish
<1>4. \A k \in Calls : call[k].op \in {"cancel", "update"} => call[k].id \in Ids
  BY <1>1, CallFields
<1>5. TypeOK'
  <2>1. \A k \in Calls : call'[k].op \in {"cancel", "update"} => call'[k].id \in Ids'
    BY <1>2, <1>3, <1>4
  <2>. QED  BY <1>1, <1>2, <1>3, <2>1 DEF TypeOK
<1>6. LoopInv'
  BY <1>2, <1>3, <1>4 DEF LoopInv, DeskInv, Updating
<1>7. /\ About(call[c])' = {}
      /\ \A k \in Calls \ {c} : About(call[k])' = About(call[k])
  BY <1>1, <1>2, <1>3, AboutKept DEF About
<1>8. \A i \in Ids' \ Ids : rows'[i].employee \in Employees /\ rows'[i].employee \in About(call[c])
  <2>. SUFFICES ASSUME NEW i \in Ids' \ Ids
                PROVE  rows'[i].employee \in Employees /\ rows'[i].employee \in About(call[c])
    OBVIOUS
  <2>1. rows'[i] \in Row
    BY <1>2 DEF Ids
  <2>2. \E k \in DOMAIN call[c].slots : rows'[i].employee = call[c].slots[k][1]
    BY <1>1, InsertRows
  <2>. QED  BY <1>1, <2>1, <2>2 DEF Row, About
\* The slot of an employee who did not stray is free, and taken once.
<1>9. ASSUME NEW e \in Employees \ strayed, e \in About(call[c])
      PROVE  \E s \in Shifts :
                 /\ \A i \in Ids : ~(rows[i].employee = e /\ rows[i].shift = s)
                 /\ \A i \in Ids' \ Ids :
                        i = Len(rows) + 1 /\ rows'[i].employee = e /\ rows'[i].shift = s
  <2>1. PICK s \in Shifts : call[c].slots = <<<<e, s>>>> /\ InSlot(e, s) = {}
    BY <1>1, <1>9 DEF SlotInv, TakesFree
  <2>2. DOMAIN call[c].slots = {1} /\ call[c].slots[1][1] = e /\ call[c].slots[1][2] = s
    BY <2>1
  <2>3. \A i \in Ids' \ Ids :
            i = Len(rows) + 1 /\ rows'[i].employee = e /\ rows'[i].shift = s
    BY <1>1, <2>2, InsertRows
  <2>4. \A i \in Ids : ~(rows[i].employee = e /\ rows[i].shift = s)
    BY <2>1 DEF InSlot
  <2>. QED  BY <2>3, <2>4
<1>10. SlotInv'
  <2>1. OneRowPerSlot'
    <3>. SUFFICES ASSUME NEW i \in Ids', NEW j \in Ids',
                         rows'[i].employee = rows'[j].employee,
                         rows'[i].shift = rows'[j].shift, rows'[i].employee \notin strayed
                  PROVE  i = j
      BY <1>1 DEF OneRowPerSlot
    <3>1. CASE i \in Ids /\ j \in Ids
      BY <1>2, <3>1 DEF SlotInv, OneRowPerSlot
    <3>2. CASE i \notin Ids \/ j \notin Ids
      <4>1. PICK e : e = rows'[i].employee
        OBVIOUS
      <4>2. e \in Employees \ strayed /\ e \in About(call[c])
        BY <1>8, <3>2, <4>1
      <4>3. PICK s \in Shifts :
                /\ \A m \in Ids : ~(rows[m].employee = e /\ rows[m].shift = s)
                /\ \A m \in Ids' \ Ids :
                       m = Len(rows) + 1 /\ rows'[m].employee = e /\ rows'[m].shift = s
        BY <1>9, <4>2
      <4>. QED  BY <1>2, <3>2, <4>1, <4>3
    <3>. QED  BY <3>1, <3>2
  <2>2. InTurn'
    BY <1>1, <1>7 DEF SlotInv, InTurn
  <2>3. ASSUME NEW k \in Calls \ {c}, NEW e \in Employees \ strayed, e \in About(call[k]), NEW s
        PROVE  InSlot(e, s)' = InSlot(e, s)
    <3>1. e \notin About(call[c])
      BY <2>3 DEF SlotInv, InTurn
    <3>2. \A i \in Ids' : rows'[i].employee = e => i \in Ids
      <4>. SUFFICES ASSUME NEW i \in Ids' \ Ids, rows'[i].employee = e PROVE FALSE
        OBVIOUS
      <4>. QED  BY <1>8, <3>1
    <3>. QED  BY <1>2, <3>2 DEF InSlot
  <2>4. TakesFree'
    <3>. SUFFICES ASSUME NEW e \in Employees \ strayed, NEW k \in Calls,
                         call'[k].op = "insert", e \in About(call[k])'
                  PROVE  \E s \in Shifts : call'[k].slots = <<<<e, s>>>> /\ InSlot(e, s)' = {}
      BY <1>1 DEF TakesFree
    <3>1. k # c /\ call'[k] = call[k] /\ e \in About(call[k])
      BY <1>3, <1>7
    <3>2. PICK s \in Shifts : call[k].slots = <<<<e, s>>>> /\ InSlot(e, s) = {}
      BY <3>1 DEF SlotInv, TakesFree
    <3>3. InSlot(e, s)' = InSlot(e, s)
      BY <2>3, <3>1
    <3>. QED  BY <3>1, <3>2, <3>3
  <2>5. MovesFree'
    <3>. SUFFICES ASSUME NEW k \in Calls, call'[k].op = "update",
                         NEW e, NEW s, e = rows'[call'[k].id].employee, s = call'[k].shift,
                         e \notin strayed, s # rows'[call'[k].id].shift
                  PROVE  InSlot(e, s)' = {}
      BY <1>1 DEF MovesFree, Updating
    <3>1. k # c /\ call'[k] = call[k] /\ call[k].id \in Ids
      BY <1>3, <1>4
    <3>2. rows'[call[k].id] = rows[call[k].id] /\ e \in Employees
      BY <1>1, <1>2, <3>1, RowFields
    <3>3. e \in Employees \ strayed /\ e \in About(call[k]) /\ InSlot(e, s) = {}
      BY <3>1, <3>2 DEF About, SlotInv, MovesFree, Updating
    <3>4. InSlot(e, s)' = InSlot(e, s)
      BY <2>3, <3>1, <3>3
    <3>. QED  BY <3>3, <3>4
  <2>. QED  BY <2>1, <2>2, <2>4, <2>5 DEF SlotInv
<1>. QED  BY <1>5, <1>6, <1>10 DEF DeskInv

LEMMA CancelStep ==
    ASSUME DeskInv, SlotInv, NEW c \in Calls, CancelCommit(c)
    PROVE  DeskInv' /\ SlotInv'
<1>. DEFINE i == call[c].id
            new == [rows[i] EXCEPT !.status = "CANCELLED"]
<1>1. TypeOK /\ call[c].op = "cancel" /\ strayed' = strayed
      /\ call' = [call EXCEPT ![c] = Idle]
      /\ rows' = [rows EXCEPT ![i].status = "CANCELLED"]
  BY DEF DeskInv, CancelCommit
<1>2. i \in Ids
  BY <1>1, CallFields
<1>3. new \in Row /\ new.employee = rows[i].employee /\ new.shift = rows[i].shift
      /\ new.status = "CANCELLED"
  BY <1>1, <1>2, RowFields DEF Row, Status
<1>4. rows' = [rows EXCEPT ![i] = new]
  BY <1>1
<1>. HIDE DEF new
<1>5. /\ rows' \in Seq(Row) /\ Ids' = Ids
      /\ \A j \in Ids : rows'[j] = IF j = i THEN new ELSE rows[j]
  BY <1>1, <1>2, <1>3, <1>4, ChangeRow
<1>6. \A j \in Ids : rows'[j].employee = rows[j].employee /\ rows'[j].shift = rows[j].shift
  BY <1>3, <1>5
<1>7. \A e, s : InSlot(e, s)' = InSlot(e, s)
  BY <1>5, <1>6 DEF InSlot
<1>8. /\ call' \in [Calls -> Call]
      /\ call'[c] = Idle /\ call'[c].op = "idle"
      /\ \A k \in Calls \ {c} : call'[k] = call[k]
  BY <1>1, Finish
<1>9. \A k \in Calls : call[k].op \in {"cancel", "update"} => call[k].id \in Ids
  BY <1>1, CallFields
<1>10. TypeOK'
  <2>1. \A k \in Calls : call'[k].op \in {"cancel", "update"} => call'[k].id \in Ids'
    BY <1>5, <1>8, <1>9
  <2>. QED  BY <1>1, <1>5, <1>8, <2>1 DEF TypeOK
<1>11. LoopInv'
  BY <1>3, <1>5, <1>8, <1>9 DEF LoopInv, DeskInv, Updating
<1>12. SlotInv'
  <2>1. OneRowPerSlot'
    BY <1>1, <1>5, <1>6 DEF SlotInv, OneRowPerSlot
  <2>2. /\ About(call[c])' = {}
        /\ \A k \in Calls \ {c} : About(call[k])' = About(call[k])
    BY <1>1, <1>6, <1>8, AboutKept DEF About
  <2>3. InTurn'
    BY <1>1, <2>2 DEF SlotInv, InTurn
  <2>4. TakesFree'
    BY <1>1, <1>7, <1>8, <2>2 DEF SlotInv, TakesFree
  <2>5. MovesFree'
    BY <1>1, <1>6, <1>7, <1>8, <1>9 DEF SlotInv, MovesFree, Updating
  <2>. QED  BY <2>1, <2>3, <2>4, <2>5 DEF SlotInv
<1>. QED  BY <1>10, <1>11, <1>12 DEF DeskInv

LEMMA UpdateStep ==
    ASSUME DeskInv, SlotInv, NEW c \in Calls, UpdateCommit(c)
    PROVE  DeskInv' /\ SlotInv'
<1>. DEFINE i == call[c].id
            new == [rows[i] EXCEPT !.shift = call[c].shift,
                                   !.status = IF call[c].status = "CANCELLED" THEN "REQUEST"
                                              ELSE @]
<1>1. TypeOK /\ call[c].op = "update" /\ strayed' = strayed
      /\ call' = [call EXCEPT ![c] = Idle]
      /\ rows' = [rows EXCEPT ![i] = new]
  <2>1. rows' = [rows EXCEPT ![i] = new]
    <3>1. i \in Ids /\ rows[i] \in Row /\ rows \in Seq(Row)
      BY CallFields, RowFields DEF DeskInv, TypeOK, UpdateCommit
    <3>. QED  BY <3>1 DEF UpdateCommit, Row, Ids
  <2>. QED  BY <2>1 DEF DeskInv, UpdateCommit
<1>2. i \in Ids /\ call[c].shift \in Shifts
  BY <1>1, CallFields
<1>3. new \in Row /\ new.employee = rows[i].employee /\ new.shift = call[c].shift
  BY <1>1, <1>2, RowFields DEF Row, Status
<1>. HIDE DEF new
<1>4. /\ rows' \in Seq(Row) /\ Ids' = Ids
      /\ \A j \in Ids : rows'[j] = IF j = i THEN new ELSE rows[j]
  BY <1>1, <1>2, <1>3, ChangeRow
<1>5. /\ call' \in [Calls -> Call]
      /\ call'[c] = Idle /\ call'[c].op = "idle"
      /\ \A k \in Calls \ {c} : call'[k] = call[k]
  BY <1>1, Finish
<1>6. \A k \in Calls : ~Updating(k)'
  BY <1>1, <1>5 DEF DeskInv, LoopInv, Updating
<1>7. TypeOK'
  <2>1. \A k \in Calls : call'[k].op \in {"cancel", "update"} => call'[k].id \in Ids'
    BY <1>1, <1>4, <1>5, CallFields
  <2>. QED  BY <1>1, <1>4, <1>5, <2>1 DEF TypeOK
<1>8. LoopInv'
  BY <1>6 DEF LoopInv
<1>9. SlotInv'
  <2>1. \/ rows[i].employee \in strayed
        \/ \A j \in Ids \ {i} : ~(rows[j].employee = new.employee /\ rows[j].shift = new.shift)
    <3>1. \/ rows[i].employee \in strayed
          \/ call[c].shift = rows[i].shift
          \/ InSlot(rows[i].employee, call[c].shift) = {}
      BY <1>1 DEF SlotInv, MovesFree, Updating
    <3>. QED  BY <1>2, <1>3, <3>1 DEF SlotInv, OneRowPerSlot, InSlot
  <2>2. OneRowPerSlot'
    BY <1>1, <1>2, <1>3, <1>4, <2>1 DEF SlotInv, OneRowPerSlot
  <2>3. /\ About(call[c])' = {}
        /\ \A k \in Calls \ {c} : About(call[k])' = About(call[k])
    BY <1>1, <1>3, <1>4, <1>5, AboutKept DEF About
  <2>4. InTurn'
    BY <1>1, <2>3 DEF SlotInv, InTurn
  <2>5. TakesFree'
    <3>. SUFFICES ASSUME NEW e \in Employees \ strayed, NEW k \in Calls,
                         call'[k].op = "insert", e \in About(call[k])'
                  PROVE  \E s \in Shifts : call'[k].slots = <<<<e, s>>>> /\ InSlot(e, s)' = {}
      BY <1>1 DEF TakesFree
    <3>1. k # c /\ call'[k] = call[k] /\ e \in About(call[k])
      BY <1>5, <2>3
    <3>2. PICK s \in Shifts : call[k].slots = <<<<e, s>>>> /\ InSlot(e, s) = {}
      BY <3>1 DEF SlotInv, TakesFree
    <3>3. rows[i].employee # e
      BY <1>1, <3>1 DEF SlotInv, InTurn, About
    <3>4. InSlot(e, s)' = InSlot(e, s)
      BY <1>3, <1>4, <3>3 DEF InSlot
    <3>. QED  BY <3>1, <3>2, <3>4
  <2>6. MovesFree'
    BY <1>6 DEF MovesFree
  <2>. QED  BY <2>2, <2>4, <2>5, <2>6 DEF SlotInv
<1>. QED  BY <1>7, <1>8, <1>9 DEF DeskInv

LEMMA RouteStep ==
    ASSUME DeskInv, SlotInv, NEW i \in Ids, Route(i)
    PROVE  DeskInv' /\ SlotInv'
<1>. DEFINE new == [rows[i] EXCEPT !.status = IF @ = "REQUEST" THEN "SCHEDULED" ELSE "REQUEST"]
<1>1. TypeOK /\ LoopIdle /\ call' = call /\ strayed' = strayed
      /\ rows' = [rows EXCEPT ![i] = new]
  BY DEF DeskInv, Route
<1>2. new \in Row /\ new.employee = rows[i].employee /\ new.shift = rows[i].shift
  BY <1>1, RowFields DEF Row, Status
<1>. HIDE DEF new
<1>3. /\ rows' \in Seq(Row) /\ Ids' = Ids
      /\ \A j \in Ids : rows'[j] = IF j = i THEN new ELSE rows[j]
  BY <1>1, <1>2, ChangeRow
<1>4. \A j \in Ids : rows'[j].employee = rows[j].employee /\ rows'[j].shift = rows[j].shift
  BY <1>2, <1>3
<1>5. \A e, s : InSlot(e, s)' = InSlot(e, s)
  BY <1>3, <1>4 DEF InSlot
<1>6. TypeOK'
  BY <1>1, <1>3 DEF TypeOK
<1>7. \A k \in Calls : ~Updating(k) /\ ~Updating(k)'
  BY <1>1 DEF LoopIdle, Updating
<1>8. SlotInv'
  <2>1. OneRowPerSlot'
    BY <1>1, <1>3, <1>4 DEF SlotInv, OneRowPerSlot
  <2>2. \A k \in Calls : About(call[k])' = About(call[k])
    BY <1>1, <1>4, AboutKept
  <2>3. InTurn' /\ TakesFree'
    BY <1>1, <1>5, <2>2 DEF SlotInv, InTurn, TakesFree
  <2>4. MovesFree'
    BY <1>7 DEF MovesFree
  <2>. QED  BY <2>1, <2>3, <2>4 DEF SlotInv
<1>. QED  BY <1>6, <1>7, <1>8 DEF DeskInv, LoopInv

LEMMA DeskStep == DeskInv /\ SlotInv /\ [Next]_vars => DeskInv' /\ SlotInv'
<1>. SUFFICES ASSUME DeskInv, SlotInv, [Next]_vars PROVE DeskInv' /\ SlotInv'
  OBVIOUS
<1>1. CASE UNCHANGED vars
  BY <1>1 DEF vars, DeskInv, TypeOK, LoopInv, SlotInv, OneRowPerSlot, InTurn, TakesFree, MovesFree,
             About, Updating, Ids, InSlot
<1>2. CASE Next
  BY <1>2, CreateStep, BulkStep, CancelReadStep, UpdateReadStep, InsertStep, CancelStep,
     UpdateStep, RouteStep DEF Next
<1>. QED  BY <1>1, <1>2

LEMMA DeskSafe == Spec => [](DeskInv /\ SlotInv)
BY InitDesk, DeskStep, PTL DEF Spec

-----------------------------------------------------------------------------
\* The table and the requests hold what they may, and a request names rows that
\* are there.
THEOREM DeskTypes == Spec => []TypeOK
<1>1. DeskInv /\ SlotInv => TypeOK
  BY DEF DeskInv
<1>. QED  BY <1>1, DeskSafe, PTL

\* The checks of create_booking and update_booking keep one row for an employee and
\* a shift, unless requests about this employee overlap or a bulk booking took them
\* in.
THEOREM OneRow == Spec => []OneRowPerSlot
<1>1. DeskInv /\ SlotInv => OneRowPerSlot
  BY DEF SlotInv
<1>. QED  BY <1>1, DeskSafe, PTL

\* However calls overlap, update_booking moves no booking that is on a route.
THEOREM ShiftKept == Spec => RoutedKeepsShift
<1>. DEFINE Kept == \A i \in Ids : rows[i].status = "SCHEDULED" => rows'[i].shift = rows[i].shift
<1>1. DeskInv /\ SlotInv /\ [Next]_vars => [Kept]_vars
  <2>. SUFFICES ASSUME DeskInv, Next, NEW j \in Ids, rows[j].status = "SCHEDULED"
                PROVE  rows'[j].shift = rows[j].shift
    BY DEF vars
  <2>0. TypeOK
    BY DEF DeskInv
  <2>1. CASE rows' = rows
    BY <2>1
  <2>2. ASSUME NEW c \in Calls, InsertCommit(c) PROVE rows'[j].shift = rows[j].shift
    BY <2>0, <2>2, InsertRows
  <2>3. ASSUME NEW c \in Calls, CancelCommit(c) PROVE rows'[j].shift = rows[j].shift
    <3>1. rows[j] \in Row
      BY <2>0, RowFields
    <3>2. rows' = [rows EXCEPT ![call[c].id].status = "CANCELLED"]
      BY <2>3 DEF CancelCommit
    <3>. QED  BY <2>0, <3>1, <3>2 DEF Row, TypeOK, Ids
  <2>4. ASSUME NEW c \in Calls, UpdateCommit(c) PROVE rows'[j].shift = rows[j].shift
    <3>1. call[c].id # j
      BY <2>4 DEF UpdateCommit, DeskInv, LoopInv, Updating
    <3>. QED  BY <2>0, <2>4, <3>1 DEF UpdateCommit, TypeOK, Ids
  <2>5. ASSUME NEW i \in Ids, Route(i) PROVE rows'[j].shift = rows[j].shift
    <3>1. rows[j] \in Row
      BY <2>0, RowFields
    <3>. QED  BY <2>0, <2>5, <3>1 DEF Route, Row, TypeOK, Ids
  <2>. QED  BY <2>1, <2>2, <2>3, <2>4, <2>5
            DEF Next, CreateRead, BulkRead, CancelRead, UpdateRead, Decide
<1>. QED  BY <1>1, DeskSafe, PTL DEF Spec, RoutedKeepsShift
=============================================================================
