----------------------------- MODULE SlabTable ------------------------------
(***************************************************************************)
(* The rates of a contract: slabs of kilometres, edited one at a time by   *)
(* requests that run in worker threads, and the cost of a route that is    *)
(* computed from them.  A request writes its slab, validates the chain of  *)
(* active slabs as its transaction sees it, and commits.                   *)
(***************************************************************************)
EXTENDS Integers, FiniteSets, SequencesExt

CONSTANTS
    Slabs,
    RateOf,      \* of each slab
    MaxKm,       \* bound: kilometres
    MaxEdits,    \* bound: requests under way
    Open,        \* the end of a slab that has none
    None

VARIABLES slabs, edits, overlapped
vars == <<slabs, edits, overlapped>>

InRange(min, max) == max = Open \/ max > min
Rows == {s \in [min : 0..MaxKm, max : 1..MaxKm \union {Open}, active : BOOLEAN] :
             InRange(s.min, s.max)}
\* An edit leaves a slab with a row, or without one.
Edit == [id : Slabs, new : Rows \union {None}]

\* The rows obey the constraints of the table.
TypeOK ==
    /\ slabs \in [Slabs -> Rows \union {None}]
    /\ \A s, q \in Slabs : slabs[s] # None /\ slabs[q] # None /\ slabs[s].min = slabs[q].min => s = q
    /\ edits \subseteq Edit
    /\ overlapped \in BOOLEAN

Init ==
    /\ slabs = [s \in Slabs |-> None]
    /\ edits = {}
    /\ overlapped = FALSE

-----------------------------------------------------------------------------
\* The active slabs in the order of their first kilometre.
Active(table) == {s \in Slabs : table[s] # None /\ table[s].active}
InOrder(table) ==
    CHOOSE order \in [1..Cardinality(Active(table)) -> Active(table)] :
        \A i, j \in DOMAIN order : i < j => table[order[i]].min < table[order[j]].min

\* validate_active_slab_chain
Chained(table) ==
    LET order == InOrder(table)
    IN  /\ order # <<>> => table[order[1]].min = 0
        /\ \A i \in 2..Len(order) : table[order[i - 1]].max = table[order[i]].min

\* A slab whose row another request has written is waited for, and so is a first
\* kilometre that it has taken.
Clear(e) ==
    \A f \in edits : f.id # e.id /\ (e.new # None /\ f.new # None => e.new.min # f.new.min)
Unique(e) ==
    e.new # None => \A s \in Slabs \ {e.id} : slabs[s] # None => slabs[s].min # e.new.min

Validated(e) ==
    LET table == [slabs EXCEPT ![e.id] = e.new]
    IN  Chained(table) /\ (Active(table) = {} => e.new = None)

Flush(e) ==
    /\ Cardinality(edits) < MaxEdits
    /\ Clear(e) /\ Unique(e) /\ Validated(e)
    /\ edits' = edits \union {e}
    /\ overlapped' = (overlapped \/ edits # {})
    /\ UNCHANGED slabs

CreateContractSlab(s, row) == slabs[s] = None /\ Flush([id |-> s, new |-> row])
UpdateContractSlab(s, row) == slabs[s] \notin {None, row} /\ Flush([id |-> s, new |-> row])
DeleteContractSlab(s)      == slabs[s] # None /\ Flush([id |-> s, new |-> None])

Commit(e) ==
    /\ slabs' = [slabs EXCEPT ![e.id] = e.new]
    /\ edits' = edits \ {e}
    /\ UNCHANGED overlapped

Next ==
    \/ \E s \in Slabs, row \in Rows : CreateContractSlab(s, row) \/ UpdateContractSlab(s, row)
    \/ \E s \in Slabs : DeleteContractSlab(s)
    \/ \E e \in edits : Commit(e)

Spec == Init /\ [][Next]_vars

-----------------------------------------------------------------------------
\* _calculate_progressive_cost: slab after slab until no distance is left.
Least(a, b) == IF a < b THEN a ELSE b
Used(sum, s) == IF slabs[s].max = Open THEN sum.remaining
                ELSE Least(sum.remaining, slabs[s].max - slabs[s].min)

Add(sum, s) ==
    [remaining |-> sum.remaining - Used(sum, s),
     cost |-> sum.cost + Used(sum, s) * RateOf[s],
     covered |-> IF slabs[s].max = Open THEN sum.distance ELSE slabs[s].max,
     distance |-> sum.distance,
     gap |-> FALSE]

\* Mutant: gaps are not looked for.
AddOverGap(sum, s) == IF sum.remaining = 0 THEN sum ELSE Add(sum, s)

AddSlab(sum, s) ==
    IF sum.remaining = 0 \/ sum.gap      THEN sum
    ELSE IF slabs[s].min # sum.covered   THEN [sum EXCEPT !.gap = TRUE]
    ELSE Add(sum, s)

CalculateProgressiveCost(distance) ==
    FoldLeft(AddSlab, [remaining |-> distance, cost |-> 0, covered |-> 0,
                       distance |-> distance, gap |-> FALSE], InOrder(slabs))

Refused(sum) == sum.gap \/ sum.remaining > 0

\* Kilometre by kilometre: each at the rate of the first slab that reaches it.
Covering(km) == {s \in Active(slabs) : slabs[s].min <= km /\ (slabs[s].max = Open \/ km < slabs[s].max)}
FirstOver(km) == CHOOSE s \in Covering(km) : \A q \in Covering(km) : slabs[s].min <= slabs[q].min
ByKilometre(distance) ==
    MapThenSumSet(LAMBDA km : RateOf[FirstOver(km)], 0..(distance - 1))

\* A cost that is computed is exact: every kilometre is in a slab and paid at its
\* rate, also where edits that overlapped have torn the chain (a kilometre that
\* is in two slabs by then is paid in the first).
QuoteExact ==
    \A distance \in 1..(MaxKm + 1) :
        LET quote == CalculateProgressiveCost(distance)
        IN  ~Refused(quote) =>
                /\ \A km \in 0..(distance - 1) : Covering(km) # {}
                /\ quote.cost = ByKilometre(distance)

\* Edits that do not overlap leave a table that answers for every distance up to
\* the end of its last slab.
TableAnswers ==
    ~overlapped /\ Active(slabs) # {} =>
        \A distance \in 1..(MaxKm + 1) :
            Refused(CalculateProgressiveCost(distance)) =>
                \A s \in Active(slabs) : slabs[s].max # Open /\ slabs[s].max < distance
=============================================================================
