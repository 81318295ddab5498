-------------------------- MODULE MasterCache_proofs --------------------------
(***************************************************************************)
(* Proofs about the cache of Office, for any number of threads, versions,  *)
(* lifetimes of the key and errors of Redis.                               *)
(***************************************************************************)
EXTENDS Office, TLAPS

\* What a call that is still to fill the key, to drop it or to end its insert has left to do.
Fills == {<<"keep">>, <<"drop", "keep">>, <<"keep", "commit">>, <<"keep", "rollback">>}
Drops == {<<"row", "drop", "keep">>, <<"drop", "keep">>, <<"drop">>}

Filling(t)  == readers[t] # None /\ readers[t].todo \in Fills
Dropping(t) == readers[t] # None /\ readers[t].todo \in Drops

\* A version is as old as the time since it was replaced; what a call is about to
\* fill was current when the call began, and what the key holds when it was filled.
Aged ==
    /\ \A v \in Cache!Versions : v >= row => since[v] = 0
    /\ \A t \in Calls : Filling(t) => /\ readers[t].val # Cache!Absent
                                      /\ since[readers[t].val] <= readers[t].age
    /\ cache # None => since[cache.val] + cache.left <= Ttl + MaxCall

\* While there is no row, one call at most holds the default row that it inserted,
\* and nothing but the default row is known.
Inserting ==
    /\ stored = (row # Cache!Absent)
    /\ \A t \in Calls : Cache!Inserted(t) => row = Cache!Absent
    /\ \A t, u \in Calls : Cache!Inserted(t) /\ Cache!Inserted(u) => t = u
    /\ row = Cache!Absent =>
           /\ cache # None => cache.val = Cache!Default
           /\ \A t \in Calls : Filling(t) => readers[t].val = Cache!Default

\* One call after the other: an old version in the key is about to be dropped.
InTurn ==
    ~raced /\ ~unannounced /\ cacheFaults = 0 =>
        /\ \A t, u \in Calls : readers[t] # None /\ readers[u] # None => t = u
        /\ row # Cache!Absent =>
               /\ \A t \in Calls : Filling(t) => readers[t].val = row
               /\ cache # None /\ cache.val # row => \E t \in Calls : Dropping(t)

CacheInv == Cache!TypeOK /\ Aged /\ Inserting /\ InTurn

LEMMA CacheConstants ==
    /\ None \notin Cache!Call /\ None \notin Cache!Entry
    /\ Ttl \in Nat \ {0} /\ MaxVersion \in Nat \ {0, 1} /\ MaxCall \in Nat /\ MaxFaults \in Nat
    /\ 0 \in 0..MaxCall /\ 0 \in 0..MaxFaults /\ 0 \in 0..Cache!Longest
    /\ Cache!Absent \in Cache!Versions /\ Cache!Default \in Cache!Versions
    /\ Cache!Absent # Cache!Default
<1>. USE CacheAssumption
<1>1. MaxVersion \in Nat \ {0, 1} /\ MaxCall \in Nat /\ MaxFaults \in Nat /\ Ttl \in Nat \ {0}
  OBVIOUS
<1>. HIDE CacheAssumption
<1>2. 0 \in 0..MaxCall /\ 0 \in 0..MaxFaults /\ 0 \in 0..Cache!Longest
  BY <1>1 DEF Cache!Longest
<1>3. /\ Cache!Absent \in Cache!Versions /\ Cache!Default \in Cache!Versions
      /\ Cache!Absent # Cache!Default
  BY <1>1 DEF Cache!Absent, Cache!Default, Cache!Versions
<1>. QED  BY <1>1, <1>2, <1>3, CacheAssumption

\* What a step of a call leaves to do.
LEMMA PlanSteps ==
    /\ \A p \in Cache!Plans : p # <<>>
    /\ \A p \in Cache!Plans : Head(p) = "row" =>
           \/ p = <<"row", "keep">> /\ Tail(p) = <<"keep">>
           \/ p = <<"row", "drop", "keep">> /\ Tail(p) = <<"drop", "keep">>
    /\ \A p \in Cache!Plans : Head(p) = "drop" =>
           \/ p = <<"drop", "keep">> /\ Tail(p) = <<"keep">>
           \/ p = <<"drop">> /\ Tail(p) = <<>>
    /\ \A p \in Cache!Plans : Head(p) = "keep" =>
           \/ p = <<"keep">> /\ Tail(p) = <<>>
           \/ p = <<"keep", "commit">> /\ Tail(p) = <<"commit">>
           \/ p = <<"keep", "rollback">> /\ Tail(p) = <<"rollback">>
    /\ \A p \in Cache!Plans : Head(p) = "commit" => p = <<"commit">> /\ Tail(p) = <<>>
    /\ \A p \in Cache!Plans : Head(p) = "rollback" => p = <<"rollback">> /\ Tail(p) = <<>>
    /\ \A p \in Cache!Plans : Head(p) = "ensure" => p = <<"ensure">>
BY DEF Cache!Plans

Ends == {<<"keep", "commit">>, <<"keep", "rollback">>, <<"commit">>, <<"rollback">>}

LEMMA InsertedEnds ==
    \A t \in Calls : Cache!Inserted(t) <=> readers[t] # None /\ readers[t].todo \in Ends
BY DEF Cache!Inserted, Ends

\* Which plans fill, drop and end what.
LEMMA PlanKinds ==
    /\ Fills \subseteq Cache!Plans /\ Drops \subseteq Cache!Plans /\ Ends \subseteq Cache!Plans
    /\ {<<"row", "keep">>, <<"row", "drop", "keep">>, <<"drop">>, <<"ensure">>} \subseteq Cache!Plans
    /\ {<<"row", "keep">>, <<"row", "drop", "keep">>, <<"drop">>, <<"ensure">>,
        <<"commit">>, <<"rollback">>} \intersect Fills = {}
    /\ {<<"row", "keep">>, <<"row", "drop", "keep">>, <<"drop">>, <<"ensure">>,
        <<"keep">>, <<"drop", "keep">>} \intersect Ends = {}
    /\ {<<"row", "keep">>, <<"ensure">>, <<"keep">>, <<"commit">>, <<"rollback">>,
        <<"keep", "commit">>, <<"keep", "rollback">>} \intersect Drops = {}
BY DEF Cache!Plans, Fills, Drops, Ends

LEMMA CacheInit == Cache!Init => CacheInv
<1>. SUFFICES ASSUME Cache!Init  PROVE CacheInv
  OBVIOUS
<1>. USE CacheConstants
<1>1. /\ row \in Cache!Versions /\ stored = (row # Cache!Absent)
      /\ cache = None /\ \A t \in Calls : readers[t] = None
      /\ \A v \in Cache!Versions : since[v] = 0
  BY DEF Cache!Init
<1>2. Cache!TypeOK
  BY <1>1 DEF Cache!Init, Cache!TypeOK
<1>. QED  BY <1>1, <1>2 DEF CacheInv, Aged, Inserting, InTurn, Filling, Cache!Inserted

\* A call that begins: it reads the row first, or drops the key, or is over.
Firsts == {<<"row", "keep">>, <<"row", "drop", "keep">>, <<"drop">>, <<>>}

LEMMA CacheBegin ==
    ASSUME CacheInv, NEW t \in Calls, NEW todo \in Firsts, NEW creates \in BOOLEAN,
           Cache!Begin(t, todo, creates)
    PROVE  /\ readers' \in [Calls -> Cache!Call \union {None}] /\ raced' \in BOOLEAN
           /\ \A u \in Calls : /\ Filling(u)' <=> Filling(u)
                               /\ Cache!Inserted(u)' <=> Cache!Inserted(u)
                               /\ Filling(u) => readers'[u] = readers[u]
           /\ todo \in Drops => Dropping(t)'
           /\ ~raced' => /\ ~raced
                         /\ \A u \in Calls : readers[u] = None /\ (readers'[u] # None => u = t)
<1>. USE CacheConstants
<1>1. readers \in [Calls -> Cache!Call \union {None}] /\ readers[t] = None /\ raced \in BOOLEAN
  BY DEF CacheInv, Cache!TypeOK, Cache!Begin
<1>2. raced' = (raced \/ \E u \in Calls \ {t} : readers[u] # None)
  BY DEF Cache!Begin, Cache!Busy
<1>3. CASE todo = <<>>
  <2>1. readers' = readers
    BY <1>3 DEF Cache!Begin
  <2>2. todo \notin Drops
    BY <1>3, PlanKinds, PlanSteps
  <2>. QED  BY <1>1, <1>2, <2>1, <2>2 DEF Filling, Cache!Inserted
<1>4. CASE todo # <<>>
  <2>1. PICK c : c = [todo |-> todo, val |-> Cache!Absent, age |-> 0, creates |-> creates]
    OBVIOUS
  <2>2. readers' = [readers EXCEPT ![t] = c]
    BY <1>4, <2>1 DEF Cache!Begin
  <2>3. c \in Cache!Call /\ c.todo = todo /\ c # None
    <3>1. todo \in Cache!Plans
      BY <1>4, PlanKinds DEF Firsts
    <3>2. c \in Cache!Call /\ c.todo = todo
      BY <2>1, <3>1 DEF Cache!Call
    <3>. QED  BY <3>2
  <2>4. todo \notin Fills /\ todo \notin Ends
    BY <1>4, PlanKinds DEF Firsts
  <2>5. \A u \in Calls : readers'[u] = IF u = t THEN c ELSE readers[u]
    BY <1>1, <2>2
  <2>6. readers' \in [Calls -> Cache!Call \union {None}]
    BY <1>1, <2>2, <2>3
  <2>7. \A u \in Calls : (Filling(u)' <=> Filling(u)) /\ (Filling(u) => readers'[u] = readers[u])
    BY <1>1, <2>3, <2>4, <2>5 DEF Filling
  <2>8. \A u \in Calls : Cache!Inserted(u)' <=> Cache!Inserted(u)
    BY <1>1, <2>3, <2>4, <2>5 DEF Cache!Inserted, Ends
  <2>9. todo \in Drops => Dropping(t)'
    BY <2>3, <2>5 DEF Dropping
  <2>. QED  BY <1>1, <1>2, <2>5, <2>6, <2>7, <2>8, <2>9
<1>. QED  BY <1>3, <1>4

\* A lookup that misses.
LEMMA CacheLookUp ==
    ASSUME CacheInv, NEW t \in Calls, NEW creates \in BOOLEAN,
           Cache!Begin(t, <<"row", "keep">>, creates),
           UNCHANGED <<entity, row, stored, since, cache, unannounced>>,
           cacheFaults' \in 0..MaxFaults, cacheFaults' = 0 => cacheFaults = 0
    PROVE  CacheInv'
<1>1. /\ readers' \in [Calls -> Cache!Call \union {None}] /\ raced' \in BOOLEAN
      /\ \A u \in Calls : /\ Filling(u)' <=> Filling(u)
                          /\ Cache!Inserted(u)' <=> Cache!Inserted(u)
                          /\ Filling(u) => readers'[u] = readers[u]
      /\ ~raced' => /\ ~raced
                    /\ \A u \in Calls : readers[u] = None /\ (readers'[u] # None => u = t)
  BY CacheBegin DEF Firsts
<1>2. Cache!TypeOK'
  BY <1>1 DEF CacheInv, Cache!TypeOK
<1>3. Aged' /\ Inserting'
  BY <1>1 DEF CacheInv, Aged, Inserting
<1>4. InTurn'
  BY <1>1 DEF CacheInv, InTurn, Dropping, Filling
<1>. QED  BY <1>2, <1>3, <1>4 DEF CacheInv

\* A commit of a new version, and the refresh or the drop that it begins.
LEMMA CacheCommit ==
    ASSUME CacheInv, NEW t \in Calls, NEW after \in Firsts, NEW v \in Cache!Versions,
           Cache!Begin(t, after, FALSE), row' = v, stored' = TRUE, v > row,
           row = Cache!Absent => Cache!MayInsert,
           (row = Cache!Absent /\ v = Cache!Default) \/ after \in Drops,
           UNCHANGED <<entity, since, cache, unannounced, cacheFaults>>
    PROVE  CacheInv'
<1>. USE CacheConstants
<1>1. /\ readers' \in [Calls -> Cache!Call \union {None}] /\ raced' \in BOOLEAN
      /\ \A u \in Calls : /\ Filling(u)' <=> Filling(u)
                          /\ Cache!Inserted(u)' <=> Cache!Inserted(u)
                          /\ Filling(u) => readers'[u] = readers[u]
      /\ after \in Drops => Dropping(t)'
      /\ ~raced' => /\ ~raced
                    /\ \A u \in Calls : readers[u] = None /\ (readers'[u] # None => u = t)
  BY CacheBegin
<1>2. Cache!TypeOK'
  BY <1>1 DEF CacheInv, Cache!TypeOK
<1>3. row \in Nat /\ v \in Nat /\ v # Cache!Absent
  BY DEF CacheInv, Cache!TypeOK, Cache!Versions, Cache!Absent
<1>4. \A u \in Cache!Versions : u >= v => u >= row
  BY <1>3 DEF Cache!Versions, Cache!Absent
<1>5. Aged'
  BY <1>1, <1>4 DEF CacheInv, Aged
<1>6. \A u \in Calls : ~Cache!Inserted(u)
  BY DEF CacheInv, Inserting, Cache!MayInsert
<1>7. Inserting'
  BY <1>1, <1>3, <1>6 DEF CacheInv, Inserting
<1>8. InTurn'
  BY <1>1 DEF CacheInv, InTurn, Inserting, Filling
<1>. QED  BY <1>2, <1>5, <1>7, <1>8 DEF CacheInv

\* What is done in one step, of a row that is there.
LEMMA CacheAtOnce ==
    ASSUME CacheInv, row # Cache!Absent, NEW v \in Cache!Versions, row' = v, v >= row,
           cache' \in {cache, None, [val |-> row, left |-> Ttl]},
           UNCHANGED <<entity, stored, since, readers>>,
           raced' \in BOOLEAN, unannounced' \in BOOLEAN, cacheFaults' \in 0..MaxFaults,
           ~raced' /\ ~unannounced' /\ cacheFaults' = 0 =>
               /\ \A t \in Calls : readers[t] = None
               /\ cache' # None => cache' = [val |-> v, left |-> Ttl]
    PROVE  CacheInv'
<1>. USE CacheConstants
<1>1. row \in Cache!Versions /\ row \in Nat /\ v \in Nat
  BY DEF CacheInv, Cache!TypeOK, Cache!Versions, Cache!Absent
<1>2. [val |-> row, left |-> Ttl] \in Cache!Entry
  BY <1>1 DEF Cache!Entry
<1>3. Cache!TypeOK'
  BY <1>2 DEF CacheInv, Cache!TypeOK
<1>4. \A u \in Cache!Versions : u >= v => u >= row
  BY <1>1 DEF Cache!Versions, Cache!Absent
<1>5. since[row] = 0
  BY <1>1 DEF CacheInv, Aged
<1>6. Aged'
  <2>1. cache' # None => since[cache'.val] + cache'.left <= Ttl + MaxCall
    BY <1>2, <1>5 DEF CacheInv, Aged
  <2>2. \A u \in Cache!Versions : u >= v => since[u] = 0
    BY <1>4 DEF CacheInv, Aged
  <2>3. \A t \in Calls : Filling(t)' => /\ readers[t].val # Cache!Absent
                                        /\ since[readers[t].val] <= readers[t].age
    BY DEF CacheInv, Aged, Filling
  <2>. QED  BY <2>1, <2>2, <2>3 DEF Aged
<1>7. v # Cache!Absent
  BY <1>1 DEF Cache!Absent
<1>8. \A u \in Calls : Cache!Inserted(u)' <=> Cache!Inserted(u)
  BY DEF Cache!Inserted
<1>9. Inserting'
  BY <1>7, <1>8 DEF CacheInv, Inserting
<1>10. InTurn'
  BY DEF InTurn, Filling
<1>. QED  BY <1>3, <1>6, <1>9, <1>10 DEF CacheInv

\* A call that goes on to what it has left to do, or ends.
LEMMA CacheProceed ==
    ASSUME CacheInv, NEW t \in Calls, readers[t] # None, NEW v \in Cache!Versions,
           NEW todo \in Cache!Plans \union {<<>>}, Tail(readers[t].todo) = todo,
           Cache!Proceed(t, v)
    PROVE  \E c \in Cache!Call \union {None} :
               /\ \A u \in Calls : readers'[u] = IF u = t THEN c ELSE readers[u]
               /\ readers' \in [Calls -> Cache!Call \union {None}]
               /\ IF todo = <<>> THEN c = None
                  ELSE c # None /\ c.todo = todo /\ c.val = v /\ c.age = readers[t].age
<1>. USE CacheConstants
<1>1. readers \in [Calls -> Cache!Call \union {None}] /\ readers[t] \in Cache!Call
  BY DEF CacheInv, Cache!TypeOK
<1>2. CASE todo = <<>>
  <2>1. readers' = [readers EXCEPT ![t] = None]
    BY <1>2 DEF Cache!Proceed, Cache!Left
  <2>. QED  BY <1>1, <1>2, <2>1
<1>3. CASE todo # <<>>
  <2>1. PICK c : c = [readers[t] EXCEPT !.todo = todo, !.val = v]
    OBVIOUS
  <2>2. c \in Cache!Call /\ c.todo = todo /\ c.val = v /\ c.age = readers[t].age
    BY <1>1, <1>3, <2>1 DEF Cache!Call
  <2>3. readers' = [readers EXCEPT ![t] = c]
    BY <1>3, <2>1 DEF Cache!Proceed, Cache!Left
  <2>. QED  BY <1>1, <1>3, <2>2, <2>3
<1>. QED  BY <1>2, <1>3

LEMMA CacheReadRow ==
    ASSUME CacheInv, NEW t \in Calls, Cache!ReadRow(t)
    PROVE  CacheInv'
<1>. USE CacheConstants
<1>1. /\ readers \in [Calls -> Cache!Call \union {None}] /\ readers[t] \in Cache!Call
      /\ readers[t] # None /\ Head(readers[t].todo) = "row" /\ row \in Cache!Versions
      /\ readers[t].todo \in Cache!Plans
  BY DEF CacheInv, Cache!TypeOK, Cache!ReadRow, Cache!At, Cache!Call
<1>2. PICK p : p = readers[t].todo
  OBVIOUS
<1>3. /\ Tail(p) \in {<<"keep">>, <<"drop", "keep">>} /\ Tail(p) # <<>>
      /\ Tail(p) \in Cache!Plans /\ Tail(p) \notin Ends
      /\ p \notin Fills /\ p \notin Ends
      /\ p \in Drops => Tail(p) \in Drops
  <2>1. CASE p = <<"row", "keep">> /\ Tail(p) = <<"keep">>
    BY <2>1, PlanKinds, PlanSteps DEF Fills
  <2>2. CASE p = <<"row", "drop", "keep">> /\ Tail(p) = <<"drop", "keep">>
    BY <2>2, PlanKinds, PlanSteps DEF Fills, Drops
  <2>. QED  BY <1>1, <1>2, <2>1, <2>2, PlanSteps
<1>4. UNCHANGED <<entity, row, stored, since, cache, raced, unannounced, cacheFaults>>
  BY DEF Cache!ReadRow
<1>5. CASE row # Cache!Absent
  <2>1. PICK v, todo : v = row /\ todo = Tail(p)
    OBVIOUS
  <2>2. Cache!Proceed(t, v)
    BY <1>5, <2>1 DEF Cache!ReadRow
  <2>. /\ readers[t] # None /\ v \in Cache!Versions /\ Tail(readers[t].todo) = todo
       /\ todo \in Cache!Plans \union {<<>>} /\ todo # <<>>
    BY <1>1, <1>2, <1>3, <2>1
  <2>3. PICK c : /\ \A u \in Calls : readers'[u] = IF u = t THEN c ELSE readers[u]
                 /\ readers' \in [Calls -> Cache!Call \union {None}]
                 /\ c # None /\ c.todo = Tail(p) /\ c.val = row /\ c.age = readers[t].age
    <3>1. PICK c \in Cache!Call \union {None} :
              /\ \A u \in Calls : readers'[u] = IF u = t THEN c ELSE readers[u]
              /\ readers' \in [Calls -> Cache!Call \union {None}]
              /\ IF todo = <<>> THEN c = None
                 ELSE c # None /\ c.todo = todo /\ c.val = v /\ c.age = readers[t].age
      BY <2>2, CacheProceed
    <3>. QED  BY <2>1, <3>1
  <2>4. Cache!TypeOK'
    BY <1>4, <2>3 DEF CacheInv, Cache!TypeOK
  <2>5. since[row] = 0 /\ 0 <= readers[t].age
    BY <1>1 DEF CacheInv, Aged, Cache!Versions, Cache!Absent, Cache!Call
  <2>6. Aged'
    BY <1>4, <1>5, <2>3, <2>5 DEF CacheInv, Aged, Filling
  <2>7. \A u \in Calls : Cache!Inserted(u)' => Cache!Inserted(u)
    BY <1>3, <2>3, InsertedEnds DEF Cache!Inserted, Ends
  <2>8. Inserting'
    BY <1>4, <1>5, <2>7 DEF CacheInv, Inserting
  <2>9. InTurn'
    BY <1>1, <1>2, <1>3, <1>4, <2>3 DEF CacheInv, InTurn, Filling, Dropping
  <2>. QED  BY <2>4, <2>6, <2>8, <2>9 DEF CacheInv
<1>6. CASE row = Cache!Absent
  <2>1. PICK c \in Cache!Call \union {None} :
                 /\ readers' = [readers EXCEPT ![t] = c]
                 /\ c # None => c.todo = <<"ensure">>
    <3>1. CASE readers[t].creates
      <4>1. PICK c : c = [readers[t] EXCEPT !.todo = <<"ensure">>]
        OBVIOUS
      <4>2. c \in Cache!Call /\ c.todo = <<"ensure">>
        BY <1>1, <4>1, PlanKinds DEF Cache!Call
      <4>3. readers' = [readers EXCEPT ![t] = c]
        BY <1>6, <3>1, <4>1 DEF Cache!ReadRow
      <4>. QED  BY <4>2, <4>3
    <3>2. CASE ~readers[t].creates
      BY <1>6, <3>2 DEF Cache!ReadRow
    <3>. QED  BY <3>1, <3>2
  <2>2. /\ \A u \in Calls : readers'[u] = IF u = t THEN c ELSE readers[u]
        /\ readers' \in [Calls -> Cache!Call \union {None}]
    BY <1>1, <2>1
  <2>3. <<"ensure">> \notin Fills /\ <<"ensure">> \notin Ends
    BY PlanKinds
  <2>4. Cache!TypeOK'
    BY <1>4, <2>2 DEF CacheInv, Cache!TypeOK
  <2>5. \A u \in Calls : /\ Filling(u)' => Filling(u) /\ readers'[u] = readers[u]
                         /\ Cache!Inserted(u)' => Cache!Inserted(u)
    BY <2>1, <2>2, <2>3 DEF Filling, Cache!Inserted, Ends
  <2>6. Aged' /\ Inserting'
    BY <1>4, <2>5 DEF CacheInv, Aged, Inserting
  <2>7. InTurn'
    BY <1>1, <1>4, <1>6, <2>2 DEF CacheInv, InTurn
  <2>. QED  BY <2>4, <2>6, <2>7 DEF CacheInv
<1>. QED  BY <1>5, <1>6

LEMMA CacheEnsureRow ==
    ASSUME CacheInv, NEW t \in Calls, Cache!EnsureRow(t)
    PROVE  CacheInv'
<1>. USE CacheConstants
<1>1. /\ readers \in [Calls -> Cache!Call \union {None}] /\ readers[t] \in Cache!Call
      /\ readers[t] # None /\ row \in Cache!Versions
  BY DEF CacheInv, Cache!TypeOK, Cache!EnsureRow, Cache!At
<1>2. PICK v, todo :
          /\ IF row = Cache!Absent
             THEN v = Cache!Default /\ todo \in {<<"keep", "commit">>, <<"keep", "rollback">>}
             ELSE v = row /\ todo = <<"keep">>
          /\ readers' = [readers EXCEPT ![t].val = v, ![t].todo = todo]
  BY DEF Cache!EnsureRow
<1>3. PICK c : c = [readers[t] EXCEPT !.val = v, !.todo = todo]
  OBVIOUS
<1>4. todo \in Cache!Plans /\ todo \in Fills
  BY <1>2, PlanKinds DEF Fills
<1>5. c \in Cache!Call /\ c.val = v /\ c.todo = todo /\ c.age = readers[t].age /\ c # None
  BY <1>1, <1>2, <1>3, <1>4 DEF Cache!Call
<1>6. readers' = [readers EXCEPT ![t] = c]
  BY <1>1, <1>2, <1>3
<1>7. \A u \in Calls : readers'[u] = IF u = t THEN c ELSE readers[u]
  BY <1>1, <1>6
<1>8. UNCHANGED <<entity, row, stored, since, cache, raced, unannounced, cacheFaults>>
  BY DEF Cache!EnsureRow
<1>9. Cache!TypeOK'
  BY <1>1, <1>5, <1>6, <1>8 DEF CacheInv, Cache!TypeOK
<1>10. v # Cache!Absent /\ since[v] = 0 /\ 0 <= readers[t].age
  BY <1>1, <1>2 DEF CacheInv, Aged, Cache!Versions, Cache!Absent, Cache!Default, Cache!Call
<1>11. Aged'
  BY <1>4, <1>5, <1>7, <1>8, <1>10 DEF CacheInv, Aged, Filling
<1>12. CASE row = Cache!Absent
  <2>1. \A u \in Calls : ~Cache!Inserted(u)
    BY <1>12 DEF Cache!EnsureRow, Cache!MayInsert
  <2>2. \A u \in Calls : Cache!Inserted(u)' => u = t
    BY <1>7, <2>1 DEF Cache!Inserted
  <2>3. Inserting'
    BY <1>2, <1>5, <1>7, <1>8, <1>12, <2>2 DEF CacheInv, Inserting, Filling
  <2>4. InTurn'
    BY <1>1, <1>7, <1>8, <1>12 DEF CacheInv, InTurn
  <2>. QED  BY <1>9, <1>11, <2>3, <2>4 DEF CacheInv
<1>13. CASE row # Cache!Absent
  <2>1. \A u \in Calls : ~Cache!Inserted(u)
    BY <1>13 DEF CacheInv, Inserting
  <2>2. todo \notin Ends /\ <<"ensure">> \notin Drops
    BY <1>2, <1>13, PlanKinds
  <2>3. \A u \in Calls : ~Cache!Inserted(u)'
    BY <1>5, <1>7, <2>1, <2>2 DEF Cache!Inserted, Ends
  <2>4. Inserting'
    BY <1>8, <1>13, <2>3 DEF CacheInv, Inserting
  <2>5. ~Dropping(t)
    BY <1>1, <2>2, PlanSteps DEF Dropping, Cache!EnsureRow, Cache!At, Cache!Call
  <2>6. InTurn'
    BY <1>1, <1>2, <1>5, <1>7, <1>8, <1>13, <2>5 DEF CacheInv, InTurn, Filling, Dropping
  <2>. QED  BY <1>9, <1>11, <2>4, <2>6 DEF CacheInv
<1>. QED  BY <1>12, <1>13
LEMMA CacheDropKey ==
    ASSUME CacheInv, NEW t \in Calls, Cache!DropKey(t)
    PROVE  CacheInv'
<1>. USE CacheConstants
<1>1. /\ readers \in [Calls -> Cache!Call \union {None}] /\ readers[t] \in Cache!Call
      /\ readers[t] # None /\ Head(readers[t].todo) = "drop"
      /\ readers[t].todo \in Cache!Plans /\ readers[t].val \in Cache!Versions
  BY DEF CacheInv, Cache!TypeOK, Cache!DropKey, Cache!At, Cache!Call
<1>2. PICK p, todo, v : p = readers[t].todo /\ todo = Tail(p) /\ v = readers[t].val
  OBVIOUS
<1>3. /\ p \in Drops /\ todo \in Cache!Plans \union {<<>>}
      /\ p \notin Ends /\ todo \notin Ends
      /\ todo \in Fills => p \in Fills
  <2>1. CASE p = <<"drop", "keep">> /\ todo = <<"keep">>
    BY <2>1, PlanKinds, PlanSteps DEF Fills, Drops
  <2>2. CASE p = <<"drop">> /\ todo = <<>>
    BY <2>2, PlanKinds, PlanSteps DEF Fills, Drops
  <2>. QED  BY <1>1, <1>2, <2>1, <2>2, PlanSteps
<1>4. PICK c \in Cache!Call \union {None} :
          /\ \A u \in Calls : readers'[u] = IF u = t THEN c ELSE readers[u]
          /\ readers' \in [Calls -> Cache!Call \union {None}]
          /\ IF todo = <<>> THEN c = None
             ELSE c # None /\ c.todo = todo /\ c.val = v /\ c.age = readers[t].age
  <2>1. Cache!Proceed(t, v)
    BY <1>2 DEF Cache!DropKey
  <2>2. /\ readers[t] # None /\ v \in Cache!Versions /\ Tail(readers[t].todo) = todo
        /\ todo \in Cache!Plans \union {<<>>}
    BY <1>1, <1>2, <1>3
  <2>. QED  BY <2>1, <2>2, CacheProceed
<1>5. /\ UNCHANGED <<entity, row, stored, since, raced, unannounced>>
      /\ \/ cache' = None /\ cacheFaults' = cacheFaults
         \/ cache' = cache /\ cacheFaults < MaxFaults /\ cacheFaults' = cacheFaults + 1
  BY DEF Cache!DropKey, Cache!Swallowed
<1>6. Cache!TypeOK'
  BY <1>4, <1>5 DEF CacheInv, Cache!TypeOK
<1>7. \A u \in Calls : Filling(u)' => /\ Filling(u) /\ readers'[u].val = readers[u].val
                                      /\ readers'[u].age = readers[u].age
  BY <1>1, <1>2, <1>3, <1>4 DEF Filling
<1>8. \A u \in Calls : Cache!Inserted(u)' => Cache!Inserted(u)
  BY <1>3, <1>4 DEF Cache!Inserted, Ends
<1>9. Aged' /\ Inserting'
  BY <1>5, <1>7, <1>8 DEF CacheInv, Aged, Inserting
<1>10. cacheFaults' = 0 => cacheFaults = 0 /\ cache' = None
  BY <1>5 DEF CacheInv, Cache!TypeOK
<1>11. InTurn'
  BY <1>1, <1>4, <1>5, <1>7, <1>10 DEF CacheInv, InTurn
<1>. QED  BY <1>6, <1>9, <1>11 DEF CacheInv

LEMMA CacheKeepKey ==
    ASSUME CacheInv, NEW t \in Calls, Cache!KeepKey(t)
    PROVE  CacheInv'
<1>. USE CacheConstants
<1>1. /\ readers \in [Calls -> Cache!Call \union {None}] /\ readers[t] \in Cache!Call
      /\ readers[t] # None /\ Head(readers[t].todo) = "keep"
      /\ readers[t].todo \in Cache!Plans /\ readers[t].val \in Cache!Versions
  BY DEF CacheInv, Cache!TypeOK, Cache!KeepKey, Cache!At, Cache!Call
<1>2. PICK p, todo, v : p = readers[t].todo /\ todo = Tail(p) /\ v = readers[t].val
  OBVIOUS
<1>3. /\ p \in Fills /\ todo \in Cache!Plans \union {<<>>}
      /\ todo \notin Fills /\ (todo \in Ends => p \in Ends)
  <2>1. CASE p = <<"keep">> /\ todo = <<>>
    BY <2>1, PlanSteps DEF Fills, Cache!Plans, Ends
  <2>2. CASE p = <<"keep", "commit">> /\ todo = <<"commit">>
    BY <2>2, PlanKinds DEF Fills, Ends
  <2>3. CASE p = <<"keep", "rollback">> /\ todo = <<"rollback">>
    BY <2>3, PlanKinds DEF Fills, Ends
  <2>. QED  BY <1>1, <1>2, <2>1, <2>2, <2>3, PlanSteps
<1>4. PICK c \in Cache!Call \union {None} :
          /\ \A u \in Calls : readers'[u] = IF u = t THEN c ELSE readers[u]
          /\ readers' \in [Calls -> Cache!Call \union {None}]
          /\ IF todo = <<>> THEN c = None
             ELSE c # None /\ c.todo = todo /\ c.val = v /\ c.age = readers[t].age
  <2>1. Cache!Proceed(t, v)
    BY <1>2 DEF Cache!KeepKey
  <2>2. /\ readers[t] # None /\ v \in Cache!Versions /\ Tail(readers[t].todo) = todo
        /\ todo \in Cache!Plans \union {<<>>}
    BY <1>1, <1>2, <1>3
  <2>. QED  BY <2>1, <2>2, CacheProceed
<1>5. /\ UNCHANGED <<entity, row, stored, since, raced, unannounced>>
      /\ \/ cache' = [val |-> v, left |-> Ttl] /\ cacheFaults' = cacheFaults
         \/ cache' = cache /\ cacheFaults < MaxFaults /\ cacheFaults' = cacheFaults + 1
  BY <1>2 DEF Cache!KeepKey, Cache!Swallowed
<1>6. /\ v # Cache!Absent /\ since[v] <= readers[t].age /\ v \in Cache!Versions
      /\ since[v] \in Nat /\ readers[t].age \in 0..MaxCall
      /\ row = Cache!Absent => v = Cache!Default
  BY <1>1, <1>2, <1>3 DEF CacheInv, Aged, Inserting, Filling, Cache!TypeOK, Cache!Call
<1>7. [val |-> v, left |-> Ttl] \in Cache!Entry
  BY <1>6 DEF Cache!Entry
<1>8. Cache!TypeOK'
  BY <1>4, <1>5, <1>7 DEF CacheInv, Cache!TypeOK
<1>9. \A u \in Calls : /\ Filling(u)' => Filling(u) /\ readers'[u] = readers[u]
                       /\ Cache!Inserted(u)' => Cache!Inserted(u)
  <2>1. \A u \in Calls : Filling(u)' => Filling(u) /\ readers'[u] = readers[u]
    BY <1>3, <1>4 DEF Filling
  <2>2. Cache!Inserted(t)' => readers'[t] # None /\ readers'[t].todo \in Ends
    BY DEF Cache!Inserted, Ends
  <2>3. Cache!Inserted(t)' => Cache!Inserted(t)
    BY <1>1, <1>2, <1>3, <1>4, <2>2, InsertedEnds
  <2>4. \A u \in Calls \ {t} : Cache!Inserted(u)' => Cache!Inserted(u)
    BY <1>4 DEF Cache!Inserted
  <2>. QED  BY <2>1, <2>3, <2>4
<1>10. since[v] + Ttl <= Ttl + MaxCall
  BY <1>6
<1>11. Aged' /\ Inserting'
  BY <1>5, <1>6, <1>9, <1>10 DEF CacheInv, Aged, Inserting
<1>12. cacheFaults' = 0 => cacheFaults = 0 /\ cache' = [val |-> v, left |-> Ttl]
  BY <1>5 DEF CacheInv, Cache!TypeOK
<1>13. ~raced /\ ~unannounced /\ cacheFaults = 0 /\ row # Cache!Absent => v = row
  BY <1>1, <1>2, <1>3 DEF CacheInv, InTurn, Filling
<1>14. InTurn'
  BY <1>1, <1>4, <1>5, <1>9, <1>12, <1>13 DEF CacheInv, InTurn
<1>. QED  BY <1>8, <1>11, <1>14 DEF CacheInv

LEMMA CacheCommitDefault ==
    ASSUME CacheInv, NEW t \in Calls, Cache!CommitDefault(t)
    PROVE  CacheInv'
<1>. USE CacheConstants
<1>1. /\ readers \in [Calls -> Cache!Call \union {None}] /\ readers[t] \in Cache!Call
      /\ readers[t] # None /\ Head(readers[t].todo) = "commit"
      /\ readers[t].todo \in Cache!Plans /\ readers[t].val \in Cache!Versions
  BY DEF CacheInv, Cache!TypeOK, Cache!CommitDefault, Cache!At, Cache!Call
<1>2. PICK p, todo, v : p = readers[t].todo /\ todo = Tail(p) /\ v = Cache!Default
  OBVIOUS
<1>3. p = <<"commit">> /\ todo = <<>> /\ p \in Ends /\ p \notin Fills
  BY <1>1, <1>2, PlanSteps, PlanKinds DEF Ends
<1>4. PICK c \in Cache!Call \union {None} :
          /\ \A u \in Calls : readers'[u] = IF u = t THEN c ELSE readers[u]
          /\ readers' \in [Calls -> Cache!Call \union {None}]
          /\ IF todo = <<>> THEN c = None
             ELSE c # None /\ c.todo = todo /\ c.val = v /\ c.age = readers[t].age
  <2>1. Cache!Proceed(t, v)
    BY <1>2 DEF Cache!CommitDefault
  <2>2. /\ readers[t] # None /\ v \in Cache!Versions /\ Tail(readers[t].todo) = todo
        /\ todo \in Cache!Plans \union {<<>>}
    BY <1>1, <1>2, <1>3
  <2>. QED  BY <2>1, <2>2, CacheProceed
<1>5. /\ row' = Cache!Default /\ stored' = TRUE
      /\ UNCHANGED <<entity, since, cache, raced, unannounced, cacheFaults>>
  BY DEF Cache!CommitDefault
<1>6. Cache!TypeOK'
  BY <1>4, <1>5 DEF CacheInv, Cache!TypeOK
<1>7. Cache!Inserted(t) /\ row = Cache!Absent
  BY <1>1, <1>2, <1>3, InsertedEnds DEF CacheInv, Inserting
<1>8. \A u \in Calls : /\ Filling(u)' => Filling(u) /\ readers'[u] = readers[u]
                       /\ ~Cache!Inserted(u)'
  BY <1>3, <1>4, <1>7 DEF CacheInv, Inserting, Filling, Cache!Inserted
<1>9. \A u \in Cache!Versions : u >= Cache!Default => u >= row
  BY <1>7 DEF Cache!Versions, Cache!Default, Cache!Absent
<1>10. Aged' /\ Inserting'
  BY <1>5, <1>8, <1>9 DEF CacheInv, Aged, Inserting
<1>11. InTurn'
  BY <1>1, <1>3, <1>4, <1>5, <1>7, <1>8 DEF CacheInv, InTurn, Inserting
<1>. QED  BY <1>6, <1>10, <1>11 DEF CacheInv

LEMMA CacheRollBack ==
    ASSUME CacheInv, NEW t \in Calls, Cache!RollBack(t)
    PROVE  CacheInv'
<1>. USE CacheConstants
<1>1. /\ readers \in [Calls -> Cache!Call \union {None}] /\ readers[t] \in Cache!Call
      /\ readers[t] # None /\ Head(readers[t].todo) = "rollback"
      /\ readers[t].todo \in Cache!Plans /\ readers[t].val \in Cache!Versions
  BY DEF CacheInv, Cache!TypeOK, Cache!RollBack, Cache!At, Cache!Call
<1>2. PICK p, todo, v : p = readers[t].todo /\ todo = Tail(p) /\ v = Cache!Default
  OBVIOUS
<1>3. p = <<"rollback">> /\ todo = <<>> /\ p \in Ends /\ p \notin Fills
  BY <1>1, <1>2, PlanSteps, PlanKinds DEF Ends
<1>4. PICK c \in Cache!Call \union {None} :
          /\ \A u \in Calls : readers'[u] = IF u = t THEN c ELSE readers[u]
          /\ readers' \in [Calls -> Cache!Call \union {None}]
          /\ IF todo = <<>> THEN c = None
             ELSE c # None /\ c.todo = todo /\ c.val = v /\ c.age = readers[t].age
  <2>1. Cache!Proceed(t, v)
    BY <1>2 DEF Cache!RollBack
  <2>2. /\ readers[t] # None /\ v \in Cache!Versions /\ Tail(readers[t].todo) = todo
        /\ todo \in Cache!Plans \union {<<>>}
    BY <1>1, <1>2, <1>3
  <2>. QED  BY <2>1, <2>2, CacheProceed
<1>5. UNCHANGED <<entity, row, stored, since, cache, raced, unannounced, cacheFaults>>
  BY DEF Cache!RollBack
<1>6. Cache!TypeOK'
  BY <1>4, <1>5 DEF CacheInv, Cache!TypeOK
<1>7. row = Cache!Absent
  BY <1>1, <1>2, <1>3, InsertedEnds DEF CacheInv, Inserting
<1>8. \A u \in Calls : /\ Filling(u)' => Filling(u) /\ readers'[u] = readers[u]
                       /\ Cache!Inserted(u)' => Cache!Inserted(u)
  BY <1>3, <1>4 DEF Filling, Cache!Inserted
<1>9. Aged' /\ Inserting'
  BY <1>5, <1>8 DEF CacheInv, Aged, Inserting
<1>10. InTurn'
  BY <1>1, <1>3, <1>4, <1>5, <1>7 DEF CacheInv, InTurn
<1>. QED  BY <1>6, <1>9, <1>10 DEF CacheInv

LEMMA CacheTick == CacheInv /\ Cache!Tick => CacheInv'
<1>. SUFFICES ASSUME CacheInv, Cache!Tick  PROVE CacheInv'
  OBVIOUS
<1>. USE CacheConstants
<1>1. UNCHANGED <<entity, row, stored, raced, unannounced, cacheFaults>>
  BY DEF Cache!Tick
<1>2. /\ readers \in [Calls -> Cache!Call \union {None}]
      /\ since \in [Cache!Versions -> 0..Cache!Longest]
      /\ cache \in Cache!Entry \union {None}
      /\ row \in Cache!Versions
  BY DEF CacheInv, Cache!TypeOK
<1>3. \A t \in Calls :
          /\ readers'[t] \in Cache!Call \union {None}
          /\ readers[t] = None => readers'[t] = None
          /\ readers[t] # None => /\ readers'[t] # None
                                  /\ readers'[t].todo = readers[t].todo
                                  /\ readers'[t].val = readers[t].val
                                  /\ readers'[t].age = readers[t].age + 1
  <2>. SUFFICES ASSUME NEW t \in Calls
                PROVE  /\ readers'[t] \in Cache!Call \union {None}
                       /\ readers[t] = None => readers'[t] = None
                       /\ readers[t] # None => /\ readers'[t] # None
                                               /\ readers'[t].todo = readers[t].todo
                                               /\ readers'[t].val = readers[t].val
                                               /\ readers'[t].age = readers[t].age + 1
    OBVIOUS
  <2>1. CASE readers[t] = None
    BY <2>1 DEF Cache!Tick
  <2>2. CASE readers[t] # None
    <3>1. readers[t] \in Cache!Call /\ readers[t].age < MaxCall /\ readers[t].age \in 0..MaxCall
      BY <1>2, <2>2 DEF Cache!Tick, Cache!Call
    <3>2. readers[t].age + 1 \in 0..MaxCall
      BY <3>1
    <3>3. PICK c : c = [readers[t] EXCEPT !.age = readers[t].age + 1]
      OBVIOUS
    <3>4. readers'[t] = c
      BY <2>2, <3>3 DEF Cache!Tick
    <3>5. /\ c \in Cache!Call /\ c.todo = readers[t].todo /\ c.val = readers[t].val
          /\ c.age = readers[t].age + 1
      BY <3>1, <3>2, <3>3 DEF Cache!Call
    <3>. QED  BY <2>2, <3>4, <3>5
  <2>. QED  BY <2>1, <2>2
<1>4. readers' \in [Calls -> Cache!Call \union {None}]
  <2>1. readers' = [t \in Calls |-> readers'[t]]
    BY DEF Cache!Tick
  <2>. QED  BY <1>3, <2>1
<1>5. /\ since' \in [Cache!Versions -> 0..Cache!Longest]
      /\ \A v \in Cache!Versions : /\ v >= row => since'[v] = since[v]
                                   /\ since'[v] <= since[v] + 1
  <2>1. \A v \in Cache!Versions : since[v] \in 0..Cache!Longest /\ v \in Nat
    BY <1>2 DEF Cache!Versions, Cache!Absent
  <2>2. row \in Nat /\ Cache!Longest \in Nat
    BY <1>2 DEF Cache!Versions, Cache!Absent, Cache!Longest
  <2>. HIDE DEF Cache!Longest
  <2>. QED  BY <2>1, <2>2 DEF Cache!Tick
<1>6. \/ cache' = None
      \/ /\ cache # None /\ cache' \in Cache!Entry
         /\ cache'.val = cache.val /\ cache'.left = cache.left - 1
  <2>1. CASE cache = None \/ cache.left = 1
    BY <2>1 DEF Cache!Tick
  <2>2. CASE cache # None /\ cache.left # 1
    <3>1. cache \in Cache!Entry /\ cache.left \in 1..Ttl /\ cache.left # 1
      BY <1>2, <2>2 DEF Cache!Entry
    <3>2. cache' = [cache EXCEPT !.left = cache.left - 1]
      BY <2>2 DEF Cache!Tick
    <3>3. cache.left - 1 \in 1..Ttl
      BY <3>1
    <3>. QED  BY <2>2, <3>1, <3>2, <3>3 DEF Cache!Entry
  <2>. QED  BY <2>1, <2>2
<1>7. Cache!TypeOK'
  BY <1>1, <1>4, <1>5, <1>6 DEF CacheInv, Cache!TypeOK
<1>8. \A t \in Calls : /\ Filling(t)' => Filling(t)
                       /\ Cache!Inserted(t)' => Cache!Inserted(t)
                       /\ Dropping(t) => Dropping(t)'
  BY <1>3 DEF Filling, Cache!Inserted, Dropping
<1>9. Aged'
  <2>1. ASSUME NEW t \in Calls, Filling(t)'
        PROVE  readers'[t].val # Cache!Absent /\ since'[readers'[t].val] <= readers'[t].age
    <3>1. /\ readers[t] # None /\ readers[t] \in Cache!Call /\ readers[t].val # Cache!Absent
          /\ since[readers[t].val] <= readers[t].age
      BY <1>2, <1>8, <2>1 DEF CacheInv, Aged, Filling
    <3>2. /\ readers[t].val \in Cache!Versions /\ since[readers[t].val] \in Nat
          /\ readers[t].age \in Nat /\ since'[readers[t].val] \in Nat
      BY <1>2, <1>5, <3>1 DEF Cache!Call
    <3>3. since'[readers[t].val] <= since[readers[t].val] + 1
      BY <1>5, <3>2
    <3>. QED  BY <1>3, <3>1, <3>2, <3>3
  <2>2. ASSUME cache' # None  PROVE since'[cache'.val] + cache'.left <= Ttl + MaxCall
    <3>1. /\ cache # None /\ cache \in Cache!Entry
          /\ cache'.val = cache.val /\ cache'.left = cache.left - 1
      BY <1>2, <1>6, <2>2
    <3>2. /\ cache.val \in Cache!Versions /\ cache.left \in Nat
          /\ since[cache.val] \in Nat /\ since'[cache.val] \in Nat
      BY <1>2, <1>5, <3>1 DEF Cache!Entry
    <3>3. since'[cache.val] <= since[cache.val] + 1
      BY <1>5, <3>2
    <3>4. since[cache.val] + cache.left <= Ttl + MaxCall
      BY <3>1 DEF CacheInv, Aged
    <3>. QED  BY <3>1, <3>2, <3>3, <3>4
  <2>3. \A v \in Cache!Versions : v >= row => since'[v] = 0
    BY <1>5 DEF CacheInv, Aged
  <2>. QED  BY <1>1, <2>1, <2>2, <2>3 DEF Aged
<1>10. Inserting'
  BY <1>1, <1>3, <1>6, <1>8 DEF CacheInv, Inserting, Filling
<1>11. InTurn'
  BY <1>1, <1>3, <1>6, <1>8 DEF CacheInv, InTurn, Filling
<1>. QED  BY <1>7, <1>9, <1>10, <1>11 DEF CacheInv

\* The commits: of the first version, of the next one, and of either.
LEMMA CacheWrite ==
    ASSUME CacheInv, NEW t \in Calls, NEW e
    PROVE  /\ \A after \in Firsts : Cache!Create(t, e, after) => CacheInv'
           /\ \A after \in Firsts \intersect Drops :
                  Cache!Change(t, e, after) \/ Cache!Ensure(t, e, after) => CacheInv'
<1>. USE CacheConstants
<1>1. row \in Cache!Versions /\ row \in 0..MaxVersion /\ Cache!Absent = 0 /\ Cache!Default = 1
  BY DEF CacheInv, Cache!TypeOK, Cache!Versions, Cache!Absent, Cache!Default
<1>2. ASSUME NEW after \in Firsts, NEW v \in Cache!Versions, Cache!Commit(t, e, v, after),
             v > row, (row = Cache!Absent /\ v = Cache!Default) \/ after \in Drops
      PROVE  CacheInv'
  <2>1. /\ Cache!Begin(t, after, FALSE) /\ row' = v /\ stored' = TRUE
        /\ row = Cache!Absent => Cache!MayInsert
        /\ UNCHANGED <<entity, since, cache, unannounced, cacheFaults>>
    BY <1>2 DEF Cache!Commit
  <2>. QED  BY <1>2, <2>1, CacheCommit
<1>3. ASSUME NEW after \in Firsts, Cache!Create(t, e, after)  PROVE CacheInv'
  <2>1. /\ row = Cache!Absent /\ Cache!Commit(t, e, Cache!Default, after)
        /\ Cache!Default > row
    BY <1>1, <1>3 DEF Cache!Create
  <2>. QED  BY <1>2, <2>1
<1>4. ASSUME NEW after \in Firsts \intersect Drops,
             Cache!Change(t, e, after) \/ Cache!Ensure(t, e, after)
      PROVE  CacheInv'
  <2>1. PICK v : /\ Cache!Commit(t, e, v, after)
                 /\ row < MaxVersion /\ (v = row + 1 \/ (row = 0 /\ v = 2))
    <3>1. CASE Cache!Change(t, e, after)
      BY <1>1, <3>1 DEF Cache!Change
    <3>2. CASE Cache!Ensure(t, e, after)
      BY <1>1, <3>2 DEF Cache!Ensure
    <3>. QED  BY <1>4, <3>1, <3>2
  <2>2. v \in Cache!Versions /\ v > row
    BY <1>1, <2>1 DEF Cache!Versions
  <2>. QED  BY <1>2, <1>4, <2>1, <2>2
<1>. QED  BY <1>3, <1>4

\* What is done in one step: a lookup, a commit and a drop, a drop, a commit alone.
LEMMA CacheShort == CacheInv /\ Cache!Short => CacheInv'
<1>. SUFFICES ASSUME CacheInv, Cache!Short  PROVE CacheInv'
  OBVIOUS
<1>. USE CacheConstants
<1>1. /\ row \in Cache!Versions /\ row \in 0..MaxVersion /\ Cache!Absent = 0 /\ Cache!Default = 1
      /\ raced \in BOOLEAN /\ unannounced \in BOOLEAN /\ cacheFaults \in 0..MaxFaults
  BY DEF CacheInv, Cache!TypeOK, Cache!Versions, Cache!Absent, Cache!Default
<1>2. row # 0 => Cache!Default..(MaxVersion - 1) \subseteq Cache!Versions
                 /\ (row \in Cache!Default..(MaxVersion - 1) => row + 1 \in Cache!Versions)
  BY <1>1 DEF Cache!Versions
<1>3. PICK same, fresh : same = row /\ fresh = row + 1
  OBVIOUS
<1>4. ASSUME NEW e, Cache!LookUpAtOnce(e)  PROVE CacheInv'
  <2>1. /\ row # Cache!Absent /\ row' = same /\ same >= row /\ same \in Cache!Versions
        /\ UNCHANGED <<entity, stored, since, readers>>
    BY <1>1, <1>2, <1>3, <1>4 DEF Cache!LookUpAtOnce, Cache!AtOnce
  <2>2. cache' \in {cache, None, [val |-> row, left |-> Ttl]}
    BY <1>4 DEF Cache!LookUpAtOnce, Cache!DropAtOnce
  <2>3. raced' \in BOOLEAN /\ unannounced' \in BOOLEAN
    BY <1>1, <1>4 DEF Cache!LookUpAtOnce, Cache!AtOnce
  <2>4. \/ cacheFaults' = cacheFaults /\ (cache' = None \/ cache' = [val |-> row', left |-> Ttl])
        \/ cacheFaults < MaxFaults /\ cacheFaults' = cacheFaults + 1
    BY <1>4 DEF Cache!LookUpAtOnce, Cache!Swallowed, Cache!DropAtOnce
  <2>5. cacheFaults' \in 0..MaxFaults /\ (cacheFaults' = 0 => cacheFaults' = cacheFaults)
    BY <1>1, <2>4
  <2>6. ~raced' => \A t \in Calls : readers[t] = None
    BY <1>4 DEF Cache!LookUpAtOnce, Cache!AtOnce
  <2>7. ~raced' /\ ~unannounced' /\ cacheFaults' = 0 =>
            /\ \A t \in Calls : readers[t] = None
            /\ cache' # None => cache' = [val |-> same, left |-> Ttl]
    BY <1>1, <2>1, <2>4, <2>6
  <2>. QED  BY <2>1, <2>2, <2>3, <2>5, <2>7, CacheAtOnce
<1>5. ASSUME NEW e, Cache!ChangeAtOnce(e)  PROVE CacheInv'
  <2>1. /\ row # Cache!Absent /\ row' = fresh /\ fresh >= row /\ fresh \in Cache!Versions
        /\ UNCHANGED <<entity, stored, since, readers>>
    BY <1>1, <1>2, <1>3, <1>5 DEF Cache!ChangeAtOnce, Cache!AtOnce
  <2>2. cache' \in {cache, None, [val |-> row, left |-> Ttl]}
    BY <1>5 DEF Cache!ChangeAtOnce, Cache!DropAtOnce
  <2>3. raced' \in BOOLEAN /\ unannounced' \in BOOLEAN
    BY <1>1, <1>5 DEF Cache!ChangeAtOnce, Cache!AtOnce
  <2>4. \/ cacheFaults' = cacheFaults /\ (cache' = None \/ cache' = [val |-> row', left |-> Ttl])
        \/ cacheFaults < MaxFaults /\ cacheFaults' = cacheFaults + 1
    BY <1>5 DEF Cache!ChangeAtOnce, Cache!Swallowed, Cache!DropAtOnce
  <2>5. cacheFaults' \in 0..MaxFaults /\ (cacheFaults' = 0 => cacheFaults' = cacheFaults)
    BY <1>1, <2>4
  <2>6. ~raced' => \A t \in Calls : readers[t] = None
    BY <1>5 DEF Cache!ChangeAtOnce, Cache!AtOnce
  <2>7. ~raced' /\ ~unannounced' /\ cacheFaults' = 0 =>
            /\ \A t \in Calls : readers[t] = None
            /\ cache' # None => cache' = [val |-> fresh, left |-> Ttl]
    BY <1>1, <2>1, <2>4, <2>6
  <2>. QED  BY <2>1, <2>2, <2>3, <2>5, <2>7, CacheAtOnce
<1>6. ASSUME NEW e, Cache!Quietly(e)  PROVE CacheInv'
  <2>1. /\ row # Cache!Absent /\ row' = fresh /\ fresh >= row /\ fresh \in Cache!Versions
        /\ UNCHANGED <<entity, stored, since, cache, readers, raced, cacheFaults>>
        /\ unannounced' = TRUE
    BY <1>1, <1>2, <1>3, <1>6 DEF Cache!Quietly
  <2>. QED  BY <1>1, <2>1, CacheAtOnce
<1>7. ASSUME Cache!VerifyDriverDevice  PROVE CacheInv'
  <2>1. CASE Cache!LookUpAtOnce("drivers_list")
    BY <1>4, <2>1
  <2>2. CASE ~Cache!LookUpAtOnce("drivers_list")
    <3>1. /\ Cache!AtOnce("driver") /\ row \in Cache!Default..(MaxVersion - 1) /\ row' = row + 1
          /\ cache' \in {[val |-> row, left |-> Ttl]} \union (IF cache = None THEN {} ELSE {cache})
          /\ unannounced' = TRUE /\ cacheFaults' = cacheFaults
      BY <1>7, <2>2 DEF Cache!VerifyDriverDevice
    <3>2. row # Cache!Absent /\ row' = fresh /\ fresh >= row /\ fresh \in Cache!Versions
      BY <1>1, <1>2, <1>3, <3>1
    <3>3. cache' \in {cache, None, [val |-> row, left |-> Ttl]}
      BY <3>1
    <3>4. UNCHANGED <<entity, stored, since, readers>> /\ raced' \in BOOLEAN
      BY <1>1, <3>1 DEF Cache!AtOnce
    <3>. QED  BY <1>1, <3>1, <3>2, <3>3, <3>4, CacheAtOnce
  <2>. QED  BY <2>1, <2>2
<1>8. ASSUME Cache!DeleteRole  PROVE CacheInv'
  <2>1. CASE row # Cache!Absent
    <3>1. /\ row # Cache!Absent /\ row' = same /\ same >= row /\ same \in Cache!Versions
          /\ UNCHANGED <<entity, stored, since, readers>>
      BY <1>1, <1>2, <1>3, <1>8, <2>1 DEF Cache!DeleteRole, Cache!AtOnce
    <3>2. cache' \in {cache, None, [val |-> row, left |-> Ttl]}
      BY <1>8 DEF Cache!DeleteRole, Cache!DropAtOnce
    <3>3. raced' \in BOOLEAN /\ unannounced' \in BOOLEAN
      BY <1>1, <1>8 DEF Cache!DeleteRole, Cache!AtOnce
    <3>4. \/ cacheFaults' = cacheFaults /\ (cache' = None \/ cache' = [val |-> row', left |-> Ttl])
          \/ cacheFaults < MaxFaults /\ cacheFaults' = cacheFaults + 1
      BY <1>8 DEF Cache!DeleteRole, Cache!Swallowed, Cache!DropAtOnce
    <3>5. cacheFaults' \in 0..MaxFaults /\ (cacheFaults' = 0 => cacheFaults' = cacheFaults)
      BY <1>1, <3>4
    <3>6. ~raced' => \A t \in Calls : readers[t] = None
      BY <1>8 DEF Cache!DeleteRole, Cache!AtOnce
    <3>7. ~raced' /\ ~unannounced' /\ cacheFaults' = 0 =>
              /\ \A t \in Calls : readers[t] = None
              /\ cache' # None => cache' = [val |-> same, left |-> Ttl]
      BY <1>1, <3>1, <3>4, <3>6
    <3>. QED  BY <3>1, <3>2, <3>3, <3>5, <3>7, CacheAtOnce
  <2>2. CASE row = Cache!Absent
    <3>1. \/ cacheFaults' = cacheFaults
          \/ cacheFaults < MaxFaults /\ cacheFaults' = cacheFaults + 1
      BY <1>8 DEF Cache!DeleteRole, Cache!DropAtOnce, Cache!Swallowed
    <3>2. /\ UNCHANGED <<entity, row, stored, since, readers, unannounced>>
          /\ cache' \in {cache, None} /\ raced' \in BOOLEAN /\ (~raced' => ~raced)
      BY <1>1, <1>8 DEF Cache!DeleteRole, Cache!AtOnce, Cache!DropAtOnce
    <3>3. cacheFaults' \in 0..MaxFaults /\ (cacheFaults' = 0 => cacheFaults = 0)
      BY <1>1, <3>1
    <3>4. Cache!TypeOK'
      BY <3>2, <3>3 DEF CacheInv, Cache!TypeOK
    <3>5. Aged' /\ Inserting' /\ InTurn'
      BY <2>2, <3>2, <3>3 DEF CacheInv, Aged, Inserting, InTurn, Filling, Dropping, Cache!Inserted
    <3>. QED  BY <3>4, <3>5 DEF CacheInv
  <2>. QED  BY <2>1, <2>2
<1>. QED
  BY <1>4, <1>5, <1>6, <1>7, <1>8
     DEF Cache!Short, Cache!ToggleTenantStatus, Cache!ToggleEmployeeStatus,
         Cache!DriverSelectTenant, Cache!GetUserProfile, Cache!CreateDriver,
         Cache!UpdateDriver, Cache!UpdateRole, Cache!UpdatePolicy, Cache!DeletePolicy,
         Cache!UpdatePermission, Cache!DeletePermission, Cache!UpdatePackagePermissions

LEMMA CacheNext == CacheInv /\ Cache!Next => CacheInv'
<1>. SUFFICES ASSUME CacheInv, Cache!Next  PROVE CacheInv'
  OBVIOUS
<1>1. ASSUME NEW t \in Calls, Cache!Reader(t)  PROVE CacheInv'
  <2>1. ASSUME NEW e, NEW creates \in BOOLEAN, Cache!LookUp(t, e, creates)  PROVE CacheInv'
    <3>1. /\ Cache!Begin(t, <<"row", "keep">>, creates)
          /\ UNCHANGED <<entity, row, stored, since, cache, unannounced>>
          /\ cacheFaults' \in 0..MaxFaults /\ (cacheFaults' = 0 => cacheFaults = 0)
      BY <2>1, CacheConstants DEF CacheInv, Cache!TypeOK, Cache!LookUp
    <3>. QED  BY <3>1, CacheLookUp
  <2>2. ASSUME Cache!GetDrivers(t)  PROVE CacheInv'
    <3>1. CASE Cache!LookUp(t, "drivers_list", FALSE)
      BY <2>1, <3>1
    <3>2. CASE ~Cache!LookUp(t, "drivers_list", FALSE)
      <4>1. /\ Cache!Begin(t, <<"row", "keep">>, FALSE)
            /\ UNCHANGED <<entity, row, stored, since, cache, unannounced>>
            /\ cacheFaults' \in 0..MaxFaults /\ (cacheFaults' = 0 => cacheFaults = 0)
        BY <2>2, <3>2 DEF CacheInv, Cache!TypeOK, Cache!GetDrivers, Cache!Fill
      <4>. QED  BY <4>1, CacheLookUp
    <3>. QED  BY <3>1, <3>2
  <2>. QED
    BY <1>1, <2>1, <2>2
       DEF Cache!Reader, Cache!GetTenantWithCache, Cache!GetShiftWithCache,
           Cache!GetCutoffWithCache, Cache!GetWeekoffWithCache, Cache!GetTeamWithCache,
           Cache!GetTenantConfigWithCache, Cache!ReadTeams, Cache!GetCutoffs,
           Cache!GetTenantConfig, Cache!GetDriver
<1>2. ASSUME NEW t \in Calls, Cache!Writer(t)  PROVE CacheInv'
  <2>1. /\ Cache!Fill \in Firsts /\ Cache!Nothing \in Firsts
        /\ Cache!Refresh \in Firsts \intersect Drops /\ Cache!Drop \in Firsts \intersect Drops
    BY DEF Cache!Fill, Cache!Nothing, Cache!Refresh, Cache!Drop, Firsts, Drops
  <2>. QED
    BY <1>2, <2>1, CacheWrite
       DEF Cache!Writer, Cache!CreateTenant, Cache!UpdateTenant, Cache!CreateShift,
           Cache!UpdateShift, Cache!ToggleShiftStatus, Cache!UpdateCutoff,
           Cache!UpdateTenantConfig, Cache!GetWeekoffsByTeam, Cache!GetWeekoffsByTenant,
           Cache!UpdateWeekoffByEmployee, Cache!UpdateWeekoffByTeam,
           Cache!UpdateWeekoffByTenant, Cache!CreateTeam, Cache!UpdateTeam,
           Cache!ToggleTeamStatus, Cache!ToggleDriverActive, Cache!UpdateEmployee
<1>3. ASSUME NEW t \in Calls,
             \/ Cache!ReadRow(t) \/ Cache!EnsureRow(t) \/ Cache!DropKey(t) \/ Cache!KeepKey(t)
             \/ Cache!CommitDefault(t) \/ Cache!RollBack(t)
      PROVE  CacheInv'
  BY <1>3, CacheReadRow, CacheEnsureRow, CacheDropKey, CacheKeepKey, CacheCommitDefault,
     CacheRollBack
<1>. QED  BY <1>1, <1>2, <1>3, CacheShort, CacheTick DEF Cache!Next

\* What is read through the key is bounded in age, and current when calls take turns.
LEMMA CacheReads == CacheInv => Cache!BoundedStaleness /\ Cache!SequentialReadsCurrent
<1>. SUFFICES ASSUME CacheInv
              PROVE  Cache!BoundedStaleness /\ Cache!SequentialReadsCurrent
  OBVIOUS
<1>1. ASSUME cache # None  PROVE since[cache.val] < Ttl + MaxCall
  <2>1. cache.left \in 1..Ttl /\ cache.val \in Cache!Versions
    BY <1>1 DEF CacheInv, Cache!TypeOK, Cache!Entry
  <2>2. since[cache.val] \in Nat
    BY <2>1 DEF CacheInv, Cache!TypeOK
  <2>. QED  BY <1>1, <2>1, <2>2, CacheConstants DEF CacheInv, Aged
<1>. QED
  BY <1>1 DEF Cache!BoundedStaleness, Cache!SequentialReadsCurrent, Cache!Quiet, CacheInv,
              InTurn, Inserting, Dropping

LEMMA CacheStep == CacheInv /\ [OfficeNext]_allVars => CacheInv'
<1>. SUFFICES ASSUME CacheInv, [OfficeNext]_allVars  PROVE CacheInv'
  OBVIOUS
<1>1. CASE UNCHANGED cacheVars
  BY <1>1 DEF cacheVars, CacheInv, Cache!TypeOK, Aged, Inserting, InTurn, Filling, Dropping,
              Cache!Inserted
<1>2. Cache!Next \/ UNCHANGED cacheVars
  BY DEF OfficeNext, Others, allVars
<1>. QED  BY <1>1, <1>2, CacheNext

\* Whoever reads through a key is behind the database by less than the lifetime of
\* the key and a call, however lookups, commits and refreshes of threads overlap and
\* whatever Redis loses; and when calls take turns and Redis answers, not at all.
THEOREM CacheStaysFresh == OfficeSpec => []CacheFresh
<1>1. OfficeInit => CacheInv
  BY CacheInit DEF OfficeInit
<1>2. CacheInv => CacheFresh
  BY CacheReads DEF CacheFresh, CacheInv
<1>. QED  BY <1>1, <1>2, CacheStep, PTL DEF OfficeSpec
=============================================================================
