---------------------------- MODULE Office_proofs -----------------------------
(***************************************************************************)
(* Proofs about what the office keeps, each part by itself, for all of its *)
(* constants: the roles of the tenants, the nodal points, the fleet of a   *)
(* vendor, the roll of the employees, the table of slabs and the clock of  *)
(* the duties.                                                             *)
(***************************************************************************)
EXTENDS Office, FiniteSetTheorems, FunctionTheorems, WellFoundedInduction, TLAPS

-----------------------------------------------------------------------------
(* Least numbers, orders, folds and sums                                    *)

\* Some numbers have a least one: what the inductions below rest on.
LEMMA LeastNat ==
    ASSUME NEW S \in SUBSET Nat, S # {}
    PROVE  \E x \in S : \A y \in S : x <= y
<1>1. PICK x \in S : \A y \in S : ~(<<y, x>> \in OpToRel(<, Nat))
  BY NatLessThanWellFounded, WFMin
<1>2. \A y \in S : ~(y < x)
  BY <1>1 DEF OpToRel
<1>. QED  BY <1>2

\* Numbers under a bound have a greatest one.
LEMMA GreatestNat ==
    ASSUME NEW n \in Nat, NEW S \in SUBSET (0..n), S # {}
    PROVE  \E x \in S : \A y \in S : x >= y
<1>. DEFINE D == {n - x : x \in S}
<1>1. D \in SUBSET Nat /\ D # {}
  <2>1. \A x \in S : n - x \in Nat
    OBVIOUS
  <2>2. D # {}
    <3>1. PICK x : x \in S
      OBVIOUS
    <3>2. n - x \in D
      BY <3>1
    <3>. QED  BY <3>2
  <2>. QED  BY <2>1, <2>2
<1>2. PICK d \in D : \A y \in D : d <= y
  <2>. HIDE DEF D
  <2>. QED  BY <1>1, LeastNat
<1>3. PICK x \in S : d = n - x
  OBVIOUS
<1>4. ASSUME NEW y \in S  PROVE x >= y
  <2>1. n - y \in D
    OBVIOUS
  <2>2. n - x <= n - y
    BY <1>2, <1>3, <2>1
  <2>. QED  BY <2>2
<1>. QED  BY <1>4

\* A fold over the subsets of a finite set: it takes out the element that choice
\* names, and add joins what is left.
Foldable(D, V, base, choice, add) ==
    /\ IsFiniteSet(D) /\ base \in V
    /\ \A s \in SUBSET D : s # {} => choice[s] \in s
    /\ add \in [D -> [V -> V]]
IsFold(it, D, V, base, choice, add) ==
    /\ it \in [SUBSET D -> V]
    /\ \A s \in SUBSET D :
           it[s] = IF s = {} THEN base ELSE add[choice[s]][it[s \ {choice[s]}]]

Follows(f, D, V, base, choice, add) ==
    /\ f[{}] = base
    /\ \A s \in SUBSET D : s # {} /\ f[s \ {choice[s]}] \in V =>
           f[s] = add[choice[s]][f[s \ {choice[s]}]]
Adds(D, rate, add) ==
    /\ rate \in [D -> Int]
    /\ \A x \in D, v \in Int : add[x][v] = rate[x] + v

LEMMA FoldExists ==
    ASSUME NEW D, NEW V, NEW base, NEW choice, NEW add, Foldable(D, V, base, choice, add)
    PROVE  \E it : IsFold(it, D, V, base, choice, add)
<1>. USE DEF Foldable, IsFold
<1>. DEFINE Right(it, s) ==
                it[s] = IF s = {} THEN base ELSE add[choice[s]][it[s \ {choice[s]}]]
            Upto(n) == \E it \in [SUBSET D -> V] :
                           \A s \in SUBSET D : Cardinality(s) <= n => Right(it, s)
            bad == {n \in Nat : ~Upto(n)}
<1>0. \A s \in SUBSET D : IsFiniteSet(s) /\ Cardinality(s) \in Nat
  BY FS_Subset, FS_CardinalityType
<1>1. Upto(0)
  <2>1. \A s \in SUBSET D : Cardinality(s) <= 0 => s = {}
    BY <1>0, FS_EmptySet
  <2>2. [s \in SUBSET D |-> base] \in [SUBSET D -> V]
    OBVIOUS
  <2>. QED  BY <2>1, <2>2
<1>2. ASSUME NEW n \in Nat, Upto(n)  PROVE Upto(n + 1)
  <2>1. PICK it \in [SUBSET D -> V] : \A s \in SUBSET D : Cardinality(s) <= n => Right(it, s)
    BY <1>2
  <2>. DEFINE new == [s \in SUBSET D |->
                         IF Cardinality(s) <= n THEN it[s]
                         ELSE add[choice[s]][it[s \ {choice[s]}]]]
  <2>2. \A s \in SUBSET D : s # {} =>
           /\ s \ {choice[s]} \in SUBSET D
           /\ Cardinality(s \ {choice[s]}) = Cardinality(s) - 1
    BY <1>0, FS_RemoveElement
  <2>3. ASSUME NEW s \in SUBSET D, ~(Cardinality(s) <= n)  PROVE s # {}
    <3>1. Cardinality({}) = 0 /\ 0 <= n
      BY FS_EmptySet
    <3>. QED  BY <2>3, <3>1
  <2>4. new \in [SUBSET D -> V]
    <3>1. ASSUME NEW s \in SUBSET D, ~(Cardinality(s) <= n)
          PROVE  add[choice[s]][it[s \ {choice[s]}]] \in V
      <4>1. choice[s] \in D /\ it[s \ {choice[s]}] \in V
        BY <2>2, <2>3, <3>1
      <4>. QED  BY <4>1
    <3>. QED  BY <3>1
  <2>5. ASSUME NEW s \in SUBSET D, Cardinality(s) <= n + 1  PROVE Right(new, s)
    <3>1. CASE Cardinality(s) <= n
      <4>1. CASE s = {}
        BY <2>1, <3>1, <4>1
      <4>2. CASE s # {}
        <5>1. /\ s \ {choice[s]} \in SUBSET D
              /\ Cardinality(s \ {choice[s]}) <= n
          BY <1>0, <2>2, <3>1, <4>2
        <5>2. new[s] = it[s] /\ new[s \ {choice[s]}] = it[s \ {choice[s]}]
          BY <3>1, <5>1
        <5>3. Right(it, s)
          BY <2>1, <3>1
        <5>. HIDE DEF new
        <5>. QED  BY <5>2, <5>3, <4>2
      <4>. QED  BY <4>1, <4>2
    <3>2. CASE ~(Cardinality(s) <= n)
      <4>1. s # {}
        BY <2>3, <3>2
      <4>2. /\ s \ {choice[s]} \in SUBSET D
            /\ Cardinality(s \ {choice[s]}) <= n
        BY <1>0, <2>2, <2>5, <4>1
      <4>3. new[s] = add[choice[s]][it[s \ {choice[s]}]] 
        BY <3>2
      <4>4. new[s \ {choice[s]}] = it[s \ {choice[s]}]
        BY <4>2
      <4>. HIDE DEF new
      <4>. QED  BY <4>1, <4>3, <4>4
    <3>. QED  BY <3>1, <3>2
  <2>. HIDE DEF new
  <2>. QED  BY <2>4, <2>5
<1>3. \A n \in Nat : Upto(n)
  <2>. SUFFICES ASSUME bad # {}  PROVE FALSE
    OBVIOUS
  <2>1. bad \in SUBSET Nat
    OBVIOUS
  <2>2. PICK n \in bad : \A m \in bad : n <= m
    <3>. HIDE DEF bad
    <3>. QED  BY <2>1, LeastNat
  <2>. HIDE DEF Upto
  <2>3. n # 0 /\ n \in Nat
    BY <1>1
  <2>4. n - 1 \in Nat /\ n - 1 \notin bad /\ n = (n - 1) + 1
    BY <2>2, <2>3
  <2>5. Upto(n - 1)
    BY <2>4
  <2>. QED  BY <1>2, <2>4, <2>5
<1>4. Upto(Cardinality(D))
  BY <1>0, <1>3
<1>5. PICK it \in [SUBSET D -> V] : \A s \in SUBSET D : Cardinality(s) <= Cardinality(D) => Right(it, s)
  BY <1>4
<1>6. \A s \in SUBSET D : Cardinality(s) <= Cardinality(D)
  BY FS_Subset
<1>. QED  BY <1>5, <1>6

\* Whatever obeys the equations of a fold is that fold.
LEMMA FoldOnly ==
    ASSUME NEW D, NEW V, NEW base, NEW choice, NEW add, Foldable(D, V, base, choice, add),
           NEW it, IsFold(it, D, V, base, choice, add),
           NEW f, Follows(f, D, V, base, choice, add), NEW t, t \in SUBSET D
    PROVE  f[t] = it[t]
<1>. USE DEF Follows
<1>. DEFINE bad == {n \in Nat : \E s \in SUBSET D : Cardinality(s) = n /\ f[s] # it[s]}
<1>0. \A s \in SUBSET D : IsFiniteSet(s) /\ Cardinality(s) \in Nat
  BY FS_Subset, FS_CardinalityType DEF Foldable
<1>1. bad = {}
  <2>. SUFFICES ASSUME bad # {}  PROVE FALSE
    OBVIOUS
  <2>1. bad \in SUBSET Nat
    OBVIOUS
  <2>2. PICK n \in bad : \A m \in bad : n <= m
    <3>. HIDE DEF bad
    <3>. QED  BY <2>1, LeastNat
  <2>3. PICK s \in SUBSET D : Cardinality(s) = n /\ f[s] # it[s]
    OBVIOUS
  <2>4. s # {}
    BY <2>3 DEF IsFold
  <2>5. choice[s] \in s
    BY <2>4 DEF Foldable
  <2>6. s \ {choice[s]} \in SUBSET D /\ Cardinality(s \ {choice[s]}) = n - 1 /\ n - 1 \in Nat
    <3>1. Cardinality(s \ {choice[s]}) = n - 1
      BY <1>0, <2>3, <2>5, FS_RemoveElement
    <3>. QED  BY <1>0, <3>1
  <2>7. n - 1 \notin bad
    <3>1. n \in Nat /\ ~(n <= n - 1)
      BY <2>1
    <3>. HIDE DEF bad
    <3>. QED  BY <2>2, <3>1
  <2>8. f[s \ {choice[s]}] = it[s \ {choice[s]}]
    BY <2>6, <2>7
  <2>9. f[s \ {choice[s]}] \in V
    BY <2>6, <2>8 DEF IsFold
  <2>10. f[s] = add[choice[s]][it[s \ {choice[s]}]]
    BY <2>4, <2>8, <2>9
  <2>. QED  BY <2>3, <2>4, <2>10 DEF IsFold
<1>. QED  BY <1>0, <1>1

\* A sum over the subsets of a finite set, whatever order it adds in, adds any
\* element to the sum of the others.
LEMMA SumTakes ==
    ASSUME NEW D, NEW base, NEW choice, NEW add, Foldable(D, Int, base, choice, add),
           NEW rate, Adds(D, rate, add),
           NEW it, IsFold(it, D, Int, base, choice, add),
           NEW t, t \in SUBSET D, NEW x, x \in t
    PROVE  it[t] = rate[x] + it[t \ {x}]
<1>. USE DEF Adds
<1>a. /\ IsFiniteSet(D) /\ it \in [SUBSET D -> Int]
      /\ \A s \in SUBSET D : s # {} => choice[s] \in s
  BY DEF Foldable, IsFold
<1>b. ASSUME NEW s \in SUBSET D, s # {}
      PROVE  it[s] = rate[choice[s]] + it[s \ {choice[s]}]
  <2>1. it[s \ {choice[s]}] \in Int /\ choice[s] \in D
    BY <1>a, <1>b
  <2>. QED  BY <1>b, <2>1 DEF IsFold
<1>. DEFINE Right(s, y) == it[s] = rate[y] + it[s \ {y}]
            bad == {n \in Nat : \E s \in SUBSET D : \E y \in s : Cardinality(s) = n /\ ~Right(s, y)}
<1>0. \A s \in SUBSET D : IsFiniteSet(s) /\ Cardinality(s) \in Nat
  BY <1>a, FS_Subset, FS_CardinalityType
<1>1. bad = {}
  <2>. SUFFICES ASSUME bad # {}  PROVE FALSE
    OBVIOUS
  <2>1. bad \in SUBSET Nat
    OBVIOUS
  <2>2. PICK n \in bad : \A m \in bad : n <= m
    <3>. HIDE DEF bad
    <3>. QED  BY <2>1, LeastNat
  <2>3. PICK s \in SUBSET D : \E y \in s : Cardinality(s) = n /\ ~Right(s, y)
    OBVIOUS
  <2>33. PICK y \in s : Cardinality(s) = n /\ ~Right(s, y)
    BY <2>3
  <2>. DEFINE c == choice[s]
  <2>4. c \in s /\ it[s] = rate[c] + it[s \ {c}]
    BY <1>a, <1>b
  <2>. HIDE DEF c
  <2>5. c # y
    BY <2>33, <2>4
  <2>6. ASSUME NEW z \in s, NEW w \in s \ {z}  PROVE Right(s \ {z}, w)
    <3>1. s \ {z} \in SUBSET D /\ Cardinality(s \ {z}) = n - 1 /\ n - 1 \in Nat
      <4>1. Cardinality(s \ {z}) = n - 1
        BY <1>0, <2>33, FS_RemoveElement
      <4>. QED  BY <1>0, <4>1
    <3>2. n - 1 \notin bad
      <4>1. n \in Nat /\ ~(n <= n - 1)
        BY <2>1
      <4>. HIDE DEF bad
      <4>. QED  BY <2>2, <4>1
    <3>. QED  BY <3>1, <3>2
  <2>7. Right(s \ {c}, y) /\ Right(s \ {y}, c)
    BY <2>4, <2>5, <2>6
  <2>8. (s \ {c}) \ {y} = (s \ {y}) \ {c}
    OBVIOUS
  <2>9. /\ it[s] \in Int /\ it[s \ {c}] \in Int /\ it[s \ {y}] \in Int
        /\ it[(s \ {c}) \ {y}] \in Int /\ rate[c] \in Int /\ rate[y] \in Int
    BY <1>a, <2>4
  <2>10. it[s \ {c}] = rate[y] + it[(s \ {c}) \ {y}]
    BY <2>7
  <2>11. it[s \ {y}] = rate[c] + it[(s \ {c}) \ {y}]
    BY <2>7, <2>8
  <2>12. it[s] = rate[y] + it[s \ {y}]
    BY <2>4, <2>9, <2>10, <2>11
  <2>. QED  BY <2>12, <2>33
<1>2. Cardinality(t) \in Nat
  BY <1>0
<1>3. Cardinality(t) \notin bad
  BY <1>1
<1>. QED  BY <1>2, <1>3

\* The elements of a finite set can be put in the order of their keys, each once.
LEMMA OrderExists ==
    ASSUME NEW S, IsFiniteSet(S), NEW key \in [S -> Nat]
    PROVE  \E order \in [1..Cardinality(S) -> S] :
               /\ \A i, j \in 1..Cardinality(S) :
                      i < j => key[order[i]] <= key[order[j]] /\ order[i] # order[j]
               /\ \A s \in S : \E i \in 1..Cardinality(S) : order[i] = s
<1>. DEFINE Ordered(T) == \E order \in [1..Cardinality(T) -> T] :
                /\ \A i, j \in 1..Cardinality(T) :
                       i < j => key[order[i]] <= key[order[j]] /\ order[i] # order[j]
                /\ \A s \in T : \E i \in 1..Cardinality(T) : order[i] = s
            bad == {n \in Nat : \E T \in SUBSET S : Cardinality(T) = n /\ ~Ordered(T)}
<1>0. \A T \in SUBSET S : IsFiniteSet(T) /\ Cardinality(T) \in Nat
  BY FS_Subset, FS_CardinalityType
<1>1. ASSUME NEW T \in SUBSET S, T = {}  PROVE Ordered(T)
  <2>1. Cardinality(T) = 0
    BY <1>1, FS_EmptySet
  <2>2. 1..Cardinality(T) = {}
    BY <2>1
  <2>3. [i \in {} |-> i] \in [{} -> T] /\ \A s \in T : s \in {}
    BY <1>1
  <2>. QED  BY <1>1, <2>2, <2>3
<1>2. ASSUME NEW T \in SUBSET S, NEW n \in Nat, Cardinality(T) = n + 1,
             \A U \in SUBSET S : Cardinality(U) = n => Ordered(U)
      PROVE  Ordered(T)
  <2>. HIDE DEF Ordered, bad
  <2>1. T # {}
    <3>1. Cardinality({}) = 0 /\ n + 1 # 0
      BY FS_EmptySet
    <3>. QED  BY <1>2, <3>1
  <2>. DEFINE K == {key[s] : s \in T}
  <2>2. K \in SUBSET Nat /\ K # {}
    <3>1. PICK s : s \in T
      BY <2>1
    <3>2. key[s] \in K
      BY <3>1
    <3>. QED  BY <3>2
  <2>3. PICK k \in K : \A y \in K : k <= y
    <3>. HIDE DEF K
    <3>. QED  BY <2>2, LeastNat
  <2>4. PICK m \in T : k = key[m]
    BY <2>3
  <2>5. \A s \in T \ {m} : key[m] <= key[s] /\ m # s
    <3>1. ASSUME NEW s \in T \ {m}  PROVE key[m] <= key[s]
      <4>1. key[s] \in K
        OBVIOUS
      <4>. QED  BY <4>1, <2>3, <2>4
    <3>. QED  BY <3>1
  <2>6. T \ {m} \in SUBSET S /\ Cardinality(T \ {m}) = n
    <3>1. IsFiniteSet(T) /\ m \in T
      BY <1>0
    <3>2. Cardinality(T \ {m}) = (n + 1) - 1
      BY <1>2, <3>1, FS_RemoveElement
    <3>. QED  BY <3>2
  <2>7. PICK o \in [1..n -> T \ {m}] :
            /\ \A i, j \in 1..n : i < j => key[o[i]] <= key[o[j]] /\ o[i] # o[j]
            /\ \A s \in T \ {m} : \E i \in 1..n : o[i] = s
    <3>1. Ordered(T \ {m})
      BY <1>2, <2>6
    <3>. QED  BY <2>6, <3>1 DEF Ordered
  <2>. DEFINE order == [i \in 1..(n + 1) |-> IF i = 1 THEN m ELSE o[i - 1]]
  <2>8. \A i \in 1..(n + 1) : i # 1 => i - 1 \in 1..n /\ order[i] = o[i - 1]
    OBVIOUS
  <2>9. order[1] = m
    OBVIOUS
  <2>10. order \in [1..(n + 1) -> T]
    BY <2>8
  <2>11. ASSUME NEW i \in 1..(n + 1), NEW j \in 1..(n + 1), i < j
         PROVE  key[order[i]] <= key[order[j]] /\ order[i] # order[j]
    <3>1. j # 1 /\ j - 1 \in 1..n /\ order[j] = o[j - 1] /\ o[j - 1] \in T \ {m}
      BY <2>8, <2>11
    <3>2. CASE i = 1
      BY <2>5, <2>9, <3>1, <3>2
    <3>3. CASE i # 1
      <4>1. i - 1 \in 1..n /\ order[i] = o[i - 1] /\ i - 1 < j - 1
        BY <2>8, <2>11, <3>3
      <4>. QED  BY <2>7, <3>1, <4>1
    <3>. QED  BY <3>2, <3>3
  <2>12. ASSUME NEW s \in T  PROVE \E i \in 1..(n + 1) : order[i] = s
    <3>1. CASE s = m
      BY <2>9, <3>1
    <3>2. CASE s # m
      <4>1. PICK i \in 1..n : o[i] = s
        BY <2>7, <3>2
      <4>2. i + 1 \in 1..(n + 1) /\ order[i + 1] = s
        BY <4>1
      <4>. QED  BY <4>2
    <3>. QED  BY <3>1, <3>2
  <2>. HIDE DEF order
  <2>13. 1..Cardinality(T) = 1..(n + 1)
    BY <1>2
  <2>. QED  BY <2>10, <2>11, <2>12, <2>13 DEF Ordered
<1>3. bad = {}
  <2>. SUFFICES ASSUME bad # {}  PROVE FALSE
    OBVIOUS
  <2>1. bad \in SUBSET Nat
    OBVIOUS
  <2>2. PICK n \in bad : \A m \in bad : n <= m
    <3>. HIDE DEF bad
    <3>. QED  BY <2>1, LeastNat
  <2>3. PICK T \in SUBSET S : Cardinality(T) = n /\ ~Ordered(T)
    OBVIOUS
  <2>. HIDE DEF Ordered
  <2>4. n \in Nat /\ n # 0
    BY <1>0, <1>1, <2>3, FS_EmptySet
  <2>5. n - 1 \in Nat /\ n - 1 \notin bad /\ n = (n - 1) + 1
    BY <2>2, <2>4
  <2>6. \A U \in SUBSET S : Cardinality(U) = n - 1 => Ordered(U)
    BY <2>5
  <2>. QED  BY <1>2, <2>3, <2>5, <2>6
<1>4. Ordered(S)
  <2>1. Cardinality(S) \in Nat /\ Cardinality(S) \notin bad
    BY <1>0, <1>3
  <2>. HIDE DEF Ordered
  <2>. QED  BY <2>1
<1>. QED  BY <1>4

\* A fold that takes out the greatest index first runs along the indices.
Greatest(choice, n) ==
    \A t \in SUBSET (1..n) : t # {} => choice[t] \in t /\ \A y \in t : choice[t] >= y

Along(run, it, n, V, base, add) ==
    /\ run \in [0..n -> V] /\ run[0] = base /\ run[n] = it[1..n]
    /\ \A i \in 1..n : run[i] = add[i][run[i - 1]]

LEMMA LeftFold ==
    ASSUME NEW n, n \in Nat, NEW V, NEW base, NEW choice, NEW add,
           Foldable(1..n, V, base, choice, add), Greatest(choice, n),
           NEW it, IsFold(it, 1..n, V, base, choice, add)
    PROVE  \E run : Along(run, it, n, V, base, add)
<1>. DEFINE run == [i \in 0..n |-> it[1..i]]
<1>1. it \in [SUBSET (1..n) -> V]
  BY DEF IsFold
<1>2. run \in [0..n -> V]
  <2>1. \A i \in 0..n : 1..i \in SUBSET (1..n)
    OBVIOUS
  <2>. QED  BY <1>1, <2>1
<1>3. run[0] = base
  <2>1. 1..0 = {} /\ 1..0 \in SUBSET (1..n)
    OBVIOUS
  <2>2. it[1..0] = base
    BY <2>1 DEF IsFold
  <2>. QED  BY <2>2
<1>4. ASSUME NEW i \in 1..n  PROVE run[i] = add[i][run[i - 1]]
  <2>1. 1..i \in SUBSET (1..n) /\ i \in 1..i /\ (1..i) \ {i} = 1..(i - 1)
    OBVIOUS
  <2>2. choice[1..i] = i
    <3>1. choice[1..i] \in 1..i /\ choice[1..i] >= i
      BY <2>1 DEF Greatest
    <3>. QED  BY <3>1
  <2>3. it[1..i] = add[i][it[1..(i - 1)]]
    BY <2>1, <2>2 DEF IsFold
  <2>4. run[i] = it[1..i] /\ run[i - 1] = it[1..(i - 1)]
    OBVIOUS
  <2>. HIDE DEF run
  <2>. QED  BY <2>3, <2>4
<1>5. run[n] = it[1..n]
  OBVIOUS
<1>. HIDE DEF run
<1>6. Along(run, it, n, V, base, add)
  BY <1>2, <1>3, <1>4, <1>5 DEF Along
<1>. QED  BY <1>6

-----------------------------------------------------------------------------
(* Permissions: packages, policies and roles                                *)

\* What a tenant's policies hold is in its package, as long as that was not
\* reduced; there is neither a policy nor a package before there is a tenant.
Bounded ==
    /\ \A p \in Access!Stored(policy) :
           LET t == policy[p].owner
           IN  /\ t \in tenants \union {System}
               /\ t # System /\ t \notin reduced /\ package[t] # None =>
                      policy[p].holds \subseteq package[t]
    /\ \A t \in Tenants : package[t] # None => t \in tenants

AccessInv == Access!TypeOK /\ Access!RolesApart /\ Bounded

LEMMA AccessInit == Access!Init => AccessInv
<1>. USE AccessAssumption DEF Access!Init, Access!Stored
<1>1. Access!Init => Access!TypeOK
  BY DEF Access!TypeOK
<1>2. Access!Init => Access!RolesApart /\ Bounded
  BY DEF Access!RolesApart, Bounded
<1>. QED  BY <1>1, <1>2 DEF AccessInv

LEMMA AccessNext == AccessInv /\ Access!Next => AccessInv'
<1>. SUFFICES ASSUME AccessInv, Access!Next  PROVE AccessInv'
  OBVIOUS
<1>. USE AccessAssumption DEF AccessInv, Access!TypeOK, Access!RolesApart, Bounded,
         Access!Stored, Access!PolicyRow, Access!RoleRow, Access!Owners
<1>1. ASSUME NEW t \in Tenants, NEW holds \in SUBSET Permissions, Access!CreateTenant(t, holds)
      PROVE  AccessInv'
  BY <1>1 DEF Access!CreateTenant
<1>2. ASSUME NEW t \in Tenants, NEW holds \in SUBSET Permissions,
             Access!UpdatePackagePermissions(t, holds)
      PROVE  AccessInv'
  BY <1>2 DEF Access!UpdatePackagePermissions
<1>3. ASSUME NEW p \in Permissions, Access!DeletePermission(p)
      PROVE  AccessInv'
  BY <1>3 DEF Access!DeletePermission
<1>4. ASSUME NEW caller, NEW p \in Policies, NEW holds \in SUBSET Permissions,
             NEW owner \in Access!Owners, Access!CreatePolicy(caller, p, owner, holds)
      PROVE  AccessInv'
  BY <1>4 DEF Access!CreatePolicy, Access!InPackage
<1>5. ASSUME NEW caller, NEW p \in Policies, NEW holds \in SUBSET Permissions,
             Access!UpdatePolicy(caller, p, holds)
      PROVE  AccessInv'
  BY <1>5 DEF Access!UpdatePolicy, Access!InPackage
<1>6. ASSUME NEW caller, NEW p \in Policies, Access!DeletePolicy(caller, p)
      PROVE  AccessInv'
  BY <1>6 DEF Access!DeletePolicy
<1>7. ASSUME NEW caller, NEW r \in Roles, NEW active \in BOOLEAN, NEW S \in SUBSET Policies,
             NEW owner \in Access!Owners, Access!CreateRole(caller, r, owner, active, S)
      PROVE  AccessInv'
  <2>1. S \subseteq Access!Stored(policy) /\ \A p \in S : policy[p].owner = owner
    BY <1>7 DEF Access!CreateRole, Access!Compatible
  <2>. QED  BY <1>7, <2>1 DEF Access!CreateRole
<1>8. ASSUME NEW caller, NEW r \in Roles, NEW active \in BOOLEAN, NEW S \in SUBSET Policies,
             Access!UpdateRole(caller, r, active, S)
      PROVE  AccessInv'
  <2>1. S \subseteq Access!Stored(policy) /\ \A p \in S : policy[p].owner = role[r].owner
    BY <1>8 DEF Access!UpdateRole, Access!Compatible
  <2>. DEFINE new == [role[r] EXCEPT !.active = active, !.policies = S]
  <2>2. role[r] \in Access!RoleRow
    BY <1>8 DEF Access!UpdateRole
  <2>3. new \in Access!RoleRow /\ new.owner = role[r].owner /\ new.policies = S
    BY <2>2
  <2>4. /\ role' = [role EXCEPT ![r] = new]
        /\ UNCHANGED <<permissions, package, tenants, policy, reduced>>
    BY <1>8 DEF Access!UpdateRole
  <2>. HIDE DEF new
  <2>. QED  BY <2>1, <2>2, <2>3, <2>4
<1>9. ASSUME NEW r \in Roles, Access!DeleteRole(r)
      PROVE  AccessInv'
  BY <1>9 DEF Access!DeleteRole
<1>. HIDE DEF AccessInv, Access!Owners, Access!Stored
<1>. QED  BY <1>1, <1>2, <1>3, <1>4, <1>5, <1>6, <1>7, <1>8, <1>9 DEF Access!Next

LEMMA AccessGrants == AccessInv => Access!GrantsHold
<1>. SUFFICES ASSUME AccessInv, NEW r \in Access!Stored(role),
                     role[r].owner # System, role[r].active, role[r].owner \notin reduced
              PROVE  Access!Effective(r, role[r].owner) = Access!Held(role[r].policies)
  BY DEF Access!GrantsHold
<1>. USE DEF AccessInv, Access!Stored
<1>. DEFINE t == role[r].owner
<1>1. ASSUME package[t] # None
      PROVE  \A p \in role[r].policies : policy[p].holds \subseteq package[t]
  BY <1>1 DEF Access!RolesApart, Bounded, Access!TypeOK
<1>2. ASSUME package[t] # None
      PROVE  Access!Held(role[r].policies) \subseteq package[t]
  BY <1>1, <1>2 DEF Access!Held
<1>. QED  BY <1>2 DEF Access!Effective

LEMMA AccessStep == AccessInv /\ [OfficeNext]_allVars => AccessInv'
<1>. SUFFICES ASSUME AccessInv, [OfficeNext]_allVars  PROVE AccessInv'
  OBVIOUS
<1>1. CASE UNCHANGED accessVars
  BY <1>1 DEF accessVars, AccessInv, Access!TypeOK, Access!RolesApart, Bounded, Access!Stored
<1>2. Access!Next \/ UNCHANGED accessVars
  BY DEF OfficeNext, Others, allVars
<1>. QED  BY <1>1, <1>2, AccessNext

\* A role grants what the policies of its own tenant hold, and a tenant's policies
\* hold no more than its package as long as that was never reduced: whatever order
\* packages, policies and roles are made, changed and deleted in.
THEOREM GrantsBounded == OfficeSpec => []GrantsHold
<1>1. OfficeInit => AccessInv
  BY AccessInit DEF OfficeInit
<1>2. AccessInv => GrantsHold
  BY AccessGrants DEF GrantsHold, AccessInv
<1>. QED  BY <1>1, <1>2, AccessStep, PTL DEF OfficeSpec

-----------------------------------------------------------------------------
(* Nodal points                                                             *)

\* There is a nearest one of some points.
LEMMA NearestPoint ==
    ASSUME NEW e \in Walkers, NEW ps \in SUBSET Points, ps # {}
    PROVE  Nodal!Nearest(e, ps) \in ps
<1>. DEFINE D == {Order[e][p] : p \in ps}
<1>1. D \in SUBSET Nat /\ D # {}
  BY NodalAssumption
<1>2. PICK d \in D : \A y \in D : d <= y
  <2>. HIDE DEF D
  <2>. QED  BY <1>1, LeastNat
<1>3. PICK p \in ps : \A q \in ps : Order[e][p] <= Order[e][q]
  BY <1>2
<1>. QED  BY <1>3 DEF Nodal!Nearest

\* What a request holds: points that exist, and who is left to assign is not
\* assigned yet.
Coming(c) ==
    /\ \A w \in c.writes : point[w.new.point] # "none" /\ w.employee \notin c.todo \union {c.at}
    /\ \A w, v \in c.writes : w.employee = v.employee => w = v
    /\ c.at \notin c.todo
    /\ \A p \in c.points : point[p] # "none"
    /\ c.todo # {} \/ c.at # None => c.points # {}

\* Requests that do not overlap: the rows are as the one under way read them, and
\* leave the choice of an administrator standing when it commits.
Standing(c) ==
    /\ \A w \in c.writes : w.old = assigned[w.employee]
    /\ \A e \in Walkers : chosen[e] # None =>
           LET choice == Nodal!Assignment(chosen[e], TRUE)
           IN  /\ \A w \in c.writes : w.employee = e => w.new = choice
               /\ (\E w \in c.writes : w.employee = e) \/ assigned[e] = choice
               /\ c.at # e

NodalInv ==
    /\ Nodal!TypeOK
    /\ IsFiniteSet(walks)
    /\ \A c \in walks : Coming(c)
    /\ Nodal!ChoiceStands
    /\ ~walksOverlapped =>
           /\ \A c, d \in walks : c = d
           /\ \A c \in walks : Standing(c)

LEMMA NodalCardinality == \A S : Nodal!Cardinality(S) = Cardinality(S)
BY DEF Nodal!Cardinality, Cardinality

LEMMA NodalInit == Nodal!Init => NodalInv
<1>. SUFFICES ASSUME Nodal!Init  PROVE NodalInv
  OBVIOUS
<1>. USE DEF Nodal!Init
<1>1. IsFiniteSet(walks) /\ Nodal!Cardinality(walks) <= MaxCalls
  BY FS_EmptySet, NodalCardinality, NodalAssumption
<1>2. Nodal!TypeOK
  BY <1>1 DEF Nodal!TypeOK
<1>3. Nodal!ChoiceStands
  BY DEF Nodal!ChoiceStands
<1>. QED  BY <1>1, <1>2, <1>3 DEF NodalInv

\* A request that begins.
LEMMA NodalBegin ==
    ASSUME NodalInv, NEW c \in Nodal!Call, Nodal!Begin(c),
           UNCHANGED <<point, assigned>>, chosen' \in [Walkers -> Points \union {None}],
           Coming(c), ~walksOverlapped /\ walks = {} => Standing(c)'
    PROVE  NodalInv'
<1>. USE DEF NodalInv, Nodal!TypeOK, Nodal!Begin
<1>1. IsFiniteSet(walks') /\ Nodal!Cardinality(walks') <= MaxCalls
  <2>1. IsFiniteSet(walks) /\ Cardinality(walks) \in Nat /\ Cardinality(walks) < MaxCalls
    BY FS_CardinalityType, NodalCardinality
  <2>2. /\ IsFiniteSet(walks')
        /\ Cardinality(walks') \in {Cardinality(walks), Cardinality(walks) + 1}
    BY <2>1, FS_AddElement
  <2>. HIDE DEF NodalInv
  <2>. QED  BY <2>1, <2>2, NodalCardinality, NodalAssumption
<1>2. \A d \in walks' : Coming(d)'
  BY DEF Coming
<1>3. Nodal!TypeOK'
  BY <1>1
<1>4. Nodal!ChoiceStands'
  BY DEF Nodal!ChoiceStands
<1>5. ASSUME ~walksOverlapped'  PROVE walks' = {c} /\ Standing(c)'
  BY <1>5
<1>. QED  BY <1>1, <1>2, <1>3, <1>4, <1>5

\* A request that goes on.
LEMMA NodalStep ==
    ASSUME NodalInv, NEW c \in walks, NEW d \in Nodal!Call,
           walks' = (walks \ {c}) \union {d},
           UNCHANGED <<point, assigned, walksOverlapped, chosen>>,
           Coming(d), Standing(c) => Standing(d)
    PROVE  NodalInv'
<1>. USE DEF NodalInv, Nodal!TypeOK
<1>1. IsFiniteSet(walks') /\ Nodal!Cardinality(walks') <= MaxCalls
  <2>1. /\ IsFiniteSet(walks \ {c}) /\ Cardinality(walks \ {c}) = Cardinality(walks) - 1
        /\ Cardinality(walks) \in Nat /\ Cardinality(walks \ {c}) \in Nat
        /\ Cardinality(walks) <= MaxCalls
    BY FS_RemoveElement, FS_CardinalityType, NodalCardinality
  <2>2. /\ IsFiniteSet(walks')
        /\ Cardinality(walks') \in {Cardinality(walks \ {c}), Cardinality(walks \ {c}) + 1}
    BY <2>1, FS_AddElement
  <2>. HIDE DEF NodalInv
  <2>. QED  BY <2>1, <2>2, NodalCardinality, NodalAssumption
<1>2. \A b \in walks' : Coming(b)'
  BY DEF Coming
<1>3. Nodal!TypeOK'
  BY <1>1
<1>4. Nodal!ChoiceStands'
  BY DEF Nodal!ChoiceStands
<1>5. ASSUME ~walksOverlapped'  PROVE walks' = {d} /\ Standing(d)'
  BY <1>5 DEF Standing
<1>. QED  BY <1>1, <1>2, <1>3, <1>4, <1>5

\* What a request commits: without overlaps, what it read is still there, and what
\* it writes is what it meant to write.
LEMMA NodalWritten ==
    ASSUME NodalInv, NEW c \in walks, NEW w \in c.writes, Nodal!Applies(w)
    PROVE  /\ Nodal!Written(w) \in Nodal!Row
           /\ point[Nodal!Written(w).point] # "none"
           /\ w.old = assigned[w.employee] => Nodal!Written(w) = w.new
<1>1. w \in Nodal!Write /\ point[w.new.point] # "none"
  BY DEF NodalInv, Nodal!TypeOK, Nodal!Call, Coming
<1>2. CASE w.old = None
  BY <1>1, <1>2 DEF Nodal!Written, Nodal!Write
<1>3. CASE w.old # None
  <2>1. /\ w.old \in Nodal!Row /\ w.new \in Nodal!Row
        /\ assigned[w.employee] \in Nodal!Row /\ point[assigned[w.employee].point] # "none"
    BY <1>1, <1>3 DEF Nodal!Write, Nodal!Applies, NodalInv, Nodal!TypeOK
  <2>. QED  BY <1>1, <1>3, <2>1 DEF Nodal!Written, Nodal!Row
<1>. QED  BY <1>2, <1>3

LEMMA NodalCommit ==
    ASSUME NodalInv, NEW c \in walks, Nodal!Commit(c)
    PROVE  NodalInv'
<1>. DEFINE W(e) == {w \in Nodal!Changes(c) : w.employee = e}
            Lands == \A w \in Nodal!Changes(c) : Nodal!Applies(w)
<1>1. /\ c \in Nodal!Call /\ Coming(c)
      /\ walks' = walks \ {c} /\ UNCHANGED <<point, walksOverlapped, chosen>>
  BY DEF Nodal!Commit, NodalInv, Nodal!TypeOK
<1>2. IsFiniteSet(walks') /\ Nodal!Cardinality(walks') <= MaxCalls
  <2>1. /\ IsFiniteSet(walks \ {c}) /\ Cardinality(walks \ {c}) = Cardinality(walks) - 1
        /\ Cardinality(walks) \in Nat /\ Cardinality(walks) <= MaxCalls
    BY FS_RemoveElement, FS_CardinalityType, NodalCardinality DEF NodalInv, Nodal!TypeOK
  <2>. QED  BY <1>1, <2>1, NodalCardinality, NodalAssumption
\* Of an employee's row, at most one write is committed.
<1>3. ASSUME NEW e \in Walkers, NEW w \in Nodal!Changes(c), w.employee = e, Lands
      PROVE  assigned'[e] = Nodal!Written(w)
  <2>1. \A v \in Nodal!Changes(c) : v.employee = e => v = w
    BY <1>1, <1>3 DEF Coming, Nodal!Changes
  <2>2. (CHOOSE v \in Nodal!Changes(c) : v.employee = e) = w
    BY <1>3, <2>1
  <2>. QED  BY <1>3, <2>2 DEF Nodal!Commit
<1>4. ASSUME NEW e \in Walkers, ~Lands \/ \A w \in Nodal!Changes(c) : w.employee # e
      PROVE  assigned'[e] = assigned[e]
  BY <1>4 DEF Nodal!Commit, NodalInv, Nodal!TypeOK
<1>5. ASSUME NEW e \in Walkers
      PROVE  /\ assigned'[e] \in Nodal!Row \union {None}
             /\ assigned'[e] # None => point[assigned'[e].point] # "none"
  <2>1. CASE Lands /\ \E w \in Nodal!Changes(c) : w.employee = e
    BY <1>3, <2>1, NodalWritten DEF Nodal!Changes
  <2>2. CASE ~Lands \/ \A w \in Nodal!Changes(c) : w.employee # e
    BY <1>4, <2>2 DEF NodalInv, Nodal!TypeOK
  <2>. QED  BY <2>1, <2>2
<1>6. Nodal!TypeOK'
  <2>1. DOMAIN assigned' = Walkers /\ assigned' = [e \in Walkers |-> assigned'[e]]
    BY DEF Nodal!Commit, NodalInv, Nodal!TypeOK
  <2>. QED  BY <1>1, <1>2, <1>5, <2>1 DEF NodalInv, Nodal!TypeOK
<1>7. \A d \in walks' : Coming(d)'
  BY <1>1 DEF NodalInv, Coming
\* The choice of an administrator stands after the commit of the only request.
<1>8. ASSUME ~walksOverlapped  PROVE walks' = {} /\ Nodal!ChoiceStands'
  <2>1. walks' = {} /\ Standing(c)
    BY <1>1, <1>8 DEF NodalInv
  <2>2. Lands
    BY <1>1, <2>1 DEF Standing, Nodal!Changes, Nodal!Applies, Nodal!Call, Nodal!Write
  <2>3. SUFFICES ASSUME NEW e \in Walkers, chosen[e] # None
                 PROVE  assigned'[e] = Nodal!Assignment(chosen[e], TRUE)
    BY <1>1, <2>1 DEF Nodal!ChoiceStands, Nodal!Assignment
  <2>4. CASE \E w \in Nodal!Changes(c) : w.employee = e
    <3>1. PICK w \in Nodal!Changes(c) : w.employee = e
      BY <2>4
    <3>2. w \in c.writes /\ assigned'[e] = w.new
      BY <1>3, <2>1, <2>2, <3>1, NodalWritten DEF Nodal!Changes, Standing
    <3>. QED  BY <2>1, <2>3, <3>1, <3>2 DEF Standing
  <2>5. CASE \A w \in Nodal!Changes(c) : w.employee # e
    <3>1. assigned'[e] = assigned[e]
      BY <1>4, <2>5
    <3>2. \A w \in c.writes : w.employee = e => w.old = w.new
      BY <2>5 DEF Nodal!Changes
    <3>3. assigned[e] = Nodal!Assignment(chosen[e], TRUE)
      <4>1. CASE \E w \in c.writes : w.employee = e
        <5>1. PICK w \in c.writes : w.employee = e
          BY <4>1
        <5>2. w.old = assigned[e] /\ w.old = w.new
          BY <2>1, <3>2, <5>1 DEF Standing
        <5>3. w.new = Nodal!Assignment(chosen[e], TRUE)
          BY <2>1, <2>3, <5>1 DEF Standing
        <5>. QED  BY <5>2, <5>3
      <4>2. CASE ~\E w \in c.writes : w.employee = e
        BY <2>1, <2>3, <4>2 DEF Standing
      <4>. QED  BY <4>1, <4>2
    <3>. QED  BY <3>1, <3>3
  <2>. QED  BY <2>4, <2>5
<1>9. Nodal!ChoiceStands'
  BY <1>1, <1>8 DEF Nodal!ChoiceStands
<1>. QED  BY <1>1, <1>2, <1>6, <1>7, <1>8, <1>9 DEF NodalInv

LEMMA NodalNext == NodalInv /\ Nodal!Next => NodalInv'
<1>. SUFFICES ASSUME NodalInv, Nodal!Next  PROVE NodalInv'
  OBVIOUS
<1>1. ASSUME NEW p \in Points, NEW s \in {"active", "inactive"},
             Nodal!CreateNodalPoint(p, s) \/ Nodal!UpdateNodalPoint(p, s)
      PROVE  NodalInv'
  <2>1. /\ point' \in [Points -> {"none", "active", "inactive"}]
        /\ \A q \in Points : point[q] # "none" => point'[q] # "none"
        /\ UNCHANGED <<assigned, walks, walksOverlapped, chosen>>
    BY <1>1 DEF Nodal!CreateNodalPoint, Nodal!UpdateNodalPoint, NodalInv, Nodal!TypeOK
  <2>2. Nodal!TypeOK'
    BY <2>1 DEF NodalInv, Nodal!TypeOK, Nodal!Row
  <2>3. \A c \in walks' : Coming(c)'
    BY <2>1 DEF NodalInv, Nodal!TypeOK, Nodal!Call, Nodal!Write, Nodal!Row, Coming
  <2>4. Nodal!ChoiceStands'
    BY <2>1 DEF NodalInv, Nodal!ChoiceStands
  <2>. QED  BY <2>1, <2>2, <2>3, <2>4 DEF NodalInv, Standing
<1>2. ASSUME NEW e \in Walkers, NEW p \in Points, NEW o \in BOOLEAN,
             Nodal!AssignNodalPointToEmployee(e, p, o)
      PROVE  NodalInv'
  <2>1. PICK w : w = [employee |-> e, old |-> assigned[e], new |-> Nodal!Assignment(p, o)]
    OBVIOUS
  <2>2. w \in Nodal!Write /\ point[w.new.point] # "none" /\ w.employee \in Walkers
    BY <1>2, <2>1 DEF Nodal!AssignNodalPointToEmployee, Nodal!Write, Nodal!Row,
                      Nodal!Assignment, Nodal!Active, NodalInv, Nodal!TypeOK
  <2>3. PICK c : c = [todo |-> {}, at |-> None, points |-> {}, writes |-> {w}]
    OBVIOUS
  <2>4. c \in Nodal!Call /\ Coming(c)
    BY <2>2, <2>3, NodalAssumption DEF Nodal!Call, Coming
  <2>5. /\ Nodal!Begin(c) /\ UNCHANGED <<point, assigned>>
        /\ chosen' = [chosen EXCEPT ![e] = IF o THEN p ELSE None]
    BY <1>2, <2>1, <2>3 DEF Nodal!AssignNodalPointToEmployee
  <2>6. chosen' \in [Walkers -> Points \union {None}]
    BY <2>5 DEF NodalInv, Nodal!TypeOK
  <2>7. ~walksOverlapped /\ walks = {} => Standing(c)'
    <3>1. /\ \A x \in c.writes : x = w
          /\ c.at = None /\ w \in c.writes /\ w.employee = e /\ w.old = assigned[e]
      BY <2>1, <2>3
    <3>2. chosen'[e] # None => w.new = Nodal!Assignment(chosen'[e], TRUE)
      BY <2>1, <2>5 DEF NodalInv, Nodal!TypeOK
    <3>3. ASSUME ~walksOverlapped, walks = {}, NEW x \in Walkers \ {e}, chosen'[x] # None
          PROVE  assigned[x] = Nodal!Assignment(chosen'[x], TRUE)
      BY <2>5, <3>3 DEF NodalInv, Nodal!ChoiceStands, Nodal!TypeOK
    <3>. QED  BY <2>5, <3>1, <3>2, <3>3, NodalAssumption DEF Standing
  <2>. QED  BY <2>4, <2>5, <2>6, <2>7, NodalBegin
<1>3. ASSUME NEW e \in Walkers, Nodal!AssignNearest(e)
      PROVE  NodalInv'
  <2>. DEFINE p == Nodal!Nearest(e, Nodal!Active)
  <2>1. p \in Nodal!Active
    BY <1>3, NearestPoint DEF Nodal!AssignNearest, Nodal!Active
  <2>2. PICK w : w = [employee |-> e, old |-> assigned[e], new |-> Nodal!Assignment(p, FALSE)]
    OBVIOUS
  <2>3. w \in Nodal!Write /\ point[w.new.point] # "none" /\ w.employee \in Walkers
    BY <2>1, <2>2 DEF Nodal!Write, Nodal!Row, Nodal!Assignment, Nodal!Active, NodalInv,
                      Nodal!TypeOK
  <2>4. PICK c : c = [todo |-> {}, at |-> None, points |-> {}, writes |-> {w}]
    OBVIOUS
  <2>5. c \in Nodal!Call /\ Coming(c)
    BY <2>3, <2>4, NodalAssumption DEF Nodal!Call, Coming
  <2>6. /\ Nodal!Begin(c) /\ UNCHANGED <<point, assigned>>
        /\ chosen' = [chosen EXCEPT ![e] = None]
    BY <1>3, <2>2, <2>4 DEF Nodal!AssignNearest
  <2>7. chosen' \in [Walkers -> Points \union {None}]
    BY <2>6 DEF NodalInv, Nodal!TypeOK
  <2>8. ~walksOverlapped /\ walks = {} => Standing(c)'
    BY <2>2, <2>4, <2>6, NodalAssumption
       DEF Standing, NodalInv, Nodal!ChoiceStands, Nodal!TypeOK, Nodal!Assignment
  <2>. QED  BY <2>5, <2>6, <2>7, <2>8, NodalBegin
<1>4. ASSUME NEW e \in Walkers, Nodal!RemoveEmployeeNodalAssignment(e)
      PROVE  NodalInv'
  <2>1. /\ assigned' = [assigned EXCEPT ![e] = None] /\ chosen' = [chosen EXCEPT ![e] = None]
        /\ UNCHANGED <<point, walks>> /\ walksOverlapped' \in BOOLEAN
        /\ ~walksOverlapped' => ~walksOverlapped /\ walks = {}
    BY <1>4 DEF Nodal!RemoveEmployeeNodalAssignment
  <2>2. Nodal!TypeOK'
    BY <2>1 DEF NodalInv, Nodal!TypeOK
  <2>3. \A c \in walks' : Coming(c)'
    BY <2>1 DEF NodalInv, Coming
  <2>4. Nodal!ChoiceStands'
    BY <2>1 DEF NodalInv, Nodal!TypeOK, Nodal!ChoiceStands
  <2>. QED  BY <2>1, <2>2, <2>3, <2>4 DEF NodalInv
<1>5. ASSUME Nodal!BulkAssignNearest
      PROVE  NodalInv'
  <2>1. PICK c : c = [todo |-> Walkers, at |-> None, points |-> Nodal!Active, writes |-> {}]
    OBVIOUS
  <2>2. c \in Nodal!Call /\ Coming(c)
    BY <1>5, <2>1, NodalAssumption DEF Nodal!BulkAssignNearest, Nodal!Call, Nodal!Active, Coming
  <2>3. /\ Nodal!Begin(c) /\ UNCHANGED <<point, assigned, chosen>>
    BY <1>5, <2>1 DEF Nodal!BulkAssignNearest
  <2>4. chosen' \in [Walkers -> Points \union {None}]
    BY <2>3 DEF NodalInv, Nodal!TypeOK
  <2>5. ~walksOverlapped /\ walks = {} => Standing(c)'
    BY <2>1, <2>3, NodalAssumption DEF Standing, NodalInv, Nodal!ChoiceStands
  <2>. QED  BY <2>2, <2>3, <2>4, <2>5, NodalBegin
<1>6. ASSUME NEW c \in walks, NEW e \in c.todo, Nodal!BulkLook(c, e)
      PROVE  NodalInv'
  <2>. DEFINE d == [c EXCEPT !.todo = @ \ {e}, !.at = IF Nodal!Skipped(e) THEN None ELSE e]
  <2>1. c \in Nodal!Call /\ Coming(c) /\ c.at = None /\ e \in Walkers
    BY <1>6 DEF Nodal!BulkLook, NodalInv, Nodal!TypeOK, Nodal!Call
  <2>2. /\ d \in Nodal!Call
        /\ d.todo = c.todo \ {e} /\ d.at = (IF Nodal!Skipped(e) THEN None ELSE e)
        /\ d.points = c.points /\ d.writes = c.writes
    BY <2>1 DEF Nodal!Call
  <2>3. /\ walks' = (walks \ {c}) \union {d}
        /\ UNCHANGED <<point, assigned, walksOverlapped, chosen>>
    BY <1>6 DEF Nodal!BulkLook
  <2>. HIDE DEF d
  <2>4. Coming(d)
    BY <2>1, <2>2, NodalAssumption DEF Coming, Nodal!Call, Nodal!Write
  <2>5. ASSUME Standing(c)  PROVE Standing(d)
    <3>1. \A w \in c.writes : w.employee # e
      BY <2>1 DEF Coming
    <3>2. chosen[e] # None => Nodal!Skipped(e)
      <4>. SUFFICES ASSUME chosen[e] # None  PROVE Nodal!Skipped(e)
        OBVIOUS
      <4>1. assigned[e] = [point |-> chosen[e], overridden |-> TRUE] /\ chosen[e] \in Points
        BY <2>1, <2>5, <3>1 DEF Standing, Nodal!Assignment, NodalInv, Nodal!TypeOK
      <4>2. assigned[e] \in Nodal!Row /\ assigned[e].overridden
        BY <4>1 DEF Nodal!Row
      <4>. QED  BY <4>2, NodalAssumption DEF Nodal!Skipped
    <3>. QED  BY <2>1, <2>2, <2>5, <3>2, NodalAssumption DEF Standing
  <2>. QED  BY <2>2, <2>3, <2>4, <2>5, NodalStep
<1>7. ASSUME NEW c \in walks, Nodal!BulkTake(c)
      PROVE  NodalInv'
  <2>. DEFINE w == [employee |-> c.at, old |-> assigned[c.at],
                    new |-> Nodal!Assignment(Nodal!Nearest(c.at, c.points), FALSE)]
              d == [c EXCEPT !.at = None, !.writes = @ \union {w}]
  <2>1. c \in Nodal!Call /\ Coming(c) /\ c.at # None /\ c.at \in Walkers
    BY <1>7 DEF Nodal!BulkTake, NodalInv, Nodal!TypeOK, Nodal!Call
  <2>2. Nodal!Nearest(c.at, c.points) \in c.points
    BY <2>1, NearestPoint DEF Coming, Nodal!Call
  <2>3. w \in Nodal!Write /\ w.employee = c.at /\ point[w.new.point] # "none"
    BY <2>1, <2>2 DEF Nodal!Write, Nodal!Row, Nodal!Assignment, Nodal!Call, Coming, NodalInv,
                      Nodal!TypeOK
  <2>4. w.old = assigned[c.at]
    OBVIOUS
  <2>. HIDE DEF w
  <2>5. /\ d \in Nodal!Call
        /\ d.todo = c.todo /\ d.at = None
        /\ d.points = c.points /\ d.writes = c.writes \union {w}
    BY <2>1, <2>3 DEF Nodal!Call
  <2>6. /\ walks' = (walks \ {c}) \union {d}
        /\ UNCHANGED <<point, assigned, walksOverlapped, chosen>>
    BY <1>7 DEF Nodal!BulkTake, w
  <2>. HIDE DEF d
  <2>7. Coming(d)
    BY <2>1, <2>3, <2>5, NodalAssumption DEF Coming, Nodal!Call, Nodal!Write
  <2>8. ASSUME Standing(c)  PROVE Standing(d)
    BY <2>1, <2>3, <2>4, <2>5, <2>8, NodalAssumption DEF Standing
  <2>. QED  BY <2>5, <2>6, <2>7, <2>8, NodalStep
<1>. QED
  BY <1>1, <1>2, <1>3, <1>4, <1>5, <1>6, <1>7, NodalCommit DEF Nodal!Next, Nodal!DeactivateNodalPoint

LEMMA NodalOffice == NodalInv /\ [OfficeNext]_allVars => NodalInv'
<1>. SUFFICES ASSUME NodalInv, [OfficeNext]_allVars  PROVE NodalInv'
  OBVIOUS
<1>1. CASE UNCHANGED nodalVars
  <2>1. Nodal!TypeOK' /\ IsFiniteSet(walks')
    BY <1>1 DEF nodalVars, NodalInv, Nodal!TypeOK
  <2>2. \A c : (Coming(c) <=> Coming(c)') /\ (Standing(c) <=> Standing(c)')
    BY <1>1 DEF nodalVars, Coming, Standing
  <2>3. Nodal!ChoiceStands'
    BY <1>1 DEF nodalVars, NodalInv, Nodal!ChoiceStands
  <2>. QED  BY <1>1, <2>1, <2>2, <2>3 DEF nodalVars, NodalInv
<1>2. Nodal!Next \/ UNCHANGED nodalVars
  BY DEF OfficeNext, Others, allVars
<1>. QED  BY <1>1, <1>2, NodalNext

\* The point an administrator chose for an employee stands as long as the requests
\* did not overlap, whatever the assignments of all employees do in between.
THEOREM ChosenPointStands == OfficeSpec => []ChoiceStands
<1>1. OfficeInit => NodalInv
  BY NodalInit DEF OfficeInit
<1>2. NodalInv => ChoiceStands
  BY DEF ChoiceStands, NodalInv
<1>. QED  BY <1>1, <1>2, NodalOffice, PTL DEF OfficeSpec

-----------------------------------------------------------------------------
(* Vehicles and their contracts                                             *)

\* Rows are never deleted: what a row or a request names is there.
Known(f) ==
    /\ \A v \in Fleet(f)!Own(vehicle) :
           vehicle[v].contract # None => contract[vehicle[v].contract] # None
    /\ \A c \in requests :
           /\ c.kind \in {"updateContract", "deleteContract"} => contract[c.id] # None
           /\ c.kind \in {"createVehicle", "updateVehicle"} =>
                  (c.new.contract # None => contract[c.new.contract] # None)
           /\ c.kind = "updateVehicle" => vehicle[c.id] # None /\ c.old # None

\* What a request that is alone has checked still holds when it commits.
FitsRow(r)  == r.contract # None => contract[r.contract].type = r.type
AloneOn(f, r, v) ==
    r.driver # None /\ r.active =>
        \A u \in Fleet(f)!Own(vehicle) \ {v} : ~(vehicle[u].active /\ vehicle[u].driver = r.driver)
Checked(f, c) ==
    /\ c.kind = "updateContract" => Fleet(f)!Assigned(c.id) = {}
    /\ c.kind = "createVehicle" => FitsRow(c.new) /\ AloneOn(f, c.new, c.id)
    /\ c.kind = "updateVehicle" =>
           /\ vehicle[c.id] = c.old /\ FitsRow(c.new) /\ c.new.active = c.old.active
           /\ ~reactivated => AloneOn(f, c.new, c.id)

FleetInv(f) ==
    /\ Fleet(f)!TypeOK
    /\ Known(f)
    /\ Fleet(f)!ContractFits
    /\ Fleet(f)!DriverOnce
    /\ ~fleetRaced => /\ \A c, d \in requests : c = d
                      /\ \A c \in requests : Checked(f, c)

LEMMA FleetInit == ASSUME NEW f \in Fleets, Fleet(f)!Init PROVE FleetInv(f)
<1>. USE DEF Fleet!Init
<1>1. Fleet(f)!Own(vehicle) = {} /\ Fleet(f)!Own(contract) = {} /\ requests = {}
  BY DEF Fleet!Own
<1>2. Fleet(f)!TypeOK
  BY <1>1 DEF Fleet!TypeOK
<1>. QED  BY <1>1, <1>2 DEF FleetInv, Known, Fleet!ContractFits, Fleet!DriverOnce

\* A request that begins.
LEMMA FleetBegin ==
    ASSUME NEW f \in Fleets, FleetInv(f), NEW c \in Fleet(f)!Call, Fleet(f)!Begin(c),
           c.kind \in {"updateContract", "deleteContract"} => contract[c.id] # None,
           c.kind \in {"createVehicle", "updateVehicle"} =>
               (c.new.contract # None => contract[c.new.contract] # None),
           c.kind = "updateVehicle" => vehicle[c.id] # None /\ c.old # None,
           ~fleetRaced /\ requests = {} => Checked(f, c)
    PROVE  FleetInv(f)'
<1>1. /\ requests' = requests \union {c} /\ fleetRaced' \in BOOLEAN
      /\ ~fleetRaced' => ~fleetRaced /\ requests = {}
      /\ UNCHANGED <<contract, vehicle, reactivated>>
  BY DEF Fleet!Begin
<1>2. Fleet(f)!TypeOK'
  BY <1>1 DEF FleetInv, Fleet!TypeOK, Fleet!Own
<1>3. Known(f)'
  BY <1>1 DEF FleetInv, Known, Fleet!Own
<1>4. Fleet(f)!ContractFits' /\ Fleet(f)!DriverOnce'
  BY <1>1 DEF FleetInv, Fleet!ContractFits, Fleet!DriverOnce, Fleet!Own
<1>5. ASSUME ~fleetRaced'
      PROVE  (\A d, e \in requests' : d = e) /\ \A d \in requests' : Checked(f, d)'
  BY <1>1, <1>5 DEF Checked, FitsRow, AloneOn, Fleet!Assigned, Fleet!Own
<1>. QED  BY <1>2, <1>3, <1>4, <1>5 DEF FleetInv

\* A request that commits what it has just read: no request is under way, or two
\* have been at a time.
LEMMA FleetAtOnce ==
    ASSUME NEW f \in Fleets, FleetInv(f), Fleet(f)!AtOnce,
           (Fleet(f)!TypeOK /\ Known(f))',
           ~fleetRaced => (Fleet(f)!ContractFits /\ Fleet(f)!DriverOnce)'
    PROVE  FleetInv(f)'
<1>1. requests' = requests /\ (~fleetRaced' => ~fleetRaced /\ requests = {})
  BY DEF Fleet!AtOnce
<1>. QED  BY <1>1 DEF FleetInv, Fleet!ContractFits, Fleet!DriverOnce

\* A request that ends.
LEMMA FleetEnd ==
    ASSUME NEW f \in Fleets, FleetInv(f), NEW c \in requests, Fleet(f)!End(c),
           (Fleet(f)!TypeOK /\ Known(f))',
           ~fleetRaced => (Fleet(f)!ContractFits /\ Fleet(f)!DriverOnce)'
    PROVE  FleetInv(f)'
<1>1. requests' = requests \ {c} /\ fleetRaced' = fleetRaced
  BY DEF Fleet!End
<1>2. ~fleetRaced => requests' = {}
  BY <1>1 DEF FleetInv
<1>. QED  BY <1>1, <1>2 DEF FleetInv, Fleet!ContractFits, Fleet!DriverOnce

LEMMA FleetContract ==
    ASSUME NEW f \in Fleets, FleetInv(f), Fleet(f)!ContractRequest
    PROVE  FleetInv(f)'
<1>. USE FleetAssumption
<1>1. ASSUME NEW c \in f.contracts, NEW t \in f.types, NEW active \in BOOLEAN,
             Fleet(f)!CreateContract(c, t, active)
      PROVE  FleetInv(f)'
  <2>1. /\ contract[c] = None /\ ~Fleet(f)!TypeTaken(t, c)
        /\ contract' = [contract EXCEPT ![c] = [type |-> t, active |-> active]]
        /\ Fleet(f)!AtOnce /\ UNCHANGED <<vehicle, reactivated>>
    BY <1>1 DEF Fleet!CreateContract
  <2>2. [type |-> t, active |-> active] \in Fleet(f)!ContractRow
    BY DEF Fleet!ContractRow
  <2>3. Fleet(f)!TypeOK'
    BY <2>1, <2>2 DEF FleetInv, Fleet!TypeOK, Fleet!AtOnce, Fleet!TypeTaken, Fleet!Own
  <2>4. Known(f)'
    BY <2>1, <2>2 DEF FleetInv, Known, Fleet!TypeOK, Fleet!AtOnce, Fleet!Own
  <2>5. ~fleetRaced => (Fleet(f)!ContractFits /\ Fleet(f)!DriverOnce)'
    BY <2>1 DEF FleetInv, Known, Fleet!TypeOK, Fleet!AtOnce, Fleet!Own, Fleet!ContractFits,
                Fleet!DriverOnce
  <2>. QED  BY <2>1, <2>3, <2>4, <2>5, FleetAtOnce
<1>2. ASSUME NEW c \in f.contracts, NEW t \in f.types, Fleet(f)!UpdateContractRead(c, t)
      PROVE  FleetInv(f)'
  <2>1. PICK d : d = [kind |-> "updateContract", id |-> c, type |-> t]
    OBVIOUS
  <2>2. d \in Fleet(f)!Call
    BY <2>1 DEF Fleet!Call
  <2>. QED  BY <1>2, <2>1, <2>2, FleetBegin DEF Fleet!UpdateContractRead, Checked
<1>3. ASSUME NEW c \in f.contracts, Fleet(f)!ToggleContractStatus(c)
      PROVE  FleetInv(f)'
  <2>. DEFINE new == [contract[c] EXCEPT !.active = ~@]
  <2>1. contract[c] \in Fleet(f)!ContractRow
    BY <1>3 DEF Fleet!ToggleContractStatus, FleetInv, Fleet!TypeOK
  <2>2. new \in Fleet(f)!ContractRow /\ new.type = contract[c].type
    BY <2>1 DEF Fleet!ContractRow
  <2>3. /\ contract[c] # None /\ contract' = [contract EXCEPT ![c] = new]
        /\ Fleet(f)!AtOnce /\ UNCHANGED <<vehicle, reactivated>>
    BY <1>3 DEF Fleet!ToggleContractStatus
  <2>. HIDE DEF new
  <2>4. Fleet(f)!TypeOK'
    BY <2>2, <2>3 DEF FleetInv, Fleet!TypeOK, Fleet!AtOnce, Fleet!Own
  <2>5. Known(f)'
    BY <2>2, <2>3 DEF FleetInv, Known, Fleet!TypeOK, Fleet!AtOnce, Fleet!Own
  <2>6. ~fleetRaced => (Fleet(f)!ContractFits /\ Fleet(f)!DriverOnce)'
    BY <2>2, <2>3 DEF FleetInv, Known, Fleet!TypeOK, Fleet!AtOnce, Fleet!Own,
                      Fleet!ContractFits, Fleet!DriverOnce
  <2>. QED  BY <2>3, <2>4, <2>5, <2>6, FleetAtOnce
<1>4. ASSUME NEW c \in f.contracts, NEW force \in BOOLEAN, Fleet(f)!DeleteContractRead(c, force)
      PROVE  FleetInv(f)'
  <2>1. PICK d : d = [kind |-> "deleteContract", id |-> c,
                      unassign |-> Fleet(f)!Assigned(c) # {}, end |-> contract[c].active]
    OBVIOUS
  <2>2. contract[c] \in Fleet(f)!ContractRow
    BY <1>4 DEF Fleet!DeleteContractRead, FleetInv, Fleet!TypeOK
  <2>3. d \in Fleet(f)!Call
    BY <2>1, <2>2 DEF Fleet!Call, Fleet!ContractRow
  <2>. QED  BY <1>4, <2>1, <2>3, FleetBegin DEF Fleet!DeleteContractRead, Checked
<1>. QED  BY <1>1, <1>2, <1>3, <1>4 DEF Fleet!ContractRequest

\* The commits about contracts.
LEMMA FleetContractCommit ==
    ASSUME NEW f \in Fleets, FleetInv(f), NEW c \in requests,
           Fleet(f)!UpdateContractCommit(c) \/ Fleet(f)!DeleteContractCommit(c)
    PROVE  FleetInv(f)'
<1>. USE FleetAssumption
<1>1. ASSUME Fleet(f)!UpdateContractCommit(c), Fleet(f)!TypeTaken(c.type, c.id)
      PROVE  FleetInv(f)'
  <2>1. Fleet(f)!End(c) /\ UNCHANGED <<contract, vehicle, reactivated>>
    BY <1>1 DEF Fleet!UpdateContractCommit
  <2>2. Fleet(f)!TypeOK' /\ Known(f)'
    BY <2>1 DEF FleetInv, Known, Fleet!TypeOK, Fleet!End, Fleet!Own
  <2>3. ~fleetRaced => (Fleet(f)!ContractFits /\ Fleet(f)!DriverOnce)'
    BY <2>1 DEF FleetInv, Fleet!End, Fleet!Own, Fleet!ContractFits, Fleet!DriverOnce
  <2>. QED  BY <2>1, <2>2, <2>3, FleetEnd
<1>2. ASSUME Fleet(f)!UpdateContractCommit(c), ~Fleet(f)!TypeTaken(c.type, c.id)
      PROVE  FleetInv(f)'
  <2>. DEFINE new == [contract[c.id] EXCEPT !.type = c.type]
  <2>1. c.id \in f.contracts /\ c.type \in f.types /\ contract[c.id] \in Fleet(f)!ContractRow
    BY <1>2 DEF Fleet!UpdateContractCommit, FleetInv, Known, Fleet!TypeOK, Fleet!Call
  <2>2. new \in Fleet(f)!ContractRow /\ new.type = c.type
    BY <2>1 DEF Fleet!ContractRow
  <2>3. /\ contract' = [contract EXCEPT ![c.id] = new]
        /\ c.kind = "updateContract" /\ Fleet(f)!End(c) /\ UNCHANGED <<vehicle, reactivated>>
    BY <1>2 DEF Fleet!UpdateContractCommit
  <2>. HIDE DEF new
  <2>4. Fleet(f)!TypeOK'
    BY <1>2, <2>1, <2>2, <2>3
       DEF FleetInv, Fleet!TypeOK, Fleet!TypeTaken, Fleet!End, Fleet!Own
  <2>5. Known(f)'
    BY <2>1, <2>2, <2>3 DEF FleetInv, Known, Fleet!TypeOK, Fleet!End, Fleet!Own
  <2>6. ~fleetRaced => (Fleet(f)!ContractFits /\ Fleet(f)!DriverOnce)'
    BY <2>1, <2>2, <2>3 DEF FleetInv, Checked, Fleet!TypeOK, Fleet!End, Fleet!Own,
                            Fleet!Assigned, Fleet!ContractFits, Fleet!DriverOnce
  <2>. QED  BY <2>3, <2>4, <2>5, <2>6, FleetEnd
<1>3. ASSUME Fleet(f)!DeleteContractCommit(c)
      PROVE  FleetInv(f)'
  <2>. DEFINE new == [contract[c.id] EXCEPT !.active = @ /\ ~c.end]
              left(v) == [vehicle[v] EXCEPT !.contract = None]
  <2>1. /\ c.id \in f.contracts /\ contract[c.id] \in Fleet(f)!ContractRow
        /\ c.end \in BOOLEAN
    BY <1>3 DEF Fleet!DeleteContractCommit, FleetInv, Known, Fleet!TypeOK, Fleet!Call
  <2>2. new \in Fleet(f)!ContractRow /\ new.type = contract[c.id].type
    BY <2>1 DEF Fleet!ContractRow
  <2>3. \A v \in Fleet(f)!Own(vehicle) :
            /\ left(v) \in Fleet(f)!VehicleRow /\ left(v).contract = None
            /\ left(v).active = vehicle[v].active /\ left(v).driver = vehicle[v].driver
    BY DEF FleetInv, Fleet!TypeOK, Fleet!Own, Fleet!VehicleRow
  <2>4. /\ vehicle' = [v \in f.vehicles |-> IF c.unassign /\ v \in Fleet(f)!Assigned(c.id)
                                            THEN left(v) ELSE vehicle[v]]
        /\ contract' = [contract EXCEPT ![c.id] = new]
        /\ Fleet(f)!End(c) /\ UNCHANGED reactivated
    BY <1>3 DEF Fleet!DeleteContractCommit
  <2>. HIDE DEF new, left
  <2>5. /\ DOMAIN vehicle = f.vehicles /\ DOMAIN vehicle' = f.vehicles
        /\ Fleet(f)!Own(vehicle') = Fleet(f)!Own(vehicle)
        /\ \A v \in Fleet(f)!Own(vehicle) :
               /\ vehicle'[v] \in Fleet(f)!VehicleRow
               /\ vehicle'[v].active = vehicle[v].active
               /\ vehicle'[v].driver = vehicle[v].driver
               /\ vehicle'[v] = vehicle[v] \/ vehicle'[v].contract = None
    BY <2>3, <2>4 DEF FleetInv, Fleet!TypeOK, Fleet!Own, Fleet!Assigned
  <2>6. Fleet(f)!TypeOK'
    <3>1. vehicle' \in [f.vehicles -> Fleet(f)!VehicleRow \union {None}]
      BY <2>4, <2>5 DEF Fleet!Own
    <3>. QED  BY <2>1, <2>2, <2>4, <3>1 DEF FleetInv, Fleet!TypeOK, Fleet!End, Fleet!Own
  <2>7. /\ \A x \in f.contracts : contract[x] # None =>
               contract'[x] # None /\ contract'[x].type = contract[x].type
        /\ \A v \in f.vehicles : vehicle[v] # None => vehicle'[v] # None
        /\ \A v \in Fleet(f)!Own(vehicle) : v \in f.vehicles /\ vehicle[v] # None
                                           /\ vehicle[v] \in Fleet(f)!VehicleRow
    <3>1. \A x \in f.contracts : contract[x] # None =>
              contract'[x] # None /\ contract'[x].type = contract[x].type
      BY <2>1, <2>2, <2>4 DEF FleetInv, Fleet!TypeOK
    <3>2. \A v \in f.vehicles : vehicle[v] # None => v \in Fleet(f)!Own(vehicle')
      BY <2>5 DEF Fleet!Own
    <3>3. \A v \in Fleet(f)!Own(vehicle) : v \in f.vehicles /\ vehicle[v] # None
                                           /\ vehicle[v] \in Fleet(f)!VehicleRow
      BY <2>5 DEF FleetInv, Fleet!TypeOK, Fleet!Own
    <3>. QED  BY <3>1, <3>2, <3>3 DEF Fleet!Own
  <2>8. requests' \subseteq requests
    BY <2>4 DEF Fleet!End
  <2>9. Known(f)'
    <3>1. ASSUME NEW v \in Fleet(f)!Own(vehicle'), vehicle'[v].contract # None
          PROVE  contract'[vehicle'[v].contract] # None
      BY <2>5, <2>7, <3>1 DEF FleetInv, Known, Fleet!VehicleRow
    <3>2. ASSUME NEW d \in requests'
          PROVE  /\ d.kind \in {"updateContract", "deleteContract"} => contract'[d.id] # None
                 /\ d.kind \in {"createVehicle", "updateVehicle"} =>
                        (d.new.contract # None => contract'[d.new.contract] # None)
                 /\ d.kind = "updateVehicle" => vehicle'[d.id] # None /\ d.old # None
      BY <2>7, <2>8, <3>2 DEF FleetInv, Known, Fleet!TypeOK, Fleet!Call, Fleet!VehicleRow
    <3>. QED  BY <3>1, <3>2 DEF Known
  <2>10. ~fleetRaced => (Fleet(f)!ContractFits /\ Fleet(f)!DriverOnce)'
    <3>1. fleetRaced' = fleetRaced /\ reactivated' = reactivated
      BY <2>4 DEF Fleet!End
    <3>2. ~fleetRaced => Fleet(f)!ContractFits'
      BY <2>5, <2>7 DEF FleetInv, Known, Fleet!ContractFits, Fleet!VehicleRow
    <3>3. ~fleetRaced => Fleet(f)!DriverOnce'
      BY <2>5, <3>1 DEF FleetInv, Fleet!DriverOnce
    <3>. QED  BY <3>2, <3>3
  <2>. QED  BY <2>4, <2>6, <2>9, <2>10, FleetEnd
<1>. QED  BY <1>1, <1>2, <1>3

LEMMA FleetVehicle ==
    ASSUME NEW f \in Fleets, FleetInv(f), Fleet(f)!VehicleRequest
    PROVE  FleetInv(f)'
<1>. USE FleetAssumption
<1>1. ASSUME NEW v \in f.vehicles, NEW t \in f.types, NEW d \in f.drivers \union {None},
             NEW c \in f.contracts, Fleet(f)!CreateVehicleRead(v, t, c, d)
      PROVE  FleetInv(f)'
  <2>1. PICK row_ : row_ = [type |-> t, contract |-> c, driver |-> d, active |-> TRUE]
    OBVIOUS
  <2>2. PICK k : k = [kind |-> "createVehicle", id |-> v, old |-> None, new |-> row_]
    OBVIOUS
  <2>3. row_ \in Fleet(f)!VehicleRow /\ k \in Fleet(f)!Call
    BY <2>1, <2>2 DEF Fleet!Call, Fleet!VehicleRow
  <2>4. /\ Fleet(f)!FitFor(c, t) /\ (d # None => Fleet(f)!FreeFor(d, v))
        /\ Fleet(f)!Begin(k)
    BY <1>1, <2>1, <2>2 DEF Fleet!CreateVehicleRead
  <2>5. Checked(f, k)
    BY <2>1, <2>2, <2>4 DEF Checked, FitsRow, AloneOn, Fleet!FitFor, Fleet!FreeFor
  <2>. QED  BY <2>1, <2>2, <2>3, <2>4, <2>5, FleetBegin DEF Fleet!FitFor
<1>2. ASSUME NEW v \in f.vehicles, NEW t \in f.types, NEW d \in f.drivers \union {None},
             NEW sent \in f.contracts \union {"keep", None},
             Fleet(f)!UpdateVehicleRead(v, t, sent, d)
      PROVE  FleetInv(f)'
  <2>1. PICK row_ : row_ = Fleet(f)!Updated(vehicle[v], t, sent, d)
    OBVIOUS
  <2>2. PICK k : k = [kind |-> "updateVehicle", id |-> v, old |-> vehicle[v], new |-> row_]
    OBVIOUS
  <2>3. /\ vehicle[v] # None /\ Fleet(f)!ContractToCome(v, t, sent)
        /\ d # None => Fleet(f)!FreeFor(d, v)
        /\ Fleet(f)!Begin(k)
    BY <1>2, <2>1, <2>2 DEF Fleet!UpdateVehicleRead
  <2>4. vehicle[v] \in Fleet(f)!VehicleRow
    BY <2>3 DEF FleetInv, Fleet!TypeOK
  <2>5. /\ row_ \in Fleet(f)!VehicleRow /\ row_.type = t
        /\ row_.contract = (IF sent = "keep" THEN vehicle[v].contract ELSE sent)
        /\ row_.driver = (IF d = None THEN vehicle[v].driver ELSE d)
        /\ row_.active = vehicle[v].active
    BY <2>1, <2>4 DEF Fleet!Updated, Fleet!VehicleRow
  <2>6. k \in Fleet(f)!Call
    BY <2>2, <2>4, <2>5 DEF Fleet!Call
  <2>7. row_.contract # None => contract[row_.contract] # None
    BY <2>3, <2>5 DEF Fleet!ContractToCome, Fleet!FitFor, FleetInv, Known, Fleet!TypeOK, Fleet!Own
  <2>8. ASSUME ~fleetRaced  PROVE Checked(f, k)
    <3>1. FitsRow(row_)
      BY <2>3, <2>5, <2>8 DEF FitsRow, Fleet!ContractToCome, Fleet!FitFor, FleetInv,
                              Fleet!TypeOK, Fleet!ContractFits, Fleet!Own
    <3>2. ~reactivated => AloneOn(f, row_, v)
      BY <2>3, <2>5, <2>8 DEF AloneOn, Fleet!FreeFor, FleetInv, Fleet!TypeOK, Fleet!DriverOnce,
                              Fleet!Own
    <3>. QED  BY <2>2, <2>5, <3>1, <3>2 DEF Checked
  <2>. QED  BY <2>2, <2>3, <2>4, <2>6, <2>7, <2>8, FleetBegin
<1>3. ASSUME NEW v \in f.vehicles, NEW active \in BOOLEAN,
             Fleet(f)!UpdateVehicleStatus(v, active)
      PROVE  FleetInv(f)'
  <2>. DEFINE new == [vehicle[v] EXCEPT !.active = active]
  <2>1. vehicle[v] # None /\ vehicle[v] \in Fleet(f)!VehicleRow
    BY <1>3 DEF Fleet!UpdateVehicleStatus, FleetInv, Fleet!TypeOK
  <2>2. /\ new \in Fleet(f)!VehicleRow /\ new.type = vehicle[v].type
        /\ new.contract = vehicle[v].contract /\ new.driver = vehicle[v].driver
        /\ new.active = active
    BY <2>1 DEF Fleet!VehicleRow
  <2>3. /\ vehicle' = [vehicle EXCEPT ![v] = new]
        /\ reactivated' \in BOOLEAN
        /\ ~reactivated' => ~reactivated /\ (active => vehicle[v].active)
        /\ Fleet(f)!AtOnce /\ UNCHANGED contract
    BY <1>3 DEF Fleet!UpdateVehicleStatus
  <2>. HIDE DEF new
  <2>4. Fleet(f)!TypeOK'
    BY <2>1, <2>2, <2>3 DEF FleetInv, Fleet!TypeOK, Fleet!AtOnce, Fleet!Own
  <2>5. Known(f)'
    BY <2>1, <2>2, <2>3 DEF FleetInv, Known, Fleet!TypeOK, Fleet!AtOnce, Fleet!Own
  <2>6. ~fleetRaced => (Fleet(f)!ContractFits /\ Fleet(f)!DriverOnce)'
    BY <2>1, <2>2, <2>3 DEF FleetInv, Fleet!TypeOK, Fleet!Own, Fleet!ContractFits, Fleet!DriverOnce
  <2>. QED  BY <2>3, <2>4, <2>5, <2>6, FleetAtOnce
<1>. QED  BY <1>1, <1>2, <1>3 DEF Fleet!VehicleRequest

\* A row that a commit leaves for vehicle v.
LEMMA FleetVehicleRow ==
    ASSUME NEW f \in Fleets, FleetInv(f), NEW c \in requests, NEW new \in Fleet(f)!VehicleRow,
           c.id \in f.vehicles, c.kind \in {"createVehicle", "updateVehicle"},
           vehicle' = [vehicle EXCEPT ![c.id] = new],
           Fleet(f)!End(c), UNCHANGED <<contract, reactivated>>,
           new.contract # None => contract[new.contract] # None,
           ~fleetRaced => FitsRow(new) /\ (~reactivated => AloneOn(f, new, c.id))
    PROVE  FleetInv(f)'
<1>. USE FleetAssumption
<1>1. Fleet(f)!TypeOK'
  BY DEF FleetInv, Fleet!TypeOK, Fleet!End, Fleet!Own
<1>2. Known(f)'
  BY DEF FleetInv, Known, Fleet!TypeOK, Fleet!End, Fleet!Own
<1>3. ~fleetRaced => (Fleet(f)!ContractFits /\ Fleet(f)!DriverOnce)'
  BY DEF FleetInv, Fleet!TypeOK, Fleet!Own, Fleet!End, Fleet!ContractFits, Fleet!DriverOnce,
         FitsRow, AloneOn
<1>. QED  BY <1>1, <1>2, <1>3, FleetEnd

LEMMA FleetVehicleCommit ==
    ASSUME NEW f \in Fleets, FleetInv(f), NEW c \in requests,
           Fleet(f)!CreateVehicleCommit(c) \/ Fleet(f)!UpdateVehicleCommit(c)
    PROVE  FleetInv(f)'
<1>. USE FleetAssumption
<1>1. CASE Fleet(f)!CreateVehicleCommit(c)
  <2>1. /\ c.kind = "createVehicle" /\ c.id \in f.vehicles /\ c.new \in Fleet(f)!VehicleRow
        /\ c.new.contract # None => contract[c.new.contract] # None
        /\ ~fleetRaced => Checked(f, c)
    BY <1>1 DEF Fleet!CreateVehicleCommit, FleetInv, Known, Fleet!TypeOK, Fleet!Call
  <2>2. /\ vehicle' = [vehicle EXCEPT ![c.id] = c.new]
        /\ Fleet(f)!End(c) /\ UNCHANGED <<contract, reactivated>>
    BY <1>1 DEF Fleet!CreateVehicleCommit
  <2>. QED  BY <2>1, <2>2, FleetVehicleRow DEF Checked
<1>2. CASE Fleet(f)!UpdateVehicleCommit(c)
  <2>. DEFINE now_ == vehicle[c.id]
              new == [now_ EXCEPT
                          !.type = IF c.new.type = c.old.type THEN @ ELSE c.new.type,
                          !.contract = IF c.new.contract = c.old.contract THEN @
                                       ELSE c.new.contract,
                          !.driver = IF c.new.driver = c.old.driver THEN @ ELSE c.new.driver]
  <2>1. /\ c.kind = "updateVehicle" /\ c.id \in f.vehicles /\ c.new \in Fleet(f)!VehicleRow
        /\ c.old \in Fleet(f)!VehicleRow /\ now_ \in Fleet(f)!VehicleRow /\ now_ # None
        /\ c.new.contract # None => contract[c.new.contract] # None
        /\ now_.contract # None => contract[now_.contract] # None
        /\ ~fleetRaced => Checked(f, c)
    BY <1>2 DEF Fleet!UpdateVehicleCommit, FleetInv, Known, Fleet!TypeOK, Fleet!Call, Fleet!Own
  <2>2. /\ vehicle' = [vehicle EXCEPT ![c.id] = new]
        /\ Fleet(f)!End(c) /\ UNCHANGED <<contract, reactivated>>
    BY <1>2 DEF Fleet!UpdateVehicleCommit
  <2>3. /\ new \in Fleet(f)!VehicleRow
        /\ new.type = (IF c.new.type = c.old.type THEN now_.type ELSE c.new.type)
        /\ new.contract = (IF c.new.contract = c.old.contract THEN now_.contract
                           ELSE c.new.contract)
        /\ new.driver = (IF c.new.driver = c.old.driver THEN now_.driver ELSE c.new.driver)
        /\ new.active = now_.active
    BY <2>1 DEF Fleet!VehicleRow
  <2>. HIDE DEF new
  <2>4. PICK n : n = new
    OBVIOUS
  <2>5. n.contract # None => contract[n.contract] # None
    BY <2>1, <2>3, <2>4
  <2>6. ~fleetRaced => /\ n.type = c.new.type /\ n.contract = c.new.contract
                       /\ n.driver = c.new.driver /\ n.active = c.new.active
    BY <2>1, <2>3, <2>4 DEF Checked
  <2>7. ~fleetRaced => FitsRow(n) /\ (~reactivated => AloneOn(f, n, c.id))
    BY <2>1, <2>6 DEF Checked, FitsRow, AloneOn
  <2>. QED  BY <2>1, <2>2, <2>3, <2>4, <2>5, <2>7, FleetVehicleRow
<1>. QED  BY <1>1, <1>2

LEMMA FleetNext ==
    ASSUME NEW f \in Fleets, FleetInv(f), Fleet(f)!Next
    PROVE  FleetInv(f)'
BY FleetContract, FleetVehicle, FleetContractCommit, FleetVehicleCommit
   DEF Fleet!Next, Fleet!Commit

FleetsInv == fleet \in Fleets /\ \A f \in Fleets : fleet = f => FleetInv(f)

LEMMA FleetStep == FleetsInv /\ [OfficeNext]_allVars => FleetsInv'
<1>. SUFFICES ASSUME FleetsInv, [OfficeNext]_allVars  PROVE FleetsInv'
  OBVIOUS
<1>1. UNCHANGED fleet
  BY DEF OfficeNext, Others, allVars, fleetVars
<1>2. ASSUME NEW f \in Fleets, fleet = f  PROVE FleetInv(f)'
  <2>1. CASE UNCHANGED fleetVars
    BY <1>2, <2>1 DEF fleetVars, FleetsInv, FleetInv, Fleet!TypeOK, Known, Fleet!ContractFits,
       Fleet!DriverOnce, Checked, FitsRow, AloneOn, Fleet!Assigned, Fleet!Own
  <2>2. Fleet(f)!Next \/ UNCHANGED fleetVars
    BY <1>2 DEF OfficeNext, Others, allVars
  <2>. QED  BY <1>2, <2>1, <2>2, FleetNext DEF FleetsInv
<1>. QED  BY <1>1, <1>2 DEF FleetsInv

\* As long as requests take turns, every vehicle has the type of its contract; and
\* no driver is on two active vehicles, unless one was switched on again.
THEOREM FleetStaysConsistent == OfficeSpec => []FleetConsistent
<1>1. OfficeInit => FleetsInv
  BY FleetInit DEF OfficeInit, FleetsInv
<1>2. FleetsInv => FleetConsistent
  BY DEF FleetConsistent, FleetsInv, FleetInv
<1>. QED  BY <1>1, <1>2, FleetStep, PTL DEF OfficeSpec

-----------------------------------------------------------------------------
(* The roll of the employees                                                *)

\* What is left of the file, and what is reported, account for the whole file, and
\* what the transaction holds is reported.
Reported ==
    upload # None =>
        /\ upload.added \subseteq upload.made
        /\ upload.failed = {} => upload.added = upload.made
        /\ Staff!Names(upload.file) \subseteq
               upload.made \union upload.failed \union Staff!Names(upload.rows)

StaffInv == Staff!TypeOK /\ Reported

LEMMA StaffInit == Staff!Init => StaffInv
BY StaffAssumption DEF Staff!Init, StaffInv, Staff!TypeOK, Reported

\* The first row of a file and the others.
LEMMA NamesOfRows ==
    ASSUME NEW rows_ \in Seq([who : People, fits : BOOLEAN]), rows_ # <<>>
    PROVE  /\ Head(rows_) \in [who : People, fits : BOOLEAN]
           /\ Tail(rows_) \in Seq([who : People, fits : BOOLEAN])
           /\ Staff!Names(rows_) = {Head(rows_).who} \union Staff!Names(Tail(rows_))
<1>1. Len(rows_) \in Nat \ {0} /\ Head(rows_) = rows_[1]
  OBVIOUS
<1>2. /\ Tail(rows_) \in Seq([who : People, fits : BOOLEAN])
      /\ Len(Tail(rows_)) = Len(rows_) - 1
      /\ \A i \in 1..(Len(rows_) - 1) : Tail(rows_)[i] = rows_[i + 1]
  OBVIOUS
<1>3. \A i \in DOMAIN rows_ : i = 1 \/ (i - 1 \in DOMAIN Tail(rows_) /\ Tail(rows_)[i - 1] = rows_[i])
  BY <1>1, <1>2
<1>4. \A i \in DOMAIN Tail(rows_) : i + 1 \in DOMAIN rows_ /\ Tail(rows_)[i] = rows_[i + 1]
  BY <1>1, <1>2
<1>5. 1 \in DOMAIN rows_
  BY <1>1
<1>6. Staff!Names(rows_) \subseteq {Head(rows_).who} \union Staff!Names(Tail(rows_))
  BY <1>1, <1>3 DEF Staff!Names
<1>7. {Head(rows_).who} \union Staff!Names(Tail(rows_)) \subseteq Staff!Names(rows_)
  BY <1>1, <1>4, <1>5 DEF Staff!Names
<1>8. Head(rows_) \in [who : People, fits : BOOLEAN]
  <2>1. rows_ \in [1..Len(rows_) -> [who : People, fits : BOOLEAN]]
    <3>1. \A S, s : s \in Seq(S) => s \in [1..Len(s) -> S]
      OBVIOUS
    <3>. QED  BY <3>1
  <2>2. 1 \in 1..Len(rows_)
    BY <1>1
  <2>3. rows_[1] \in [who : People, fits : BOOLEAN]
    BY ONLY <2>1, <2>2
  <2>. QED  BY <2>3, <1>1
<1>. QED  BY <1>2, <1>6, <1>7, <1>8

\* A row that has been looked at: what the transaction holds and the report say.
LEMMA StaffRow ==
    ASSUME StaffInv, upload # None, upload.rows # <<>>,
           NEW added \in SUBSET People, NEW made \in SUBSET People, NEW failed \in SUBSET People,
           upload' = [upload EXCEPT !.rows = Tail(@), !.added = added,
                                    !.made = made, !.failed = failed],
           UNCHANGED <<staff, inactive, insert, mailed>>,
           added \intersect staff = {}, \A c \in Calls : insert[c] \notin added,
           added \subseteq made, failed = {} => added = made,
           upload.made \union upload.failed \union {Head(upload.rows).who}
               \subseteq made \union failed
    PROVE  StaffInv'
<1>1. /\ upload \in Staff!Upload
      /\ upload.rows \in Seq([who : People, fits : BOOLEAN])
  BY DEF StaffInv, Staff!TypeOK, Staff!Upload
<1>2. /\ upload' \in Staff!Upload /\ upload'.file = upload.file
      /\ upload'.rows = Tail(upload.rows)
      /\ upload'.added = added /\ upload'.made = made /\ upload'.failed = failed
  BY <1>1, NamesOfRows DEF Staff!Upload
<1>3. Staff!TypeOK'
  BY <1>2 DEF StaffInv, Staff!TypeOK
<1>4. Reported'
  BY <1>1, <1>2, NamesOfRows DEF StaffInv, Reported
<1>. QED  BY <1>3, <1>4 DEF StaffInv

LEMMA StaffNext == StaffInv /\ Staff!Next => StaffInv'
<1>. SUFFICES ASSUME StaffInv, Staff!Next  PROVE StaffInv'
  OBVIOUS
<1>. USE StaffAssumption
<1>1. ASSUME NEW c \in Calls, NEW p \in People, Staff!CreateEmployee(c, p)
      PROVE  StaffInv'
  <2>1. Staff!TypeOK'
    BY <1>1 DEF StaffInv, Staff!TypeOK, Staff!CreateEmployee, Staff!Free, Staff!Added,
                Staff!Inserted
  <2>. QED  BY <1>1, <2>1 DEF StaffInv, Reported, Staff!CreateEmployee
<1>2. ASSUME NEW c \in Calls, Staff!CreateCommit(c)
      PROVE  StaffInv'
  <2>1. /\ insert[c] \in People /\ staff' = staff \union {insert[c]}
        /\ insert' = [insert EXCEPT ![c] = None] /\ mailed' = mailed \union {insert[c]}
        /\ UNCHANGED <<inactive, upload>>
    BY <1>2 DEF StaffInv, Staff!TypeOK, Staff!CreateCommit
  <2>2. \A d \in Calls : insert'[d] \notin staff'
    BY <2>1 DEF StaffInv, Staff!TypeOK
  <2>3. upload # None => /\ upload.added \intersect staff' = {}
                         /\ \A d \in Calls : insert'[d] \notin upload.added
    <3>1. upload # None => upload.added \subseteq People
      BY DEF StaffInv, Staff!TypeOK, Staff!Upload
    <3>. QED  BY <2>1, <3>1 DEF StaffInv, Staff!TypeOK
  <2>4. Staff!TypeOK'
    BY <2>1, <2>2, <2>3 DEF StaffInv, Staff!TypeOK
  <2>. QED  BY <2>1, <2>4 DEF StaffInv, Reported
<1>3. ASSUME NEW p \in People, NEW q \in People, Staff!UpdateEmployee(p, q)
      PROVE  StaffInv'
  <2>1. Staff!TypeOK'
    BY <1>3 DEF StaffInv, Staff!TypeOK, Staff!UpdateEmployee, Staff!Free, Staff!Added,
                Staff!Inserted
  <2>. QED  BY <1>3, <2>1 DEF StaffInv, Reported, Staff!UpdateEmployee
<1>4. ASSUME NEW p \in People, Staff!ToggleEmployeeStatus(p)
      PROVE  StaffInv'
  <2>1. Staff!TypeOK'
    BY <1>4 DEF StaffInv, Staff!TypeOK, Staff!ToggleEmployeeStatus
  <2>. QED  BY <1>4, <2>1 DEF StaffInv, Reported, Staff!ToggleEmployeeStatus
<1>5. ASSUME NEW file \in Files, Staff!BulkCreateEmployees(file)
      PROVE  StaffInv'
  <2>1. /\ upload' = [file |-> file, rows |-> file, known |-> staff,
                      added |-> {}, made |-> {}, failed |-> {}]
        /\ UNCHANGED <<staff, inactive, insert, mailed>>
    BY <1>5 DEF Staff!BulkCreateEmployees
  <2>2. upload' \in Staff!Upload
    BY <2>1 DEF StaffInv, Staff!TypeOK, Staff!Upload
  <2>. QED  BY <2>1, <2>2 DEF StaffInv, Staff!TypeOK, Reported
<1>6. ASSUME Staff!AddRow
      PROVE  StaffInv'
  <2>1. PICK who : who = Head(upload.rows).who
    OBVIOUS
  <2>2. /\ upload # None /\ upload.rows # <<>> /\ upload \in Staff!Upload
        /\ who \in People /\ Staff!Free(who)
    BY <1>6, <2>1, NamesOfRows DEF Staff!AddRow, StaffInv, Staff!TypeOK, Staff!Upload
  <2>3. PICK a, m, x : a = upload.added \union {who} /\ m = upload.made \union {who}
                       /\ x = upload.failed
    OBVIOUS
  <2>4. /\ upload' = [upload EXCEPT !.rows = Tail(@), !.added = a, !.made = m, !.failed = x]
        /\ UNCHANGED <<staff, inactive, insert, mailed>>
    <3>1. upload' = [upload EXCEPT !.rows = Tail(@), !.added = a, !.made = m]
      BY <1>6, <2>1, <2>3 DEF Staff!AddRow
    <3>2. @ = [upload EXCEPT !.rows = Tail(@), !.added = a, !.made = m, !.failed = x]
      BY <2>2, <2>3 DEF Staff!Upload
    <3>. QED  BY <1>6, <3>1, <3>2 DEF Staff!AddRow
  <2>5. a \in SUBSET People /\ m \in SUBSET People /\ x \in SUBSET People
    BY <2>2, <2>3 DEF Staff!Upload
  <2>6. a \intersect staff = {} /\ \A c \in Calls : insert[c] \notin a
    BY <2>2, <2>3 DEF StaffInv, Staff!TypeOK, Staff!Free, Staff!Inserted
  <2>7. a \subseteq m /\ (x = {} => a = m)
    BY <2>2, <2>3 DEF StaffInv, Reported
  <2>8. upload.made \union upload.failed \union {Head(upload.rows).who} \subseteq m \union x
    BY <2>1, <2>3
  <2>. QED  BY <2>2, <2>4, <2>5, <2>6, <2>7, <2>8, StaffRow
<1>7. ASSUME Staff!FailRow
      PROVE  StaffInv'
  <2>1. PICK who : who = Head(upload.rows).who
    OBVIOUS
  <2>2. /\ upload # None /\ upload.rows # <<>> /\ upload \in Staff!Upload /\ who \in People
    BY <1>7, <2>1, NamesOfRows DEF Staff!FailRow, StaffInv, Staff!TypeOK, Staff!Upload
  <2>3. PICK a, m, x : a = {} /\ m = upload.made /\ x = upload.failed \union {who}
    OBVIOUS
  <2>4. /\ upload' = [upload EXCEPT !.rows = Tail(@), !.added = a, !.made = m, !.failed = x]
        /\ UNCHANGED <<staff, inactive, insert, mailed>>
    <3>1. upload' = [upload EXCEPT !.rows = Tail(@), !.added = a, !.failed = x]
      BY <1>7, <2>1, <2>3 DEF Staff!FailRow
    <3>2. @ = [upload EXCEPT !.rows = Tail(@), !.added = a, !.made = m, !.failed = x]
      BY <2>2, <2>3 DEF Staff!Upload
    <3>. QED  BY <1>7, <3>1, <3>2 DEF Staff!FailRow
  <2>5. a \in SUBSET People /\ m \in SUBSET People /\ x \in SUBSET People
    BY <2>2, <2>3 DEF Staff!Upload
  <2>6. a \intersect staff = {} /\ \A c \in Calls : insert[c] \notin a
    BY <2>3
  <2>7. a \subseteq m /\ (x = {} => a = m)
    BY <2>3
  <2>8. upload.made \union upload.failed \union {Head(upload.rows).who} \subseteq m \union x
    BY <2>1, <2>3
  <2>. QED  BY <2>2, <2>4, <2>5, <2>6, <2>7, <2>8, StaffRow
<1>8. ASSUME Staff!BulkCommit \/ Staff!BulkCommitFails
      PROVE  StaffInv'
  <2>1. /\ upload' = None /\ upload # None /\ UNCHANGED <<inactive, insert>>
        /\ \/ UNCHANGED <<staff, mailed>>
           \/ staff' = staff \union upload.added /\ mailed' = mailed \union upload.made
    BY <1>8 DEF Staff!BulkCommit, Staff!BulkCommitFails
  <2>2. upload.added \subseteq People /\ upload.made \subseteq People
    BY <2>1 DEF StaffInv, Staff!TypeOK, Staff!Upload
  <2>. QED  BY <2>1, <2>2 DEF StaffInv, Staff!TypeOK, Reported
<1>. QED
  BY <1>1, <1>2, <1>3, <1>4, <1>5, <1>6, <1>7, <1>8 DEF Staff!Next

\* A commit of an upload stores what it reports.
LEMMA StaffReports ==
    StaffInv /\ Staff!BulkCommit =>
        /\ staff' \ staff \subseteq upload.made
        /\ upload.failed = {} => Staff!Names(upload.file) \subseteq staff'
<1>1. Staff!Names(<<>>) = {}
  BY DEF Staff!Names
<1>. QED  BY <1>1 DEF StaffInv, Reported, Staff!BulkCommit

LEMMA StaffStep == StaffInv /\ [OfficeNext]_allVars => StaffInv'
<1>. SUFFICES ASSUME StaffInv, [OfficeNext]_allVars  PROVE StaffInv'
  OBVIOUS
<1>1. CASE UNCHANGED staffVars
  BY <1>1 DEF staffVars, StaffInv, Staff!TypeOK, Reported
<1>2. Staff!Next \/ UNCHANGED staffVars
  BY DEF OfficeNext, Others, allVars
<1>. QED  BY <1>1, <1>2, StaffNext

\* An upload that reports no failed row has stored its whole file, and it stores
\* nobody it does not report: whatever is created and renamed while it runs, and
\* wherever a row fails.
THEOREM UploadsReport == OfficeSpec => NobodyLeftOut
<1>1. OfficeInit => StaffInv
  BY StaffInit DEF OfficeInit
<1>2. StaffInv /\ [OfficeNext]_allVars =>
          [Staff!BulkCommit => /\ staff' \ staff \subseteq upload.made
                               /\ upload.failed = {} =>
                                      Staff!Names(upload.file) \subseteq staff']_(Staff!vars)
  BY StaffReports
<1>. QED  BY <1>1, <1>2, StaffStep, PTL DEF OfficeSpec, NobodyLeftOut, Staff!NobodyLeftOut

-----------------------------------------------------------------------------
(* Slabs: the table, and the cost of a route                                *)

LEMMA TableCardinality == \A S : Table!Cardinality(S) = Cardinality(S)
BY DEF Table!Cardinality, Cardinality

\* An order of the active slabs of a table by their first kilometre, each once.
Sorted(table, order, n) ==
    /\ order \in [1..n -> Table!Active(table)]
    /\ \A i, j \in 1..n : i < j => table[order[i]].min < table[order[j]].min
    /\ \A s \in Table!Active(table) : \E i \in 1..n : order[i] = s

\* The active slabs of a table whose slabs start at different kilometres come in
\* the order of these, each once.
LEMMA SlabsInOrder ==
    ASSUME NEW table, \A s \in Table!Active(table) : table[s].min \in 0..MaxKm,
           \A s, q \in Table!Active(table) : table[s].min = table[q].min => s = q
    PROVE  LET n == Cardinality(Table!Active(table))
           IN  n \in Nat /\ Sorted(table, Table!InOrder(table), n)
<1>. DEFINE S   == Table!Active(table)
            key == [s \in S |-> table[s].min]
            n   == Cardinality(S)
            order == Table!InOrder(table)
<1>0. /\ \A s \in S : table[s].min \in 0..MaxKm
      /\ \A s, q \in S : table[s].min = table[q].min => s = q
  OBVIOUS
<1>. HIDE DEF S
<1>1. MaxKm \in Nat
  BY SlabAssumption
<1>2. key \in Injection(S, 0..MaxKm)
  BY <1>0 DEF Injection, IsInjective
<1>3. IsFiniteSet(S) /\ n \in Nat
  BY <1>1, <1>2, FS_Injection, FS_Interval, FS_CardinalityType
<1>4. key \in [S -> Nat] /\ \A s, q \in S : key[s] = key[q] => s = q
  BY <1>0, <1>1
<1>5. \E o \in [1..n -> S] : \A i, j \in 1..n : i < j => key[o[i]] < key[o[j]]
  <2>1. PICK o \in [1..n -> S] :
            \A i, j \in 1..n : i < j => key[o[i]] <= key[o[j]] /\ o[i] # o[j]
    <3>. HIDE DEF key
    <3>. QED  BY <1>3, <1>4, OrderExists
  <2>2. ASSUME NEW i \in 1..n, NEW j \in 1..n, i < j  PROVE key[o[i]] < key[o[j]]
    <3>1. key[o[i]] \in Nat /\ key[o[j]] \in Nat /\ key[o[i]] <= key[o[j]] /\ key[o[i]] # key[o[j]]
      <4>. HIDE DEF key
      <4>. QED  BY <1>4, <2>1, <2>2
    <3>. HIDE DEF key
    <3>. QED  BY <3>1
  <2>. HIDE DEF key
  <2>. QED  BY <2>1, <2>2
<1>6. \E o \in [1..n -> S] : \A i, j \in DOMAIN o : i < j => table[o[i]].min < table[o[j]].min
  BY <1>3, <1>5
<1>7. /\ order \in [1..n -> S]
      /\ \A i, j \in DOMAIN order : i < j => table[order[i]].min < table[order[j]].min
  BY <1>6, TableCardinality DEF Table!InOrder, S
<1>. HIDE DEF order
<1>8. \A i, j \in 1..n : i < j => table[order[i]].min < table[order[j]].min
  BY <1>7
<1>9. order \in Injection(1..n, S)
  <2>1. ASSUME NEW i \in 1..n, NEW j \in 1..n, order[i] = order[j]  PROVE i = j
    <3>1. \A k \in 1..n : table[order[k]].min \in Int
      BY <1>0, <1>7
    <3>2. ~(i < j) /\ ~(j < i)
      BY <1>8, <2>1, <3>1
    <3>. QED  BY <1>3, <3>2
  <2>. QED  BY <1>7, <2>1 DEF Injection, IsInjective
<1>10. Cardinality(1..n) = n
  BY <1>3, FS_Interval
<1>11. order \in Surjection(1..n, S)
  BY <1>3, <1>9, <1>10, FS_Injection
<1>12. \A s \in S : \E i \in 1..n : order[i] = s
  BY <1>11 DEF Surjection
<1>. QED  BY <1>3, <1>7, <1>8, <1>12 DEF S, order, Sorted

\* What the fold of the cost hands from slab to slab.
Sums == [remaining : Int, cost : Int, covered : Int, distance : Int, gap : BOOLEAN]
NoneYet(distance) == [remaining |-> distance, cost |-> 0, covered |-> 0,
                      distance |-> distance, gap |-> FALSE]

LEMMA SlabRows ==
    ASSUME Table!TypeOK, NEW s \in Table!Active(slabs)
    PROVE  /\ s \in Slabs /\ RateOf[s] \in Int
           /\ slabs[s].min \in 0..MaxKm
           /\ slabs[s].max = Open \/ (slabs[s].max \in 1..MaxKm /\ slabs[s].max > slabs[s].min)
BY SlabAssumption DEF Table!TypeOK, Table!Active, Table!Rows, Table!InRange

LEMMA IntTimes == \A a, b \in Int : a * b \in Int
OBVIOUS

LEMMA UsedType ==
    ASSUME Table!TypeOK, NEW s \in Table!Active(slabs), NEW sum \in Sums
    PROVE  Table!Used(sum, s) \in Int
<1>1. sum.remaining \in Int
  BY DEF Sums
<1>2. slabs[s].max = Open \/ (slabs[s].max \in Int /\ slabs[s].min \in Int)
  BY SlabRows, SlabAssumption
<1>. QED  BY <1>1, <1>2 DEF Table!Used, Table!Least

LEMMA AddSlabType ==
    ASSUME Table!TypeOK, NEW s \in Table!Active(slabs), NEW sum \in Sums
    PROVE  Table!AddSlab(sum, s) \in Sums
<1>1. PICK u \in Int : u = Table!Used(sum, s)
  BY UsedType
<1>2. PICK p \in Int : p = u * RateOf[s]
  BY IntTimes, SlabRows
<1>3. slabs[s].max = Open \/ slabs[s].max \in Int
  BY SlabRows, SlabAssumption
<1>4. Table!Add(sum, s) \in Sums
  BY <1>1, <1>2, <1>3 DEF Table!Add, Sums
<1>5. [sum EXCEPT !.gap = TRUE] \in Sums
  BY DEF Sums
<1>. QED  BY <1>4, <1>5 DEF Table!AddSlab

LEMMA GreatestTaken ==
    ASSUME NEW n \in Nat, NEW t \in SUBSET (1..n), t # {}
    PROVE  Table!Max(t) \in t /\ \A y \in t : Table!Max(t) >= y
<1>1. t \in SUBSET (0..n)
  OBVIOUS
<1>2. \E x \in t : \A y \in t : x >= y
  BY <1>1, GreatestNat
<1>. QED  BY <1>2 DEF Table!Max

\* The cost of a distance, slab after slab.
LEMMA QuoteSteps ==
    ASSUME Table!TypeOK, NEW distance \in Int
    PROVE  LET order == Table!InOrder(slabs)
               n     == Cardinality(Table!Active(slabs))
           IN  \E sum \in [0..n -> Sums] :
                   /\ sum[0] = NoneYet(distance)
                   /\ \A i \in 1..n : sum[i] = Table!AddSlab(sum[i - 1], order[i])
                   /\ Table!CalculateProgressiveCost(distance) = sum[n]
<1>. DEFINE S == Table!Active(slabs)
            n == Cardinality(S)
            order == Table!InOrder(slabs)
            base == NoneYet(distance)
            choice == [t \in SUBSET (1..n) |-> Table!Max(t)]
            add == [i \in 1..n |-> [sum \in Sums |-> Table!AddSlab(sum, order[i])]]
            Right(it) == it = [t \in SUBSET (1..n) |->
                                 IF t = {} THEN base
                                 ELSE Table!AddSlab(it[t \ {Table!Max(t)}], order[Table!Max(t)])]
<1>1. n \in Nat /\ order \in [1..n -> S]
  <2>1. \A s \in S : slabs[s].min \in 0..MaxKm
    BY SlabRows
  <2>2. \A s, q \in S : slabs[s].min = slabs[q].min => s = q
    BY DEF Table!TypeOK, Table!Active
  <2>. QED  BY <2>1, <2>2, SlabsInOrder DEF Sorted
<1>2. Table!CalculateProgressiveCost(distance) = (CHOOSE it : Right(it))[1..n]
  <2>1. DOMAIN order = 1..n
    BY <1>1
  <2>2. Table!CalculateProgressiveCost(distance) =
          (CHOOSE it : it = [t \in SUBSET (DOMAIN order) |->
                                 IF t = {} THEN base
                                 ELSE Table!AddSlab(it[t \ {Table!Max(t)}], order[Table!Max(t)])])[DOMAIN order]
    BY DEF Table!CalculateProgressiveCost, Table!FoldLeft, Table!MapThenFoldSet, NoneYet
  <2>. HIDE DEF order
  <2>. QED  BY <2>1, <2>2
<1>. HIDE DEF order, S
<1>3. base \in Sums
  BY DEF NoneYet, Sums
<1>. HIDE DEF base, n
<1>4. \A t \in SUBSET (1..n) : t # {} => choice[t] \in t
  BY <1>1, GreatestTaken
<1>5. add \in [1..n -> [Sums -> Sums]]
  <2>1. ASSUME NEW i \in 1..n, NEW sum \in Sums  PROVE Table!AddSlab(sum, order[i]) \in Sums
    <3>1. order[i] \in S
      BY <1>1
    <3>. QED  BY <3>1, AddSlabType DEF S
  <2>. QED  BY <2>1
<1>6. PICK it \in [SUBSET (1..n) -> Sums] :
          \A t \in SUBSET (1..n) :
              it[t] = IF t = {} THEN base ELSE add[choice[t]][it[t \ {choice[t]}]]
  <2>. DEFINE D == 1..n
  <2>1. IsFiniteSet(D)
    BY <1>1, FS_Interval
  <2>2. \A t \in SUBSET D : t # {} => choice[t] \in t
    BY <1>4
  <2>3. add \in [D -> [Sums -> Sums]]
    BY <1>5
  <2>. HIDE DEF choice, add, D
  <2>4. PICK d, f, g, b : d = D /\ f = choice /\ g = add /\ b = base
    OBVIOUS
  <2>5. Foldable(d, Sums, b, f, g)
    BY <1>3, <2>1, <2>2, <2>3, <2>4 DEF Foldable
  <2>6. \E it : IsFold(it, d, Sums, b, f, g)
    BY <2>5, FoldExists
  <2>. QED  BY <2>4, <2>6 DEF D, IsFold
<1>7. ASSUME NEW t \in SUBSET (1..n)
      PROVE  it[t] = IF t = {} THEN base
                     ELSE Table!AddSlab(it[t \ {Table!Max(t)}], order[Table!Max(t)])
  <2>1. CASE t = {}
    BY <1>6, <2>1
  <2>2. CASE t # {}
    <3>1. choice[t] = Table!Max(t) /\ choice[t] \in 1..n
      BY <1>4, <2>2
    <3>2. it[t \ {choice[t]}] \in Sums
      BY <1>6
    <3>3. it[t] = add[choice[t]][it[t \ {choice[t]}]]
      BY <1>6, <2>2
    <3>4. add[choice[t]][it[t \ {choice[t]}]] =
            Table!AddSlab(it[t \ {choice[t]}], order[choice[t]])
      <4>. HIDE DEF choice
      <4>. QED  BY <3>1, <3>2
    <3>. HIDE DEF choice, add
    <3>. QED  BY <2>2, <3>1, <3>3, <3>4
  <2>. QED  BY <2>1, <2>2
<1>8. Right(it)
  BY <1>6, <1>7
<1>9. PICK fold : Right(fold) /\ fold = CHOOSE f : Right(f)
  <2>. HIDE DEF Right
  <2>. QED  BY <1>8
<1>. DEFINE sum == [i \in 0..n |-> fold[1..i]]
<1>10. \A t \in SUBSET (1..n) :
          fold[t] = IF t = {} THEN base
                    ELSE Table!AddSlab(fold[t \ {Table!Max(t)}], order[Table!Max(t)])
  BY <1>9
<1>11. ASSUME NEW i \in 1..n
       PROVE  /\ 1..i \in SUBSET (1..n) /\ 1..i # {}
              /\ Table!Max(1..i) = i /\ (1..i) \ {i} = 1..(i - 1)
  <2>1. 1..i \in SUBSET (1..n) /\ i \in 1..i /\ (1..i) \ {i} = 1..(i - 1)
    BY <1>1
  <2>2. Table!Max(1..i) \in 1..i /\ Table!Max(1..i) >= i
    BY <1>1, <2>1, GreatestTaken
  <2>. QED  BY <2>1, <2>2
<1>12. sum[0] = base
  <2>1. 1..0 = {} /\ 1..0 \in SUBSET (1..n)
    BY <1>1
  <2>2. fold[1..0] = base
    BY <1>10, <2>1
  <2>. QED  BY <1>1, <2>2
<1>13. \A i \in 1..n : sum[i] = Table!AddSlab(sum[i - 1], order[i])
  <2>1. ASSUME NEW i \in 1..n  PROVE sum[i] = Table!AddSlab(sum[i - 1], order[i])
    <3>1. sum[i] = fold[1..i] /\ sum[i - 1] = fold[1..(i - 1)]
      BY <1>1
    <3>2. fold[1..i] = Table!AddSlab(fold[(1..i) \ {Table!Max(1..i)}], order[Table!Max(1..i)])
      BY <1>10, <1>11
    <3>. HIDE DEF sum
    <3>. QED  BY <1>11, <3>1, <3>2
  <2>. QED  BY <2>1
<1>14. sum \in [0..n -> Sums]
  <2>. DEFINE bad == {i \in 0..n : sum[i] \notin Sums}
  <2>1. bad = {}
    <3>. SUFFICES ASSUME bad # {}  PROVE FALSE
      OBVIOUS
    <3>1. bad \in SUBSET Nat
      OBVIOUS
    <3>2. PICK i \in bad : \A j \in bad : i <= j
      <4>. HIDE DEF bad
      <4>. QED  BY <3>1, LeastNat
    <3>. HIDE DEF sum
    <3>3. i # 0 /\ i \in 0..n
      BY <1>3, <1>12
    <3>4. i \in 1..n /\ i - 1 \in 0..n /\ i - 1 \notin bad
      BY <1>1, <3>2, <3>3
    <3>5. sum[i - 1] \in Sums /\ order[i] \in S
      BY <1>1, <3>4
    <3>6. sum[i] \in Sums
      BY <1>13, <3>4, <3>5, AddSlabType DEF S
    <3>. QED  BY <3>6
  <2>2. \A i \in 0..n : sum[i] \in Sums
    <3>. HIDE DEF sum
    <3>. QED  BY <2>1
  <2>. QED  BY <2>2
<1>15. Table!CalculateProgressiveCost(distance) = sum[n]
  <2>1. sum[n] = fold[1..n]
    BY <1>1
  <2>. HIDE DEF sum, Right
  <2>. QED  BY <1>2, <1>9, <2>1
<1>. HIDE DEF sum
<1>. QED  BY <1>12, <1>13, <1>14, <1>15 DEF base, S, order, n

\* A kilometre that is in some slab has a first one.
LEMMA FirstOverSlab ==
    ASSUME Table!TypeOK, NEW km, Table!Covering(km) # {}
    PROVE  /\ Table!FirstOver(km) \in Table!Covering(km)
           /\ \A q \in Table!Covering(km) : slabs[Table!FirstOver(km)].min <= slabs[q].min
           /\ RateOf[Table!FirstOver(km)] \in Int
<1>. DEFINE C == Table!Covering(km)
            K == {slabs[s].min : s \in C}
<1>1. C \subseteq Table!Active(slabs)
  BY DEF Table!Covering
<1>2. K \in SUBSET Nat /\ K # {}
  <2>1. \A s \in C : slabs[s].min \in Nat
    BY <1>1, SlabRows, SlabAssumption
  <2>2. PICK s : s \in C
    OBVIOUS
  <2>3. slabs[s].min \in K
    BY <2>2
  <2>. QED  BY <2>1, <2>3
<1>3. PICK k \in K : \A y \in K : k <= y
  <2>. HIDE DEF K
  <2>. QED  BY <1>2, LeastNat
<1>4. \E s \in C : \A q \in C : slabs[s].min <= slabs[q].min
  BY <1>3
<1>5. /\ Table!FirstOver(km) \in C
      /\ \A q \in C : slabs[Table!FirstOver(km)].min <= slabs[q].min
  <2>. HIDE DEF K
  <2>. QED  BY <1>4 DEF Table!FirstOver
<1>. HIDE DEF C
<1>6. RateOf[Table!FirstOver(km)] \in Int
  BY <1>1, <1>5, SlabRows
<1>. QED  BY <1>5, <1>6 DEF C

\* The rate of a kilometre, and what the first kilometres cost together.
RateAt(km) == IF Table!Covering(km) # {} THEN RateOf[Table!FirstOver(km)] ELSE 0

Pays(paid, distance) ==
    /\ paid \in [0..distance -> Int]
    /\ paid[0] = 0
    /\ \A k \in 0..(distance - 1) : paid[k + 1] = paid[k] + RateAt(k)

LEMMA KilometreSums ==
    ASSUME Table!TypeOK, NEW distance \in Nat
    PROVE  \E paid :
               /\ Pays(paid, distance)
               /\ (\A k \in 0..(distance - 1) : Table!Covering(k) # {}) =>
                      Table!ByKilometre(distance) = paid[distance]
<1>. DEFINE D == 0..(distance - 1)
            rate == [k \in D |-> RateAt(k)]
            choice == [t \in SUBSET D |-> CHOOSE x \in t : TRUE]
            add == [k \in D |-> [v \in Int |-> rate[k] + v]]
            Right(it) == it = [t \in SUBSET D |->
                                 IF t = {} THEN 0
                                 ELSE RateOf[Table!FirstOver(CHOOSE x \in t : TRUE)]
                                          + it[t \ {CHOOSE x \in t : TRUE}]]
            covered == \A k \in D : Table!Covering(k) # {}
<1>1. \A k \in D : RateAt(k) \in Int
  BY FirstOverSlab DEF RateAt
<1>2. Table!ByKilometre(distance) = (CHOOSE it : Right(it))[D]
  BY DEF Table!ByKilometre, Table!MapThenSumSet, Table!MapThenFoldSet
<1>3. Foldable(D, Int, 0, choice, add)
  <2>1. IsFiniteSet(D)
    BY FS_Interval
  <2>2. \A t \in SUBSET D : t # {} => choice[t] \in t
    OBVIOUS
  <2>3. add \in [D -> [Int -> Int]]
    BY <1>1
  <2>. HIDE DEF D, choice, add
  <2>. QED  BY <2>1, <2>2, <2>3 DEF Foldable
<1>4. PICK it : IsFold(it, D, Int, 0, choice, add)
  <2>1. PICK d, f, g : d = D /\ f = choice /\ g = add
    OBVIOUS
  <2>. HIDE DEF D, choice, add
  <2>2. \E it : IsFold(it, d, Int, 0, f, g)
    BY <1>3, <2>1, FoldExists
  <2>. QED  BY <2>1, <2>2
<1>5. \A t \in SUBSET D : t # {} =>
          /\ choice[t] = (CHOOSE x \in t : TRUE) /\ choice[t] \in D
          /\ t \ {choice[t]} \in SUBSET D
  OBVIOUS
<1>6. ASSUME covered
      PROVE  Table!ByKilometre(distance) = it[D]
  <2>1. ASSUME NEW f, NEW t \in SUBSET D, t # {}, f[t \ {choice[t]}] \in Int
        PROVE  RateOf[Table!FirstOver(CHOOSE x \in t : TRUE)]
                       + f[t \ {CHOOSE x \in t : TRUE}]
                   = add[choice[t]][f[t \ {choice[t]}]]
    <3>1. choice[t] = (CHOOSE x \in t : TRUE) /\ choice[t] \in D
      BY <1>5, <2>1
    <3>2. RateAt(choice[t]) = RateOf[Table!FirstOver(choice[t])]
      BY <1>6, <3>1 DEF RateAt
    <3>. HIDE DEF choice, D
    <3>3. add[choice[t]][f[t \ {choice[t]}]] = RateAt(choice[t]) + f[t \ {choice[t]}]
      BY <2>1, <3>1
    <3>. HIDE DEF add
    <3>. QED  BY <3>1, <3>2, <3>3
  <2>2. it \in [SUBSET D -> Int] /\ it[{}] = 0
    BY <1>4 DEF IsFold
  <2>3. \A t \in SUBSET D : t # {} =>
            it[t] = RateOf[Table!FirstOver(CHOOSE x \in t : TRUE)]
                       + it[t \ {CHOOSE x \in t : TRUE}]
    <3>1. ASSUME NEW t \in SUBSET D, t # {}
          PROVE  it[t] = RateOf[Table!FirstOver(CHOOSE x \in t : TRUE)]
                             + it[t \ {CHOOSE x \in t : TRUE}]
      <4>1. it[t \ {choice[t]}] \in Int
        BY <1>5, <2>2, <3>1
      <4>2. it[t] = add[choice[t]][it[t \ {choice[t]}]]
        <5>. HIDE DEF D, choice, add
        <5>. QED  BY <1>4, <3>1 DEF IsFold
      <4>3. RateOf[Table!FirstOver(CHOOSE x \in t : TRUE)]
                       + it[t \ {CHOOSE x \in t : TRUE}]
              = add[choice[t]][it[t \ {choice[t]}]]
        <5>. HIDE DEF D, choice, add
        <5>. QED  BY <2>1, <3>1, <4>1
      <4>. HIDE DEF D, choice, add
      <4>. QED  BY <4>2, <4>3
    <3>. HIDE DEF D, choice, add
    <3>. QED  BY <3>1
  <2>4. Right(it)
    <3>. HIDE DEF D
    <3>. QED  BY <2>2, <2>3
  <2>5. PICK f : Right(f) /\ f = CHOOSE g : Right(g)
    <3>. HIDE DEF Right
    <3>. QED  BY <2>4
  <2>6. f[{}] = 0 /\ \A t \in SUBSET D : t # {} =>
            f[t] = RateOf[Table!FirstOver(CHOOSE x \in t : TRUE)]
                       + f[t \ {CHOOSE x \in t : TRUE}]
    <3>. HIDE DEF D
    <3>. QED  BY <2>5
  <2>7. \A t \in SUBSET D : t # {} /\ f[t \ {choice[t]}] \in Int =>
            f[t] = add[choice[t]][f[t \ {choice[t]}]]
    <3>. HIDE DEF D, choice, add
    <3>. QED  BY <2>1, <2>6
  <2>8. PICK d, c, a : d = D /\ c = choice /\ a = add
    OBVIOUS
  <2>9. f[D] = it[D]
    <3>1. d \in SUBSET d
      OBVIOUS
    <3>. HIDE DEF D, choice, add
    <3>2. /\ Foldable(d, Int, 0, c, a) /\ IsFold(it, d, Int, 0, c, a) /\ f[{}] = 0
          /\ Follows(f, d, Int, 0, c, a)
      BY <1>3, <1>4, <2>6, <2>7, <2>8 DEF Follows
    <3>3. f[d] = it[d]
      BY <3>1, <3>2, FoldOnly
    <3>. QED  BY <2>8, <3>1, <3>3
  <2>. HIDE DEF D, choice, add, Right
  <2>. QED  BY <1>2, <2>5, <2>9
<1>. DEFINE paid == [k \in 0..distance |-> it[0..(k - 1)]]
<1>7. ASSUME NEW k \in 0..distance  PROVE 0..(k - 1) \in SUBSET D
  OBVIOUS
<1>8. it \in [SUBSET D -> Int] /\ it[{}] = 0
  BY <1>4 DEF IsFold
<1>9. paid \in [0..distance -> Int]
  <2>. HIDE DEF D
  <2>. QED  BY <1>7, <1>8
<1>10. paid[0] = 0
  <2>1. 0..(0 - 1) = {} /\ 0 \in 0..distance
    OBVIOUS
  <2>. QED  BY <1>8, <2>1
<1>11. ASSUME NEW k \in D  PROVE paid[k + 1] = paid[k] + RateAt(k)
  <2>1. /\ k \in 0..distance /\ k + 1 \in 0..distance /\ (k + 1) - 1 = k
        /\ k \in 0..k /\ (0..k) \ {k} = 0..(k - 1)
    OBVIOUS
  <2>2. paid[k] = it[0..(k - 1)] /\ paid[k + 1] = it[0..k]
    BY <2>1
  <2>3. PICK d, c, a, r : d = D /\ c = choice /\ a = add /\ r = rate
    OBVIOUS
  <2>4. rate \in [D -> Int] /\ \A x \in D, v \in Int : add[x][v] = rate[x] + v
    BY <1>1
  <2>5. 0..k \in SUBSET D
    BY <1>7, <2>1
  <2>6. rate[k] = RateAt(k)
    OBVIOUS
  <2>7. PICK t : t = 0..k
    OBVIOUS
  <2>. HIDE DEF D, choice, add, rate, paid
  <2>8. it[t] = r[k] + it[t \ {k}]
    <3>1. /\ Foldable(d, Int, 0, c, a) /\ IsFold(it, d, Int, 0, c, a)
          /\ Adds(d, r, a) /\ t \in SUBSET d /\ k \in t
      BY <1>3, <1>4, <2>1, <2>3, <2>4, <2>5, <2>7 DEF Adds
    <3>. QED  BY <3>1, SumTakes
  <2>9. it[0..(k - 1)] \in Int /\ RateAt(k) \in Int
    BY <1>1, <1>7, <1>8, <2>1
  <2>10. t \ {k} = 0..(k - 1) /\ r[k] = RateAt(k)
    BY <2>1, <2>3, <2>6, <2>7
  <2>11. it[0..k] = RateAt(k) + it[0..(k - 1)]
    BY <2>7, <2>8, <2>10
  <2>. QED  BY <2>2, <2>9, <2>11
<1>12. covered => Table!ByKilometre(distance) = paid[distance]
  <2>1. paid[distance] = it[D]
    OBVIOUS
  <2>. HIDE DEF D, paid, covered
  <2>. QED  BY <1>6, <2>1
<1>. HIDE DEF paid
<1>. QED  BY <1>9, <1>10, <1>11, <1>12 DEF Pays

\* How far the fold has come after i slabs, unless it met a gap: what is done is
\* covered and paid, and where something remains every slab so far ends where the
\* next one has to start.
Come(i, sum, order, distance, paid) ==
    /\ sum.distance = distance
    /\ ~sum.gap =>
           /\ sum.remaining \in 0..distance
           /\ \A km \in 0..(distance - sum.remaining - 1) : Table!Covering(km) # {}
           /\ sum.cost = paid[distance - sum.remaining]
           /\ sum.remaining > 0 =>
                  /\ sum.covered = distance - sum.remaining
                  /\ \A j \in 1..i : /\ slabs[order[j]].max # Open
                                     /\ slabs[order[j]].max <= sum.covered

\* The slabs that start before s end there.
FirstAfter(s) ==
    \A q \in Table!Active(slabs) :
        \/ q = s
        \/ slabs[q].min > slabs[s].min
        \/ slabs[q].max # Open /\ slabs[q].max <= slabs[s].min

\* A slab that starts where those before it have ended pays its kilometres.
LEMMA SlabPays ==
    ASSUME Table!TypeOK, NEW distance \in Nat, NEW s \in Table!Active(slabs),
           NEW paid, Pays(paid, distance), FirstAfter(s),
           NEW used \in Nat, slabs[s].min + used <= distance,
           slabs[s].max = Open \/ used <= slabs[s].max - slabs[s].min
    PROVE  /\ \A km \in slabs[s].min..(slabs[s].min + used - 1) : Table!Covering(km) # {}
           /\ paid[slabs[s].min + used] = paid[slabs[s].min] + used * RateOf[s]
<1>. PICK min, rate : min = slabs[s].min /\ rate = RateOf[s]
  OBVIOUS
<1>1. min \in Nat /\ rate \in Int
  BY SlabRows, SlabAssumption
<1>2. ASSUME NEW km \in min..(min + used - 1)
      PROVE  Table!Covering(km) # {} /\ RateAt(km) = rate
  <2>1. km \in Int /\ min <= km /\ (slabs[s].max = Open \/ km < slabs[s].max)
    BY <1>1, SlabRows, SlabAssumption
  <2>2. s \in Table!Covering(km)
    BY <2>1 DEF Table!Covering
  <2>3. ASSUME NEW q \in Table!Covering(km)  PROVE q = s \/ slabs[q].min > min
    <3>1. q \in Table!Active(slabs) /\ (slabs[q].max = Open \/ km < slabs[q].max)
      BY DEF Table!Covering
    <3>2. slabs[q].max = Open \/ slabs[q].max \in Int
      BY <3>1, SlabRows, SlabAssumption
    <3>3. q = s \/ slabs[q].min > min \/ (slabs[q].max # Open /\ slabs[q].max <= min)
      BY <3>1 DEF FirstAfter
    <3>. QED  BY <1>1, <2>1, <3>1, <3>2, <3>3
  <2>4. Table!FirstOver(km) = s
    <3>1. /\ Table!FirstOver(km) \in Table!Covering(km)
          /\ slabs[Table!FirstOver(km)].min <= min
      BY <2>2, FirstOverSlab
    <3>2. Table!FirstOver(km) \in Table!Active(slabs)
      BY <3>1 DEF Table!Covering
    <3>3. slabs[Table!FirstOver(km)].min \in Int
      BY <3>2, SlabRows, SlabAssumption
    <3>4. ~(slabs[Table!FirstOver(km)].min > min)
      BY <1>1, <3>1, <3>3
    <3>. QED  BY <2>3, <3>1, <3>4
  <2>. QED  BY <2>2, <2>4 DEF RateAt
<1>p. paid[min] \in Int
  <2>1. paid \in [0..distance -> Int]
    BY DEF Pays
  <2>2. min \in 0..distance
    BY <1>1
  <2>. QED  BY <2>1, <2>2
<1>3. \A u \in 0..used : paid[min + u] = paid[min] + u * rate
  <2>. DEFINE bad == {u \in 0..used : paid[min + u] # paid[min] + u * rate}
  <2>. SUFFICES ASSUME bad # {}  PROVE FALSE
    OBVIOUS
  <2>1. bad \in SUBSET Nat
    OBVIOUS
  <2>2. PICK u \in bad : \A m \in bad : u <= m
    <3>. HIDE DEF bad
    <3>. QED  BY <2>1, LeastNat
  <2>3. u \in 0..used /\ paid[min + u] # paid[min] + u * rate
    OBVIOUS
  <2>5. u # 0
    BY <1>1, <1>p, <2>3
  <2>6. u - 1 \in 0..used /\ u - 1 \notin bad
    <3>1. u - 1 \in 0..used /\ ~(u <= u - 1)
      BY <2>3, <2>5
    <3>. HIDE DEF bad
    <3>. QED  BY <2>2, <3>1
  <2>7. paid[min + (u - 1)] = paid[min] + (u - 1) * rate
    BY <2>6
  <2>8. /\ min + (u - 1) \in 0..(distance - 1) /\ min + (u - 1) \in min..(min + used - 1)
        /\ (min + (u - 1)) + 1 = min + u
    BY <1>1, <2>3, <2>5
  <2>9. paid[min + u] = paid[min + (u - 1)] + rate
    BY <1>2, <2>8 DEF Pays
  <2>10. u * rate = (u - 1) * rate + rate
    BY <1>1, <2>3
  <2>11. PICK before, after : before = (u - 1) * rate /\ after = u * rate
    OBVIOUS
  <2>12. before \in Int
    BY <1>1, <2>3, <2>11, IntTimes
  <2>13. paid[min + u] = paid[min] + after
    BY <1>1, <1>p, <2>7, <2>9, <2>10, <2>11, <2>12
  <2>. QED  BY <2>3, <2>11, <2>13
<1>4. paid[min + used] = paid[min] + used * rate
  BY <1>3
<1>. QED  BY <1>2, <1>4

LEMMA QuoteComes ==
    ASSUME Table!TypeOK, NEW distance \in Nat \ {0},
           NEW n \in Nat, NEW order, Sorted(slabs, order, n),
           NEW paid, Pays(paid, distance),
           NEW sum \in Sums, NEW i \in 1..n, Come(i - 1, sum, order, distance, paid)
    PROVE  Come(i, Table!AddSlab(sum, order[i]), order, distance, paid)
<1>. DEFINE s == order[i]
<1>1. s \in Table!Active(slabs)
  BY DEF Sorted
<1>. HIDE DEF s
<1>2. PICK min, max, rate : min = slabs[s].min /\ max = slabs[s].max /\ rate = RateOf[s]
  OBVIOUS
<1>3. min \in Nat /\ rate \in Int /\ (max = Open \/ (max \in Int /\ max > min))
  BY <1>1, <1>2, SlabRows, SlabAssumption
<1>4. sum.remaining \in Int /\ sum.covered \in Int /\ sum.cost \in Int
  BY DEF Sums
<1>5. CASE sum.gap
  BY <1>5 DEF Come, Table!AddSlab, s
<1>6. CASE ~sum.gap /\ sum.remaining = 0
  BY <1>6 DEF Come, Table!AddSlab, s
<1>7. CASE ~sum.gap /\ sum.remaining # 0 /\ min # sum.covered
  <2>1. Table!AddSlab(sum, s) = [sum EXCEPT !.gap = TRUE]
    BY <1>2, <1>7 DEF Table!AddSlab
  <2>. QED  BY <2>1 DEF Come, Sums, s
<1>8. CASE ~sum.gap /\ sum.remaining # 0 /\ min = sum.covered
  <2>. PICK used : used = Table!Used(sum, s)
    OBVIOUS
  <2>1. /\ sum.remaining \in 1..distance
        /\ sum.covered = distance - sum.remaining
        /\ \A j \in 1..(i - 1) : slabs[order[j]].max # Open /\ slabs[order[j]].max <= min
        /\ \A km \in 0..(min - 1) : Table!Covering(km) # {}
        /\ sum.cost = paid[min] /\ sum.distance = distance
    BY <1>4, <1>8 DEF Come
  <2>2. /\ used \in Nat /\ used <= sum.remaining
        /\ max = Open => used = sum.remaining
        /\ max # Open => used <= max - min /\ (used < sum.remaining => used = max - min)
    BY <1>2, <1>3, <2>1 DEF Table!Used, Table!Least
  <2>3. ASSUME NEW q \in Table!Active(slabs)
        PROVE  \/ q = s \/ slabs[q].min > slabs[s].min
               \/ slabs[q].max # Open /\ slabs[q].max <= slabs[s].min
    <3>1. PICK j \in 1..n : order[j] = q
      BY DEF Sorted
    <3>2. CASE j < i
      BY <1>2, <2>1, <3>1, <3>2
    <3>3. CASE j = i
      BY <3>1, <3>3 DEF s
    <3>4. CASE i < j
      <4>1. slabs[s].min < slabs[q].min
        BY <3>1, <3>4 DEF s, Sorted
      <4>2. slabs[s].min \in Int /\ slabs[q].min \in Int
        BY <1>1, SlabRows, SlabAssumption
      <4>. QED  BY <4>1, <4>2
    <3>. QED  BY <3>2, <3>3, <3>4
  <2>4. min + used <= distance
    BY <1>3, <1>8, <2>1, <2>2
  <2>5. /\ \A km \in min..(min + used - 1) : Table!Covering(km) # {}
        /\ paid[min + used] = paid[min] + used * rate
    <3>1. slabs[s].max = Open \/ used <= slabs[s].max - slabs[s].min
      BY <1>2, <2>2
    <3>2. slabs[s].min + used <= distance
      BY <1>2, <2>4
    <3>3. FirstAfter(s)
      BY <2>3 DEF FirstAfter
    <3>. QED  BY <1>1, <1>2, <2>2, <3>1, <3>2, <3>3, SlabPays
  <2>. PICK new : new = Table!AddSlab(sum, s)
    OBVIOUS
  <2>6. /\ new.remaining = sum.remaining - used
        /\ new.cost = sum.cost + used * rate
        /\ new.covered = IF max = Open THEN distance ELSE max
        /\ new.distance = distance /\ new.gap = FALSE
    BY <1>2, <1>8, <2>1 DEF Table!AddSlab, Table!Add
  <2>7. distance - new.remaining = min + used
    BY <1>3, <1>8, <2>1, <2>2, <2>6
  <2>8. new.remaining \in 0..distance
    BY <1>3, <2>1, <2>2, <2>6
  <2>9. \A km \in 0..(distance - new.remaining - 1) : Table!Covering(km) # {}
    BY <1>3, <2>1, <2>2, <2>5, <2>7
  <2>10. new.cost = paid[distance - new.remaining]
    BY <2>1, <2>5, <2>6, <2>7
  <2>11. ASSUME new.remaining > 0
         PROVE  /\ new.covered = distance - new.remaining
                /\ \A j \in 1..i : /\ slabs[order[j]].max # Open
                                   /\ slabs[order[j]].max <= new.covered
    <3>1. used < sum.remaining /\ max # Open /\ used = max - min /\ new.covered = max
      BY <1>4, <2>1, <2>2, <2>6, <2>11
    <3>2. new.covered = distance - new.remaining
      BY <1>3, <2>7, <3>1
    <3>3. ASSUME NEW j \in 1..i
          PROVE  slabs[order[j]].max # Open /\ slabs[order[j]].max <= max
      <4>1. CASE j = i
        BY <1>2, <1>3, <3>1, <4>1 DEF s
      <4>2. CASE j # i
        <5>1. j \in 1..(i - 1) /\ order[j] \in Table!Active(slabs)
          BY <4>2 DEF Sorted
        <5>2. slabs[order[j]].max # Open /\ slabs[order[j]].max <= min
          BY <2>1, <5>1
        <5>3. slabs[order[j]].max \in Int
          BY <5>1, <5>2, SlabRows, SlabAssumption
        <5>. QED  BY <1>3, <3>1, <5>2, <5>3
      <4>. QED  BY <4>1, <4>2
    <3>. QED  BY <3>1, <3>2, <3>3
  <2>12. Come(i, new, order, distance, paid)
    BY <2>6, <2>8, <2>9, <2>10, <2>11 DEF Come
  <2>. QED  BY <2>12 DEF s
<1>. QED  BY <1>5, <1>6, <1>7, <1>8

LEMMA TableSorted ==
    ASSUME Table!TypeOK
    PROVE  LET n == Cardinality(Table!Active(slabs))
           IN  n \in Nat /\ Sorted(slabs, Table!InOrder(slabs), n)
<1>1. \A s \in Table!Active(slabs) : slabs[s].min \in 0..MaxKm
  BY SlabRows
<1>2. \A s, q \in Table!Active(slabs) : slabs[s].min = slabs[q].min => s = q
  BY DEF Table!TypeOK, Table!Active
<1>. QED  BY <1>1, <1>2, SlabsInOrder

\* What a distance costs, and how the fold comes to it along the order of the slabs.
Runs(paid, sum, order, n, distance) ==
    /\ Pays(paid, distance)
    /\ (\A k \in 0..(distance - 1) : Table!Covering(k) # {}) =>
           Table!ByKilometre(distance) = paid[distance]
    /\ sum \in [0..n -> Sums]
    /\ sum[0] = NoneYet(distance)
    /\ \A i \in 1..n : sum[i] = Table!AddSlab(sum[i - 1], order[i])
    /\ \A i \in 0..n : Come(i, sum[i], order, distance, paid)
    /\ Table!CalculateProgressiveCost(distance) = sum[n]

LEMMA QuoteRuns ==
    ASSUME Table!TypeOK, NEW distance \in Nat \ {0}
    PROVE  \E paid, sum : Runs(paid, sum, Table!InOrder(slabs), Cardinality(Table!Active(slabs)),
                               distance)
<1>. PICK order, n : order = Table!InOrder(slabs) /\ n = Cardinality(Table!Active(slabs))
  OBVIOUS
<1>1. n \in Nat /\ Sorted(slabs, order, n)
  BY TableSorted
<1>2. PICK paid : /\ Pays(paid, distance)
                  /\ (\A k \in 0..(distance - 1) : Table!Covering(k) # {}) =>
                         Table!ByKilometre(distance) = paid[distance]
  BY KilometreSums
<1>3. PICK sum \in [0..n -> Sums] :
          /\ sum[0] = NoneYet(distance)
          /\ \A i \in 1..n : sum[i] = Table!AddSlab(sum[i - 1], order[i])
          /\ Table!CalculateProgressiveCost(distance) = sum[n]
  BY QuoteSteps
<1>4. Come(0, sum[0], order, distance, paid)
  <2>1. paid[0] = 0
    BY <1>2 DEF Pays
  <2>. QED  BY <1>3, <2>1 DEF Come, NoneYet
<1>. DEFINE bad == {i \in 0..n : ~Come(i, sum[i], order, distance, paid)}
<1>5. bad = {}
  <2>. SUFFICES ASSUME bad # {}  PROVE FALSE
    OBVIOUS
  <2>1. bad \in SUBSET Nat
    OBVIOUS
  <2>2. PICK i \in bad : \A j \in bad : i <= j
    <3>. HIDE DEF bad
    <3>. QED  BY <2>1, LeastNat
  <2>3. i # 0 /\ i \in 0..n
    BY <1>4
  <2>4. i \in 1..n /\ i - 1 \in 0..n /\ i - 1 \notin bad
    BY <1>1, <2>2, <2>3
  <2>5. sum[i - 1] \in Sums /\ Come(i - 1, sum[i - 1], order, distance, paid)
    BY <1>3, <2>4
  <2>6. Come(i, Table!AddSlab(sum[i - 1], order[i]), order, distance, paid)
    BY <1>1, <1>2, <2>4, <2>5, QuoteComes
  <2>7. Come(i, sum[i], order, distance, paid)
    BY <1>3, <2>4, <2>6
  <2>. QED  BY <2>7
<1>6. \A i \in 0..n : Come(i, sum[i], order, distance, paid)
  BY <1>5
<1>. HIDE DEF bad
<1>7. Runs(paid, sum, order, n, distance)
  BY <1>2, <1>3, <1>6 DEF Runs
<1>. QED  BY <1>7

\* A cost that is computed pays every kilometre at its rate.
LEMMA QuotesExact == Table!TypeOK => Table!QuoteExact
<1>. SUFFICES ASSUME Table!TypeOK, NEW distance \in 1..(MaxKm + 1),
                     ~Table!Refused(Table!CalculateProgressiveCost(distance))
              PROVE  /\ \A km \in 0..(distance - 1) : Table!Covering(km) # {}
                     /\ Table!CalculateProgressiveCost(distance).cost = Table!ByKilometre(distance)
  BY DEF Table!QuoteExact
<1>. PICK order, n, quote : /\ order = Table!InOrder(slabs)
                            /\ n = Cardinality(Table!Active(slabs))
                            /\ quote = Table!CalculateProgressiveCost(distance)
  OBVIOUS
<1>0. distance \in Nat \ {0} /\ n \in Nat
  BY SlabAssumption, TableSorted
<1>1. PICK paid, sum : Runs(paid, sum, order, n, distance)
  BY <1>0, QuoteRuns
<1>2. quote \in Sums /\ Come(n, quote, order, distance, paid)
  BY <1>0, <1>1 DEF Runs
<1>3. ~quote.gap /\ quote.remaining = 0
  BY <1>2 DEF Table!Refused, Come
<1>4. (\A km \in 0..(distance - 1) : Table!Covering(km) # {}) /\ quote.cost = paid[distance]
  BY <1>0, <1>2, <1>3 DEF Come
<1>. QED  BY <1>1, <1>4 DEF Runs

\* A chain of slabs leaves no gap, and refuses only what is longer than it is.
LEMMA ChainAnswers == Table!TypeOK /\ Table!Chained(slabs) => Table!TableAnswers
<1>. SUFFICES ASSUME Table!TypeOK, Table!Chained(slabs),
                     NEW distance \in 1..(MaxKm + 1),
                     Table!Refused(Table!CalculateProgressiveCost(distance)),
                     NEW s \in Table!Active(slabs)
              PROVE  slabs[s].max # Open /\ slabs[s].max < distance
  BY DEF Table!TableAnswers
<1>. PICK order, n, quote : /\ order = Table!InOrder(slabs)
                            /\ n = Cardinality(Table!Active(slabs))
                            /\ quote = Table!CalculateProgressiveCost(distance)
  OBVIOUS
<1>0. distance \in Nat \ {0} /\ n \in Nat /\ Sorted(slabs, order, n)
  BY SlabAssumption, TableSorted
<1>1. PICK paid, sum : Runs(paid, sum, order, n, distance)
  BY <1>0, QuoteRuns
<1>a. /\ sum \in [0..n -> Sums] /\ sum[0] = NoneYet(distance) /\ quote = sum[n]
      /\ \A i \in 1..n : sum[i] = Table!AddSlab(sum[i - 1], order[i])
      /\ \A i \in 0..n : Come(i, sum[i], order, distance, paid)
  BY <1>1 DEF Runs
<1>2. /\ n > 0 => slabs[order[1]].min = 0
      /\ \A i \in 2..n : slabs[order[i - 1]].max = slabs[order[i]].min
  <2>1. order \in Seq(Table!Active(slabs)) /\ Len(order) = n
    BY <1>0 DEF Sorted
  <2>2. n > 0 => order # <<>>
    BY <2>1
  <2>. QED  BY <2>1, <2>2 DEF Table!Chained
<1>. DEFINE Reach(i) == IF i = 0 THEN 0 ELSE slabs[order[i]].max
            Good(i) == ~sum[i].gap /\ (sum[i].remaining > 0 => sum[i].covered = Reach(i))
            bad == {i \in 0..n : ~Good(i)}
<1>3. bad = {}
  <2>. SUFFICES ASSUME bad # {}  PROVE FALSE
    OBVIOUS
  <2>1. bad \in SUBSET Nat
    OBVIOUS
  <2>2. PICK i \in bad : \A j \in bad : i <= j
    <3>. HIDE DEF bad
    <3>. QED  BY <2>1, LeastNat
  <2>3. i # 0 /\ i \in 0..n
    <3>1. ~sum[0].gap /\ sum[0].covered = 0
      BY <1>a DEF NoneYet
    <3>2. Good(0)
      BY <3>1
    <3>. HIDE DEF Good
    <3>. QED  BY <3>2
  <2>4. i \in 1..n /\ i - 1 \in 0..n /\ i - 1 \notin bad
    BY <1>0, <2>2, <2>3
  <2>5. Good(i - 1)
    BY <2>4
  <2>. PICK old, new : old = sum[i - 1] /\ new = sum[i]
    OBVIOUS
  <2>6. /\ old \in Sums /\ old.remaining \in Int /\ new = Table!AddSlab(old, order[i])
        /\ order[i] \in Table!Active(slabs)
    BY <1>0, <1>a, <2>4 DEF Sums, Sorted
  <2>7. Come(i - 1, old, order, distance, paid)
    BY <1>a, <2>4
  <2>8. CASE old.remaining = 0
    <3>0. ~old.gap
      BY <2>5
    <3>1. new = old
      BY <2>6, <2>8 DEF Table!AddSlab
    <3>2. Good(i)
      BY <2>8, <3>0, <3>1
    <3>. QED  BY <2>2, <3>2
  <2>9. CASE old.remaining # 0
    <3>1. ~old.gap /\ old.remaining > 0 /\ old.covered = Reach(i - 1)
      BY <2>5, <2>6, <2>7, <2>9 DEF Come
    <3>2. slabs[order[i]].min = Reach(i - 1)
      BY <1>0, <1>2, <2>4
    <3>3. new = Table!Add(old, order[i])
      BY <2>6, <3>1, <3>2 DEF Table!AddSlab
    <3>4. ASSUME new.remaining > 0  PROVE slabs[order[i]].max # Open
      BY <2>6, <3>3, <3>4 DEF Table!Add, Table!Used
    <3>5. Good(i)
      BY <2>4, <3>3, <3>4 DEF Table!Add
    <3>. QED  BY <2>2, <3>5
  <2>. QED  BY <2>8, <2>9
<1>4. ~quote.gap /\ quote \in Sums /\ Come(n, quote, order, distance, paid)
  <2>1. n \in 0..n
    BY <1>0
  <2>. QED  BY <1>a, <1>3, <2>1
<1>5. quote.remaining > 0
  BY <1>4 DEF Table!Refused
<1>6. PICK i \in 1..n : order[i] = s
  BY <1>0 DEF Sorted
<1>7. /\ quote.covered = distance - quote.remaining /\ quote.remaining \in Int
      /\ slabs[s].max # Open /\ slabs[s].max <= quote.covered
  BY <1>4, <1>5, <1>6 DEF Come
<1>8. slabs[s].max \in Int
  BY <1>7, SlabRows, SlabAssumption
<1>. QED  BY <1>0, <1>5, <1>7, <1>8

\* Requests under way write different slabs, that start at different kilometres
\* than any other; as long as no two overlap, the slabs form a chain and will with
\* what is written.
SlabInv ==
    /\ Table!TypeOK
    /\ \A e, f \in edits : e # f =>
           e.id # f.id /\ (e.new # None /\ f.new # None => e.new.min # f.new.min)
    /\ \A e \in edits : Table!Unique(e)
    /\ ~overlapped =>
           /\ Table!Chained(slabs)
           /\ \A e, f \in edits : e = f
           /\ \A e \in edits : Table!Validated(e)

LEMMA NoSlabs ==
    ASSUME NEW table, Table!Active(table) = {}
    PROVE  Table!Chained(table)
<1>1. 0 \in Nat /\ Cardinality(Table!Active(table)) = 0
  BY FS_EmptySet
<1>2. Sorted(table, Table!InOrder(table), 0)
  <2>1. /\ \A s \in Table!Active(table) : table[s].min \in 0..MaxKm
        /\ \A s, q \in Table!Active(table) : table[s].min = table[q].min => s = q
    OBVIOUS
  <2>. QED  BY <1>1, <2>1, SlabsInOrder
<1>3. Table!InOrder(table) = <<>>
  BY <1>2 DEF Sorted
<1>. QED  BY <1>3 DEF Table!Chained

LEMMA SlabInit == Table!Init => SlabInv
<1>. SUFFICES ASSUME Table!Init  PROVE SlabInv
  OBVIOUS
<1>. USE DEF Table!Init
<1>1. Table!TypeOK
  BY DEF Table!TypeOK
<1>2. Table!Active(slabs) = {}
  BY DEF Table!Active
<1>3. Table!Chained(slabs)
  BY <1>2, NoSlabs
<1>. QED  BY <1>1, <1>3 DEF SlabInv

LEMMA SlabFlush ==
    ASSUME SlabInv, NEW e \in Table!Edit, Table!Flush(e)
    PROVE  SlabInv'
<1>. USE DEF Table!Flush
<1>1. Table!TypeOK'
  BY DEF SlabInv, Table!TypeOK
<1>2. \A f, g \in edits' : f # g =>
          f.id # g.id /\ (f.new # None /\ g.new # None => f.new.min # g.new.min)
  BY DEF SlabInv, Table!Clear
<1>3. \A f \in edits' : Table!Unique(f)'
  BY DEF SlabInv, Table!Unique
<1>4. ASSUME ~overlapped'
      PROVE  /\ Table!Chained(slabs)'
             /\ \A f, g \in edits' : f = g
             /\ \A f \in edits' : Table!Validated(f)'
  <2>1. ~overlapped /\ edits = {} /\ edits' = {e} /\ slabs' = slabs
    BY <1>4
  <2>2. Table!Chained(slabs) /\ Table!Validated(e)
    BY <2>1 DEF SlabInv
  <2>3. Table!Validated(e)' <=> Table!Validated(e)
    BY <2>1 DEF Table!Validated
  <2>. QED  BY <2>1, <2>2, <2>3
<1>. QED  BY <1>1, <1>2, <1>3, <1>4 DEF SlabInv

LEMMA SlabCommit ==
    ASSUME SlabInv, NEW e \in edits, Table!Commit(e)
    PROVE  SlabInv'
<1>. USE DEF Table!Commit
<1>0. /\ Table!TypeOK /\ e \in Table!Edit /\ Table!Unique(e)
      /\ \A f, g \in edits : f # g =>
             f.id # g.id /\ (f.new # None /\ g.new # None => f.new.min # g.new.min)
      /\ \A f \in edits : Table!Unique(f)
  BY DEF SlabInv, Table!TypeOK
<1>1. slabs \in [Slabs -> Table!Rows \union {None}] /\ e.id \in Slabs
      /\ e.new \in Table!Rows \union {None}
  BY <1>0 DEF Table!TypeOK, Table!Edit
<1>2. \A s \in Slabs : slabs'[s] = IF s = e.id THEN e.new ELSE slabs[s]
  BY <1>1
<1>3. Table!TypeOK'
  <2>1. slabs' \in [Slabs -> Table!Rows \union {None}]
    BY <1>1
  <2>2. ASSUME NEW s \in Slabs, NEW q \in Slabs, slabs'[s] # None, slabs'[q] # None,
               slabs'[s].min = slabs'[q].min
        PROVE  s = q
    BY <1>0, <1>2, <2>2 DEF Table!TypeOK, Table!Unique
  <2>. QED  BY <1>0, <2>1, <2>2 DEF Table!TypeOK
<1>4. ASSUME NEW f \in edits'
      PROVE  Table!Unique(f)'
  BY <1>0, <1>2, <1>4 DEF Table!Unique
<1>5. \A f, g \in edits' : f # g =>
          f.id # g.id /\ (f.new # None /\ g.new # None => f.new.min # g.new.min)
  BY <1>0
<1>6. ASSUME ~overlapped'
      PROVE  Table!Chained(slabs') /\ edits' = {}
  <2>1. edits' = {} /\ Table!Validated(e)
    BY <1>6 DEF SlabInv
  <2>. QED  BY <2>1 DEF Table!Validated
<1>7. Table!Chained(slabs)' <=> Table!Chained(slabs')
  OBVIOUS
<1>. QED  BY <1>3, <1>4, <1>5, <1>6, <1>7 DEF SlabInv

LEMMA SlabNext == SlabInv /\ Table!Next => SlabInv'
<1>. SUFFICES ASSUME SlabInv, Table!Next  PROVE SlabInv'
  OBVIOUS
<1>1. ASSUME NEW s \in Slabs, NEW r \in Table!Rows, Table!CreateContractSlab(s, r)
      PROVE  SlabInv'
  <2>1. [id |-> s, new |-> r] \in Table!Edit
    BY DEF Table!Edit
  <2>. QED  BY <1>1, <2>1, SlabFlush DEF Table!CreateContractSlab
<1>2. ASSUME NEW s \in Slabs, NEW r \in Table!Rows, Table!UpdateContractSlab(s, r)
      PROVE  SlabInv'
  <2>1. [id |-> s, new |-> r] \in Table!Edit
    BY DEF Table!Edit
  <2>. QED  BY <1>2, <2>1, SlabFlush DEF Table!UpdateContractSlab
<1>3. ASSUME NEW s \in Slabs, Table!DeleteContractSlab(s)
      PROVE  SlabInv'
  <2>1. [id |-> s, new |-> None] \in Table!Edit
    BY DEF Table!Edit
  <2>. QED  BY <1>3, <2>1, SlabFlush DEF Table!DeleteContractSlab
<1>4. ASSUME NEW e \in edits, Table!Commit(e)
      PROVE  SlabInv'
  BY <1>4, SlabCommit
<1>. QED  BY <1>1, <1>2, <1>3, <1>4 DEF Table!Next

LEMMA SlabStep == SlabInv /\ [OfficeNext]_allVars => SlabInv'
<1>. SUFFICES ASSUME SlabInv, [OfficeNext]_allVars  PROVE SlabInv'
  OBVIOUS
<1>1. CASE UNCHANGED slabVars
  BY <1>1 DEF slabVars, SlabInv, Table!TypeOK, Table!Unique, Table!Validated
<1>2. Table!Next \/ UNCHANGED slabVars
  BY DEF OfficeNext, Others, allVars
<1>. QED  BY <1>1, <1>2, SlabNext

\* What a cost says, it says of every kilometre, and a table whose edits do not
\* overlap refuses only what is longer than it is: whatever slabs there are.
THEOREM CostsStayRight == OfficeSpec => []CostsAgree
<1>1. OfficeInit => SlabInv
  BY SlabInit DEF OfficeInit
<1>2. SlabInv => CostsAgree
  <2>1. SlabInv => Table!QuoteExact
    BY QuotesExact DEF SlabInv
  <2>2. SlabInv /\ ~overlapped => Table!TableAnswers
    BY ChainAnswers DEF SlabInv
  <2>3. overlapped => Table!TableAnswers
    BY DEF Table!TableAnswers
  <2>. QED  BY <2>1, <2>2, <2>3 DEF CostsAgree, SlabInv
<1>. QED  BY <1>1, <1>2, SlabStep, PTL DEF OfficeSpec

-----------------------------------------------------------------------------
(* The clock of a duty: the rest of a driver, the delay of a route          *)

LEMMA ClockGreatest ==
    ASSUME NEW S, S \subseteq Int, NEW g, g \in S, \A y \in S : y <= g
    PROVE  Clock!Max(S) = g
<1>1. \E x \in S : \A y \in S : x >= y
  OBVIOUS
<1>2. Clock!Max(S) \in S /\ \A y \in S : Clock!Max(S) >= y
  BY <1>1 DEF Clock!Max
<1>3. Clock!Max(S) \in Int /\ g \in Int /\ Clock!Max(S) >= g /\ Clock!Max(S) <= g
  BY <1>2
<1>. QED  BY <1>3

LEMMA ClockMaxTwo ==
    ASSUME NEW a \in Int, NEW b \in Int
    PROVE  Clock!Max({a, b}) = IF a >= b THEN a ELSE b
<1>1. CASE a >= b
  BY <1>1, ClockGreatest
<1>2. CASE ~(a >= b)
  BY <1>2, ClockGreatest
<1>. QED  BY <1>1, <1>2

LEMMA ClockMinTwo ==
    ASSUME NEW a \in Int, NEW b \in Int
    PROVE  Clock!Min({a, b}) = IF a <= b THEN a ELSE b
<1>1. \E x \in {a, b} : \A y \in {a, b} : x =< y
  OBVIOUS
<1>2. Clock!Min({a, b}) \in {a, b} /\ \A y \in {a, b} : Clock!Min({a, b}) =< y
  BY <1>1 DEF Clock!Min
<1>. QED  BY <1>2

LEMMA ClockCardinality == \A S : Clock!Cardinality(S) = Cardinality(S)
BY DEF Clock!Cardinality, Cardinality

\* Stretches of time are pairs; those of a day may be put in order by their starts.
Stretch == Int \X Int
Within(t, s) == s[1] <= t /\ t < s[2]
InDay(segments, at) ==
    \A s \in segments : s \in Stretch /\ at - Day <= s[1] /\ s[1] < s[2] /\ s[2] <= at

LEMMA StartsInOrder ==
    ASSUME NEW segments, NEW at \in Int, InDay(segments, at)
    PROVE  \E n \in Nat : \E order \in [1..n -> segments] :
               /\ order = Clock!ByStart(segments)
               /\ \A i, j \in 1..n : i < j => order[i][1] <= order[j][1]
               /\ \A s \in segments : \E i \in 1..n : order[i] = s
<1>. DEFINE n == Cardinality(segments)
            key == [s \in segments |-> s[1] - (at - Day)]
            order == Clock!ByStart(segments)
<1>1. IsFiniteSet(segments) /\ n \in Nat
  <2>1. segments \subseteq ((at - Day)..at) \X ((at - Day)..at)
    <3>1. ASSUME NEW s \in segments
          PROVE  s \in ((at - Day)..at) \X ((at - Day)..at)
      <4>1. s \in Stretch /\ at - Day <= s[1] /\ s[1] < s[2] /\ s[2] <= at
        BY DEF InDay
      <4>2. s = <<s[1], s[2]>> /\ s[1] \in Int /\ s[2] \in Int
        BY <4>1 DEF Stretch
      <4>3. s[1] \in (at - Day)..at /\ s[2] \in (at - Day)..at
        BY <4>1, <4>2, ClockAssumption
      <4>. QED  BY <4>2, <4>3
    <3>. QED  BY <3>1
  <2>2. IsFiniteSet((at - Day)..at)
    <3>1. at - Day \in Int
      BY ClockAssumption
    <3>. QED  BY <3>1, FS_Interval
  <2>3. IsFiniteSet(((at - Day)..at) \X ((at - Day)..at))
    BY <2>2, FS_Product
  <2>. QED  BY <2>1, <2>3, FS_Subset, FS_CardinalityType
<1>2. key \in [segments -> Nat]
  <2>1. \A s \in segments : s[1] - (at - Day) \in Nat
    BY ClockAssumption DEF InDay, Stretch
  <2>. QED  BY <2>1
<1>3. PICK o \in [1..n -> segments] :
          /\ \A i, j \in 1..n : i < j => key[o[i]] <= key[o[j]] /\ o[i] # o[j]
          /\ \A s \in segments : \E i \in 1..n : o[i] = s
  <2>. HIDE DEF key
  <2>. QED  BY <1>1, <1>2, OrderExists
<1>4. \A i, j \in 1..n : i < j => o[i][1] <= o[j][1]
  <2>1. ASSUME NEW i \in 1..n, NEW j \in 1..n, i < j  PROVE o[i][1] <= o[j][1]
    <3>1. key[o[i]] <= key[o[j]] /\ o[i] \in segments /\ o[j] \in segments
      BY <1>3, <2>1
    <3>2. o[i][1] - (at - Day) <= o[j][1] - (at - Day)
      BY <3>1
    <3>3. o[i][1] \in Int /\ o[j][1] \in Int /\ at - Day \in Int
      BY <3>1, ClockAssumption DEF InDay, Stretch
    <3>. QED  BY <3>2, <3>3
  <2>. QED  BY <2>1
<1>5. \E ord \in [1..n -> segments] :
          /\ \A i, j \in DOMAIN ord : i < j => ord[i][1] <= ord[j][1]
          /\ \A s \in segments : \E i \in DOMAIN ord : ord[i] = s
  <2>1. DOMAIN o = 1..n
    OBVIOUS
  <2>. HIDE DEF key, n
  <2>. QED  BY <1>3, <1>4, <2>1
<1>6. /\ order \in [1..n -> segments]
      /\ \A i, j \in DOMAIN order : i < j => order[i][1] <= order[j][1]
      /\ \A s \in segments : \E i \in DOMAIN order : order[i] = s
  <2>. HIDE DEF key
  <2>. QED  BY <1>5, ClockCardinality DEF Clock!ByStart
<1>. HIDE DEF order
<1>7. DOMAIN order = 1..n
  BY <1>6
<1>. QED  BY <1>1, <1>6, <1>7 DEF order

\* Stretches in their order, with free time between any two.
Parted(m, at) ==
    /\ m \in Seq(Stretch)
    /\ \A i \in 1..Len(m) : at - Day <= m[i][1] /\ m[i][1] < m[i][2] /\ m[i][2] <= at
    /\ \A i, j \in 1..Len(m) : i < j => m[i][2] < m[j][1]

\* Merging the first k stretches of an order leaves parted ones, that take the same
\* time and begin no later than the last of those.
MergedTo(m, order, k, at) ==
    /\ Parted(m, at)
    /\ m # <<>> => k > 0 /\ m[Len(m)][1] <= order[k][1]
    /\ \A t \in Int : (\E i \in 1..Len(m) : Within(t, m[i]))
                          <=> (\E j \in 1..k : Within(t, order[j]))

LEMMA ExtendType ==
    ASSUME NEW m \in Seq(Stretch), NEW s \in Stretch
    PROVE  Clock!Extend(m, s) \in Seq(Stretch)
<1>1. CASE m # <<>> /\ s[1] <= Clock!Last(m)[2]
  <2>1. Len(m) \in 1..Len(m) /\ Clock!Last(m) = m[Len(m)] /\ m[Len(m)] \in Stretch
    BY <1>1 DEF Clock!Last
  <2>2. m[Len(m)][1] \in Int /\ m[Len(m)][2] \in Int /\ s[2] \in Int
    BY <2>1 DEF Stretch
  <2>3. <<m[Len(m)][1], Clock!Max({m[Len(m)][2], s[2]})>> \in Stretch
    BY <2>2, ClockMaxTwo DEF Stretch
  <2>. QED  BY <1>1, <2>1, <2>3 DEF Clock!Extend
<1>2. CASE ~(m # <<>> /\ s[1] <= Clock!Last(m)[2])
  BY <1>2 DEF Clock!Extend
<1>. QED  BY <1>1, <1>2

LEMMA TwoStretches ==
    ASSUME NEW p, NEW q, NEW r, p \in Stretch, q \in Stretch, p[1] <= q[1], q[1] <= p[2],
           r = <<p[1], IF p[2] >= q[2] THEN p[2] ELSE q[2]>>, NEW t, t \in Int
    PROVE  Within(t, r) <=> Within(t, p) \/ Within(t, q)
BY DEF Stretch, Within

LEMMA ExtendMerges ==
    ASSUME NEW at \in Int, NEW n \in Nat, NEW order,
           \A i \in 1..n : /\ order[i] \in Stretch /\ at - Day <= order[i][1]
                           /\ order[i][1] < order[i][2] /\ order[i][2] <= at,
           \A i, j \in 1..n : i < j => order[i][1] <= order[j][1],
           NEW m, NEW k \in 1..n, MergedTo(m, order, k - 1, at)
    PROVE  MergedTo(Clock!Extend(m, order[k]), order, k, at)
<1>. PICK s, new : s = order[k] /\ new = Clock!Extend(m, order[k])
  OBVIOUS
<1>1. /\ s \in Stretch /\ s[1] \in Int /\ s[2] \in Int
      /\ at - Day <= s[1] /\ s[1] < s[2] /\ s[2] <= at
  BY DEF Stretch
<1>2. m \in Seq(Stretch) /\ new \in Seq(Stretch)
  BY <1>1, ExtendType DEF MergedTo, Parted
<1>3. \A i \in 1..Len(m) : m[i] \in Stretch /\ m[i][1] \in Int /\ m[i][2] \in Int
  BY <1>2 DEF Stretch
<1>4. \A t \in Int : (\E j \in 1..k : Within(t, order[j]))
                         <=> (\E j \in 1..(k - 1) : Within(t, order[j])) \/ Within(t, s)
  OBVIOUS
<1>5. m # <<>> => m[Len(m)][1] <= s[1]
  <2>. SUFFICES ASSUME m # <<>>  PROVE m[Len(m)][1] <= s[1]
    OBVIOUS
  <2>1. k - 1 > 0 /\ m[Len(m)][1] <= order[k - 1][1]
    BY DEF MergedTo
  <2>2. k - 1 \in 1..n /\ order[k - 1][1] <= order[k][1]
    BY <2>1
  <2>3. order[k - 1][1] \in Int /\ Len(m) \in 1..Len(m)
    BY <1>2, <2>2 DEF Stretch
  <2>. QED  BY <1>1, <1>3, <2>1, <2>2, <2>3
<1>6. CASE m # <<>> /\ s[1] <= Clock!Last(m)[2]
  <2>. DEFINE l == Len(m)
  <2>1. l \in Nat /\ l \in 1..l /\ Clock!Last(m) = m[l]
    BY <1>2, <1>6 DEF Clock!Last
  <2>. PICK b, e, f : b = m[l][1] /\ e = m[l][2] /\ f = IF e >= s[2] THEN e ELSE s[2]
    OBVIOUS
  <2>2. b \in Int /\ e \in Int /\ f \in Int /\ b <= s[1] /\ s[1] <= e /\ e <= f /\ s[2] <= f
    BY <1>1, <1>3, <1>5, <1>6, <2>1
  <2>3. new = [m EXCEPT ![l] = <<b, f>>]
    <3>1. Clock!Max({e, s[2]}) = f
      BY <1>1, <2>2, ClockMaxTwo
    <3>2. new = [m EXCEPT ![l] = <<m[l][1], Clock!Max({m[l][2], s[2]})>>]
      BY <1>6, <2>1 DEF Clock!Extend
    <3>. QED  BY <3>1, <3>2
  <2>4. /\ Len(new) = l /\ new[l] = <<b, f>> /\ new # <<>>
        /\ \A i \in 1..l : i # l => new[i] = m[i]
    BY <1>2, <2>1, <2>3
  <2>5. /\ \A i \in 1..l : at - Day <= m[i][1] /\ m[i][1] < m[i][2] /\ m[i][2] <= at
        /\ \A i, j \in 1..l : i < j => m[i][2] < m[j][1]
    BY DEF MergedTo, Parted
  <2>6. Parted(new, at)
    <3>1. ASSUME NEW i \in 1..l
          PROVE  at - Day <= new[i][1] /\ new[i][1] < new[i][2] /\ new[i][2] <= at
      <4>1. CASE i = l
        <5>1. at - Day <= b /\ b < e /\ e <= at
          BY <2>1, <2>5
        <5>. QED  BY <1>1, <2>2, <2>4, <4>1, <5>1
      <4>2. CASE i # l
        BY <2>4, <2>5, <4>2
      <4>. QED  BY <4>1, <4>2
    <3>2. ASSUME NEW i \in 1..l, NEW j \in 1..l, i < j
          PROVE  new[i][2] < new[j][1]
      <4>1. i # l /\ new[i] = m[i] /\ m[i][2] < m[j][1]
        BY <2>1, <2>4, <2>5, <3>2
      <4>2. new[j][1] = m[j][1]
        BY <2>4
      <4>. QED  BY <4>1, <4>2
    <3>. QED  BY <1>2, <2>4, <3>1, <3>2 DEF Parted
  <2>7. ASSUME NEW t \in Int
        PROVE  (\E i \in 1..Len(new) : Within(t, new[i]))
                   <=> (\E i \in 1..Len(m) : Within(t, m[i])) \/ Within(t, s)
    <3>1. Within(t, new[l]) <=> Within(t, m[l]) \/ Within(t, s)
      <4>. PICK p, r : p = m[l] /\ r = new[l]
        OBVIOUS
      <4>1. /\ p \in Stretch /\ s \in Stretch /\ p[1] <= s[1] /\ s[1] <= p[2]
            /\ r = <<p[1], IF p[2] >= s[2] THEN p[2] ELSE s[2]>>
        BY <1>1, <1>3, <2>1, <2>2, <2>4
      <4>. QED  BY <4>1, TwoStretches
    <3>2. \A i \in 1..l : i # l => (Within(t, new[i]) <=> Within(t, m[i]))
      BY <2>4
    <3>. QED  BY <2>1, <2>4, <3>1, <3>2
  <2>8. new[Len(new)][1] <= s[1] /\ k > 0
    BY <2>2, <2>4
  <2>9. MergedTo(new, order, k, at)
    BY <1>4, <2>6, <2>7, <2>8 DEF MergedTo
  <2>. QED  BY <2>9
<1>7. CASE ~(m # <<>> /\ s[1] <= Clock!Last(m)[2])
  <2>. DEFINE l == Len(m)
  <2>1. l \in Nat /\ new = Append(m, s)
    BY <1>2, <1>7 DEF Clock!Extend
  <2>2. /\ Len(new) = l + 1 /\ new[l + 1] = s /\ new # <<>>
        /\ \A i \in 1..l : new[i] = m[i]
    BY <1>1, <1>2, <2>1
  <2>3. /\ \A i \in 1..l : at - Day <= m[i][1] /\ m[i][1] < m[i][2] /\ m[i][2] <= at
        /\ \A i, j \in 1..l : i < j => m[i][2] < m[j][1]
    BY DEF MergedTo, Parted
  <2>4. ASSUME NEW i \in 1..l  PROVE m[i][2] < s[1]
    <3>1. l \in 1..l /\ m # <<>> /\ m[l][2] < s[1]
      <4>1. l \in 1..l /\ m # <<>>
        BY <1>2
      <4>2. ~(s[1] <= m[l][2])
        BY <1>7, <4>1 DEF Clock!Last
      <4>. QED  BY <1>1, <1>3, <4>1, <4>2
    <3>2. CASE i = l
      BY <3>1, <3>2
    <3>3. CASE i # l
      <4>1. m[i][2] < m[l][1] /\ m[l][1] < m[l][2]
        BY <2>3, <3>1, <3>3
      <4>. QED  BY <1>1, <1>3, <3>1, <4>1
    <3>. QED  BY <3>2, <3>3
  <2>5. Parted(new, at)
    <3>1. ASSUME NEW i \in 1..(l + 1)
          PROVE  at - Day <= new[i][1] /\ new[i][1] < new[i][2] /\ new[i][2] <= at
      <4>1. CASE i = l + 1
        BY <1>1, <2>2, <4>1
      <4>2. CASE i # l + 1
        <5>1. i \in 1..l
          BY <2>1, <4>2
        <5>. QED  BY <2>2, <2>3, <5>1
      <4>. QED  BY <4>1, <4>2
    <3>2. ASSUME NEW i \in 1..(l + 1), NEW j \in 1..(l + 1), i < j
          PROVE  new[i][2] < new[j][1]
      <4>1. i \in 1..l /\ new[i] = m[i]
        BY <2>1, <2>2, <3>2
      <4>2. CASE j = l + 1
        BY <2>2, <2>4, <4>1, <4>2
      <4>3. CASE j # l + 1
        <5>1. j \in 1..l /\ new[j] = m[j]
          BY <2>1, <2>2, <4>3
        <5>. QED  BY <2>3, <3>2, <4>1, <5>1
      <4>. QED  BY <4>2, <4>3
    <3>. QED  BY <1>2, <2>2, <3>1, <3>2 DEF Parted
  <2>6. ASSUME NEW t \in Int
        PROVE  (\E i \in 1..Len(new) : Within(t, new[i]))
                   <=> (\E i \in 1..Len(m) : Within(t, m[i])) \/ Within(t, s)
    <3>1. \A i \in 1..(l + 1) : i \in 1..l \/ i = l + 1
      BY <2>1
    <3>2. \A i \in 1..l : i \in 1..(l + 1)
      BY <2>1
    <3>3. l + 1 \in 1..(l + 1)
      BY <2>1
    <3>. QED  BY <2>2, <3>1, <3>2, <3>3
  <2>7. new[Len(new)][1] <= s[1] /\ k > 0
    BY <1>1, <2>2
  <2>8. MergedTo(new, order, k, at)
    BY <1>4, <2>5, <2>6, <2>7 DEF MergedTo
  <2>. QED  BY <2>8
<1>. QED  BY <1>6, <1>7

\* The merged stretches of a day take the same time, apart from one another.
LEMMA MergedParted ==
    ASSUME NEW segments, NEW at \in Int, InDay(segments, at)
    PROVE  LET m == Clock!Merged(segments)
           IN  /\ Parted(m, at)
               /\ \A t \in Int : (\E i \in 1..Len(m) : Within(t, m[i]))
                                     <=> (\E s \in segments : Within(t, s))
<1>. PICK n \in Nat : \E order \in [1..n -> segments] :
               /\ order = Clock!ByStart(segments)
               /\ \A i, j \in 1..n : i < j => order[i][1] <= order[j][1]
               /\ \A s \in segments : \E i \in 1..n : order[i] = s
  BY StartsInOrder
<1>1. PICK order \in [1..n -> segments] :
               /\ order = Clock!ByStart(segments)
               /\ \A i, j \in 1..n : i < j => order[i][1] <= order[j][1]
               /\ \A s \in segments : \E i \in 1..n : order[i] = s
  OBVIOUS
<1>2. \A i \in 1..n : /\ order[i] \in Stretch /\ at - Day <= order[i][1]
                      /\ order[i][1] < order[i][2] /\ order[i][2] <= at
  BY DEF InDay
<1>. DEFINE V == Seq(Stretch)
            choice == [t \in SUBSET (1..n) |-> Clock!Max(t)]
            add == [i \in 1..n |-> [m \in V |-> Clock!Extend(m, order[i])]]
            Right(it) == it = [t \in SUBSET (1..n) |->
                                 IF t = {} THEN <<>>
                                 ELSE Clock!Extend(it[t \ {Clock!Max(t)}], order[Clock!Max(t)])]
<1>3. Clock!Merged(segments) = (CHOOSE it : Right(it))[1..n]
  <2>1. DOMAIN order = 1..n
    OBVIOUS
  <2>2. Clock!Merged(segments) =
          (CHOOSE it : it = [t \in SUBSET (DOMAIN order) |->
                                 IF t = {} THEN <<>>
                                 ELSE Clock!Extend(it[t \ {Clock!Max(t)}], order[Clock!Max(t)])])[DOMAIN order]
    BY <1>1 DEF Clock!Merged, Clock!FoldLeft, Clock!MapThenFoldSet
  <2>. QED  BY <2>1, <2>2
<1>4. Greatest(choice, n)
  <2>1. ASSUME NEW t \in SUBSET (1..n), t # {}
        PROVE  choice[t] \in t /\ \A y \in t : choice[t] >= y
    <3>1. t \in SUBSET (0..n)
      OBVIOUS
    <3>2. \E x \in t : \A y \in t : x >= y
      BY <2>1, <3>1, GreatestNat
    <3>3. Clock!Max(t) \in t /\ \A y \in t : Clock!Max(t) >= y
      BY <3>2 DEF Clock!Max
    <3>. QED  BY <3>3
  <2>. HIDE DEF choice
  <2>. QED  BY <2>1 DEF Greatest
<1>5. Foldable(1..n, V, <<>>, choice, add)
  <2>1. IsFiniteSet(1..n)
    BY FS_Interval
  <2>2. \A t \in SUBSET (1..n) : t # {} => choice[t] \in t
    <3>. HIDE DEF choice
    <3>. QED  BY <1>4 DEF Greatest
  <2>3. add \in [1..n -> [V -> V]]
    <3>1. ASSUME NEW i \in 1..n, NEW m \in V  PROVE Clock!Extend(m, order[i]) \in V
      BY <1>2, ExtendType
    <3>. QED  BY <3>1
  <2>4. <<>> \in V
    OBVIOUS
  <2>. HIDE DEF choice, add, V
  <2>. QED  BY <2>1, <2>2, <2>3, <2>4 DEF Foldable
<1>. PICK d, c, a, v : d = 1..n /\ c = choice /\ a = add /\ v = V
  OBVIOUS
<1>6. PICK it : IsFold(it, d, v, <<>>, c, a)
  <2>. HIDE DEF choice, add, V
  <2>1. Foldable(d, v, <<>>, c, a)
    BY <1>5
  <2>. QED  BY <2>1, FoldExists
<1>7. ASSUME NEW f, NEW t \in SUBSET (1..n), t # {}, f[t \ {choice[t]}] \in V
      PROVE  Clock!Extend(f[t \ {Clock!Max(t)}], order[Clock!Max(t)])
                 = add[choice[t]][f[t \ {choice[t]}]]
  <2>1. choice[t] = Clock!Max(t)
    OBVIOUS
  <2>2. choice[t] \in 1..n
    <3>. HIDE DEF choice
    <3>. QED  BY <1>4, <1>7 DEF Greatest
  <2>. HIDE DEF choice, V
  <2>. QED  BY <1>7, <2>1, <2>2
<1>8. Right(it)
  <2>1. it \in [SUBSET (1..n) -> V] /\ it[{}] = <<>>
    BY <1>6 DEF IsFold
  <2>2. ASSUME NEW t \in SUBSET (1..n), t # {}
        PROVE  it[t] = Clock!Extend(it[t \ {Clock!Max(t)}], order[Clock!Max(t)])
    <3>1. t \ {choice[t]} \in SUBSET (1..n)
      OBVIOUS
    <3>2. it[t] = add[choice[t]][it[t \ {choice[t]}]]
      <4>. HIDE DEF choice, add, V
      <4>. QED  BY <1>6, <2>2 DEF IsFold
    <3>. HIDE DEF choice, add, V
    <3>. QED  BY <1>7, <2>1, <2>2, <3>1, <3>2
  <2>. HIDE DEF choice, add, V
  <2>. QED  BY <2>1, <2>2
<1>9. PICK f : Right(f) /\ f = CHOOSE g : Right(g)
  <2>. HIDE DEF Right
  <2>. QED  BY <1>8
<1>10. Follows(f, d, v, <<>>, c, a)
  <2>1. f[{}] = <<>> /\ \A t \in SUBSET (1..n) : t # {} =>
            f[t] = Clock!Extend(f[t \ {Clock!Max(t)}], order[Clock!Max(t)])
    BY <1>9
  <2>. HIDE DEF choice, add, V, Right
  <2>. QED  BY <1>7, <2>1 DEF Follows
<1>11a. PICK run : Along(run, it, n, v, <<>>, a)
  <2>. HIDE DEF choice, add, V
  <2>1. Foldable(1..n, v, <<>>, c, a) /\ Greatest(c, n) /\ IsFold(it, 1..n, v, <<>>, c, a)
    BY <1>4, <1>5, <1>6
  <2>. QED  BY <2>1, LeftFold
<1>11. /\ run \in [0..n -> v] /\ run[0] = <<>> /\ run[n] = it[1..n]
       /\ \A i \in 1..n : run[i] = a[i][run[i - 1]]
  BY <1>11a DEF Along
<1>12. run[n] = Clock!Merged(segments)
  <2>1. f[d] = it[d]
    <3>1. Foldable(d, v, <<>>, c, a) /\ d \in SUBSET d
      BY <1>5
    <3>. HIDE DEF choice, add, V
    <3>. QED  BY <1>6, <1>10, <3>1, FoldOnly
  <2>. HIDE DEF choice, add, V, Right
  <2>. QED  BY <1>3, <1>9, <1>11, <2>1
<1>13. \A i \in 1..n : run[i] = Clock!Extend(run[i - 1], order[i])
  <2>1. ASSUME NEW i \in 1..n  PROVE run[i] = Clock!Extend(run[i - 1], order[i])
    <3>1. run[i - 1] \in V /\ run[i] = a[i][run[i - 1]]
      <4>1. i - 1 \in 0..n
        OBVIOUS
      <4>. HIDE DEF V, choice, add
      <4>. QED  BY <1>11, <4>1
    <3>2. a[i][run[i - 1]] = Clock!Extend(run[i - 1], order[i])
      <4>. HIDE DEF V, choice
      <4>. QED  BY <3>1
    <3>. QED  BY <3>1, <3>2
  <2>. QED  BY <2>1
<1>. HIDE DEF choice, add, V, Right
<1>14. MergedTo(run[0], order, 0, at)
  <2>1. Parted(<<>>, at)
    BY DEF Parted
  <2>. QED  BY <1>11, <2>1 DEF MergedTo
<1>. DEFINE bad == {i \in 0..n : ~MergedTo(run[i], order, i, at)}
<1>15. bad = {}
  <2>. SUFFICES ASSUME bad # {}  PROVE FALSE
    OBVIOUS
  <2>1. bad \in SUBSET Nat
    OBVIOUS
  <2>2. PICK i \in bad : \A j \in bad : i <= j
    <3>. HIDE DEF bad
    <3>. QED  BY <2>1, LeastNat
  <2>3. i # 0 /\ i \in 0..n
    BY <1>14
  <2>4. i \in 1..n /\ i - 1 \in 0..n /\ i - 1 \notin bad
    BY <2>2, <2>3
  <2>5. MergedTo(run[i - 1], order, i - 1, at)
    BY <2>4
  <2>6. MergedTo(Clock!Extend(run[i - 1], order[i]), order, i, at)
    <3>1. \A j, k \in 1..n : j < k => order[j][1] <= order[k][1]
      BY <1>1
    <3>. QED  BY <1>2, <2>4, <2>5, <3>1, ExtendMerges
  <2>7. MergedTo(run[i], order, i, at)
    BY <1>13, <2>4, <2>6
  <2>. QED  BY <2>7
<1>16. MergedTo(run[n], order, n, at)
  <2>1. n \in 0..n /\ n \notin bad
    BY <1>15
  <2>. QED  BY <2>1
<1>. HIDE DEF bad
<1>17. \A t \in Int : (\E j \in 1..n : Within(t, order[j])) <=> (\E s \in segments : Within(t, s))
  BY <1>1
<1>. QED  BY <1>12, <1>16, <1>17 DEF MergedTo

\* The times of a day that no stretch takes, and how long they last without a break.
FreeTimes(m, at) == {t \in (at - Day)..(at - 1) : ~\E i \in 1..Len(m) : Within(t, m[i])}
Lasting(free, at) == {n \in 0..Day : \E t \in (at - Day)..(at - n) : t..(t + n - 1) \subseteq free}
Gaps(m, at) == {m[1][1] - (at - Day), at - Clock!Last(m)[2]}
                   \union {m[i + 1][1] - m[i][2] : i \in 1..(Len(m) - 1)}

LEMMA PartedTimes ==
    ASSUME NEW at \in Int, NEW m, Parted(m, at)
    PROVE  /\ Len(m) \in Nat
           /\ \A i \in 1..Len(m) : /\ m[i][1] \in Int /\ m[i][2] \in Int
                                   /\ at - Day <= m[i][1] /\ m[i][1] < m[i][2] /\ m[i][2] <= at
           /\ \A i, j \in 1..Len(m) : i < j => m[i][2] < m[j][1]
           /\ \A i, j \in 1..Len(m) : i <= j => m[i][1] <= m[j][1] /\ m[i][2] <= m[j][2]
<1>1. /\ m \in Seq(Stretch) /\ Len(m) \in Nat
      /\ \A i \in 1..Len(m) : at - Day <= m[i][1] /\ m[i][1] < m[i][2] /\ m[i][2] <= at
      /\ \A i, j \in 1..Len(m) : i < j => m[i][2] < m[j][1]
  BY DEF Parted
<1>2. \A i \in 1..Len(m) : m[i][1] \in Int /\ m[i][2] \in Int
  BY <1>1 DEF Stretch
<1>3. ASSUME NEW i \in 1..Len(m), NEW j \in 1..Len(m), i <= j
      PROVE  m[i][1] <= m[j][1] /\ m[i][2] <= m[j][2]
  <2>1. CASE i = j
    BY <1>2, <2>1
  <2>2. CASE i # j
    <3>1. m[i][2] < m[j][1] /\ m[i][1] < m[i][2] /\ m[j][1] < m[j][2]
      BY <1>1, <1>3, <2>2
    <3>2. m[i][1] \in Int /\ m[i][2] \in Int /\ m[j][1] \in Int /\ m[j][2] \in Int
      BY <1>2
    <3>. QED  BY <3>1, <3>2
  <2>. QED  BY <2>1, <2>2
<1>. QED  BY <1>1, <1>2, <1>3

\* From e to f nothing is taken: as long as that lasts.
LEMMA GapLasts ==
    ASSUME NEW at \in Int, NEW m, Parted(m, at), NEW e \in Int, NEW f \in Int,
           at - Day <= e, e <= f, f <= at,
           \A j \in 1..Len(m) : m[j][2] <= e \/ f <= m[j][1]
    PROVE  f - e \in Lasting(FreeTimes(m, at), at)
<1>. DEFINE n == f - e
<1>1. Day \in Nat /\ n \in 0..Day /\ e \in (at - Day)..(at - n)
  BY ClockAssumption
<1>2. ASSUME NEW t \in e..(e + n - 1)  PROVE t \in FreeTimes(m, at)
  <2>1. t \in (at - Day)..(at - 1) /\ e <= t /\ t < f /\ t \in Int
    BY <1>1
  <2>2. ASSUME NEW j \in 1..Len(m)  PROVE ~Within(t, m[j])
    <3>1. m[j][1] \in Int /\ m[j][2] \in Int
      BY PartedTimes
    <3>. QED  BY <2>1, <3>1 DEF Within
  <2>. QED  BY <2>1, <2>2 DEF FreeTimes
<1>. QED  BY <1>1, <1>2 DEF Lasting

LEMMA GapsLast ==
    ASSUME NEW at \in Int, NEW m, Parted(m, at), m # <<>>
    PROVE  Gaps(m, at) \subseteq Lasting(FreeTimes(m, at), at)
<1>. DEFINE l == Len(m)
<1>1. l \in Nat /\ 1 \in 1..l /\ l \in 1..l /\ Clock!Last(m) = m[l]
  <2>1. m \in Seq(Stretch)
    BY DEF Parted
  <2>. QED  BY <2>1 DEF Clock!Last
<1>. HIDE DEF l
<1>0. at - Day \in Int
  BY ClockAssumption
<1>2. m[1][1] - (at - Day) \in Lasting(FreeTimes(m, at), at)
  <2>1. m[1][1] \in Int /\ at - Day <= m[1][1] /\ m[1][1] <= at
    <3>1. m[1][1] \in Int /\ m[1][2] \in Int /\ at - Day <= m[1][1] /\ m[1][1] < m[1][2] /\ m[1][2] <= at
      BY <1>1, PartedTimes DEF l
    <3>. QED  BY <3>1
  <2>2. \A j \in 1..Len(m) : m[1][1] <= m[j][1]
    BY <1>1, PartedTimes DEF l
  <2>. QED  BY <1>0, <2>1, <2>2, GapLasts
<1>3. at - m[l][2] \in Lasting(FreeTimes(m, at), at)
  <2>1. m[l][2] \in Int /\ at - Day <= m[l][2] /\ m[l][2] <= at
    <3>1. m[l][1] \in Int /\ m[l][2] \in Int /\ at - Day <= m[l][1] /\ m[l][1] < m[l][2] /\ m[l][2] <= at
      BY <1>1, PartedTimes DEF l
    <3>. QED  BY <1>0, <3>1
  <2>2. \A j \in 1..Len(m) : m[j][2] <= m[l][2]
    BY <1>1, PartedTimes DEF l
  <2>. QED  BY <2>1, <2>2, GapLasts
<1>4. ASSUME NEW i \in 1..(Len(m) - 1)
      PROVE  m[i + 1][1] - m[i][2] \in Lasting(FreeTimes(m, at), at)
  <2>1. i \in 1..Len(m) /\ i + 1 \in 1..Len(m) /\ i < i + 1
    BY <1>1 DEF l
  <2>2. /\ m[i][2] \in Int /\ m[i + 1][1] \in Int
        /\ at - Day <= m[i][2] /\ m[i][2] <= m[i + 1][1] /\ m[i + 1][1] <= at
    <3>1. /\ m[i][1] \in Int /\ m[i][2] \in Int /\ m[i + 1][1] \in Int /\ m[i + 1][2] \in Int
          /\ at - Day <= m[i][1] /\ m[i][1] < m[i][2]
          /\ m[i + 1][1] < m[i + 1][2] /\ m[i + 1][2] <= at
      BY <2>1, PartedTimes
    <3>2. m[i][2] < m[i + 1][1]
      BY <2>1, PartedTimes
    <3>. QED  BY <1>0, <3>1, <3>2
  <2>3. ASSUME NEW j \in 1..Len(m)
        PROVE  m[j][2] <= m[i][2] \/ m[i + 1][1] <= m[j][1]
    <3>1. j <= i \/ i + 1 <= j
      BY <2>1
    <3>. QED  BY <2>1, <3>1, PartedTimes
  <2>. QED  BY <2>2, <2>3, GapLasts
<1>. QED  BY <1>1, <1>2, <1>3, <1>4 DEF Gaps

\* What lasts without a break lies in a gap.
LEMMA LastsInGap ==
    ASSUME NEW at \in Int, NEW m, Parted(m, at), m # <<>>,
           NEW n \in Lasting(FreeTimes(m, at), at)
    PROVE  \E g \in Gaps(m, at) : n <= g
<1>. DEFINE l == Len(m)
<1>0. at - Day \in Int /\ Day \in Nat
  BY ClockAssumption
<1>1. l \in Nat /\ 1 \in 1..l /\ l \in 1..l /\ Clock!Last(m) = m[l]
  <2>1. m \in Seq(Stretch)
    BY DEF Parted
  <2>. QED  BY <2>1 DEF Clock!Last
<1>2. \A i \in 1..l : /\ m[i][1] \in Int /\ m[i][2] \in Int
                      /\ at - Day <= m[i][1] /\ m[i][1] < m[i][2] /\ m[i][2] <= at
  BY PartedTimes
<1>3. n \in 0..Day /\ n \in Int
  BY <1>0 DEF Lasting
<1>4. PICK t \in (at - Day)..(at - n) : t..(t + n - 1) \subseteq FreeTimes(m, at)
  BY DEF Lasting
<1>5. t \in Int /\ at - Day <= t /\ t + n <= at
  BY <1>0, <1>3, <1>4
<1>. HIDE DEF l
<1>6. CASE n = 0
  <2>1. m[1][1] - (at - Day) \in Gaps(m, at)
    BY DEF Gaps
  <2>2. n <= m[1][1] - (at - Day)
    BY <1>0, <1>1, <1>2, <1>6
  <2>. QED  BY <2>1, <2>2
<1>7. CASE n # 0
  <2>1. ASSUME NEW j \in 1..l  PROVE m[j][2] <= t \/ t + n <= m[j][1]
    <3>. SUFFICES ASSUME ~(m[j][2] <= t), ~(t + n <= m[j][1])  PROVE FALSE
      OBVIOUS
    <3>1. PICK b, e : b = m[j][1] /\ e = m[j][2]
      OBVIOUS
    <3>2. b \in Int /\ e \in Int /\ b < e /\ e > t /\ b < t + n
      BY <1>2, <1>3, <1>5, <3>1
    <3>3. PICK u \in Int : u = IF b > t THEN b ELSE t
      BY <1>5, <3>2
    <3>4. u \in t..(t + n - 1) /\ b <= u /\ u < e
      BY <1>3, <1>5, <1>7, <3>2, <3>3
    <3>5. Within(u, m[j])
      BY <3>1, <3>4 DEF Within
    <3>6. u \in FreeTimes(m, at)
      BY <1>4, <3>4
    <3>. QED  BY <3>5, <3>6 DEF FreeTimes, l
  <2>. DEFINE A == {j \in 1..l : m[j][2] <= t}
  <2>2. CASE A = {}
    <3>1. t + n <= m[1][1]
      BY <1>1, <2>1, <2>2
    <3>2. m[1][1] \in Int
      BY <1>1, <1>2
    <3>3. n <= m[1][1] - (at - Day)
      BY <1>0, <1>3, <1>5, <3>1, <3>2
    <3>. QED  BY <3>3 DEF Gaps
  <2>3. CASE A # {}
    <3>1. A \in SUBSET (0..l)
      OBVIOUS
    <3>2. PICK j \in A : \A i \in A : j >= i
      <4>. HIDE DEF A
      <4>. QED  BY <1>1, <2>3, <3>1, GreatestNat
    <3>3. j \in 1..l /\ m[j][2] <= t /\ m[j][2] \in Int
      BY <1>2
    <3>4. CASE j = l
      <4>1. n <= at - m[l][2]
        BY <1>3, <1>5, <3>3, <3>4
      <4>2. at - m[l][2] \in Gaps(m, at)
        BY <1>1 DEF Gaps
      <4>. QED  BY <4>1, <4>2
    <3>5. CASE j # l
      <4>1. j + 1 \in 1..l /\ j \in 1..(l - 1)
        BY <1>1, <3>3, <3>5
      <4>2. j + 1 \notin A
        <5>1. ~(j >= j + 1)
          BY <3>3
        <5>. HIDE DEF A
        <5>. QED  BY <3>2, <5>1
      <4>3. ~(m[j + 1][2] <= t)
        BY <4>1, <4>2
      <4>4. t + n <= m[j + 1][1] /\ m[j + 1][1] \in Int
        BY <1>2, <2>1, <4>1, <4>3
      <4>5. n <= m[j + 1][1] - m[j][2]
        BY <1>3, <1>5, <3>3, <4>4
      <4>6. m[j + 1][1] - m[j][2] \in Gaps(m, at)
        BY <4>1 DEF Gaps, l
      <4>. QED  BY <4>5, <4>6
    <3>. QED  BY <3>4, <3>5
  <2>. QED  BY <2>2, <2>3
<1>. QED  BY <1>6, <1>7

\* The longest gap is the longest time that is free.
LEMMA LongestGap ==
    ASSUME NEW at \in Int, NEW m, Parted(m, at)
    PROVE  LET longest == Clock!Max(Lasting(FreeTimes(m, at), at))
           IN  /\ longest \in Int
               /\ longest = IF m = <<>> THEN Day ELSE Clock!Max(Gaps(m, at))
<1>. DEFINE F == Lasting(FreeTimes(m, at), at)
<1>0. Day \in Nat /\ at - Day \in Int
  BY ClockAssumption
<1>1. F \subseteq 0..Day /\ F \subseteq Int
  BY <1>0 DEF Lasting
<1>2. CASE m = <<>>
  <2>1. (at - Day)..(at - 1) \subseteq FreeTimes(m, at)
    BY <1>2 DEF FreeTimes
  <2>2. /\ at - Day \in (at - Day)..(at - Day) /\ (at - Day) + Day - 1 = at - 1
    BY <1>0
  <2>3. Day \in F
    BY <1>0, <2>1, <2>2 DEF Lasting
  <2>4. \A n \in F : n <= Day
    BY <1>0, <1>1
  <2>5. Clock!Max(F) = Day
    <3>. HIDE DEF F
    <3>. QED  BY <1>1, <2>3, <2>4, ClockGreatest
  <2>. HIDE DEF F
  <2>. QED  BY <1>0, <1>2, <2>5 DEF F
<1>3. CASE m # <<>>
  <2>. DEFINE G == Gaps(m, at)
  <2>1. G \subseteq F /\ \A n \in F : \E g \in G : n <= g
    BY <1>3, GapsLast, LastsInGap
  <2>2. G \in SUBSET (0..Day) /\ G # {}
    <3>1. G # {}
      BY DEF Gaps
    <3>. HIDE DEF F, G
    <3>. QED  BY <1>1, <2>1, <3>1
  <2>3. PICK g \in G : \A h \in G : g >= h
    <3>. HIDE DEF G
    <3>. QED  BY <1>0, <2>2, GreatestNat
  <2>. HIDE DEF F, G
  <2>4. G \subseteq Int /\ g \in Int /\ g \in F /\ \A h \in G : h <= g
    BY <1>1, <2>1, <2>3
  <2>5. \A n \in F : n <= g
    <3>1. ASSUME NEW n \in F  PROVE n <= g
      <4>1. PICK h \in G : n <= h
        BY <2>1
      <4>2. h \in Int /\ n \in Int /\ h <= g
        BY <1>1, <2>4
      <4>. QED  BY <2>4, <4>1, <4>2
    <3>. QED  BY <3>1
  <2>6. Clock!Max(G) = g
    BY <2>4, ClockGreatest
  <2>7. Clock!Max(F) = g
    BY <1>1, <2>4, <2>5, ClockGreatest
  <2>. QED  BY <1>3, <2>4, <2>6, <2>7 DEF F, G
<1>. QED  BY <1>2, <1>3

LEMMA DutyTimes ==
    ASSUME Clock!TypeOK
    PROVE  /\ Clock!Times \subseteq Int /\ now \in Int /\ zone \in Int
           /\ \A r \in Routes : /\ start[r] # None => start[r] \in Clock!Times
                                /\ finish[r] # None => finish[r] \in Clock!Times /\ start[r] # None
BY ClockAssumption DEF Clock!TypeOK, Clock!Times

\* When a duty ends, as check_rest takes it and as it is stored.
Until(r, at) == IF finish[r] = None THEN at ELSE finish[r]
Ends(r, at)  == IF finish[r] = None THEN Clock!Max({at, start[r]}) ELSE finish[r]
Cut(r, at)   == <<Clock!Max({start[r], at - Day}), Clock!Min({Until(r, at), at})>>

LEMMA CutTimes ==
    ASSUME Clock!TypeOK, NEW at \in Int, NEW r \in Routes, start[r] # None
    PROVE  /\ start[r] \in Int /\ Until(r, at) \in Int /\ Ends(r, at) \in Int
           /\ Cut(r, at) \in Stretch
           /\ Cut(r, at)[1] = (IF start[r] >= at - Day THEN start[r] ELSE at - Day)
           /\ Cut(r, at)[2] = (IF Until(r, at) <= at THEN Until(r, at) ELSE at)
           /\ start[r] < at => Ends(r, at) = Until(r, at)
<1>1. start[r] \in Int /\ Until(r, at) \in Int /\ at - Day \in Int
  BY DutyTimes, ClockAssumption DEF Until
<1>2. /\ Clock!Max({start[r], at - Day}) = (IF start[r] >= at - Day THEN start[r] ELSE at - Day)
      /\ Clock!Min({Until(r, at), at}) = (IF Until(r, at) <= at THEN Until(r, at) ELSE at)
      /\ Clock!Max({at, start[r]}) = (IF at >= start[r] THEN at ELSE start[r])
  BY <1>1, ClockMaxTwo, ClockMinTwo
<1>3. Ends(r, at) \in Int /\ (start[r] < at => Ends(r, at) = Until(r, at))
  BY <1>1, <1>2 DEF Ends, Until
<1>4. Cut(r, at) \in Stretch
  BY <1>1, <1>2 DEF Cut, Stretch
<1>. QED  BY <1>1, <1>2, <1>3, <1>4 DEF Cut

LEMMA BusySegments ==
    ASSUME NEW d, NEW at, NEW s
    PROVE  s \in Clock!Intervals(d, at) <=>
               \E r \in Routes : /\ driver[r] = d /\ start[r] # None /\ start[r] < at
                                 /\ s = Cut(r, at) /\ s[2] > s[1]
BY DEF Clock!Intervals, Clock!Busy, Cut, Until

LEMMA BusyInDay ==
    ASSUME Clock!TypeOK, NEW d, NEW at \in Int
    PROVE  InDay(Clock!Intervals(d, at), at)
<1>1. ASSUME NEW s \in Clock!Intervals(d, at)
      PROVE  s \in Stretch /\ at - Day <= s[1] /\ s[1] < s[2] /\ s[2] <= at
  <2>1. PICK r \in Routes : /\ driver[r] = d /\ start[r] # None /\ start[r] < at
                            /\ s = Cut(r, at) /\ s[2] > s[1]
    BY BusySegments
  <2>2. at - Day \in Int
    BY ClockAssumption
  <2>. QED  BY <2>1, <2>2, CutTimes
<1>. QED  BY <1>1 DEF InDay

\* A moment is in a segment exactly when it is in a duty.
LEMMA BusyMoments ==
    ASSUME Clock!TypeOK, NEW d, NEW at \in Int, NEW t \in (at - Day)..(at - 1)
    PROVE  (\E s \in Clock!Intervals(d, at) : Within(t, s)) <=>
               ~\A r \in Routes : driver[r] = d /\ start[r] # None =>
                                      t < start[r] \/ t >= Ends(r, at)
<1>1. at - Day \in Int /\ t \in Int /\ at - Day <= t /\ t < at
  BY ClockAssumption
<1>2. ASSUME NEW s \in Clock!Intervals(d, at), Within(t, s)
      PROVE  \E r \in Routes : /\ driver[r] = d /\ start[r] # None
                               /\ ~(t < start[r] \/ t >= Ends(r, at))
  <2>1. PICK r \in Routes : /\ driver[r] = d /\ start[r] # None /\ start[r] < at
                            /\ s = Cut(r, at) /\ s[2] > s[1]
    BY BusySegments
  <2>2. /\ start[r] \in Int /\ Until(r, at) \in Int /\ Ends(r, at) = Until(r, at)
        /\ s[1] = (IF start[r] >= at - Day THEN start[r] ELSE at - Day)
        /\ s[2] = (IF Until(r, at) <= at THEN Until(r, at) ELSE at)
    BY <2>1, CutTimes
  <2>3. start[r] <= t /\ t < Until(r, at)
    BY <1>1, <1>2, <2>2 DEF Within
  <2>. QED  BY <1>1, <2>1, <2>2, <2>3
<1>3. ASSUME NEW r \in Routes, driver[r] = d, start[r] # None,
             ~(t < start[r] \/ t >= Ends(r, at))
      PROVE  \E s \in Clock!Intervals(d, at) : Within(t, s)
  <2>1. start[r] \in Int /\ Ends(r, at) \in Int
    BY <1>3, CutTimes
  <2>2. start[r] <= t /\ t < Ends(r, at) /\ start[r] < at
    BY <1>1, <1>3, <2>1
  <2>3. /\ Until(r, at) \in Int /\ Ends(r, at) = Until(r, at)
        /\ Cut(r, at)[1] = (IF start[r] >= at - Day THEN start[r] ELSE at - Day)
        /\ Cut(r, at)[2] = (IF Until(r, at) <= at THEN Until(r, at) ELSE at)
    BY <1>3, <2>2, CutTimes
  <2>4. Within(t, Cut(r, at)) /\ Cut(r, at)[2] > Cut(r, at)[1]
    BY <1>1, <2>1, <2>2, <2>3 DEF Within
  <2>5. Cut(r, at) \in Clock!Intervals(d, at)
    BY <1>3, <2>2, <2>4, BusySegments
  <2>. QED  BY <2>4, <2>5
<1>. QED  BY <1>2, <1>3

LEMMA RestIsFree ==
    ASSUME Clock!TypeOK, NEW d, NEW at \in Int
    PROVE  Clock!RestGap(d, at) = Clock!FreeAsStored(d, at) /\ Clock!RestGap(d, at) \in Int
<1>. PICK m, I : m = Clock!Merged(I) /\ I = Clock!Intervals(d, at)
  OBVIOUS
<1>1. /\ Parted(m, at)
      /\ \A t \in Int : (\E i \in 1..Len(m) : Within(t, m[i])) <=> (\E s \in I : Within(t, s))
  BY BusyInDay, MergedParted
<1>2. Clock!RestGap(d, at) = IF m = <<>> THEN Day ELSE Clock!Max(Gaps(m, at))
  BY DEF Clock!RestGap, Gaps
<1>. DEFINE free == {t \in (at - Day)..(at - 1) :
                        \A r \in Routes : driver[r] = d /\ start[r] # None =>
                            t < start[r] \/ t >= Ends(r, at)}
<1>3. Clock!FreeAsStored(d, at) = Clock!Max(Lasting(free, at))
  BY DEF Clock!FreeAsStored, Clock!LongestFree, Lasting, Ends
<1>4. free = FreeTimes(m, at)
  <2>1. ASSUME NEW t \in (at - Day)..(at - 1)
        PROVE  t \in free <=> t \in FreeTimes(m, at)
    <3>1. t \in Int
      BY ClockAssumption
    <3>2. (\E s \in I : Within(t, s)) <=>
               ~\A r \in Routes : driver[r] = d /\ start[r] # None =>
                                      t < start[r] \/ t >= Ends(r, at)
      BY BusyMoments
    <3>. QED  BY <1>1, <3>1, <3>2 DEF FreeTimes
  <2>. QED  BY <2>1 DEF FreeTimes
<1>. HIDE DEF free
<1>. QED  BY <1>1, <1>2, <1>3, <1>4, LongestGap

LEMMA RestIsExact == Clock!TypeOK => Clock!RestExact
<1>. SUFFICES ASSUME Clock!TypeOK, NEW d \in Drivers
              PROVE  /\ \A at \in Clock!Times : Clock!RestGap(d, at) = Clock!FreeAsStored(d, at)
                     /\ \A r \in Routes : driver[r] = d /\ finish[r] # None =>
                            (r \in Clock!RestViolations(d))
                                = (Clock!FreeAsStored(d, start[r]) < Day - MaxDuty)
  BY DEF Clock!RestExact
<1>1. \A at \in Clock!Times : Clock!RestGap(d, at) = Clock!FreeAsStored(d, at)
  BY DutyTimes, RestIsFree
<1>2. ASSUME NEW r \in Routes, driver[r] = d, finish[r] # None
      PROVE  (r \in Clock!RestViolations(d))
                 = (Clock!FreeAsStored(d, start[r]) < Day - MaxDuty)
  <2>1. start[r] \in Int
    BY <1>2, DutyTimes
  <2>2. PICK gap \in Int : gap = Clock!RestGap(d, start[r]) /\ gap = Clock!FreeAsStored(d, start[r])
    BY <2>1, RestIsFree
  <2>3. Day - MaxDuty \in Int
    BY ClockAssumption
  <2>4. r \in Clock!RestViolations(d) <=> ~(gap >= Day - MaxDuty)
    BY <1>2, <2>2 DEF Clock!RestViolations, Clock!CheckRest
  <2>5. (r \in Clock!RestViolations(d)) <=> (gap < Day - MaxDuty)
    BY <2>3, <2>4
  <2>. QED  BY <2>2, <2>5
<1>. QED  BY <1>1, <1>2

\* The columns hold what they may, and every route has a column of stops.
ClockInv == Clock!TypeOK /\ DOMAIN reached = Routes

LEMMA Wall ==
    ASSUME Clock!TypeOK
    PROVE  now + zone \in Clock!Times /\ now + Ist \in Clock!Times /\ now + Ist \in Int
BY ClockAssumption DEF Clock!TypeOK, Clock!Times

LEMMA PlanOf == ASSUME NEW r \in Routes  PROVE Plan[r] \in Seq(Int) /\ Estimated[r] \in Int
BY ClockAssumption

LEMMA ClockInit == Clock!Init => ClockInv
<1>. SUFFICES ASSUME Clock!Init  PROVE ClockInv
  OBVIOUS
<1>1. 0 \in 0..MaxNow
  BY ClockAssumption
<1>2. DOMAIN reached = Routes
  BY DEF Clock!Init
<1>3. \A r \in Routes : reached[r] \in [DOMAIN Plan[r] -> Clock!Times \union {None}]
  BY DEF Clock!Init, Clock!Unreached
<1>. QED  BY <1>1, <1>2, <1>3 DEF ClockInv, Clock!Init, Clock!TypeOK

\* The tag of a route that ends: its delay, and who caused it.
LEMMA TagOfTrip ==
    ASSUME Clock!TypeOK, NEW r \in Routes, start[r] # None, NEW end \in Int
    PROVE  /\ Clock!TripDelay(r, end) \in Clock!Tag
           /\ Clock!TripDelay(r, end).minutes = end - start[r] - Estimated[r]
           /\ (Clock!TripDelay(r, end).category = "NONE")
                  <=> end <= start[r] + Estimated[r] + Grace
           /\ Clock!TripDelay(r, end).category = "DRIVER_DELAY"
                  => 1 \in Clock!LateStops(r, DriverGrace)
           /\ Clock!TripDelay(r, end).category = "TRAFFIC_DELAY"
                  => Clock!LateStops(r, EmployeeGrace) = {}
<1>. PICK from, takes, late : /\ from = start[r] /\ takes = Estimated[r]
                              /\ late = end - (start[r] + Estimated[r])
  OBVIOUS
<1>1. from \in Int /\ takes \in Int /\ Grace \in Int /\ late \in Int
      /\ late = end - from - takes
  BY DutyTimes, PlanOf, ClockAssumption
<1>2. Clock!DelayType(late) \in {"LATE", "EARLY", "ON_TIME"}
      /\ (Clock!DelayType(late) # "LATE" <=> end <= from + takes + Grace)
  BY <1>1 DEF Clock!DelayType
<1>. PICK type, cause : type = Clock!DelayType(late)
                        /\ cause = Clock!ClassifyDelayCategory(r, type)
  OBVIOUS
<1>3. /\ cause \in {"NONE", "DRIVER_DELAY", "EMPLOYEE_DELAY", "TRAFFIC_DELAY"}
      /\ cause = "NONE" <=> type # "LATE"
      /\ cause = "DRIVER_DELAY" => 1 \in Clock!LateStops(r, DriverGrace)
      /\ cause = "TRAFFIC_DELAY" => Clock!LateStops(r, EmployeeGrace) = {}
  BY DEF Clock!ClassifyDelayCategory
<1>4. Clock!TripDelay(r, end) = [minutes |-> late, type |-> type, category |-> cause]
  BY DEF Clock!TripDelay
<1>. QED  BY <1>1, <1>2, <1>3, <1>4 DEF Clock!Tag

\* On one date, the hours and minutes of two times differ as the times do.
LEMMA OneDate ==
    ASSUME NEW x \in Int, NEW y \in Int, x \div Day = y \div Day
    PROVE  (x % Day) - (y % Day) = x - y
<1>. PICK D, q : D = Day /\ q = x \div Day /\ q = y \div Day
  OBVIOUS
<1>1. D \in Nat /\ D > 0
  BY ClockAssumption
<1>2. q \in Int /\ x = D * q + (x % D) /\ y = D * q + (y % D)
  BY <1>1
<1>3. x % D \in Int /\ y % D \in Int /\ D * q \in Int
  BY <1>1, <1>2
<1>. QED  BY <1>2, <1>3

LEMMA LateOnOneDate ==
    ASSUME Clock!TypeOK, NEW r \in Routes, NEW i \in DOMAIN Plan[r], Clock!SameDate(r, i),
           NEW grace \in Int
    PROVE  i \in Clock!LateStops(r, grace) <=> Clock!Late(r, i, grace)
<1>. PICK at, due : at = reached[r][i] /\ due = Plan[r][i]
  OBVIOUS
<1>1. due \in Int
  BY PlanOf
<1>2. at # None => at \in Int
  <2>1. reached[r] \in [DOMAIN Plan[r] -> Clock!Times \union {None}]
    BY DEF Clock!TypeOK
  <2>2. Clock!Times \subseteq Int
    BY DutyTimes
  <2>. QED  BY <2>1, <2>2
<1>3. at # None => (at % Day) - (due % Day) = at - due
  BY <1>1, <1>2, OneDate DEF Clock!SameDate
<1>. QED  BY <1>1, <1>2, <1>3 DEF Clock!LateStops, Clock!StopDelay, Clock!Late

\* What is left as it was needs no tag.
LEMMA NoEnd == UNCHANGED finish => Clock!DelayTagged
BY DEF Clock!DelayTagged

LEMMA ClockTick == ASSUME ClockInv, Clock!Tick  PROVE ClockInv' /\ Clock!DelayTagged
<1>1. (now + 1) \in 0..MaxNow
  BY ClockAssumption DEF ClockInv, Clock!TypeOK, Clock!Tick
<1>. QED  BY <1>1, NoEnd DEF ClockInv, Clock!TypeOK, Clock!Tick

LEMMA ClockAssign ==
    ASSUME ClockInv, NEW r \in Routes, NEW d \in Drivers, Clock!AssignDriver(r, d)
    PROVE  ClockInv' /\ Clock!DelayTagged
BY NoEnd DEF ClockInv, Clock!TypeOK, Clock!AssignDriver

LEMMA ClockStart ==
    ASSUME ClockInv, NEW r \in Routes, Clock!StartDuty(r)
    PROVE  ClockInv' /\ Clock!DelayTagged
<1>1. now + zone \in Clock!Times
  BY Wall DEF ClockInv
<1>2. start' \in [Routes -> Clock!Times \union {None}]
  BY <1>1 DEF ClockInv, Clock!TypeOK, Clock!StartDuty
<1>3. \A q \in Routes : finish[q] # None => start'[q] # None
  BY DEF ClockInv, Clock!TypeOK, Clock!StartDuty
<1>. QED  BY <1>2, <1>3, NoEnd DEF ClockInv, Clock!TypeOK, Clock!StartDuty

LEMMA ClockReach ==
    ASSUME ClockInv, NEW r \in Routes, NEW i \in DOMAIN Plan[r], Clock!ReachStop(r, i)
    PROVE  ClockInv' /\ Clock!DelayTagged
<1>1. now + Ist \in Clock!Times
  BY Wall DEF ClockInv
<1>2. reached' = [reached EXCEPT ![r] = [reached[r] EXCEPT ![i] = now + Ist]]
  BY DEF Clock!ReachStop
<1>3. ASSUME NEW q \in Routes
      PROVE  reached'[q] \in [DOMAIN Plan[q] -> Clock!Times \union {None}]
  <2>1. reached[q] \in [DOMAIN Plan[q] -> Clock!Times \union {None}]
    BY DEF ClockInv, Clock!TypeOK
  <2>2. reached'[q] = IF q = r THEN [reached[q] EXCEPT ![i] = now + Ist] ELSE reached[q]
    BY <1>2 DEF ClockInv
  <2>. QED  BY <1>1, <2>1, <2>2
<1>4. DOMAIN reached' = Routes
  BY <1>2 DEF ClockInv
<1>. QED  BY <1>3, <1>4, NoEnd DEF ClockInv, Clock!TypeOK, Clock!Times, Clock!ReachStop

LEMMA ClockEnd ==
    ASSUME ClockInv, NEW r \in Routes, Clock!EndDuty(r)
    PROVE  ClockInv' /\ Clock!DelayTagged
<1>. PICK end, trip : end = now + Ist /\ trip = Clock!TripDelay(r, end)
  OBVIOUS
<1>1. end \in Clock!Times /\ end \in Int
  BY Wall DEF ClockInv
<1>2. start[r] # None /\ finish[r] = None
  BY DEF Clock!EndDuty
<1>3. /\ trip \in Clock!Tag /\ trip.minutes = end - start[r] - Estimated[r]
      /\ (trip.category = "NONE") <=> end <= start[r] + Estimated[r] + Grace
      /\ trip.category = "DRIVER_DELAY" => 1 \in Clock!LateStops(r, DriverGrace)
      /\ trip.category = "TRAFFIC_DELAY" => Clock!LateStops(r, EmployeeGrace) = {}
  BY <1>1, <1>2, TagOfTrip DEF ClockInv
<1>4. finish' = [finish EXCEPT ![r] = end] /\ tag' = [tag EXCEPT ![r] = trip]
      /\ UNCHANGED <<now, zone, driver, start, reached>>
  BY DEF Clock!EndDuty
<1>5. ClockInv'
  <2>1. finish' \in [Routes -> Clock!Times \union {None}]
    BY <1>1, <1>4 DEF ClockInv, Clock!TypeOK
  <2>2. tag' \in [Routes -> Clock!Tag \union {None}]
    BY <1>3, <1>4 DEF ClockInv, Clock!TypeOK
  <2>3. \A q \in Routes : finish'[q] # None => start[q] # None
    BY <1>2, <1>4 DEF ClockInv, Clock!TypeOK
  <2>. QED  BY <1>4, <2>1, <2>2, <2>3 DEF ClockInv, Clock!TypeOK, Clock!Times, Clock!Tag
<1>6. tag'[r] = trip /\ \A q \in Routes : q # r => finish'[q] = finish[q]
  BY <1>4 DEF ClockInv, Clock!TypeOK
<1>7. ASSUME \A i \in DOMAIN Plan[r] : Clock!SameDate(r, i)
      PROVE  /\ trip.category = "DRIVER_DELAY" => Clock!Late(r, 1, DriverGrace)
             /\ trip.category = "TRAFFIC_DELAY" =>
                    \A i \in DOMAIN Plan[r] : ~Clock!Late(r, i, EmployeeGrace)
  <2>1. DriverGrace \in Int /\ EmployeeGrace \in Int
    BY ClockAssumption
  <2>2. ASSUME 1 \in Clock!LateStops(r, DriverGrace)  PROVE Clock!Late(r, 1, DriverGrace)
    <3>1. 1 \in DOMAIN Plan[r]
      BY <2>2 DEF Clock!LateStops
    <3>. QED  BY <1>7, <2>1, <2>2, <3>1, LateOnOneDate DEF ClockInv
  <2>3. ASSUME Clock!LateStops(r, EmployeeGrace) = {}, NEW i \in DOMAIN Plan[r]
        PROVE  ~Clock!Late(r, i, EmployeeGrace)
    BY <1>7, <2>1, <2>3, LateOnOneDate DEF ClockInv
  <2>. QED  BY <1>3, <2>2, <2>3
<1>8. Clock!DelayTagged
  <2>. SUFFICES ASSUME NEW q \in Routes, zone = Ist, finish[q] = None, finish'[q] # None
                PROVE  /\ tag'[q].minutes = now + Ist - start[q] - Estimated[q]
                       /\ (tag'[q].category = "NONE")
                              = (now + Ist <= start[q] + Estimated[q] + Grace)
                       /\ (\A i \in DOMAIN Plan[q] : Clock!SameDate(q, i)) =>
                              /\ tag'[q].category = "DRIVER_DELAY"
                                     => Clock!Late(q, 1, DriverGrace)
                              /\ tag'[q].category = "TRAFFIC_DELAY" =>
                                     \A i \in DOMAIN Plan[q] : ~Clock!Late(q, i, EmployeeGrace)
    BY DEF Clock!DelayTagged
  <2>1. q = r
    BY <1>6
  <2>2. (trip.category = "NONE") = (end <= start[r] + Estimated[r] + Grace)
    BY <1>3
  <2>3. now + Ist = end /\ tag'[q] = trip
    BY <1>6, <2>1
  <2>4. (tag'[q].category = "NONE") = (now + Ist <= start[q] + Estimated[q] + Grace)
    BY <2>1, <2>2, <2>3
  <2>5. tag'[q].minutes = now + Ist - start[q] - Estimated[q]
    <3>1. trip.minutes = end - start[q] - Estimated[q]
      BY <1>3, <2>1
    <3>2. /\ now \in Int /\ Ist \in Int /\ end \in Int
          /\ start[q] \in Int /\ Estimated[q] \in Int
      BY <1>1, <1>2, <2>1, DutyTimes, PlanOf, ClockAssumption DEF ClockInv
    <3>. QED  BY <2>3, <3>1, <3>2
  <2>. QED  BY <1>7, <2>1, <2>3, <2>4, <2>5
<1>. QED  BY <1>5, <1>8

LEMMA ClockDelete ==
    ASSUME ClockInv, NEW r \in Routes, Clock!DeleteRoute(r)
    PROVE  ClockInv' /\ Clock!DelayTagged
<1>1. /\ driver' = [driver EXCEPT ![r] = None] /\ start' = [start EXCEPT ![r] = None]
      /\ finish' = [finish EXCEPT ![r] = None] /\ tag' = [tag EXCEPT ![r] = None]
      /\ reached' = [reached EXCEPT ![r] = Clock!Unreached(r)]
      /\ UNCHANGED <<now, zone>>
  BY DEF Clock!DeleteRoute
<1>2. ASSUME NEW q \in Routes
      PROVE  reached'[q] \in [DOMAIN Plan[q] -> Clock!Times \union {None}]
  <2>1. reached[q] \in [DOMAIN Plan[q] -> Clock!Times \union {None}]
    BY DEF ClockInv, Clock!TypeOK
  <2>2. reached'[q] = IF q = r THEN Clock!Unreached(r) ELSE reached[q]
    BY <1>1 DEF ClockInv
  <2>. QED  BY <2>1, <2>2 DEF Clock!Unreached
<1>3. DOMAIN reached' = Routes
  BY <1>1 DEF ClockInv
<1>4. /\ driver' \in [Routes -> Drivers \union {None}]
      /\ start' \in [Routes -> Clock!Times \union {None}]
      /\ finish' \in [Routes -> Clock!Times \union {None}]
      /\ tag' \in [Routes -> Clock!Tag \union {None}]
  BY <1>1 DEF ClockInv, Clock!TypeOK
<1>5. \A q \in Routes : finish'[q] # None => finish'[q] = finish[q] /\ start'[q] # None
  BY <1>1 DEF ClockInv, Clock!TypeOK
<1>6. ClockInv'
  BY <1>1, <1>2, <1>3, <1>4, <1>5 DEF ClockInv, Clock!TypeOK, Clock!Times, Clock!Tag
<1>7. Clock!DelayTagged
  BY <1>5 DEF Clock!DelayTagged
<1>. QED  BY <1>6, <1>7

LEMMA ClockNext == ClockInv /\ Clock!Next => ClockInv' /\ Clock!DelayTagged
<1>. SUFFICES ASSUME ClockInv, Clock!Next  PROVE ClockInv' /\ Clock!DelayTagged
  OBVIOUS
<1>1. CASE Clock!Tick
  BY <1>1, ClockTick
<1>2. ASSUME NEW r \in Routes, NEW d \in Drivers, Clock!AssignDriver(r, d)
      PROVE  ClockInv' /\ Clock!DelayTagged
  BY <1>2, ClockAssign
<1>3. ASSUME NEW r \in Routes, Clock!StartDuty(r)  PROVE ClockInv' /\ Clock!DelayTagged
  BY <1>3, ClockStart
<1>4. ASSUME NEW r \in Routes, NEW i \in DOMAIN Plan[r], Clock!ReachStop(r, i)
      PROVE  ClockInv' /\ Clock!DelayTagged
  BY <1>4, ClockReach
<1>5. ASSUME NEW r \in Routes, Clock!EndDuty(r)  PROVE ClockInv' /\ Clock!DelayTagged
  BY <1>5, ClockEnd
<1>6. ASSUME NEW r \in Routes, Clock!DeleteRoute(r)  PROVE ClockInv' /\ Clock!DelayTagged
  BY <1>6, ClockDelete
<1>. QED  BY <1>1, <1>2, <1>3, <1>4, <1>5, <1>6 DEF Clock!Next

LEMMA ClockStep ==
    ClockInv /\ [OfficeNext]_allVars => ClockInv' /\ [Clock!DelayTagged]_clockVars
<1>. SUFFICES ASSUME ClockInv, [OfficeNext]_allVars
              PROVE  ClockInv' /\ [Clock!DelayTagged]_clockVars
  OBVIOUS
<1>1. CASE UNCHANGED clockVars
  BY <1>1 DEF clockVars, ClockInv, Clock!TypeOK, Clock!Times, Clock!Tag
<1>2. Clock!Next \/ UNCHANGED clockVars
  BY DEF OfficeNext, Others, allVars
<1>. QED  BY <1>1, <1>2, ClockNext

\* The rest of a driver is what it is by definition, before any moment and however his
\* duties overlap, whatever stops were reached: check_rest and the report of duty hours
\* merge no list of duties wrongly.
THEOREM RestsExact == OfficeSpec => []Clock!RestExact
<1>1. OfficeInit => ClockInv
  BY ClockInit DEF OfficeInit
<1>2. ClockInv => Clock!RestExact
  BY RestIsExact DEF ClockInv
<1>. QED  BY <1>1, <1>2, ClockStep, PTL DEF OfficeSpec

\* Rests are exact, and a route that ends is tagged with its delay and the cause of it:
\* for any routes, drivers, plans, graces and length of a day.
THEOREM DutiesMeasured == OfficeSpec => DutyMeasured
<1>1. OfficeInit => ClockInv
  BY ClockInit DEF OfficeInit
<1>2. ClockInv => (focus = "clock" => Clock!TypeOK /\ (NoStopReached => Clock!RestExact))
  BY RestIsExact DEF ClockInv
<1>. QED  BY <1>1, <1>2, ClockStep, PTL DEF OfficeSpec, DutyMeasured
=============================================================================
