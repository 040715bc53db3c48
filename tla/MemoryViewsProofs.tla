-------------------------- MODULE MemoryViewsProofs --------------------------
(***************************************************************************)
(* The views of the meaning records, for any number of records, any pages  *)
(* and filters and any limits: lists are whole, the readers of "current"   *)
(* agree, a selection is sound and a replayed one still current.           *)
(*                                                                         *)
(* The records behave as MeaningRecords says, whatever the views add, so   *)
(* that its inductive invariant holds here too; the rest is the order of   *)
(* the lists and the weight of what is selected.                           *)
(***************************************************************************)
EXTENDS MemoryViews, MeaningRecordsProofs, FiniteSetTheorems, WellFoundedInduction

(***************************************************************************)
(* The weight of a selection.                                              *)
(***************************************************************************)
LEMMA SizeIsNat ==
  ASSUME NEW x \in Ids
  PROVE  SizeOf[x] \in Nat
  BY Columns

(* The weight of a set of records is a sum, and a sum is a function that   *)
(* is defined by its own values on smaller sets.                           *)
Sums(w, S) ==
  w = [s \in SUBSET S |-> IF s = {} THEN 0
                          ELSE LET x == CHOOSE y \in s : TRUE IN SizeOf[x] + w[s \ {x}]]

LEMMA WeightIsSum ==
  ASSUME NEW S
  PROVE  Weight(S) = (CHOOSE w : Sums(w, S))[S]
  BY DEF Weight, MapThenSumSet, MapThenFoldSet, Sums

(* Sets of records are finite, and one less has a smaller cardinality.     *)
LEMMA RecordSets ==
  ASSUME NEW S \in SUBSET Ids
  PROVE  /\ IsFiniteSet(S) /\ Cardinality(S) \in Nat
         /\ \A x \in S : Cardinality(S \ {x}) < Cardinality(S)
<1>1. S \subseteq Listed
  BY DEF Listed
<1>2. IsFiniteSet(S)
  <2>1. IsFiniteSet(Listed)
    BY ListedIsFinite
  <2> HIDE DEF Listed
  <2> QED
    BY <1>1, <2>1, FS_Subset
<1>4. Cardinality(S) \in Nat
  BY <1>2, FS_CardinalityType
<1>3. ASSUME NEW x \in S
      PROVE  Cardinality(S \ {x}) < Cardinality(S)
  <2>1. Cardinality(S \ {x}) = Cardinality(S) - 1
    BY <1>2, FS_RemoveElement
  <2> QED
    BY <1>4, <2>1
<1> QED
  BY <1>2, <1>3, <1>4

(* Among sets of records that have a fault there is a smallest one.        *)
LEMMA SmallestSet ==
  ASSUME NEW bad \in SUBSET (SUBSET Ids), bad # {}
  PROVE  \E S \in bad : \A x \in S : S \ {x} \notin bad
<1> DEFINE sizes == {Cardinality(S) : S \in bad}
<1>1. sizes \subseteq Nat /\ sizes # {}
  BY RecordSets
<1>2. \E m \in sizes : \A n \in sizes : ~(<<n, m>> \in OpToRel(<, Nat))
  <2> HIDE DEF sizes
  <2> QED
    BY <1>1, WFMin, NatLessThanWellFounded
<1>5. PICK m \in sizes : \A n \in sizes : ~(<<n, m>> \in OpToRel(<, Nat))
  BY <1>2
<1>3. PICK S \in bad : Cardinality(S) = m
  OBVIOUS
<1>4. ASSUME NEW x \in S, S \ {x} \in bad
      PROVE  FALSE
  <2> DEFINE n == Cardinality(S \ {x})
  <2>1. n \in sizes /\ n < m
    BY <1>3, <1>4, RecordSets
  <2>2. n \in Nat /\ m \in Nat
    BY <1>1, <2>1
  <2> HIDE DEF n, sizes
  <2> QED
    BY <1>5, <2>1, <2>2 DEF OpToRel
<1> QED
  BY <1>3, <1>4

(* A sum, one step.                                                         *)
LEMMA SumOf ==
  ASSUME NEW S, NEW w, Sums(w, S), NEW s \in SUBSET S
  PROVE  /\ s = {} => w[s] = 0
         /\ s # {} => LET x == CHOOSE y \in s : TRUE
                      IN  x \in s /\ w[s] = SizeOf[x] + w[s \ {x}]
<1>1. w[s] = IF s = {} THEN 0
             ELSE LET x == CHOOSE y \in s : TRUE IN SizeOf[x] + w[s \ {x}]
  BY DEF Sums
<1>2. s # {} => (CHOOSE y \in s : TRUE) \in s
  OBVIOUS
<1> QED
  BY <1>1, <1>2

(* Two sums agree where they are both defined.                             *)
LEMMA SumsAgree ==
  ASSUME NEW S \in SUBSET Ids, NEW T \in SUBSET Ids, NEW w, NEW v, Sums(w, S), Sums(v, T),
         NEW s \in SUBSET S, s \subseteq T
  PROVE  w[s] = v[s]
<1> DEFINE bad == {r \in SUBSET S : r \subseteq T /\ w[r] # v[r]}
<1>1. SUFFICES ASSUME bad # {}
               PROVE  FALSE
  OBVIOUS
<1>2. PICK r \in bad : \A x \in r : r \ {x} \notin bad
  BY <1>1, SmallestSet
<1>3. r # {}
  BY <1>2, SumOf
<1> DEFINE x == CHOOSE y \in r : TRUE
<1>6. r \in SUBSET S /\ r \in SUBSET T /\ w[r] # v[r]
  BY <1>2
<1> HIDE DEF bad
<1>7. x \in r /\ w[r] = SizeOf[x] + w[r \ {x}]
  BY <1>3, <1>6, SumOf
<1>4. v[r] = SizeOf[x] + v[r \ {x}]
  BY <1>3, <1>6, SumOf
<1> HIDE DEF x
<1>5. w[r \ {x}] = v[r \ {x}]
  BY <1>2, <1>6, <1>7 DEF bad
<1> QED
  BY <1>4, <1>5, <1>6, <1>7

(* Every set of records has a sum.                                          *)
LEMMA SumsExist ==
  ASSUME NEW S \in SUBSET Ids
  PROVE  \E w : Sums(w, S)
<1> DEFINE bad == {T \in SUBSET Ids : ~ \E w : Sums(w, T)}
           W(s) == (CHOOSE w : Sums(w, s))[s]
<1>1. SUFFICES ASSUME bad # {}
               PROVE  FALSE
  OBVIOUS
<1>2. PICK T \in bad : \A x \in T : T \ {x} \notin bad
  BY <1>1, SmallestSet
<1>3. ASSUME NEW s \in SUBSET T, s # T
      PROVE  \E w : Sums(w, s)
  <2>1. PICK x \in T : x \notin s
    BY <1>3
  <2>2. PICK w : Sums(w, T \ {x})
    BY <1>2
  <2> DEFINE v == [r \in SUBSET s |-> w[r]]
  <2>3. ASSUME NEW r \in SUBSET s
        PROVE  v[r] = IF r = {} THEN 0
                      ELSE LET y == CHOOSE y \in r : TRUE IN SizeOf[y] + v[r \ {y}]
    <3>1. r \in SUBSET (T \ {x})
      BY <2>1, <2>3
    <3>2. CASE r = {}
      BY <2>2, <3>1, <3>2, SumOf
    <3>3. CASE r # {}
      <4> DEFINE y == CHOOSE y \in r : TRUE
      <4>1. y \in r /\ w[r] = SizeOf[y] + w[r \ {y}]
        BY <2>2, <3>1, <3>3, SumOf
      <4> HIDE DEF y
      <4>2. v[r] = w[r] /\ v[r \ {y}] = w[r \ {y}]
        BY <4>1
      <4>3. v[r] = SizeOf[y] + v[r \ {y}]
        BY <4>1, <4>2
      <4> QED
        BY <3>3, <4>3 DEF y
    <3> QED
      BY <3>2, <3>3
  <2>4. v = [r \in SUBSET s |-> v[r]]
    OBVIOUS
  <2> HIDE DEF v
  <2>5. Sums(v, s)
    BY <2>3, <2>4 DEF Sums
  <2> QED
    BY <2>5
<1>4. ASSUME NEW s \in SUBSET T, s # T, NEW r \in SUBSET s
      PROVE  W(r) = (CHOOSE w : Sums(w, s))[r]
  <2>1. Sums(CHOOSE w : Sums(w, s), s) /\ Sums(CHOOSE w : Sums(w, r), r)
    BY <1>3, <1>4
  <2> QED
    BY <2>1, SumsAgree
<1>5. ASSUME NEW s \in SUBSET T, s # T
      PROVE  W(s) = IF s = {} THEN 0
                    ELSE LET y == CHOOSE y \in s : TRUE IN SizeOf[y] + W(s \ {y})
  <2> DEFINE w == CHOOSE w : Sums(w, s)
  <2>1. Sums(w, s)
    BY <1>3, <1>5
  <2>2. \A r \in SUBSET s : W(r) = w[r]
    BY <1>4, <1>5
  <2> HIDE DEF w, W
  <2>3. CASE s = {}
    BY <2>1, <2>2, <2>3, SumOf
  <2>4. CASE s # {}
    <3> DEFINE y == CHOOSE y \in s : TRUE
    <3>1. y \in s /\ w[s] = SizeOf[y] + w[s \ {y}]
      BY <2>1, <2>4, SumOf
    <3> HIDE DEF y
    <3>2. W(s) = SizeOf[y] + W(s \ {y})
      BY <2>2, <3>1
    <3> QED
      BY <2>4, <3>2 DEF y
  <2> QED
    BY <2>3, <2>4
<1> DEFINE g == [s \in SUBSET T |->
                  IF s # T THEN W(s)
                  ELSE IF T = {} THEN 0
                  ELSE LET y == CHOOSE y \in T : TRUE IN SizeOf[y] + W(T \ {y})]
<1>6. ASSUME NEW s \in SUBSET T
      PROVE  g[s] = IF s = {} THEN 0
                    ELSE LET y == CHOOSE y \in s : TRUE IN SizeOf[y] + g[s \ {y}]
  <2> HIDE DEF W
  <2>1. g[s] = IF s = {} THEN 0
               ELSE LET y == CHOOSE y \in s : TRUE IN SizeOf[y] + W(s \ {y})
    <3>1. CASE s = T
      BY <3>1
    <3>2. CASE s # T
      <4>1. g[s] = W(s)
        BY <3>2
      <4> QED
        BY <1>5, <3>2, <4>1
    <3> QED
      BY <3>1, <3>2
  <2>2. CASE s # {}
    <3> DEFINE y == CHOOSE y \in s : TRUE
    <3>1. y \in s
      BY <2>2
    <3> HIDE DEF y
    <3>2. g[s \ {y}] = W(s \ {y})
      BY <3>1
    <3> QED
      BY <2>1, <2>2, <3>2 DEF y
  <2> QED
    BY <2>1, <2>2
<1>7. g = [s \in SUBSET T |-> g[s]]
  OBVIOUS
<1> HIDE DEF g
<1>8. Sums(g, T)
  BY <1>6, <1>7 DEF Sums
<1> QED
  BY <1>2, <1>8

(* The weight of no record is nothing; else a record is weighed and then   *)
(* the others.                                                             *)
LEMMA WeightStep ==
  ASSUME NEW S \in SUBSET Ids
  PROVE  /\ S = {} => Weight(S) = 0
         /\ S # {} => LET x == CHOOSE y \in S : TRUE
                      IN  x \in S /\ Weight(S) = SizeOf[x] + Weight(S \ {x})
<1> DEFINE w == CHOOSE w : Sums(w, S)
<1>1. Sums(w, S) /\ Weight(S) = w[S]
  BY SumsExist, WeightIsSum
<1> HIDE DEF w
<1>2. ASSUME NEW x \in S
      PROVE  Weight(S \ {x}) = w[S \ {x}]
  <2> DEFINE v == CHOOSE v : Sums(v, S \ {x})
  <2>1. Sums(v, S \ {x}) /\ Weight(S \ {x}) = v[S \ {x}]
    BY SumsExist, WeightIsSum
  <2> HIDE DEF v
  <2> QED
    BY <1>1, <2>1, SumsAgree
<1>3. /\ S = {} => w[S] = 0
      /\ S # {} => LET x == CHOOSE y \in S : TRUE
                   IN  x \in S /\ w[S] = SizeOf[x] + w[S \ {x}]
  BY <1>1, SumOf
<1> QED
  BY <1>1, <1>2, <1>3

LEMMA WeightIsNat ==
  ASSUME NEW S \in SUBSET Ids
  PROVE  Weight(S) \in Nat
<1> DEFINE bad == {T \in SUBSET Ids : Weight(T) \notin Nat}
<1>1. SUFFICES ASSUME bad # {}
               PROVE  FALSE
  OBVIOUS
<1>2. PICK T \in bad : \A x \in T : T \ {x} \notin bad
  BY <1>1, SmallestSet
<1>3. T # {}
  BY <1>2, WeightStep
<1>4. PICK x \in T : Weight(T) = SizeOf[x] + Weight(T \ {x})
  BY <1>2, <1>3, WeightStep
<1>5. Weight(T \ {x}) \in Nat
  <2>1. T \ {x} \in SUBSET Ids
    BY <1>2
  <2> QED
    BY <1>2, <2>1
<1>6. SizeOf[x] \in Nat
  BY <1>2, SizeIsNat
<1> QED
  BY <1>2, <1>4, <1>5, <1>6

(* Which of the records is weighed first does not matter.                  *)
LEMMA WeightOfOne ==
  ASSUME NEW S \in SUBSET Ids, NEW x \in S
  PROVE  Weight(S) = SizeOf[x] + Weight(S \ {x})
<1> DEFINE bad == {T \in SUBSET Ids : \E y \in T : Weight(T) # SizeOf[y] + Weight(T \ {y})}
<1>1. SUFFICES ASSUME bad # {}
               PROVE  FALSE
  OBVIOUS
<1>2. PICK T \in bad : \A y \in T : T \ {y} \notin bad
  BY <1>1, SmallestSet
<1>3. PICK y \in T : Weight(T) # SizeOf[y] + Weight(T \ {y})
  BY <1>2
<1>4. PICK z \in T : Weight(T) = SizeOf[z] + Weight(T \ {z})
  BY <1>2, <1>3, WeightStep
<1>5. y # z
  BY <1>3, <1>4
<1>6. Weight(T \ {z}) = SizeOf[y] + Weight((T \ {z}) \ {y})
  BY <1>2, <1>3, <1>5
<1>7. Weight(T \ {y}) = SizeOf[z] + Weight((T \ {y}) \ {z})
  BY <1>2, <1>4, <1>5
<1>8. (T \ {y}) \ {z} = (T \ {z}) \ {y}
  OBVIOUS
<1>9. SizeOf[y] \in Nat /\ SizeOf[z] \in Nat /\ Weight((T \ {z}) \ {y}) \in Nat
  <2>1. T \in SUBSET Ids /\ (T \ {z}) \ {y} \in SUBSET Ids
    BY <1>2
  <2> HIDE DEF bad
  <2> QED
    BY <1>3, <1>4, <2>1, SizeIsNat, WeightIsNat
<1> HIDE DEF bad
<1> DEFINE rest == Weight((T \ {z}) \ {y})
           all == Weight(T)
           noY == Weight(T \ {y})
           noZ == Weight(T \ {z})
<1>10. /\ all # SizeOf[y] + noY /\ all = SizeOf[z] + noZ
       /\ noZ = SizeOf[y] + rest /\ noY = SizeOf[z] + rest /\ rest \in Nat
  BY <1>3, <1>4, <1>6, <1>7, <1>8, <1>9
<1> HIDE DEF rest, all, noY, noZ
<1> QED
  BY <1>9, <1>10

(* More records weigh no less.                                              *)
LEMMA WeightGrows ==
  ASSUME NEW T \in SUBSET Ids, NEW S \in SUBSET T
  PROVE  Weight(S) <= Weight(T)
<1> DEFINE bad == {U \in SUBSET Ids : S \subseteq U /\ ~(Weight(S) <= Weight(U))}
<1>1. SUFFICES ASSUME bad # {}
               PROVE  FALSE
  OBVIOUS
<1>2. PICK U \in bad : \A y \in U : U \ {y} \notin bad
  BY <1>1, SmallestSet
<1>3. Weight(S) \in Nat /\ Weight(U) \in Nat
  BY <1>2, WeightIsNat
<1>4. U # S
  BY <1>2, <1>3
<1>5. PICK y \in U : y \notin S
  BY <1>2, <1>4
<1>6. Weight(S) <= Weight(U \ {y})
  BY <1>2, <1>5
<1>7. Weight(U) = SizeOf[y] + Weight(U \ {y})
  BY <1>2, <1>5, WeightOfOne
<1>8. SizeOf[y] \in Nat /\ Weight(U \ {y}) \in Nat
  <2>1. U \in SUBSET Ids /\ U \ {y} \in SUBSET Ids
    BY <1>2
  <2> HIDE DEF bad
  <2> QED
    BY <1>5, <2>1, SizeIsNat, WeightIsNat
<1> QED
  BY <1>2, <1>3, <1>6, <1>7, <1>8

(***************************************************************************)
(* The order of the lists.                                                 *)
(***************************************************************************)
USE FamiliesDisjoint, NullIsNoValue, IdentitiesAreOrdered, ListedIsFinite, Columns, LimitsAreNat

(* The rows that come before another, and the moments they are ordered by. *)
Preds(S, x) == {y \in S : Before(y, x)}
Stamped == touched \in [Listed -> Nat]

LEMMA BeforeIsStrict ==
  ASSUME Stamped, NEW x \in Listed, NEW y \in Listed, NEW z \in Listed,
         Before(x, y), Before(y, z)
  PROVE  Before(x, z)
  BY DEF Stamped, Before

LEMMA BeforeIsIrreflexive ==
  ASSUME Stamped, NEW x \in Listed
  PROVE  ~Before(x, x)
  BY DEF Stamped, Before

LEMMA PredsOrder ==
  ASSUME NEW S \in SUBSET Listed, NEW T \in SUBSET Listed,
         NEW x \in Listed, NEW y \in Listed
  PROVE  /\ Rank(S, x) \in Nat
         /\ Preds(S, x) \subseteq Preds(T, y) => Rank(S, x) <= Rank(T, y)
         /\ Preds(S, x) \subseteq Preds(T, y) /\ Preds(S, x) # Preds(T, y)
              => Rank(S, x) < Rank(T, y)
<1>1. /\ IsFiniteSet(Preds(S, x)) /\ Cardinality(Preds(S, x)) \in Nat
      /\ IsFiniteSet(Preds(T, y)) /\ Cardinality(Preds(T, y)) \in Nat
  <2>1. Preds(S, x) \in SUBSET Listed /\ Preds(T, y) \in SUBSET Listed
    BY DEF Preds
  <2> QED
    BY <2>1, FS_Subset, FS_CardinalityType
<1>2. Preds(S, x) \subseteq Preds(T, y) =>
        /\ Cardinality(Preds(S, x)) <= Cardinality(Preds(T, y))
        /\ Cardinality(Preds(T, y)) = Cardinality(Preds(S, x))
             => Preds(T, y) = Preds(S, x)
  BY <1>1, FS_Subset
<1> QED
  BY <1>1, <1>2 DEF Rank, Preds

(* Of any rows there is one that no other of them comes before.            *)
LEMMA FirstRow ==
  ASSUME Stamped, NEW T \in SUBSET Listed, T # {}
  PROVE  \E y \in T : \A z \in T : ~Before(z, y)
<1> DEFINE ranks == {Rank(Listed, y) : y \in T}
<1>1. ranks \subseteq Nat /\ ranks # {}
  <2>1. \A y \in T : Rank(Listed, y) \in Nat
    BY PredsOrder
  <2>2. \A r \in ranks : r \in Nat
    BY <2>1
  <2>3. PICK y \in T : TRUE
    OBVIOUS
  <2>4. Rank(Listed, y) \in ranks
    BY <2>3
  <2> HIDE DEF ranks
  <2> QED
    BY <2>2, <2>4
<1>2. PICK m \in ranks : \A n \in ranks : ~(<<n, m>> \in OpToRel(<, Nat))
  BY <1>1, WFMin, NatLessThanWellFounded
<1>3. PICK y \in T : m = Rank(Listed, y)
  OBVIOUS
<1>4. ASSUME NEW z \in T, Before(z, y)
      PROVE  FALSE
  <2>1. Preds(Listed, z) \subseteq Preds(Listed, y)
    BY <1>4, BeforeIsStrict DEF Preds
  <2>2. z \in Preds(Listed, y) /\ z \notin Preds(Listed, z)
    BY <1>4, BeforeIsIrreflexive DEF Preds
  <2>3. Rank(Listed, z) < Rank(Listed, y)
    BY <2>1, <2>2, PredsOrder
  <2> QED
    BY <1>1, <1>2, <1>3, <2>3 DEF OpToRel
<1> QED
  BY <1>4

(* A page read through windows of the sources is the page of their union.  *)
LEMMA PageOfUnion ==
  ASSUME Stamped, NEW sources, UNION sources \subseteq Listed,
         NEW offset \in Nat, NEW limit \in Nat
  PROVE  Page(sources, offset, limit) = Slice(UNION sources, offset, limit)
<1> DEFINE n == offset + limit
           U == UNION sources
           F == UNION {Top(S, n) : S \in sources}
<1>0. n \in Nat
  OBVIOUS
<1>1. F \subseteq U /\ F \in SUBSET Listed /\ U \in SUBSET Listed
  BY DEF Top
<1> HIDE DEF n
<1>2. \A x \in Listed : Rank(U, x) \in Nat /\ Rank(F, x) \in Nat
  BY <1>1, PredsOrder
<1>3. ASSUME NEW x \in U, Rank(U, x) < n
      PROVE  x \in F
  <2>1. PICK S \in sources : x \in S
    OBVIOUS
  <2>2. S \in SUBSET Listed /\ Preds(S, x) \subseteq Preds(U, x) /\ x \in Listed
    BY <2>1 DEF Preds
  <2>3. Rank(S, x) <= Rank(U, x) /\ Rank(S, x) \in Nat
    BY <2>2, <1>1, PredsOrder
  <2>4. Rank(S, x) < n
    <3> HIDE DEF U, F
    <3> QED
      BY <1>0, <2>2, <2>3, <1>2, <1>3
  <2> QED
    BY <2>1, <2>4 DEF Top
<1>4. ASSUME NEW x \in F, Rank(F, x) < n
      PROVE  Preds(U, x) \subseteq F
  <2> DEFINE T == {y \in U \ F : Before(y, x)}
  <2>1. SUFFICES ASSUME T # {}
                 PROVE  FALSE
    BY DEF Preds
  <2>2. PICK y \in T : \A z \in T : ~Before(z, y)
    BY <1>1, <2>1, FirstRow
  <2>3. ASSUME NEW z \in Preds(U, y)
        PROVE  z \in Preds(F, x)
    <3>1. z \in U /\ Before(z, y) /\ Before(y, x) /\ z \in Listed /\ y \in Listed
          /\ x \in Listed
      BY <1>1, <2>2, <2>3 DEF Preds
    <3>2. Before(z, x)
      BY <3>1, BeforeIsStrict
    <3>3. z \in F
      BY <2>2, <3>1, <3>2
    <3> QED
      BY <3>2, <3>3 DEF Preds
  <2>4. Rank(U, y) <= Rank(F, x)
    BY <1>1, <2>2, <2>3, PredsOrder
  <2>5. Rank(U, y) < n
    <3>1. x \in Listed /\ y \in Listed
      BY <1>1, <2>2
    <3> HIDE DEF U, F
    <3> QED
      BY <1>0, <1>2, <1>4, <3>1, <2>4
  <2> QED
    BY <1>3, <2>2, <2>5
<1>5. ASSUME NEW x \in F, Rank(F, x) < n
      PROVE  Rank(F, x) = Rank(U, x)
  <2>1. Preds(F, x) = Preds(U, x)
    BY <1>1, <1>4, <1>5 DEF Preds
  <2> QED
    BY <2>1 DEF Rank, Preds
<1>6. ASSUME NEW x \in U, Rank(U, x) < n
      PROVE  x \in F /\ Rank(F, x) = Rank(U, x)
  <2>1. x \in F
    BY <1>3, <1>6
  <2>2. Preds(F, x) \subseteq Preds(U, x)
    BY <1>1 DEF Preds
  <2>3. Rank(F, x) < n
    <3>1. Rank(F, x) <= Rank(U, x) /\ x \in Listed
      BY <1>1, <2>2, PredsOrder
    <3> HIDE DEF F, U
    <3> QED
      BY <1>0, <1>2, <1>6, <3>1
  <2> QED
    BY <1>5, <2>1, <2>3
<1>7. Slice(F, offset, limit) = Slice(U, offset, limit)
  BY <1>1, <1>5, <1>6 DEF Slice, n
<1> QED
  BY <1>7 DEF Page, Window, n
-----------------------------------------------------------------------------
LEMMA KindOfRow ==
  ASSUME NEW F \in RecordFamilies, NEW i \in F
  PROVE  FamilyOf(i) = F
  BY DEF RecordFamilies, FamilyOf

(* The sources of a list are disjoint and make it up.                      *)
LEMMA SourcesMakeUp ==
  ASSUME NEW b, NEW th, NEW kind
  PROVE  /\ UNION Sources(b, th, kind) = Matching(b, th, kind)
         /\ Matching(b, th, kind) \in SUBSET Listed
<1> DEFINE P == ProposalRows(b, th, kind)
           R(F) == FamilyRows(F, b, th, kind)
           I == {i \in Ids : /\ InBucket(i, b) /\ FromThread(i, th)
                             /\ kind \in {Null, KindOfFamily(FamilyOf(i))}}
<1>1. Ids = UNION RecordFamilies
  BY DEF Ids, RecordFamilies
<1>2. \A F \in RecordFamilies : R(F) = {i \in I : i \in F}
  BY <1>1, KindOfRow DEF FamilyRows
<1>3. UNION {R(F) : F \in RecordFamilies} = I
  BY <1>1, <1>2
<1>4. P \subseteq Proposals
  BY DEF ProposalRows
<1> QED
  BY <1>3, <1>4 DEF Sources, Matching, Listed

LEMMA DisjointUnion ==
  ASSUME NEW S \in SUBSET Listed, NEW T \in SUBSET Listed, S \cap T = {}
  PROVE  Cardinality(S \cup T) = Cardinality(S) + Cardinality(T)
<1>1. /\ IsFiniteSet(S) /\ Cardinality(S) \in Nat
      /\ IsFiniteSet(T) /\ Cardinality(T) \in Nat
  BY FS_Subset, FS_CardinalityType
<1>2. Cardinality(S \cup T) = Cardinality(S) + Cardinality(T) - Cardinality(S \cap T)
  BY <1>1, FS_Union
<1>3. Cardinality(S \cap T) = 0
  BY FS_EmptySet
<1> QED
  BY <1>1, <1>2, <1>3

LEMMA TotalIsRight ==
  ASSUME NEW b, NEW th, NEW kind
  PROVE  Total(b, th, kind) = Cardinality(Matching(b, th, kind))
<1> DEFINE P == ProposalRows(b, th, kind)
           C == FamilyRows(Claims, b, th, kind)
           M == FamilyRows(Commitments, b, th, kind)
           L == FamilyRows(OpenLoops, b, th, kind)
<1>1. /\ P \subseteq Proposals /\ C \subseteq Claims
      /\ M \subseteq Commitments /\ L \subseteq OpenLoops
  BY DEF ProposalRows, FamilyRows
<1>2. P \in SUBSET Listed /\ C \in SUBSET Listed /\ M \in SUBSET Listed /\ L \in SUBSET Listed
  BY <1>1 DEF Listed, Ids
<1>3. P \cap C = {} /\ (P \cup C) \cap M = {} /\ (P \cup C \cup M) \cap L = {}
  BY <1>1 DEF Ids
<1> HIDE DEF P, C, M, L
<1>4. Cardinality(P \cup C) = Cardinality(P) + Cardinality(C)
  BY <1>2, <1>3, DisjointUnion
<1>5. Cardinality(P \cup C \cup M) = Cardinality(P \cup C) + Cardinality(M)
  BY <1>2, <1>3, DisjointUnion
<1>6. Cardinality(P \cup C \cup M \cup L) = Cardinality(P \cup C \cup M) + Cardinality(L)
  BY <1>2, <1>3, DisjointUnion
<1>7. P \cup C \cup M \cup L = Matching(b, th, kind)
  <2>1. Sources(b, th, kind) = {P, C, M, L}
    BY DEF Sources, RecordFamilies, P, C, M, L
  <2> QED
    BY <2>1, SourcesMakeUp
<1> QED
  BY <1>4, <1>5, <1>6, <1>7 DEF Total, P, C, M, L
-----------------------------------------------------------------------------
(* What is selected was current when it was selected; since versions only  *)
(* grow, it still is if its version has not moved.                         *)
Frozen ==
  \A t \in Turns : \A e \in assembly[t].selected :
    /\ e.id \in Ids
    /\ e.version \in Nat
    /\ row[e.id].version >= e.version
    /\ row[e.id].version = e.version => CurrentEffective(e.id)

ViewInv == IInv /\ Stamped /\ Frozen /\ DOMAIN assembly = Turns

LEMMA CurrentHasNoSuccessor ==
  ASSUME IInv, NEW i \in Ids, CurrentEffective(i)
  PROVE  ~HasSuccessor(i)
<1> SUFFICES ASSUME NEW j \in Ids, row[j].supersedes = i
             PROVE  FALSE
  BY DEF HasSuccessor, FamilyOf, Ids
<1>1. row[i].status \in {"superseded", "amended"}
  BY DEF IInv, LineageIsLinear
<1> QED
  BY <1>1, Families DEF CurrentEffective, HasEligibleStatus

LEMMA SelectedAreCurrent ==
  ASSUME IInv, NEW th, NEW mode, NEW e \in Evaluate(th, mode).selected
  PROVE  e.id \in Ids /\ e.version = row[e.id].version /\ CurrentEffective(e.id)
<1>1. PICK i \in Candidates : Verdict(i, th, mode) = "ok"
                             /\ e = [id |-> i, version |-> row[i].version]
  BY DEF Evaluate
<1>2. i \in Ids /\ Relevant(i)
  BY DEF Candidates, Top, RecordFamilies, Ids
<1>3. HasEligibleStatus(i)
  BY <1>1 DEF Verdict
<1> QED
  BY <1>1, <1>2, <1>3 DEF CurrentEffective

LEMMA ViewsBegin ==
  ASSUME ViewInit
  PROVE  ViewInv
<1>1. Frozen /\ Stamped /\ DOMAIN assembly = Turns
  BY DEF ViewInit, Frozen, Stamped, NoAssembly
<1> QED
  BY <1>1, InitialRecords DEF ViewInit, ViewInv

LEMMA ViewsStep ==
  ASSUME ViewInv, [ViewNext]_views
  PROVE  ViewInv'
<1> USE DEF ViewInv
<1>1. [Next]_vars
  BY DEF ViewNext, Write, Draft, Decide, Assemble, AssembleFails, views, tables, vars
<1>2. IInv'
  BY <1>1, RecordStepKeepsInvariant
<1>3. Stamped'
  <2> now \in Nat
    BY DEF IInv, TypeOK
  <2>1. CASE Write
    BY <2>1 DEF Write, Stamped
  <2>2. ASSUME NEW p \in Proposals, Draft(p) \/ Decide(p)
        PROVE  Stamped'
    BY <2>2 DEF Draft, Decide, Stamped, Listed
  <2>3. CASE UNCHANGED tables
    BY <2>3 DEF tables, Stamped
  <2> QED
    BY <2>1, <2>2, <2>3 DEF ViewNext, Assemble, AssembleFails, views
<1>4. Frozen' /\ DOMAIN assembly' = Turns
  <2>1. CASE UNCHANGED assembly
    <3> SUFFICES ASSUME NEW t \in Turns, NEW e \in assembly[t].selected
                 PROVE  /\ row'[e.id].version >= e.version
                        /\ row'[e.id].version = e.version => CurrentEffective(e.id)'
      BY <2>1 DEF Frozen
    <3>1. /\ e.id \in Ids /\ e.version \in Nat /\ row[e.id].version >= e.version
          /\ row[e.id].version = e.version => CurrentEffective(e.id)
      BY DEF Frozen
    <3>2. row[e.id].version \in Nat
      BY <3>1 DEF IInv, TypeOK, Rows
    <3>3. CASE row'[e.id] = row[e.id]
      BY <3>1, <3>3 DEF CurrentEffective, HasEligibleStatus, Relevant
    <3>4. CASE row'[e.id] # row[e.id]
      <4>1. row'[e.id].version = row[e.id].version + 1
        BY <1>1, <3>1, <3>4, StepIsVersioned
      <4> QED
        BY <3>1, <3>2, <4>1
    <3> QED
      BY <3>3, <3>4
  <2>2. ASSUME NEW t \in Turns, NEW mode \in Modes, Assemble(t, mode)
        PROVE  Frozen' /\ DOMAIN assembly' = Turns
    <3>1. UNCHANGED row /\ DOMAIN assembly' = Turns
      BY <2>2 DEF Assemble, tables
    <3>2. \A u \in Turns \ {t} : assembly'[u] = assembly[u]
      BY <2>2 DEF Assemble
    <3>3. \A e \in assembly'[t].selected :
            e.id \in Ids /\ e.version = row[e.id].version /\ CurrentEffective(e.id)
      <4>1. CASE mode = "off"
        BY <2>2, <4>1 DEF Assemble, NoAssembly
      <4>2. CASE mode # "off"
        <5>1. assembly'[t] = Evaluate(ThreadOf[t], mode)
          BY <2>2, <4>2 DEF Assemble
        <5> QED
          BY <5>1, SelectedAreCurrent
      <4> QED
        BY <4>1, <4>2
    <3>4. \A i \in Ids : row[i].version \in Nat
      BY DEF IInv, TypeOK, Rows
    <3> QED
      BY <3>1, <3>2, <3>3, <3>4
      DEF Frozen, CurrentEffective, HasEligibleStatus, Relevant
  <2>3. ASSUME NEW t \in Turns, NEW mode \in Modes, AssembleFails(t, mode)
        PROVE  Frozen' /\ DOMAIN assembly' = Turns
    <3>1. /\ UNCHANGED row /\ DOMAIN assembly' = Turns
          /\ assembly'[t].selected = {}
          /\ \A u \in Turns \ {t} : assembly'[u] = assembly[u]
      BY <2>3 DEF AssembleFails, tables, NoAssembly
    <3> QED
      BY <3>1 DEF Frozen, CurrentEffective, HasEligibleStatus, Relevant
  <2> QED
    BY <2>1, <2>2, <2>3 DEF ViewNext, Write, Draft, Decide, views
<1> QED
  BY <1>2, <1>3, <1>4

LEMMA ViewInvariance == ViewSpec => []ViewInv
  BY ViewsBegin, ViewsStep, PTL DEF ViewSpec

(* Every list shows every row once, whatever page of it is asked for.      *)
THEOREM ListsShowEverything == ViewSpec => []ListsAreWhole
<1>1. ViewInv => PagesAreWhole
  <2> SUFFICES ASSUME ViewInv, NEW b \in Buckets, NEW f \in Filters
               PROVE  /\ Total(b, f[1], f[2]) = Cardinality(Matching(b, f[1], f[2]))
                      /\ \A offset \in 0 .. MaxOffset, limit \in 1 .. MaxLimit :
                           Page(Sources(b, f[1], f[2]), offset, limit)
                             = Slice(Matching(b, f[1], f[2]), offset, limit)
    BY DEF PagesAreWhole
  <2>1. \A offset \in Nat, limit \in Nat :
          Page(Sources(b, f[1], f[2]), offset, limit)
            = Slice(Matching(b, f[1], f[2]), offset, limit)
    BY SourcesMakeUp, PageOfUnion DEF ViewInv
  <2>2. 0 .. MaxOffset \subseteq Nat /\ 1 .. MaxLimit \subseteq Nat
    OBVIOUS
  <2> QED
    BY <2>1, <2>2, TotalIsRight
<1>2. BucketsPartition
  <2> SUFFICES ASSUME NEW i \in Ids, Exists(i)
               PROVE  \E b \in Buckets : {c \in Buckets : InBucket(i, c)} = {b}
    BY DEF BucketsPartition
  <2> DEFINE here == IF CurrentEffective(i) /\ ~HasSuccessor(i) THEN "current" ELSE "history"
  <2>1. /\ InBucket(i, "pending") = FALSE
        /\ InBucket(i, "current") <=> CurrentEffective(i) /\ ~HasSuccessor(i)
        /\ InBucket(i, "history") <=> ~(CurrentEffective(i) /\ ~HasSuccessor(i))
    BY DEF InBucket
  <2>2. here \in Buckets /\ {c \in Buckets : InBucket(i, c)} = {here}
    BY <2>1 DEF Buckets
  <2> QED
    BY <2>2
<1> QED
  BY <1>1, <1>2, ViewInvariance, PTL DEF ListsAreWhole

(* The Current list, the eligibility of a reply and the verbs agree.       *)
THEOREM ReadersAgree == ViewSpec => []CurrentAgrees
<1>1. ViewInv => CurrentAgrees
  <2> SUFFICES ASSUME IInv, NEW i \in Ids
               PROVE  /\ InBucket(i, "current") <=> CurrentEffective(i)
                      /\ \A th \in Threads :
                           CurrentEffective(i) <=>
                             /\ Exists(i) /\ Relevant(i)
                             /\ Verdict(i, th, "across") \in {"ok", "integrity-failed"}
                      /\ CurrentEffective(i) /\ OriginOf[i] # Null =>
                           i \in MemoryRows(FamilyOf(i), OriginOf[i], EligibleStatus(i))
    BY DEF CurrentAgrees, ViewInv
  <2>1. CurrentEffective(i) => ~HasSuccessor(i) /\ Exists(i)
    BY CurrentHasNoSuccessor, Families DEF CurrentEffective, HasEligibleStatus, Exists
  <2>2. InBucket(i, "current") <=> CurrentEffective(i)
    BY <2>1 DEF InBucket
  <2>3. ASSUME NEW th \in Threads
        PROVE  CurrentEffective(i) <=>
                 /\ Exists(i) /\ Relevant(i)
                 /\ Verdict(i, th, "across") \in {"ok", "integrity-failed"}
    BY <2>1 DEF Verdict, CurrentEffective
  <2>4. CurrentEffective(i) /\ OriginOf[i] # Null =>
          i \in MemoryRows(FamilyOf(i), OriginOf[i], EligibleStatus(i))
    <3>1. i \in FamilyOf(i)
      BY DEF FamilyOf, Ids
    <3> QED
      BY <2>1, <3>1 DEF MemoryRows, CurrentEffective, HasEligibleStatus
  <2> QED
    BY <2>2, <2>3, <2>4
<1> QED
  BY <1>1, ViewInvariance, PTL

(* A selection that can be rendered again names current records only.      *)
THEOREM ReplaysAreCurrent == ViewSpec => []ReplayIsCurrent
<1>1. ViewInv => ReplayIsCurrent
  BY CurrentHasNoSuccessor DEF ViewInv, Frozen, ReplayIsCurrent, Replays, Unchanged
<1> QED
  BY <1>1, ViewInvariance, PTL

(***************************************************************************)
(* The selection.                                                          *)
(***************************************************************************)
(* The order of the selection is strict and total.                         *)
LEMMA AheadIsAnOrder ==
  ASSUME Stamped, NEW th \in Threads, NEW i \in Ids, NEW j \in Ids
  PROVE  /\ i # j => Ahead(i, j, th) \/ Ahead(j, i, th)
         /\ \A k \in Ids : Ahead(i, j, th) /\ Ahead(j, k, th) => Ahead(i, k, th)
<1>1. \A x \in Ids : Layer(x, th) \in 0 .. 2 /\ Class(x) \in 0 .. 2
  <2> SUFFICES ASSUME NEW x \in Ids
               PROVE  Layer(x, th) \in 0 .. 2 /\ Class(x) \in 0 .. 2
    OBVIOUS
  <2>1. Layer(x, th) \in 0 .. 2
    BY DEF Layer
  <2>2. Class(x) \in 0 .. 2
    BY DEF Class, Ids
  <2> QED
    BY <2>1, <2>2
<1>2. Ids \subseteq Listed
  BY DEF Listed
<1>3. i # j => Before(i, j) \/ Before(j, i)
  BY <1>2 DEF Before, Stamped
<1>4. \A k \in Ids : Before(i, j) /\ Before(j, k) => Before(i, k)
  BY <1>2, BeforeIsStrict
<1>5. i # j => Ahead(i, j, th) \/ Ahead(j, i, th)
  BY <1>1, <1>3 DEF Ahead
<1>6. ASSUME NEW k \in Ids, Ahead(i, j, th), Ahead(j, k, th)
      PROVE  Ahead(i, k, th)
  BY <1>1, <1>4, <1>6 DEF Ahead
<1> QED
  BY <1>5, <1>6

(* Of any records there is one that all the others are ahead of.           *)
LEMMA LastRecord ==
  ASSUME Stamped, NEW th \in Threads, NEW S \in SUBSET Ids, S # {}
  PROVE  \E m \in S : \A j \in S \ {m} : Ahead(j, m, th)
<1> DEFINE Last(T, m) == \A j \in T \ {m} : Ahead(j, m, th)
           bad == {T \in SUBSET Ids : T # {} /\ ~ \E m \in T : Last(T, m)}
<1>1. SUFFICES ASSUME bad # {}
               PROVE  FALSE
  OBVIOUS
<1>2. PICK T \in bad : \A x \in T : T \ {x} \notin bad
  BY <1>1, SmallestSet
<1>3. T \in SUBSET Ids /\ T # {} /\ ~ \E m \in T : Last(T, m)
  BY <1>2
<1>4. PICK x \in T : TRUE
  BY <1>3
<1>5. T \ {x} # {}
  BY <1>3, <1>4
<1>6. PICK m \in T \ {x} : Last(T \ {x}, m)
  BY <1>2, <1>3, <1>4, <1>5
<1>7. CASE Ahead(x, m, th)
  BY <1>3, <1>6, <1>7
<1>8. CASE Ahead(m, x, th)
  <2>1. \A j \in T \ {x} : Ahead(j, x, th)
    BY <1>3, <1>4, <1>6, <1>8, AheadIsAnOrder
  <2> QED
    BY <1>3, <1>4, <2>1
<1> QED
  BY <1>3, <1>4, <1>6, <1>7, <1>8, AheadIsAnOrder

(* What is evaluated.                                                      *)
Valid(th, mode) == {i \in Candidates : Verdict(i, th, mode) = "ok"}
Pool(th, mode) == Valid(th, mode) \ Ambiguous(Valid(th, mode))
Selected(th, mode) == {i \in Pool(th, mode) : Fits(Pool(th, mode), i, th)}
Able(th, mode) == {i \in Ids : Selectable(i, th, mode)}

LEMMA EvaluatedRows ==
  ASSUME NEW th, NEW mode
  PROVE  /\ Evaluate(th, mode).mode = mode
         /\ {e.id : e \in Evaluate(th, mode).selected} = Selected(th, mode)
<1> DEFINE picked == {[id |-> i, version |-> row[i].version] : i \in Selected(th, mode)}
<1>1. Evaluate(th, mode).mode = mode
  BY DEF Evaluate
<1>2. Evaluate(th, mode).selected = picked
  BY DEF Evaluate, Valid, Pool, Selected
<1>3. {e.id : e \in picked} = Selected(th, mode)
  <2>1. ASSUME NEW i \in Selected(th, mode)
        PROVE  i \in {e.id : e \in picked}
    <3>1. [id |-> i, version |-> row[i].version] \in picked
      OBVIOUS
    <3>2. [id |-> i, version |-> row[i].version].id = i
      OBVIOUS
    <3> HIDE DEF picked
    <3> QED
      BY <3>1, <3>2
  <2>2. ASSUME NEW e \in picked
        PROVE  e.id \in Selected(th, mode)
    OBVIOUS
  <2> HIDE DEF picked
  <2> QED
    BY <2>1, <2>2
<1> QED
  BY <1>1, <1>2, <1>3

LEMMA ValidIsAble ==
  ASSUME NEW th, NEW mode
  PROVE  Valid(th, mode) \subseteq Able(th, mode)
<1> SUFFICES ASSUME NEW i \in Candidates, Verdict(i, th, mode) = "ok"
             PROVE  i \in Able(th, mode)
  BY DEF Valid
<1>1. i \in Ids /\ Relevant(i)
  BY DEF Candidates, Top, RecordFamilies, Ids
<1>2. HasEligibleStatus(i) /\ i \in Intact /\ ~(mode = "per" /\ OriginOf[i] # th)
  BY DEF Verdict
<1> QED
  BY <1>1, <1>2 DEF Able, Selectable, CurrentEffective

(* A record that could be selected is valid, unless ScanLimit newer rows   *)
(* of its family hide it.                                                  *)
LEMMA AbleIsValid ==
  ASSUME IInv, NEW th, NEW mode, NEW i \in Able(th, mode), ~Behind(i)
  PROVE  i \in Valid(th, mode)
<1> DEFINE family == FamilyOf(i)
           rows == {j \in family : Exists(j) /\ Relevant(j)}
<1>1. /\ i \in Ids /\ HasEligibleStatus(i) /\ Relevant(i) /\ i \in Intact
      /\ ~(mode = "per" /\ OriginOf[i] # th) /\ CurrentEffective(i)
  BY DEF Able, Selectable, CurrentEffective
<1>2. ~HasSuccessor(i) /\ Exists(i)
  BY <1>1, CurrentHasNoSuccessor, Families DEF CurrentEffective, HasEligibleStatus, Exists
<1>3. Verdict(i, th, mode) = "ok"
  BY <1>1, <1>2 DEF Verdict
<1>4. family \in RecordFamilies /\ i \in family
  BY <1>1 DEF FamilyOf, RecordFamilies, Ids
<1>5. rows \in SUBSET Listed /\ i \in Listed /\ i \in rows
  BY <1>1, <1>2, <1>4 DEF RecordFamilies, Listed, Ids
<1>6. Rank(rows, i) < ScanLimit
  <2>1. Rank(rows, i) \in Nat
    BY <1>5, PredsOrder
  <2>2. {j \in rows : Before(j, i)}
          = {j \in FamilyOf(i) : Exists(j) /\ Relevant(j) /\ Before(j, i)}
    OBVIOUS
  <2>3. ~(Rank(rows, i) >= ScanLimit)
    BY <2>2 DEF Behind, Rank
  <2> HIDE DEF rows
  <2> QED
    BY <2>1, <2>3
<1>7. i \in Top(rows, ScanLimit)
  BY <1>5, <1>6 DEF Top
<1>8. i \in Candidates
  BY <1>4, <1>7 DEF Candidates
<1> QED
  BY <1>3, <1>8 DEF Valid

(* More records take no less of the budget.                                *)
LEMMA BudgetGrows ==
  ASSUME NEW T \in SUBSET Ids, NEW S \in SUBSET T
  PROVE  /\ Cardinality(S) \in Nat /\ Cardinality(T) \in Nat
         /\ Weight(S) \in Nat /\ Weight(T) \in Nat
         /\ Cardinality(S) <= Cardinality(T) /\ Weight(S) <= Weight(T)
<1>1. S \in SUBSET Ids
  OBVIOUS
<1>2. IsFiniteSet(T) /\ Cardinality(S) \in Nat /\ Cardinality(T) \in Nat
  BY <1>1, RecordSets
<1>3. Weight(S) \in Nat /\ Weight(T) \in Nat
  BY <1>1, WeightIsNat
<1>4. Cardinality(S) <= Cardinality(T)
  BY <1>2, FS_Subset
<1>5. Weight(S) <= Weight(T)
  BY WeightGrows
<1> QED
  BY <1>2, <1>3, <1>4, <1>5

(* The last record selected fits, and with it all that are selected.       *)
LEMMA SelectedFit ==
  ASSUME Stamped, NEW th \in Threads, NEW mode
  PROVE  /\ Cardinality(Selected(th, mode)) <= MaxRecords
         /\ Weight(Selected(th, mode)) <= MaxBytes
<1> DEFINE S == Selected(th, mode)
           P == Pool(th, mode)
<1>1. P \in SUBSET Ids /\ S \in SUBSET P
  BY ValidIsAble DEF Pool, Selected, Able
<1>2. CASE S = {}
  <2>1. Cardinality(S) = 0
    BY <1>2, FS_EmptySet
  <2>2. Weight(S) = 0
    BY <1>2, WeightStep
  <2> HIDE DEF S
  <2> QED
    BY <2>1, <2>2 DEF S
<1>3. CASE S # {}
  <2>1. PICK m \in S : \A j \in S \ {m} : Ahead(j, m, th)
    <3> HIDE DEF S, P
    <3> QED
      BY <1>1, <1>3, LastRecord
  <2> DEFINE U == UpTo(P, m, th)
  <2>2. U \in SUBSET Ids /\ S \in SUBSET U
    <3> HIDE DEF S, P
    <3> QED
      BY <1>1, <2>1 DEF UpTo
  <2>3. Cardinality(U) <= MaxRecords /\ Weight(U) <= MaxBytes
    BY DEF Selected, Fits
  <2> HIDE DEF S, U
  <2>4. /\ Cardinality(S) \in Nat /\ Cardinality(U) \in Nat
        /\ Weight(S) \in Nat /\ Weight(U) \in Nat
        /\ Cardinality(S) <= Cardinality(U) /\ Weight(S) <= Weight(U)
    BY <2>2, BudgetGrows
  <2>5. MaxRecords \in Nat /\ MaxBytes \in Nat
    BY LimitsAreNat
  <2>6. Cardinality(S) <= MaxRecords
    BY <2>3, <2>4, <2>5
  <2>7. Weight(S) <= MaxBytes
    BY <2>3, <2>4, <2>5
  <2> QED
    BY <2>6, <2>7 DEF S
<1> QED
  BY <1>2, <1>3

(* Who could have been selected and is not has a reason.                   *)
LEMMA LeftOutForAReason ==
  ASSUME IInv, NEW th, NEW mode, NEW i \in Able(th, mode), i \notin Selected(th, mode),
         ~Behind(i), \A j \in Able(th, mode) \ {i} : ~SameIdentity(i, j)
  PROVE  \/ Cardinality(UpTo(Able(th, mode), i, th)) > MaxRecords
         \/ Weight(UpTo(Able(th, mode), i, th)) > MaxBytes
<1> DEFINE P == Pool(th, mode)
           A == Able(th, mode)
           inPool == UpTo(P, i, th)
           inAble == UpTo(A, i, th)
<1>1. i \in P
  BY AbleIsValid, ValidIsAble DEF Pool, Ambiguous
<1>2. ~(Cardinality(inPool) <= MaxRecords /\ Weight(inPool) <= MaxBytes)
  BY <1>1 DEF Selected, Fits
<1>3. P \subseteq A /\ A \in SUBSET Ids
  BY ValidIsAble DEF Pool, Able
<1>4. inAble \in SUBSET Ids /\ inPool \in SUBSET inAble
  <2> HIDE DEF P, A
  <2> QED
    BY <1>3 DEF UpTo
<1> HIDE DEF inPool, inAble
<1>5. /\ Cardinality(inPool) \in Nat /\ Cardinality(inAble) \in Nat
      /\ Weight(inPool) \in Nat /\ Weight(inAble) \in Nat
      /\ Cardinality(inPool) <= Cardinality(inAble) /\ Weight(inPool) <= Weight(inAble)
  BY <1>4, BudgetGrows
<1>6. MaxRecords \in Nat /\ MaxBytes \in Nat
  BY LimitsAreNat
<1>7. CASE ~(Cardinality(inPool) <= MaxRecords)
  <2>1. Cardinality(inAble) > MaxRecords
    BY <1>5, <1>6, <1>7
  <2> QED
    BY <2>1 DEF inAble
<1>8. CASE ~(Weight(inPool) <= MaxBytes)
  <2>1. Weight(inAble) > MaxBytes
    BY <1>5, <1>6, <1>8
  <2> QED
    BY <2>1 DEF inAble
<1> QED
  BY <1>2, <1>7, <1>8

(* A selection names current, intact records of its scope, no two of one   *)
(* identity, within the budget, and leaves out a record only for a reason: *)
(* for any number of records, any limits and any order of their changes.   *)
THEOREM SelectionsAreSound == ViewSpec => SelectionIsSound
<1> DEFINE Sound(t) ==
       /\ assembly[t].outcome = "unrecorded"
       /\ Usage(assembly'[t]) \in {"used", "none", "scope-empty"}
       =>
       LET th == ThreadOf[t]
           a == assembly'[t]
           ids == {e.id : e \in a.selected}
           able == {i \in Ids : Selectable(i, th, a.mode)}
       IN  /\ ids \subseteq able
           /\ \A i \in ids : \A j \in able \ {i} : SameIdentity(i, j) => Behind(j)
           /\ Cardinality(ids) <= MaxRecords /\ Weight(ids) <= MaxBytes
           /\ \A i \in able \ ids :
                \/ Behind(i)
                \/ \E j \in able \ {i} : SameIdentity(i, j)
                \/ Cardinality(UpTo(able, i, th)) > MaxRecords
                \/ Weight(UpTo(able, i, th)) > MaxBytes
<1>1. ASSUME ViewInv, [ViewNext]_views
      PROVE  [\A t \in Turns : Sound(t)]_views
  <2>1. SUFFICES ASSUME NEW t \in Turns, ViewNext, assembly[t].outcome = "unrecorded",
                        Usage(assembly'[t]) \in {"used", "none", "scope-empty"}
                 PROVE  Sound(t)
    BY <1>1
  <2>2. PICK mode \in Modes : Assemble(t, mode)
    <3>1. assembly'[t] # assembly[t]
      BY <2>1 DEF Usage
    <3>2. PICK u \in Turns, mode \in Modes : Assemble(u, mode) \/ AssembleFails(u, mode)
      BY <2>1, <3>1 DEF ViewNext, Write, Draft, Decide
    <3>3. u = t
      BY <1>1, <3>1, <3>2 DEF Assemble, AssembleFails, ViewInv
    <3>4. ~AssembleFails(t, mode)
      BY <1>1, <2>1 DEF AssembleFails, Usage, NoAssembly, ViewInv
    <3> QED
      BY <3>2, <3>3, <3>4
  <2> DEFINE th == ThreadOf[t]
             ids == Selected(th, mode)
             able == Able(th, mode)
  <2>3. th \in Threads
    OBVIOUS
  <2>4. mode # "off"
    BY <1>1, <2>1, <2>2 DEF Assemble, Usage, NoAssembly, ViewInv
  <2>5. assembly'[t] = Evaluate(th, mode)
    BY <1>1, <2>2, <2>4 DEF Assemble, ViewInv
  <2>6. assembly'[t].mode = mode /\ {e.id : e \in assembly'[t].selected} = ids
    BY <2>5, EvaluatedRows
  <2>7. able = {i \in Ids : Selectable(i, th, assembly'[t].mode)}
    BY <2>6 DEF Able
  <2>8. ids \subseteq able
    BY ValidIsAble DEF Selected, Pool
  <2>9. \A i \in ids : \A j \in able \ {i} : SameIdentity(i, j) => Behind(j)
    BY <1>1, AbleIsValid DEF Selected, Pool, Ambiguous, ViewInv
  <2>10. Cardinality(ids) <= MaxRecords /\ Weight(ids) <= MaxBytes
    BY <1>1, <2>3, SelectedFit DEF ViewInv
  <2>11. \A i \in able \ ids :
           \/ Behind(i)
           \/ \E j \in able \ {i} : SameIdentity(i, j)
           \/ Cardinality(UpTo(able, i, th)) > MaxRecords
           \/ Weight(UpTo(able, i, th)) > MaxBytes
    BY <1>1, LeftOutForAReason DEF ViewInv
  <2> HIDE DEF ids, able, th
  <2> QED
    BY <2>6, <2>7, <2>8, <2>9, <2>10, <2>11 DEF th
<1> QED
  BY <1>1, ViewInvariance, PTL DEF ViewSpec, SelectionIsSound
=============================================================================
