------------------------- MODULE MeaningRecordsProofs -------------------------
(***************************************************************************)
(* The life of the meaning records, for any number of records, commitment  *)
(* keys, deadlines and batch limits.                                       *)
(*                                                                         *)
(* Every step of the store has one of three shapes: it creates a fresh     *)
(* record, it replaces a current record by its successor, or it edits rows *)
(* in place.  The action lemmas establish the shape, and the properties    *)
(* follow from the shapes.                                                 *)
(***************************************************************************)
EXTENDS MeaningRecords, TLAPS

USE FamiliesDisjoint, NullIsNoValue, BoundsAreNat

Creation(i) ==
  /\ ~Exists(i)
  /\ \E k \in CommitmentKeys \cup {Null} :
       row' = [row EXCEPT ![i] = NewRow(EligibleStatus(i), k, Null)]

Moves(i, r) ==
  /\ r \in Rows(i)
  /\ r.version = row[i].version + 1
  /\ r.supersedes = row[i].supersedes
  /\ row[i].status # "absent" /\ r.status # "absent"

Succession(i, j) ==
  /\ i # j /\ SameFamily(i, j)
  /\ CurrentEffective(i) /\ ~Exists(j)
  /\ Moves(i, row'[i])
  /\ row'[i].status \in {"superseded", "amended"}
  /\ row'[i].key = row[i].key /\ row'[i].retention = row[i].retention
  /\ row'[j] = NewRow(EligibleStatus(j), row[i].key, i)
  /\ \A l \in Ids \ {i, j} : row'[l] = row[l]

ExpiredByPass(i) == \E B \in SUBSET Claims : i \in B /\ RetentionPass(B)

Edited(i, r) ==
  /\ Moves(i, r)
  /\ r.status = row[i].status \/ (HasEligibleStatus(i) /\ r.status \in Exits(i))
  /\ Relevant(i) \/ r.retention # "currently-relevant"
  /\ \/ r.retention \in {row[i].retention, "user-removed"}
     \/ i \in Claims /\ ExpiredByPass(i)
  /\ Removed(i) => r.retention = "user-removed"
  /\ r.key = row[i].key \/ (r.key = Null /\ r.retention = "user-removed")

Edit == \A i \in Ids : row'[i] = row[i] \/ Edited(i, row'[i])

(* What a step of the store can do to the tables.                          *)
Shape ==
  \/ \E i \in Ids : Creation(i)
  \/ \E i, j \in Ids : Succession(i, j)
  \/ Edit

LEMMA Families ==
  ASSUME NEW i \in Ids
  PROVE  /\ EligibleStatus(i) \in Statuses(i)
         /\ EligibleStatus(i) \notin Exits(i)
         /\ EligibleStatus(i) \notin {"absent", "superseded", "amended"}
         /\ Exits(i) \subseteq Statuses(i)
         /\ Exits(i) \cap {"absent", "superseded", "amended"} = {}
         /\ "superseded" \in Statuses(i)
         /\ i \in Commitments => "amended" \in Statuses(i) /\ Exits(i) = {"released"}
         /\ "absent" \notin Statuses(i)
  BY DEF Ids, EligibleStatus, Statuses, Exits, ClaimStatuses, CommitmentStatuses,
         LoopStatuses

LEMMA FreshRow ==
  ASSUME NEW i \in Ids, NEW k \in CommitmentKeys \cup {Null},
         NEW p \in Ids \cup {Null}
  PROVE  /\ NewRow(EligibleStatus(i), k, p) \in Rows(i)
         /\ NewRow(EligibleStatus(i), k, p).status = EligibleStatus(i)
         /\ NewRow(EligibleStatus(i), k, p).key = k
         /\ NewRow(EligibleStatus(i), k, p).supersedes = p
         /\ NewRow(EligibleStatus(i), k, p).retention = "currently-relevant"
  BY Families DEF NewRow, Rows

(* What a verb leaves alone when it bumps a row's version.                 *)
Bump(i, r, b) ==
  /\ b \in Rows(i)
  /\ b.version = r.version + 1
  /\ b.status = r.status
  /\ b.retention = r.retention
  /\ b.key = r.key
  /\ b.supersedes = r.supersedes

LEMMA BumpedRow ==
  ASSUME NEW i \in Ids, NEW r \in Rows(i)
  PROVE  Bump(i, r, Bumped(r))
  BY DEF Bump, Bumped, Rows

LEMMA MovedRow ==
  ASSUME NEW i \in Ids, NEW r \in Rows(i), NEW s \in Statuses(i)
  PROVE  /\ Moved(r, s) \in Rows(i)
         /\ Moved(r, s).status = s
         /\ Moved(r, s).version = r.version + 1
         /\ Moved(r, s).retention = r.retention
         /\ Moved(r, s).key = r.key
         /\ Moved(r, s).supersedes = r.supersedes
  BY BumpedRow DEF Bump, Moved, Rows

LEMMA CreateShape ==
  ASSUME TypeOK, NEW i \in Ids, NEW k \in CommitmentKeys \cup {Null},
         Create(i, k)
  PROVE  Creation(i)
  BY DEF Create, Creation

LEMMA CorrectShape ==
  ASSUME TypeOK, NEW i \in Ids, NEW j \in Ids, Correct(i, j)
  PROVE  Succession(i, j)
<1>1. i # j /\ row[i] \in Rows(i)
  BY Families DEF Correct, Exists, CurrentEffective, HasEligibleStatus, TypeOK
<1>2. EligibleStatus(i) = EligibleStatus(j)
  BY DEF Correct, SameFamily, EligibleStatus, Ids
<1>3. /\ row'[i] = Moved(row[i], "superseded")
      /\ row'[j] = NewRow(EligibleStatus(j), row[i].key, i)
      /\ \A l \in Ids \ {i, j} : row'[l] = row[l]
  BY <1>1, <1>2 DEF Correct, TypeOK
<1>4. row[i].status # "absent"
  BY Families DEF Correct, CurrentEffective, HasEligibleStatus
<1>5. CurrentEffective(i) /\ ~Exists(j) /\ SameFamily(i, j)
  BY DEF Correct
<1>6. Moves(i, Moved(row[i], "superseded"))
  BY <1>1, <1>4, MovedRow, Families DEF Moves
<1> QED
  BY <1>1, <1>3, <1>5, <1>6, MovedRow, Families DEF Succession

LEMMA AmendShape ==
  ASSUME TypeOK, NEW i \in Commitments, NEW j \in Commitments, Amend(i, j)
  PROVE  Succession(i, j)
<1> i \in Ids /\ j \in Ids
  BY DEF Ids
<1>1. i # j /\ row[i] \in Rows(i)
  BY Families DEF Amend, Exists, CurrentEffective, HasEligibleStatus, TypeOK
<1>2. EligibleStatus(j) = "active"
  BY DEF EligibleStatus
<1>3. /\ row'[i] = Moved(row[i], "amended")
      /\ row'[j] = NewRow(EligibleStatus(j), row[i].key, i)
      /\ \A l \in Ids \ {i, j} : row'[l] = row[l]
  BY <1>1, <1>2 DEF Amend, TypeOK
<1>4. row[i].status # "absent" /\ SameFamily(i, j)
  BY Families DEF Amend, CurrentEffective, HasEligibleStatus, SameFamily
<1>5. CurrentEffective(i) /\ ~Exists(j)
  BY DEF Amend
<1>6. Moves(i, Moved(row[i], "amended"))
  BY <1>1, <1>4, MovedRow, Families DEF Moves
<1> QED
  BY <1>1, <1>3, <1>4, <1>5, <1>6, MovedRow, Families DEF Succession

LEMMA ExitShape ==
  ASSUME TypeOK, NEW i \in Ids, NEW s \in Statuses(i) \cup Exits(i), Exit(i, s)
  PROVE  Edit
<1>1. PICK mark \in ExitMarks(i, s) :
        row' = [row EXCEPT ![i] = [Moved(@, s) EXCEPT !.exit = mark]]
  BY DEF Exit
<1>2. row[i] \in Rows(i) /\ s \in Statuses(i) /\ s \in Exits(i)
  BY Families DEF Exit, TypeOK
<1>3. row[i].status # "absent" /\ s # "absent"
  BY <1>2, Families DEF Exit, HasEligibleStatus
<1>4. mark \in {"unset", "set", "reasoned"}
  BY DEF ExitMarks
<1> DEFINE r == [Moved(row[i], s) EXCEPT !.exit = mark]
<1>5. /\ r \in Rows(i)
      /\ r.status = s
      /\ r.version = row[i].version + 1
      /\ r.retention = row[i].retention
      /\ r.key = row[i].key
      /\ r.supersedes = row[i].supersedes
  BY <1>2, <1>4, MovedRow DEF Rows
<1>6. row'[i] = r /\ \A l \in Ids \ {i} : row'[l] = row[l]
  BY <1>1 DEF TypeOK
<1> HIDE DEF r
<1>7. Edited(i, r)
  BY <1>2, <1>3, <1>5 DEF Edited, Moves, Exit, Relevant, Removed
<1> QED
  BY <1>6, <1>7 DEF Edit

LEMMA RemoveShape ==
  ASSUME TypeOK, NEW i \in Ids, Remove(i)
  PROVE  Edit
<1> DEFINE r == Tombstone(row[i])
<1>1. row'[i] = r /\ \A l \in Ids \ {i} : row'[l] = row[l]
  BY DEF TypeOK, Remove
<1>2. row[i] \in Rows(i) /\ Bump(i, row[i], Bumped(row[i]))
  BY BumpedRow DEF TypeOK
<1>3. /\ r \in Rows(i)
      /\ r.status = row[i].status
      /\ r.version = row[i].version + 1
      /\ r.retention = "user-removed"
      /\ r.key = Null
      /\ r.supersedes = row[i].supersedes
  BY <1>2 DEF Bump, Rows, Tombstone
<1> HIDE DEF r
<1>4. Edited(i, r)
  BY <1>3 DEF Edited, Moves, Remove, Exists
<1> QED
  BY <1>1, <1>4 DEF Edit

LEMMA SetExpiryShape ==
  ASSUME TypeOK, NEW c \in Claims, NEW t \in Nat \cup {Null}, SetExpiry(c, t)
  PROVE  Edit
<1> DEFINE r == [Bumped(row[c]) EXCEPT !.expires = t]
<1> c \in Ids
  BY DEF Ids
<1>1. row[c] \in Rows(c)
  BY DEF TypeOK
<1>2. /\ r \in Rows(c)
      /\ r.status = row[c].status
      /\ r.version = row[c].version + 1
      /\ r.retention = row[c].retention
      /\ r.key = row[c].key
      /\ r.supersedes = row[c].supersedes
  BY <1>1, BumpedRow DEF Bump, Rows
<1>3. row'[c] = r /\ \A l \in Ids \ {c} : row'[l] = row[l]
  BY DEF TypeOK, SetExpiry
<1>4. row[c].status # "absent"
  BY Families DEF SetExpiry, CurrentEffective, HasEligibleStatus
<1> HIDE DEF r
<1>5. Edited(c, r)
  BY <1>2, <1>4 DEF Edited, Moves, Relevant, Removed
<1> QED
  BY <1>3, <1>5 DEF Edit

LEMMA RetentionPassShape ==
  ASSUME TypeOK, NEW B \in SUBSET Claims, RetentionPass(B)
  PROVE  Edit
<1> SUFFICES ASSUME NEW i \in Ids
             PROVE  row'[i] = row[i] \/ Edited(i, row'[i])
  BY DEF Edit
<1>1. CASE i \notin B
  BY <1>1 DEF RetentionPass
<1>2. CASE i \in B
  <2> DEFINE r == [Bumped(row[i]) EXCEPT !.retention = "expired"]
  <2>1. row[i] \in Rows(i)
    BY DEF TypeOK
  <2>2. /\ r \in Rows(i)
        /\ r.status = row[i].status
        /\ r.version = row[i].version + 1
        /\ r.retention = "expired"
        /\ r.key = row[i].key
        /\ r.supersedes = row[i].supersedes
    BY <2>1, BumpedRow DEF Bump, Rows
  <2>3. row'[i] = r
    BY <1>2 DEF RetentionPass
  <2>4. CurrentEffective(i) /\ i \in Claims
    BY <1>2 DEF RetentionPass, Batches, Due
  <2>5. row[i].status # "absent"
    BY <2>4, Families DEF CurrentEffective, HasEligibleStatus
  <2>6. ExpiredByPass(i)
    BY <1>2 DEF ExpiredByPass
  <2> HIDE DEF r
  <2> QED
    BY <2>2, <2>3, <2>4, <2>5, <2>6
    DEF Edited, Moves, CurrentEffective, Relevant, Removed
<1> QED
  BY <1>1, <1>2

LEMMA StepEffect ==
  ASSUME TypeOK, Next
  PROVE  \/ \E i \in Ids, k \in CommitmentKeys \cup {Null} : Create(i, k)
         \/ \E i, j \in Ids : Succession(i, j)
         \/ Edit
<1>1. ASSUME NEW i \in Ids, NEW s \in Statuses(i) \cup Exits(i), Exit(i, s)
      PROVE  Edit
  BY <1>1, ExitShape
<1>2. ASSUME NEW i \in Ids, NEW j \in Ids, Correct(i, j)
      PROVE  Succession(i, j)
  BY <1>2, CorrectShape
<1>3. ASSUME NEW i \in Commitments, NEW j \in Commitments, Amend(i, j)
      PROVE  Succession(i, j) /\ i \in Ids /\ j \in Ids
  BY <1>3, AmendShape DEF Ids
<1>4. ASSUME NEW i \in Ids, Remove(i)
      PROVE  Edit
  BY <1>4, RemoveShape
<1>5. ASSUME NEW c \in Claims, NEW t \in (1 .. MaxTime) \cup {Null}, SetExpiry(c, t)
      PROVE  Edit
  BY <1>5, SetExpiryShape
<1>6. ASSUME NEW B \in SUBSET Claims, RetentionPass(B)
      PROVE  Edit
  BY <1>6, RetentionPassShape
<1>7. ASSUME NEW t \in 0 .. MaxTime, ClockMoves(t)
      PROVE  Edit
  BY <1>7 DEF Edit, ClockMoves
<1> QED
  BY <1>1, <1>2, <1>3, <1>4, <1>5, <1>6, <1>7 DEF Next

LEMMA StepShape ==
  ASSUME TypeOK, [Next]_vars
  PROVE  Shape
<1>1. ASSUME UNCHANGED vars
      PROVE  Edit
  BY <1>1 DEF vars, Edit
<1> QED
  BY <1>1, StepEffect, CreateShape DEF Shape

(* Rows stay well-typed, whatever the shape of the step.                   *)
LEMMA ShapeTypes ==
  ASSUME TypeOK, Shape, NEW l \in Ids
  PROVE  row'[l] \in Rows(l)
<1>0. row[l] \in Rows(l)
  BY DEF TypeOK
<1>1. ASSUME NEW i \in Ids, Creation(i)
      PROVE  row'[l] \in Rows(l)
  BY <1>0, <1>1, FreshRow DEF Creation, TypeOK
<1>2. ASSUME NEW i \in Ids, NEW j \in Ids, Succession(i, j)
      PROVE  row'[l] \in Rows(l)
  <2>1. row[i].key \in CommitmentKeys \cup {Null}
    BY DEF TypeOK, Rows
  <2>2. row'[j] \in Rows(j)
    BY <1>2, <2>1, FreshRow DEF Succession
  <2> QED
    BY <1>0, <1>2, <2>2 DEF Succession, Moves
<1>3. ASSUME Edit
      PROVE  row'[l] \in Rows(l)
  BY <1>0, <1>3 DEF Edit, Edited, Moves
<1> QED
  BY <1>1, <1>2, <1>3 DEF Shape

LEMMA StepDomain ==
  ASSUME TypeOK, [Next]_vars
  PROVE  DOMAIN row' = Ids /\ now' \in Nat
<1>1. ASSUME NEW i \in Ids, NEW j \in Ids,
             \/ \E k \in CommitmentKeys \cup {Null} : Create(i, k)
             \/ \E s \in Statuses(i) \cup Exits(i) : Exit(i, s)
             \/ Remove(i)
             \/ Correct(i, j)
             \/ Amend(i, j)
      PROVE  DOMAIN row' = Ids /\ now' = now
  BY <1>1 DEF TypeOK, Create, Exit, Remove, Correct, Amend
<1>2. ASSUME NEW c \in Claims, NEW t, SetExpiry(c, t)
      PROVE  DOMAIN row' = Ids /\ now' = now
  BY <1>2 DEF TypeOK, SetExpiry
<1>3. ASSUME NEW B, RetentionPass(B)
      PROVE  DOMAIN row' = Ids /\ now' = now
  BY <1>3 DEF RetentionPass
<1>4. ASSUME NEW t \in 0 .. MaxTime, ClockMoves(t)
      PROVE  DOMAIN row' = Ids /\ now' \in Nat
  BY <1>4 DEF TypeOK, ClockMoves
<1>5. Commitments \subseteq Ids
  BY DEF Ids
<1>6. ASSUME Next
      PROVE  DOMAIN row' = Ids /\ now' \in Nat
  BY <1>1, <1>2, <1>3, <1>4, <1>5, <1>6, Zenon DEF Next, TypeOK
<1> QED
  BY <1>6 DEF TypeOK, vars

LEMMA StepStorable ==
  ASSUME Storable(row), [Next]_vars
  PROVE  Storable(row')
  BY Zenon DEF Next, Create, Exit, Correct, Amend, Remove, SetExpiry,
         RetentionPass, ClockMoves, vars

(* A fresh record has no predecessor and is nobody's: the lineage is       *)
(* untouched.                                                              *)
LEMMA CreationKeepsLineage ==
  ASSUME TypeOK, LineageIsLinear, NEW i \in Ids, Creation(i)
  PROVE  LineageIsLinear'
<1>1. /\ row'[i].supersedes = Null
      /\ row'[i].status \notin {"absent", "superseded", "amended"}
      /\ \A l \in Ids \ {i} : row'[l] = row[l]
  BY FreshRow, Families DEF Creation, TypeOK
<1>2. \A j \in Ids : row[j].supersedes # Null => row[j].supersedes # i /\ j # i
  BY DEF LineageIsLinear, Creation, Exists
<1>3. \A j \in Ids : row[j].supersedes \in Ids \cup {Null}
  BY DEF TypeOK, Rows
<1> QED
  BY <1>1, <1>2, <1>3 DEF LineageIsLinear, Exists, Removed

LEMMA SuccessionKeepsLineage ==
  ASSUME TypeOK, LineageIsLinear, NEW i \in Ids, NEW j \in Ids, Succession(i, j)
  PROVE  LineageIsLinear'
<1>1. /\ row'[j].supersedes = i
      /\ row'[j].status \notin {"absent", "superseded", "amended"}
      /\ row'[j].key = row[i].key
  <2>1. row[i].key \in CommitmentKeys \cup {Null}
    BY DEF TypeOK, Rows
  <2> QED
    BY <2>1, FreshRow, Families DEF Succession
<1>2. /\ row'[i].supersedes = row[i].supersedes
      /\ row'[i].status \in {"superseded", "amended"}
      /\ row'[i].key = row[i].key
      /\ row'[i].retention = row[i].retention
      /\ \A l \in Ids \ {i, j} : row'[l] = row[l]
      /\ i # j /\ SameFamily(i, j) /\ row[j].status = "absent"
  BY DEF Succession, Moves, Exists
<1>3. row[i].status \notin {"absent", "superseded", "amended"}
  BY Families DEF Succession, CurrentEffective, HasEligibleStatus
<1>4. \A l \in Ids :
        /\ row[l].supersedes \in Ids \cup {Null}
        /\ row[l].supersedes # Null => row[l].supersedes \notin {i, j} /\ l # j
  BY <1>2, <1>3 DEF LineageIsLinear, Exists, TypeOK, Rows
<1>5. ASSUME NEW l \in Ids, NEW p, row'[l].supersedes = p, p # Null
      PROVE  /\ row'[l].status # "absent"
             /\ SameFamily(p, l)
             /\ row'[p].status \in {"superseded", "amended"}
             /\ \/ row'[p].key = row'[l].key
                \/ row'[p].retention = "user-removed"
                \/ row'[l].retention = "user-removed"
  <2>1. CASE l = j
    BY <1>1, <1>2, <1>5, <2>1
  <2>2. CASE l # j
    <3>1. row[l].supersedes = p /\ p \in Ids \ {i, j}
      BY <1>2, <1>4, <1>5, <2>2
    <3>2. /\ Exists(l)
          /\ SameFamily(p, l)
          /\ row[p].status \in {"superseded", "amended"}
          /\ row[p].key = row[l].key \/ Removed(p) \/ Removed(l)
      BY <1>5, <3>1 DEF LineageIsLinear
    <3>3. row'[p] = row[p]
      BY <1>2, <3>1
    <3>4. /\ row'[l].status # "absent"
          /\ row'[l].key = row[l].key
          /\ row'[l].retention = row[l].retention
      BY <1>2, <2>2, <3>2 DEF Exists
    <3> QED
      BY <3>2, <3>3, <3>4 DEF Removed
  <2> QED
    BY <2>1, <2>2
<1>6. \A l, m \in Ids :
        row'[l].supersedes = row'[m].supersedes /\ row'[l].supersedes # Null => l = m
  BY <1>1, <1>2, <1>4 DEF LineageIsLinear
<1>7. \A l \in Ids : row'[l].status \in {"superseded", "amended"} =>
        \E m \in Ids : row'[m].supersedes = l
  BY <1>1, <1>2, <1>4 DEF LineageIsLinear
<1> QED
  BY <1>5, <1>6, <1>7 DEF LineageIsLinear, Exists, Removed

(* An edit in place neither adds nor drops a link of the lineage, and a    *)
(* key it takes away is that of a tombstone.                               *)
LEMMA EditKeepsLineage ==
  ASSUME TypeOK, LineageIsLinear, Edit
  PROVE  LineageIsLinear'
<1>1. \A l \in Ids :
        /\ row'[l].supersedes = row[l].supersedes
        /\ Exists(l) => row'[l].status # "absent"
        /\ row'[l].key = row[l].key \/ row'[l].retention = "user-removed"
        /\ Removed(l) => row'[l].retention = "user-removed"
  BY DEF Edit, Edited, Moves, Exists, Removed
<1>2. \A l \in Ids : row'[l].status \in {"superseded", "amended"}
                        <=> row[l].status \in {"superseded", "amended"}
  BY Families DEF Edit, Edited, HasEligibleStatus
<1>3. \A l \in Ids : row[l].supersedes \in Ids \cup {Null}
  BY DEF TypeOK, Rows
<1> QED
  BY <1>1, <1>2, <1>3 DEF LineageIsLinear, Exists, Removed

(* Only an unused identity has version 0.                                  *)
LEMMA ShapeKeepsFresh ==
  ASSUME TypeOK, FreshIdentities, Shape
  PROVE  FreshIdentities'
<1>1. ASSUME NEW i \in Ids, NEW l \in Ids, Creation(i), ~Exists(l)'
      PROVE  row'[l].version = 0
  BY <1>1, FreshRow, Families DEF Creation, TypeOK, FreshIdentities, Exists
<1>2. ASSUME NEW i \in Ids, NEW j \in Ids, NEW l \in Ids, Succession(i, j), ~Exists(l)'
      PROVE  row'[l].version = 0
  <2>1. row[i].key \in CommitmentKeys \cup {Null}
    BY DEF TypeOK, Rows
  <2>2. row'[j].status # "absent"
    BY <1>2, <2>1, FreshRow, Families DEF Succession
  <2> QED
    BY <1>2, <2>2 DEF Succession, Moves, FreshIdentities, Exists
<1>3. ASSUME NEW l \in Ids, Edit, ~Exists(l)'
      PROVE  row'[l].version = 0
  BY <1>3 DEF Edit, Edited, Moves, FreshIdentities, Exists
<1> QED
  BY <1>1, <1>2, <1>3 DEF Shape, FreshIdentities

(* A commitment loses its key to a tombstone and to nothing else.          *)
LEMMA StepKeepsKeys ==
  ASSUME TypeOK, CommitmentsHaveKeys, [Next]_vars
  PROVE  CommitmentsHaveKeys'
<1> Commitments \subseteq Ids
  BY DEF Ids
<1> SUFFICES ASSUME NEW m \in Commitments, Exists(m)', ~Removed(m)'
             PROVE  row'[m].key # Null
  BY DEF CommitmentsHaveKeys
<1>1. ASSUME NEW i \in Ids, NEW k \in CommitmentKeys \cup {Null}, Create(i, k)
      PROVE  row'[m].key # Null
  BY <1>1, FreshRow DEF Create, TypeOK, CommitmentsHaveKeys, Exists, Removed
<1>2. ASSUME NEW i \in Ids, NEW j \in Ids, Succession(i, j)
      PROVE  row'[m].key # Null
  <2>1. row[i].key \in CommitmentKeys \cup {Null}
    BY DEF TypeOK, Rows
  <2>2. row'[j].key = row[i].key
    BY <1>2, <2>1, FreshRow DEF Succession
  <2>3. i \in Commitments => row[i].key # Null
    BY <1>2, Families DEF Succession, CommitmentsHaveKeys, CurrentEffective,
       HasEligibleStatus, Relevant, Exists, Removed
  <2>4. m = j => i \in Commitments
    BY <1>2 DEF Succession, SameFamily
  <2> QED
    BY <1>2, <2>2, <2>3, <2>4
    DEF Succession, Moves, CommitmentsHaveKeys, Exists, Removed
<1>3. ASSUME Edit
      PROVE  row'[m].key # Null
  BY <1>3 DEF Edit, Edited, Moves, CommitmentsHaveKeys, Exists, Removed
<1>4. ASSUME Next
      PROVE  \/ \E i \in Ids, k \in CommitmentKeys \cup {Null} : Create(i, k)
             \/ \E i, j \in Ids : Succession(i, j)
             \/ Edit
  BY <1>4, StepEffect
<1>5. ASSUME UNCHANGED vars
      PROVE  Edit
  BY <1>5 DEF vars, Edit
<1> QED
  BY <1>1, <1>2, <1>3, <1>4, <1>5

LEMMA InitialRecords ==
  ASSUME Init
  PROVE  IInv
<1>1. \A i \in Ids : /\ row[i] \in Rows(i)
                     /\ row[i].status = "absent"
                     /\ row[i].supersedes = Null
                     /\ row[i].retention = "currently-relevant"
  BY DEF Init, NoRow, NewRow, Rows
<1>2. TypeOK
  BY <1>1 DEF TypeOK, Init
<1>3. Storable(row)
  BY <1>1 DEF Storable, ActiveKeysUnique, LoopExitsAttributed, TombstonesEmpty, Ids
<1>4. LineageIsLinear
  BY <1>1 DEF LineageIsLinear
<1>5. FreshIdentities
  BY <1>1 DEF FreshIdentities, Init, NoRow, NewRow
<1>6. CommitmentsHaveKeys
  BY <1>1, Families DEF CommitmentsHaveKeys, Ids, Exists
<1> QED
  BY <1>2, <1>3, <1>4, <1>5, <1>6 DEF IInv

LEMMA RecordStepKeepsInvariant ==
  ASSUME IInv, [Next]_vars
  PROVE  IInv'
<1> USE DEF IInv
<1>1. Shape
  BY StepShape
<1>2. TypeOK'
  BY <1>1, ShapeTypes, StepDomain DEF TypeOK
<1>3. Storable(row')
  BY StepStorable
<1>4. LineageIsLinear'
  BY <1>1, CreationKeepsLineage, SuccessionKeepsLineage, EditKeepsLineage DEF Shape
<1>5. FreshIdentities'
  BY <1>1, ShapeKeepsFresh
<1>6. CommitmentsHaveKeys'
  BY StepKeepsKeys
<1> QED
  BY <1>2, <1>3, <1>4, <1>5, <1>6

(* The invariant is inductive.                                             *)
THEOREM Invariance == Spec => []IInv
  BY InitialRecords, RecordStepKeepsInvariant, PTL DEF Spec

(* The tables stay well-typed: no family takes on another one's status.    *)
THEOREM TypeCorrect == Spec => []TypeOK
  BY Invariance, PTL DEF IInv

(* Corrections and amendments build linear chains.                         *)
THEOREM LineagesAreLinear == Spec => []LineageIsLinear
  BY Invariance, PTL DEF IInv

(* A commitment key has one current-effective holder.                      *)
THEOREM OneHolderPerKey == Spec => []OneStandingCommitment
<1>1. IInv => OneStandingCommitment
  <2> SUFFICES ASSUME IInv, NEW i \in Commitments, NEW j \in Commitments,
                      CurrentEffective(i), CurrentEffective(j),
                      row[i].key = row[j].key
               PROVE  i = j
    BY DEF OneStandingCommitment
  <2>1. row[i].status = "active" /\ row[j].status = "active"
    BY DEF CurrentEffective, HasEligibleStatus, EligibleStatus
  <2>2. row[i].key # Null
    BY <2>1 DEF IInv, CommitmentsHaveKeys, CurrentEffective, Relevant, Exists, Removed
  <2> QED
    BY <2>1, <2>2 DEF IInv, Storable, ActiveKeysUnique
<1> QED
  BY <1>1, Invariance, PTL

(* A key is let go only by the release or the removal of its holder.       *)
THEOREM KeysAreHandedOver == Spec => KeyHeldUntilReleased
<1> DEFINE Kept ==
      \A k \in CommitmentKeys, i \in Commitments :
        Holds(i, k) =>
          \/ \E j \in Commitments : Holds(j, k)'
          \/ row[i].status' = "released"
          \/ Removed(i)'
<1>1. IInv /\ [Next]_vars => Kept
  <2> SUFFICES ASSUME IInv, [Next]_vars,
                      NEW k \in CommitmentKeys, NEW i \in Commitments, Holds(i, k)
               PROVE  \/ \E j \in Commitments : Holds(j, k)'
                      \/ row[i].status' = "released"
                      \/ Removed(i)'
    OBVIOUS
  <2> i \in Ids
    BY DEF Ids
  <2>0. Exists(i) /\ TypeOK
    BY Families DEF Holds, CurrentEffective, HasEligibleStatus, Exists, IInv
  <2>1. ASSUME row'[i] = row[i]
        PROVE  Holds(i, k)'
    BY <2>1 DEF Holds, CurrentEffective, HasEligibleStatus, Relevant
  <2>2. ASSUME NEW a \in Ids, Creation(a)
        PROVE  row'[i] = row[i]
    BY <2>0, <2>2 DEF Creation, TypeOK
  <2>3. ASSUME NEW a \in Ids, NEW b \in Ids, Succession(a, b)
        PROVE  \E j \in Commitments : Holds(j, k)'
    <3>1. CASE i = a
      <4>1. b \in Commitments
        BY <2>3, <3>1 DEF Succession, SameFamily
      <4>2. row'[b] = NewRow(EligibleStatus(b), k, a)
        BY <2>3, <3>1 DEF Succession, Holds
      <4>3. Holds(b, k)'
        BY <4>1, <4>2, FreshRow
        DEF Holds, CurrentEffective, HasEligibleStatus, Relevant
      <4> QED
        BY <4>1, <4>3
    <3>2. CASE i # a
      BY <2>0, <2>1, <2>3, <3>2 DEF Succession
    <3> QED
      BY <3>1, <3>2
  <2>4. ASSUME Edited(i, row'[i])
        PROVE  Holds(i, k)' \/ row'[i].status = "released" \/ Removed(i)'
    <3>1. Exits(i) = {"released"} /\ i \notin Claims
      BY Families
    <3> QED
      BY <2>4, <3>1
      DEF Edited, Holds, CurrentEffective, HasEligibleStatus, Relevant, Removed
  <2> QED
    BY <2>0, <2>1, <2>2, <2>3, <2>4, StepShape DEF Shape, Edit
<1> QED
  BY <1>1, Invariance, PTL DEF Spec, KeyHeldUntilReleased

(* No ghost derivative: a successor replaces a current-effective record.   *)
THEOREM NoGhosts == Spec => NoGhostDerivative
<1> DEFINE Kept ==
      \A j \in Ids : ~Exists(j) /\ Exists(j)' =>
        \/ row[j].supersedes' = Null
        \/ \E i \in Ids : /\ row[j].supersedes' = i
                          /\ CurrentEffective(i)
                          /\ ~HasEligibleStatus(i)'
<1>1. IInv /\ [Next]_vars => Kept
  <2> SUFFICES ASSUME IInv, [Next]_vars, NEW j \in Ids, ~Exists(j), Exists(j)'
               PROVE  \/ row'[j].supersedes = Null
                      \/ \E i \in Ids : /\ row'[j].supersedes = i
                                        /\ CurrentEffective(i)
                                        /\ ~HasEligibleStatus(i)'
    OBVIOUS
  <2>1. ASSUME NEW a \in Ids, Creation(a)
        PROVE  row'[j].supersedes = Null
    <3>1. a = j
      BY <2>1 DEF Creation, Exists, IInv, TypeOK
    <3> QED
      BY <2>1, <3>1, FreshRow DEF Creation, IInv, TypeOK
  <2>2. ASSUME NEW a \in Ids, NEW b \in Ids, Succession(a, b)
        PROVE  /\ row'[j].supersedes = a
               /\ CurrentEffective(a)
               /\ ~HasEligibleStatus(a)'
    <3>1. b = j
      BY <2>2, Families
      DEF Succession, Exists, CurrentEffective, HasEligibleStatus
    <3>2. row[a].key \in CommitmentKeys \cup {Null}
      BY DEF IInv, TypeOK, Rows
    <3>3. row'[j].supersedes = a
      BY <2>2, <3>1, <3>2, FreshRow DEF Succession
    <3> QED
      BY <2>2, <3>3, Families DEF Succession, HasEligibleStatus
  <2>3. ASSUME Edit
        PROVE  FALSE
    BY <2>3 DEF Edit, Edited, Moves, Exists
  <2> QED
    BY <2>1, <2>2, <2>3, StepShape DEF Shape, IInv
<1> QED
  BY <1>1, Invariance, PTL DEF Spec, NoGhostDerivative

(* Nothing that stopped being current-effective becomes so again.          *)
THEOREM NoResurrection == Spec => NothingComesBack
<1> DEFINE Kept ==
      \A i \in Ids : Exists(i) =>
        /\ ~CurrentEffective(i) => ~CurrentEffective(i)'
        /\ Removed(i) => Removed(i)' /\ row[i].key' = Null
<1>1. IInv /\ [Next]_vars => Kept
  <2> SUFFICES ASSUME IInv, [Next]_vars, NEW i \in Ids, Exists(i)
               PROVE  /\ ~CurrentEffective(i) => ~CurrentEffective(i)'
                      /\ Removed(i) => Removed(i)' /\ row'[i].key = Null
    OBVIOUS
  <2>0. Removed(i) => row[i].key = Null
    BY DEF IInv, Storable, TombstonesEmpty, Removed
  <2>1. ASSUME NEW a \in Ids, Creation(a)
        PROVE  row'[i] = row[i]
    BY <2>1 DEF Creation, IInv, TypeOK
  <2>2. ASSUME NEW a \in Ids, NEW b \in Ids, Succession(a, b)
        PROVE  row'[i] = row[i] \/ (CurrentEffective(i) /\ ~Removed(i))
    BY <2>2 DEF Succession, CurrentEffective, Relevant, Removed
  <2>3. ASSUME Edit
        PROVE  /\ ~CurrentEffective(i) => ~CurrentEffective(i)'
               /\ Removed(i) => Removed(i)' /\ row'[i].key = Null
    BY <2>0, <2>3, Families
    DEF Edit, Edited, CurrentEffective, HasEligibleStatus, Relevant, Removed
  <2> QED
    BY <2>0, <2>1, <2>2, <2>3, StepShape
    DEF Shape, IInv, CurrentEffective, HasEligibleStatus, Relevant, Removed
<1> QED
  BY <1>1, Invariance, PTL DEF Spec, NothingComesBack

LEMMA StepIsVersioned ==
  ASSUME IInv, [Next]_vars, NEW i \in Ids, row'[i] # row[i]
  PROVE  row'[i].version = row[i].version + 1
<1>0. ~Exists(i) => row[i].version = 0
  BY DEF IInv, FreshIdentities
<1>1. ASSUME NEW a \in Ids, Creation(a)
      PROVE  row'[i].version = row[i].version + 1
  BY <1>0, <1>1 DEF Creation, IInv, TypeOK, NewRow
<1>2. ASSUME NEW a \in Ids, NEW b \in Ids, Succession(a, b)
      PROVE  row'[i].version = row[i].version + 1
  BY <1>0, <1>2 DEF Succession, Moves, NewRow
<1>3. ASSUME Edit
      PROVE  row'[i].version = row[i].version + 1
  BY <1>3 DEF Edit, Edited, Moves
<1> QED
  BY <1>1, <1>2, <1>3, StepShape DEF Shape, IInv

(* Whatever changes a row bumps its version.                               *)
THEOREM VersionsTellRowsApart == Spec => ChangesAreVersioned
<1> DEFINE Kept ==
      \A i \in Ids : row[i]' # row[i] => row[i].version' = row[i].version + 1
<1>1. IInv /\ [Next]_vars => Kept
  BY StepIsVersioned
<1> QED
  BY <1>1, Invariance, PTL DEF Spec, ChangesAreVersioned

(* A retention pass expires what is due and overtakes no deadline.         *)
THEOREM PassesFollowDeadlines == Spec => EarliestDeadlinesFirst
<1> DEFINE Kept ==
      \A c \in Claims : Relevant(c) /\ row[c].retention' = "expired" =>
        /\ c \in Due
        /\ \A d \in Due : Relevant(d)' => row[c].expires <= row[d].expires
<1>1. IInv /\ [Next]_vars => Kept
  <2> SUFFICES ASSUME IInv, [Next]_vars, NEW c \in Claims,
                      Relevant(c), row'[c].retention = "expired"
               PROVE  /\ c \in Due
                      /\ \A d \in Due : Relevant(d)' => row[c].expires <= row[d].expires
    OBVIOUS
  <2> c \in Ids
    BY DEF Ids
  <2>1. ASSUME NEW a \in Ids, Creation(a)
        PROVE  row'[c].retention = "currently-relevant"
    BY <2>1, FreshRow DEF Creation, IInv, TypeOK, Relevant
  <2>2. ASSUME NEW a \in Ids, NEW b \in Ids, Succession(a, b)
        PROVE  row'[c].retention = "currently-relevant"
    <3>1. row[a].key \in CommitmentKeys \cup {Null}
      BY DEF IInv, TypeOK, Rows
    <3> QED
      BY <2>2, <3>1, FreshRow DEF Succession, Relevant
  <2>3. ASSUME Edit
        PROVE  ExpiredByPass(c)
    BY <2>3 DEF Edit, Edited, Relevant
  <2>4. ExpiredByPass(c)
    BY <2>1, <2>2, <2>3, StepShape DEF Shape, IInv
  <2>5. PICK B \in SUBSET Claims : c \in B /\ RetentionPass(B)
    BY <2>4 DEF ExpiredByPass
  <2>6. B \in SUBSET Due /\ \A b \in B, d \in Due \ B : row[b].expires <= row[d].expires
    BY <2>5 DEF RetentionPass, Batches
  <2>7. ASSUME NEW d \in Due, Relevant(d)'
        PROVE  d \notin B
    <3>1. d \in Ids
      BY DEF Due, Ids
    <3>2. d \in B => row'[d] = [Bumped(row[d]) EXCEPT !.retention = "expired"]
      BY <2>5, <3>1 DEF RetentionPass
    <3>3. Bump(d, row[d], Bumped(row[d]))
      BY <3>1, BumpedRow DEF IInv, TypeOK
    <3>4. [Bumped(row[d]) EXCEPT !.retention = "expired"].retention = "expired"
      BY <3>3 DEF Bump, Rows
    <3> QED
      BY <2>7, <3>2, <3>4 DEF Relevant
  <2> QED
    BY <2>5, <2>6, <2>7
<1> QED
  BY <1>1, Invariance, PTL DEF Spec, EarliestDeadlinesFirst
=============================================================================
