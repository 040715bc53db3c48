-------------------------- MODULE SharedWorldProofs --------------------------
(***************************************************************************)
(* The Shared World: what a deep purge leaves of its tables, and what a    *)
(* client is told of its threads.                                          *)
(***************************************************************************)
EXTENDS SharedWorldThreads, DeepPurge, WellFoundedInduction, TLAPS

(***************************************************************************)
(* Deep purge: the rows and links of the Shared World.                     *)
(***************************************************************************)

(* The tables and the rows beside them.                                    *)
PurgeTypes ==
  /\ db \in Tables
  /\ proposed \in Nat /\ recorded \in Nat
  /\ row \in [Threads -> [status : {"none", "planned", "completed"}, mode : Modes]]
  /\ receipts \in [Threads -> Seq({0, 1})]
  /\ purging \in Threads \cup {None}

(* An identity is given once, and none is given out of turn.               *)
IdsAreGivenOnce ==
  /\ \A p \in db.proposals : p.id <= proposed
  /\ \A p, q \in db.proposals : p.id = q.id => p = q
  /\ \A r \in db.records : r.id <= recorded
  /\ \A r, s \in db.records : r.id = s.id => r = s

(* A successor is younger than what it supersedes and stands on the same   *)
(* proposal or on none; a record that supersedes nothing is of the thread  *)
(* of the proposal it stands on.                                           *)
LineageStands ==
  /\ \A r, s \in db.records : r.supersedes = s.id =>
       s.id < r.id /\ r.basis \in {s.basis, None}
  /\ \A r \in db.records, p \in db.proposals :
       r.basis = p.id /\ r.supersedes = None => r.thread = p.thread

(* A link that does not start at a correction starts at a record and leads *)
(* to its thread, to a proposal or to what it supersedes.                  *)
LeadsFrom(r, to) ==
  \/ to = <<"thread", r.thread>> /\ r.thread # None
  \/ \E p \in db.proposals : to = <<"proposal", p.id>>
  \/ to = <<"record", r.supersedes>> /\ r.supersedes # None

LinksLead ==
  \A l \in db.links :
    \/ l.from[1] = "correction"
    \/ \E r \in db.records : l.from = <<"record", r.id>> /\ LeadsFrom(r, l.to)

(* A thread is gone only by a purge that was told to take its meaning.     *)
GoneOnPurpose ==
  \A t \in Threads : ~ThreadExists(t) =>
    receipts[t] # <<>> /\ row[t] = [status |-> "completed", mode |-> WithMeaning]

(* The inductive invariant. PurgeIsWhole says nothing of who stands on a   *)
(* proposal: that takes the lineage, and where a link starts takes the     *)
(* identities.                                                             *)
PurgeInv ==
  /\ PurgeTypes
  /\ ForeignKeysHold(db)
  /\ IdsAreGivenOnce
  /\ LineageStands
  /\ LinksLead
  /\ GoneOnPurpose

(* The rows of two of the tables.                                          *)
ProposalRow == [id : Nat, thread : Threads, pending : BOOLEAN, target : IdOrNone]
RecordRow ==
  [id : Nat, thread : Threads \cup {None}, basis : IdOrNone, supersedes : IdOrNone,
   state : {"current", "past", "removed"}]

(* The same rows, but for what is decided of them.                         *)
SameRecord(x, y) ==
  x.id = y.id /\ x.thread = y.thread /\ x.basis = y.basis /\ x.supersedes = y.supersedes

RecordsKeep(rs) ==
  /\ rs \subseteq RecordRow
  /\ \A x \in rs : \E y \in db.records : SameRecord(x, y)
  /\ \A y \in db.records : \E x \in rs : SameRecord(x, y)
  /\ \A x, y \in rs : x.id = y.id => x = y

ProposalsKeep(ps) ==
  /\ ps \subseteq ProposalRow
  /\ \A x \in ps : \E y \in db.proposals : x.id = y.id /\ x.thread = y.thread
  /\ \A y \in db.proposals : \E x \in ps : x.id = y.id /\ x.thread = y.thread
  /\ \A x, y \in ps : x.id = y.id => x = y

(* A new record, given the rows it refers to.                              *)
Stands(x) ==
  /\ x \in RecordRow
  /\ x.id = recorded + 1
  /\ x.thread \in IdsOf(db.threads) \cup {None}
  /\ x.basis \in IdsOf(db.proposals) \cup {None}
  /\ x.supersedes \in IdsOf(db.records) \cup {None}
  /\ \A s \in db.records : x.supersedes = s.id => x.basis \in {s.basis, None}
  /\ \A p \in db.proposals : x.basis = p.id /\ x.supersedes = None => x.thread = p.thread

(* Superseding a record changes its state and nothing else of the table.   *)
LEMMA Superseding ==
  ASSUME db \in Tables, IdsAreGivenOnce, NEW r \in db.records
  PROVE  RecordsKeep(Superseded(r))
<1> DEFINE s == [r EXCEPT !.state = "past"]
<1>1. r \in RecordRow /\ db.records \subseteq RecordRow
  BY DEF Tables, RecordRow
<1>2. s \in RecordRow /\ SameRecord(s, r)
  BY <1>1 DEF RecordRow, SameRecord
<1>3. \A x \in db.records : SameRecord(x, x)
  BY DEF SameRecord
<1>4. Superseded(r) = (db.records \ {r}) \cup {s}
  BY DEF Superseded
<1> HIDE DEF s
<1> QED
  BY <1>1, <1>2, <1>3, <1>4 DEF RecordsKeep, SameRecord, IdsAreGivenOnce

(* Deciding on a proposal settles it and changes nothing else of the       *)
(* table.                                                                  *)
LEMMA Deciding ==
  ASSUME db \in Tables, IdsAreGivenOnce, NEW p \in db.proposals
  PROVE  ProposalsKeep(Decided(p))
<1> DEFINE s == [p EXCEPT !.pending = FALSE]
<1>1. p \in ProposalRow /\ db.proposals \subseteq ProposalRow
  BY DEF Tables, ProposalRow
<1>2. s \in ProposalRow /\ s.id = p.id /\ s.thread = p.thread
  BY <1>1 DEF ProposalRow
<1>4. Decided(p) = (db.proposals \ {p}) \cup {s}
  BY DEF Decided
<1> HIDE DEF s
<1> QED
  BY <1>1, <1>2, <1>4 DEF ProposalsKeep, IdsAreGivenOnce

(* The rows of the others.                                                 *)
CorrectionRow == [id : Nat, thread : Threads \cup {None}]
AmendmentRow == [of : Nat, successor : Nat, thread : Threads \cup {None}]
ChallengeRow == [existing : Nat, incoming : Nat, thread : Threads]
LinkRow == [from : Refs, to : Refs]

(* What the ceremonies do to the tables: rows are decided on, and some are *)
(* made.                                                                   *)
MadeRight(made) ==
  \/ made = {} /\ recorded' = recorded
  \/ \E x : made = {x} /\ Stands(x) /\ recorded' = recorded + 1

DraftedRight(drafted) ==
  \/ drafted = {} /\ proposed' = proposed
  \/ \E x \in ProposalRow : /\ drafted = {x} /\ x.id = proposed + 1
                            /\ proposed' = proposed + 1
                            /\ x.thread \in IdsOf(db.threads)

(* What a step adds to a table of the ceremonies refers to rows that are   *)
(* there or are made with it.                                              *)
CorrectionsStand(cs) ==
  \A c \in cs : c \in db.corrections \/ c.thread \in IdsOf(db.threads) \cup {None}

AmendmentsStand(as, rs, made) ==
  \A a \in as :
    \/ a \in db.amendments
    \/ \E r \in rs, x \in made : a = [of |-> r.id, successor |-> x.id, thread |-> x.thread]

ChallengesStand(hs, rs, ps) ==
  \A c \in hs :
    \/ c \in db.challenges
    \/ \E r \in rs, p \in ps : c = [existing |-> r.id, incoming |-> p.id, thread |-> p.thread]

LinksStand(ls, made) ==
  \A l \in ls :
    \/ l \in db.links \/ l.from[1] = "correction"
    \/ \E x \in made : l.from = <<"record", x.id>> /\ LeadsFrom(x, l.to)

Grown(rs, ps, made, drafted) ==
  /\ RecordsKeep(rs) /\ ProposalsKeep(ps)
  /\ MadeRight(made) /\ DraftedRight(drafted)
  /\ db' \in Tables
  /\ db'.records = rs \cup made /\ db'.proposals = ps \cup drafted
  /\ IdsOf(db'.threads) = IdsOf(db.threads)
  /\ db'.linked \cup db'.assemblies \subseteq IdsOf(db.threads) \cup {None}
  /\ CorrectionsStand(db'.corrections)
  /\ AmendmentsStand(db'.amendments, rs, made)
  /\ ChallengesStand(db'.challenges, rs, ps)
  /\ LinksStand(db'.links, made)

(* The part of the invariant that is about the tables alone.               *)
RowsInOrder ==
  /\ db \in Tables /\ proposed \in Nat /\ recorded \in Nat
  /\ ForeignKeysHold(db) /\ IdsAreGivenOnce /\ LineageStands /\ LinksLead

(* Whatever writes no more than this keeps the tables in order: every      *)
(* ceremony is reduced to it.                                              *)
LEMMA GrowthKeepsOrder ==
  ASSUME RowsInOrder, NEW rs, NEW ps, NEW made, NEW drafted, Grown(rs, ps, made, drafted)
  PROVE  RowsInOrder'
<1> USE NoneIsNoThread
<1> USE DEF MadeRight, DraftedRight, CorrectionsStand, AmendmentsStand, ChallengesStand,
            LinksStand
<1> DEFINE T == IdsOf(db.threads) \cup {None}
           P == IdsOf(db.proposals) \cup {None}
           R == IdsOf(db.records) \cup {None}
<1>1. /\ db.records \subseteq RecordRow /\ db.proposals \subseteq ProposalRow
      /\ recorded \in Nat /\ proposed \in Nat
  BY DEF RowsInOrder, Tables, RecordRow, ProposalRow
<1>2. /\ rs \subseteq RecordRow /\ ps \subseteq ProposalRow
      /\ \A x \in rs : \E y \in db.records : SameRecord(x, y)
      /\ \A y \in db.records : \E x \in rs : SameRecord(x, y)
      /\ \A x, y \in rs : x.id = y.id => x = y
      /\ \A x \in ps : \E y \in db.proposals : x.id = y.id /\ x.thread = y.thread
      /\ \A y \in db.proposals : \E x \in ps : x.id = y.id /\ x.thread = y.thread
      /\ \A x, y \in ps : x.id = y.id => x = y
  BY DEF Grown, RecordsKeep, ProposalsKeep
<1>3. /\ \A x \in made : Stands(x) /\ recorded' = recorded + 1
      /\ \A x, y \in made : x = y
  BY DEF Grown
<1>4. /\ \A x \in drafted : /\ x \in ProposalRow /\ x.id = proposed + 1
                            /\ proposed' = proposed + 1 /\ x.thread \in T
      /\ \A x, y \in drafted : x = y
  BY DEF Grown
<1>5. /\ IdsOf(db'.records) = IdsOf(db.records) \cup IdsOf(made)
      /\ IdsOf(db'.proposals) = IdsOf(db.proposals) \cup IdsOf(drafted)
  <2>1. IdsOf(rs) = IdsOf(db.records)
    BY <1>2 DEF IdsOf, SameRecord
  <2>2. IdsOf(ps) = IdsOf(db.proposals)
    BY <1>2 DEF IdsOf
  <2>3. db'.records = rs \cup made /\ db'.proposals = ps \cup drafted
    BY DEF Grown
  <2>4. IdsOf(rs \cup made) = IdsOf(rs) \cup IdsOf(made)
    BY DEF IdsOf
  <2>5. IdsOf(ps \cup drafted) = IdsOf(ps) \cup IdsOf(drafted)
    BY DEF IdsOf
  <2> QED
    BY <2>1, <2>2, <2>3, <2>4, <2>5
<1>6. ForeignKeysHold(db')
  <2> DEFINE T2 == IdsOf(db'.threads) \cup {None}
             P2 == IdsOf(db'.proposals) \cup {None}
             R2 == IdsOf(db'.records) \cup {None}
  <2>0. T2 = T /\ P \subseteq P2 /\ R \subseteq R2
    BY <1>5 DEF Grown
  <2>1. db'.linked \cup db'.assemblies \subseteq T2
    BY <2>0 DEF Grown
  <2>2. \A p \in db'.proposals : p.thread \in T2
    BY <1>2, <1>4, <2>0 DEF Grown, RowsInOrder, ForeignKeysHold
  <2>3. \A r \in db'.records : r.thread \in T2 /\ r.basis \in P2 /\ r.supersedes \in R2
    <3>1. \A r \in db.records : r.thread \in T /\ r.basis \in P /\ r.supersedes \in R
      BY DEF RowsInOrder, ForeignKeysHold
    <3>2. \A r \in rs : r.thread \in T /\ r.basis \in P /\ r.supersedes \in R
      BY <1>2, <3>1 DEF SameRecord
    <3>3. \A r \in made : r.thread \in T /\ r.basis \in P /\ r.supersedes \in R
      BY <1>3 DEF Stands
    <3> QED
      BY <2>0, <3>2, <3>3 DEF Grown
  <2>4. \A c \in db'.corrections : c.thread \in T2
    BY <2>0 DEF Grown, RowsInOrder, ForeignKeysHold
  <2>5. \A a \in db'.amendments : a.of \in R2 /\ a.successor \in R2 /\ a.thread \in T2
    <3> SUFFICES ASSUME NEW a \in db'.amendments
                 PROVE  a.of \in R2 /\ a.successor \in R2 /\ a.thread \in T2
      OBVIOUS
    <3>1. CASE a \in db.amendments
      BY <2>0, <3>1 DEF RowsInOrder, ForeignKeysHold
    <3>2. CASE a \notin db.amendments
      <4>1. PICK r \in rs, x \in made :
              a = [of |-> r.id, successor |-> x.id, thread |-> x.thread]
        BY <3>2 DEF Grown
      <4>2. r.id \in IdsOf(db'.records) /\ x.id \in IdsOf(db'.records)
        BY DEF Grown, IdsOf
      <4>3. x.thread \in T
        BY <1>3 DEF Stands
      <4> QED
        BY <2>0, <4>1, <4>2, <4>3
    <3> QED
      BY <3>1, <3>2
  <2>6. \A c \in db'.challenges : c.existing \in R2 /\ c.incoming \in P2 /\ c.thread \in T2
    <3> SUFFICES ASSUME NEW c \in db'.challenges
                 PROVE  c.existing \in R2 /\ c.incoming \in P2 /\ c.thread \in T2
      OBVIOUS
    <3>1. CASE c \in db.challenges
      BY <2>0, <3>1 DEF RowsInOrder, ForeignKeysHold
    <3>2. CASE c \notin db.challenges
      <4>1. PICK r \in rs, p \in ps :
              c = [existing |-> r.id, incoming |-> p.id, thread |-> p.thread]
        BY <3>2 DEF Grown
      <4>2. r.id \in IdsOf(db'.records) /\ p.id \in IdsOf(db'.proposals)
        BY DEF Grown, IdsOf
      <4>3. p.thread \in T2
        BY <2>2 DEF Grown
      <4> QED
        BY <4>1, <4>2, <4>3
    <3> QED
      BY <3>1, <3>2
  <2> QED
    BY <2>1, <2>2, <2>3, <2>4, <2>5, <2>6 DEF ForeignKeysHold
<1>7. IdsAreGivenOnce'
  <2>1. \A r \in rs : r.id <= recorded
    BY <1>1, <1>2 DEF RowsInOrder, IdsAreGivenOnce, SameRecord
  <2>2. \A p \in ps : p.id <= proposed
    BY <1>1, <1>2 DEF RowsInOrder, IdsAreGivenOnce
  <2>3. /\ \A r \in db'.records : r.id <= recorded'
        /\ \A r, s \in db'.records : r.id = s.id => r = s
    BY <1>1, <1>2, <1>3, <2>1 DEF Grown, Stands, RecordRow
  <2>4. /\ \A p \in db'.proposals : p.id <= proposed'
        /\ \A p, q \in db'.proposals : p.id = q.id => p = q
    BY <1>1, <1>2, <1>4, <2>2 DEF Grown, ProposalRow
  <2> QED
    BY <2>3, <2>4 DEF IdsAreGivenOnce
<1>8. LineageStands'
  <2>1. \A r \in db.records : r.id \in 0 .. recorded /\ r.supersedes \in (0 .. recorded) \cup {None}
    BY <1>1 DEF RowsInOrder, ForeignKeysHold, IdsAreGivenOnce, IdsOf, RecordRow
  <2>2. ASSUME NEW r \in db'.records, NEW s \in db'.records, r.supersedes = s.id
        PROVE  s.id < r.id /\ r.basis \in {s.basis, None}
    <3>0. s.id \in Nat
      BY <1>2, <1>3 DEF Grown, RecordRow, Stands
    <3>1. CASE r \in rs
      <4>1. PICK y \in db.records : SameRecord(r, y)
        BY <1>2, <3>1
      <4>2. s \in rs
        <5>1. s.id <= recorded
          BY <1>1, <2>1, <2>2, <3>0, <4>1 DEF SameRecord
        <5>2. \A x \in made : x.id = recorded + 1
          BY <1>3 DEF Stands
        <5> QED
          BY <1>1, <3>0, <5>1, <5>2 DEF Grown
      <4>3. PICK z \in db.records : SameRecord(s, z)
        BY <1>2, <4>2
      <4> QED
        BY <2>2, <4>1, <4>3 DEF RowsInOrder, LineageStands, SameRecord
    <3>2. CASE r \in made
      <4>1. Stands(r)
        BY <1>3, <3>2
      <4>2. s \in rs
        BY <1>1, <1>3, <2>1, <2>2, <3>0, <4>1 DEF Grown, Stands, IdsOf
      <4>3. PICK z \in db.records : SameRecord(s, z)
        BY <1>2, <4>2
      <4> QED
        BY <1>1, <2>1, <2>2, <4>1, <4>3 DEF Stands, SameRecord
    <3> QED
      BY <3>1, <3>2 DEF Grown
  <2>3. ASSUME NEW r \in db'.records, NEW p \in db'.proposals, r.basis = p.id,
               r.supersedes = None
        PROVE  r.thread = p.thread
    <3>1. \A y \in db.records : y.basis \in (0 .. proposed) \cup {None}
      BY <1>1 DEF RowsInOrder, ForeignKeysHold, IdsAreGivenOnce, IdsOf, ProposalRow
    <3>2. \A x \in made : x.basis \in (0 .. proposed) \cup {None}
      BY <1>1, <1>3 DEF RowsInOrder, IdsAreGivenOnce, IdsOf, ProposalRow, Stands
    <3>3. r.basis \in (0 .. proposed) \cup {None} /\ p.id \in Nat
      BY <1>2, <1>4, <3>1, <3>2 DEF Grown, SameRecord, ProposalRow
    <3>4. p \in ps
      BY <1>1, <1>4, <2>3, <3>3 DEF Grown
    <3>5. PICK q \in db.proposals : p.id = q.id /\ p.thread = q.thread
      BY <1>2, <3>4
    <3>6. CASE r \in rs
      <4>1. PICK y \in db.records : SameRecord(r, y)
        BY <1>2, <3>6
      <4> QED
        BY <2>3, <3>5, <4>1 DEF RowsInOrder, LineageStands, SameRecord
    <3>7. CASE r \in made
      BY <1>3, <2>3, <3>5, <3>7 DEF Stands
    <3> QED
      BY <3>6, <3>7 DEF Grown
  <2> QED
    BY <2>2, <2>3 DEF LineageStands
<1>9. LinksLead'
  <2>1. ASSUME NEW l \in db'.links, l.from[1] # "correction"
        PROVE  \E r \in db'.records : /\ l.from = <<"record", r.id>>
                                      /\ LeadsFrom(r, l.to)'
    <3>1. CASE l \in db.links
      <4>1. PICK y \in db.records : l.from = <<"record", y.id>> /\ LeadsFrom(y, l.to)
        BY <2>1, <3>1 DEF RowsInOrder, LinksLead
      <4>2. PICK r \in rs : SameRecord(r, y)
        BY <1>2
      <4>3. \A p \in db.proposals : \E q \in db'.proposals : q.id = p.id
        BY <1>2 DEF Grown
      <4> QED
        BY <4>1, <4>2, <4>3 DEF LeadsFrom, SameRecord, Grown
    <3>2. CASE l \notin db.links
      <4>1. PICK x \in made : l.from = <<"record", x.id>> /\ LeadsFrom(x, l.to)
        BY <2>1, <3>2 DEF Grown
      <4>3. \A p \in db.proposals : \E q \in db'.proposals : q.id = p.id
        BY <1>2 DEF Grown
      <4> QED
        BY <4>1, <4>3 DEF LeadsFrom, Grown
    <3> QED
      BY <3>1, <3>2
  <2> QED
    BY <2>1 DEF LinksLead
<1> QED
  BY <1>1, <1>6, <1>7, <1>8, <1>9 DEF RowsInOrder, Grown

(* The tables after a ceremony.                                            *)
WrittenAs(ps, rs, cs, as, hs, ls) ==
  [db EXCEPT !.proposals = ps, !.records = rs, !.corrections = cs,
             !.amendments = as, !.challenges = hs, !.links = ls]

(* What a ceremony does not write is kept.                                 *)
LEMMA Kept ==
  ASSUME RowsInOrder
  PROVE  /\ RecordsKeep(db.records) /\ ProposalsKeep(db.proposals)
         /\ db.records \in SUBSET RecordRow /\ db.proposals \in SUBSET ProposalRow
         /\ db.corrections \in SUBSET CorrectionRow
         /\ db.amendments \in SUBSET AmendmentRow
         /\ db.challenges \in SUBSET ChallengeRow /\ db.links \in SUBSET LinkRow
         /\ db.linked \cup db.assemblies \subseteq IdsOf(db.threads) \cup {None}
<1>1. /\ db.records \in SUBSET RecordRow /\ db.proposals \in SUBSET ProposalRow
      /\ db.corrections \in SUBSET CorrectionRow
      /\ db.amendments \in SUBSET AmendmentRow
      /\ db.challenges \in SUBSET ChallengeRow /\ db.links \in SUBSET LinkRow
  BY DEF RowsInOrder, Tables, RecordRow, ProposalRow, CorrectionRow, AmendmentRow,
         ChallengeRow, LinkRow
<1>2. RecordsKeep(db.records) /\ ProposalsKeep(db.proposals)
  BY <1>1 DEF RowsInOrder, IdsAreGivenOnce, RecordsKeep, ProposalsKeep, SameRecord
<1>3. db.linked \cup db.assemblies \subseteq IdsOf(db.threads) \cup {None}
  BY DEF RowsInOrder, ForeignKeysHold
<1> QED
  BY <1>1, <1>2, <1>3

(* A step of the ceremonies grows the tables.                              *)
LEMMA WritingGrows ==
  ASSUME RowsInOrder,
         NEW rs, NEW ps, NEW made, NEW drafted, RecordsKeep(rs), ProposalsKeep(ps),
         NEW cs \in SUBSET CorrectionRow, NEW as \in SUBSET AmendmentRow,
         NEW hs \in SUBSET ChallengeRow, NEW ls \in SUBSET LinkRow,
         db' = WrittenAs(ps \cup drafted, rs \cup made, cs, as, hs, ls),
         MadeRight(made), DraftedRight(drafted),
         CorrectionsStand(cs), AmendmentsStand(as, rs, made),
         ChallengesStand(hs, rs, ps), LinksStand(ls, made)
  PROVE  RowsInOrder'
<1>1. rs \cup made \in SUBSET RecordRow /\ ps \cup drafted \in SUBSET ProposalRow
  BY DEF RecordsKeep, ProposalsKeep, MadeRight, DraftedRight, Stands
<1>2. /\ db' \in Tables
      /\ db'.threads = db.threads /\ db'.linked = db.linked
      /\ db'.assemblies = db.assemblies
      /\ db'.proposals = ps \cup drafted /\ db'.records = rs \cup made
      /\ db'.corrections = cs /\ db'.amendments = as
      /\ db'.challenges = hs /\ db'.links = ls
  <2> DEFINE after == ps \cup drafted
             now == rs \cup made
  <2>1. db \in Tables /\ now \in SUBSET RecordRow /\ after \in SUBSET ProposalRow
    BY <1>1 DEF RowsInOrder
  <2>2. db' = [db EXCEPT !.proposals = after, !.records = now, !.corrections = cs,
                         !.amendments = as, !.challenges = hs, !.links = ls]
    BY DEF WrittenAs
  <2> HIDE DEF after, now
  <2>3. /\ db' \in Tables
        /\ db'.threads = db.threads /\ db'.linked = db.linked
        /\ db'.assemblies = db.assemblies
        /\ db'.proposals = after /\ db'.records = now
        /\ db'.corrections = cs /\ db'.amendments = as
        /\ db'.challenges = hs /\ db'.links = ls
    BY <2>1, <2>2 DEF Tables, ProposalRow, RecordRow, CorrectionRow, AmendmentRow,
                      ChallengeRow, LinkRow
  <2> QED
    BY <2>3 DEF after, now
<1>3. Grown(rs, ps, made, drafted)
  BY <1>2, Kept DEF Grown
<1> QED
  BY <1>3, GrowthKeepsOrder

(* What is only kept.                                                      *)
LEMMA KeptStands ==
  ASSUME NEW rs, NEW ps, NEW made
  PROVE  /\ CorrectionsStand(db.corrections) /\ AmendmentsStand(db.amendments, rs, made)
         /\ ChallengesStand(db.challenges, rs, ps) /\ LinksStand(db.links, made)
         /\ recorded' = recorded => MadeRight({})
         /\ proposed' = proposed => DraftedRight({})
  BY DEF CorrectionsStand, AmendmentsStand, ChallengesStand, LinksStand, MadeRight, DraftedRight

(* A proposal refers to the thread of the turn that made it.               *)
LEMMA ProposeKeepsOrder ==
  ASSUME RowsInOrder, NEW t \in Threads, NEW target \in IdsOf(Current) \cup {None},
         Propose(t, target)
  PROVE  RowsInOrder'
<1> DEFINE new == [id |-> proposed', thread |-> t, pending |-> TRUE, target |-> target]
<1>1. new \in ProposalRow /\ new.id = proposed + 1 /\ new.thread \in IdsOf(db.threads)
  <2>1. target \in IdOrNone
    BY DEF RowsInOrder, Tables, Current, IdsOf, IdOrNone
  <2>2. proposed' \in Nat
    BY DEF RowsInOrder, Propose
  <2> QED
    BY <2>1, <2>2 DEF ProposalRow, Propose, ThreadExists
<1>2. db' = WrittenAs(db.proposals \cup {new}, db.records \cup {}, db.corrections,
                      db.amendments, db.challenges, db.links)
  BY DEF Propose, WrittenAs, RowsInOrder, Tables
<1>3. proposed' = proposed + 1 /\ recorded' = recorded
  BY DEF Propose
<1> HIDE DEF new
<1>4. DraftedRight({new})
  BY <1>1, <1>3 DEF DraftedRight
<1> QED
  BY <1>2, <1>3, <1>4, Kept, KeptStands, WritingGrows

(* A challenge refers to the record and to the proposal it sets against    *)
(* it.                                                                     *)
LEMMA ChallengeKeepsOrder ==
  ASSUME RowsInOrder, NEW p \in db.proposals, NEW r \in Current, Challenge(p, r)
  PROVE  RowsInOrder'
<1> DEFINE new == [existing |-> r.id, incoming |-> p.id, thread |-> p.thread]
<1>0. r \in db.records
  BY DEF Current
<1>1. new \in ChallengeRow
  BY <1>0, Kept DEF ChallengeRow, RecordRow, ProposalRow
<1>2. db' = WrittenAs(db.proposals \cup {}, db.records \cup {}, db.corrections,
                      db.amendments, db.challenges \cup {new}, db.links)
  BY DEF Challenge, WrittenAs, RowsInOrder, Tables
<1>3. proposed' = proposed /\ recorded' = recorded
  BY DEF Challenge
<1>4. ChallengesStand(db.challenges \cup {new}, db.records, db.proposals)
  BY <1>0 DEF ChallengesStand
<1>5. db.challenges \cup {new} \in SUBSET ChallengeRow
  BY <1>1, Kept
<1> HIDE DEF new
<1> QED
  BY <1>2, <1>3, <1>4, <1>5, Kept, KeptStands, WritingGrows

(* The links of a new record to its thread.                                *)
LEMMA ThreadLinks ==
  ASSUME NEW k \in {"record", "correction"}, NEW id \in Nat,
         NEW t \in Threads \cup {None}
  PROVE  /\ ThreadLink(<<k, id>>, t) \in SUBSET LinkRow
         /\ \A l \in ThreadLink(<<k, id>>, t) :
              l.from = <<k, id>> /\ l.to = <<"thread", t>> /\ t # None
  BY DEF ThreadLink, LinkRow, Refs

(* A note saved directly stands on nothing but its thread.                 *)
LEMMA SaveKeepsOrder ==
  ASSUME RowsInOrder, NEW t \in Threads \cup {None}, SaveDirectly(t)
  PROVE  RowsInOrder'
<1> USE NoneIsNoThread
<1> DEFINE new == NewRecord(recorded', t, None, None)
           ls == db.links \cup ThreadLink(<<"record", recorded'>>, t)
<1>0. recorded' = recorded + 1 /\ recorded' \in Nat /\ proposed' = proposed
  BY DEF SaveDirectly, RowsInOrder
<1>1. /\ new.id = recorded + 1 /\ new.id = recorded' /\ new.thread = t
      /\ new.basis = None /\ new.supersedes = None /\ new \in RecordRow
  BY <1>0 DEF NewRecord, RecordRow, IdOrNone
<1>2. Stands(new)
  <2>1. t \in IdsOf(db.threads) \cup {None}
    BY DEF SaveDirectly, ThreadExists
  <2>2. (\A s \in db.records : s.id \in Nat) /\ (\A p \in db.proposals : p.id \in Nat)
    BY Kept DEF RecordRow, ProposalRow
  <2> HIDE DEF new
  <2> QED
    BY <1>1, <2>1, <2>2 DEF Stands
<1>3. db' = WrittenAs(db.proposals \cup {}, db.records \cup {new}, db.corrections,
                      db.amendments, db.challenges, ls)
  BY DEF SaveDirectly, WrittenAs, RowsInOrder, Tables
<1>4. /\ ls \in SUBSET LinkRow
      /\ \A l \in ls : \/ l \in db.links
                       \/ l.from = <<"record", new.id>> /\ LeadsFrom(new, l.to)
  BY <1>0, <1>1, Kept, ThreadLinks DEF LeadsFrom
<1> HIDE DEF new, ls
<1>5. LinksStand(ls, {new}) /\ MadeRight({new})
  BY <1>0, <1>2, <1>4 DEF LinksStand, MadeRight
<1> QED
  BY <1>0, <1>3, <1>4, <1>5, Kept, KeptStands, WritingGrows

(* A correction, alone or when its proposal is confirmed.                  *)
LEMMA CorrectedKeepsOrder ==
  ASSUME RowsInOrder, NEW r \in Current, NEW t \in IdsOf(db.threads) \cup {None},
         NEW ps, ProposalsKeep(ps), NEW ls \in SUBSET LinkRow,
         LinksStand(ls, {NewRecord(recorded', t, r.basis, r.id)}),
         recorded' = recorded + 1, proposed' = proposed,
         db' = Corrected([db EXCEPT !.proposals = ps, !.links = ls], r, recorded', t)
  PROVE  RowsInOrder'
<1> USE NoneIsNoThread
<1> DEFINE new == NewRecord(recorded', t, r.basis, r.id)
           cs == db.corrections \cup {[id |-> recorded', thread |-> t]}
           all == ls \cup ThreadLink(<<"record", recorded'>>, t) \cup
                    {[from |-> <<k, recorded'>>, to |-> <<"record", r.id>>] :
                       k \in {"record", "correction"}}
<1>0. recorded' \in Nat
  BY DEF RowsInOrder
<1>1. r \in db.records /\ r \in RecordRow /\ t \in Threads \cup {None}
  <2>1. IdsOf(db.threads) \subseteq Threads
    BY DEF RowsInOrder, Tables, IdsOf
  <2> QED
    BY <2>1, Kept DEF Current
<1>2. /\ new.id = recorded + 1 /\ new.id = recorded' /\ new.thread = t
      /\ new.basis = r.basis /\ new.supersedes = r.id /\ new \in RecordRow
      /\ new.supersedes \in Nat
  BY <1>0, <1>1 DEF NewRecord, RecordRow, IdOrNone
<1> HIDE DEF new
<1>3. Stands(new)
  <2>1. r.basis \in IdsOf(db.proposals) \cup {None} /\ r.id \in IdsOf(db.records)
    BY <1>1 DEF RowsInOrder, ForeignKeysHold, IdsOf
  <2>2. \A s \in db.records : new.supersedes = s.id => s = r
    BY <1>1, <1>2 DEF RowsInOrder, IdsAreGivenOnce
  <2> QED
    BY <1>2, <2>1, <2>2 DEF Stands
<1>4. db' = WrittenAs(ps \cup {}, Superseded(r) \cup {new}, cs, db.amendments,
                      db.challenges, all)
  BY DEF Corrected, WrittenAs, RowsInOrder, Tables, new
<1>5. cs \in SUBSET CorrectionRow /\ CorrectionsStand(cs)
  <2>1. [id |-> recorded', thread |-> t] \in CorrectionRow
    BY <1>0, <1>1 DEF CorrectionRow
  <2> QED
    BY <2>1, Kept DEF CorrectionsStand
<1>6. /\ all \in SUBSET LinkRow
      /\ \A l \in all :
           \/ l \in ls \/ l.from[1] = "correction"
           \/ l.from = <<"record", new.id>> /\ LeadsFrom(new, l.to)
  <2> DEFINE two == {[from |-> <<k, recorded'>>, to |-> <<"record", r.id>>] :
                       k \in {"record", "correction"}}
  <2>1. /\ two \in SUBSET LinkRow
        /\ \A l \in two : l.to = <<"record", r.id>> /\ \E k \in {"record", "correction"} :
                            l.from = <<k, recorded'>>
    BY <1>0, <1>1 DEF LinkRow, Refs, RecordRow
  <2>2. \A l \in two : \/ l.from[1] = "correction"
                       \/ l.from = <<"record", new.id>> /\ LeadsFrom(new, l.to)
    BY <1>2, <2>1 DEF LeadsFrom
  <2>3. /\ ThreadLink(<<"record", recorded'>>, t) \in SUBSET LinkRow
        /\ \A l \in ThreadLink(<<"record", recorded'>>, t) :
             l.from = <<"record", new.id>> /\ LeadsFrom(new, l.to)
    BY <1>0, <1>1, <1>2, ThreadLinks DEF LeadsFrom
  <2> HIDE DEF two
  <2>4. all = ls \cup ThreadLink(<<"record", recorded'>>, t) \cup two
    BY DEF two
  <2> HIDE DEF all
  <2> QED
    BY <2>1, <2>2, <2>3, <2>4
<1> HIDE DEF all
<1>7. LinksStand(all, {new}) /\ MadeRight({new})
  BY <1>3, <1>6 DEF LinksStand, MadeRight, new
<1>8. RecordsKeep(Superseded(r))
  BY <1>1, Superseding DEF RowsInOrder
<1> HIDE DEF cs
<1> QED
  BY <1>4, <1>5, <1>6, <1>7, <1>8, Kept, KeptStands, WritingGrows

(* A correction of a current record, from the inspection surface.          *)
LEMMA CorrectKeepsOrder ==
  ASSUME RowsInOrder, NEW r \in Current, Correct(r)
  PROVE  RowsInOrder'
<1>1. r.thread \in IdsOf(db.threads) \cup {None}
  BY DEF RowsInOrder, ForeignKeysHold, Current
<1>2. db = [db EXCEPT !.proposals = db.proposals, !.links = db.links]
  BY DEF RowsInOrder, Tables
<1>3. /\ db' = Corrected([db EXCEPT !.proposals = db.proposals, !.links = db.links],
                         r, recorded', r.thread)
      /\ recorded' = recorded + 1 /\ proposed' = proposed
  BY <1>2 DEF Correct
<1> QED
  BY <1>1, <1>3, Kept, KeptStands, CorrectedKeepsOrder

(* A confirmation makes the first record that stands on its proposal, or   *)
(* corrects the target of the proposal.                                    *)
LEMMA ConfirmKeepsOrder ==
  ASSUME RowsInOrder, NEW p \in db.proposals, Confirm(p)
  PROVE  RowsInOrder'
<1> USE NoneIsNoThread
<1> DEFINE from == [from |-> <<"record", recorded'>>, to |-> <<"proposal", p.id>>]
           d == [db EXCEPT !.proposals = Decided(p), !.links = @ \cup {from}]
<1>0. recorded' = recorded + 1 /\ recorded' \in Nat /\ proposed' = proposed
  BY DEF Confirm, RowsInOrder
<1>1. /\ p \in ProposalRow /\ p.thread \in IdsOf(db.threads)
      /\ p.thread \in Threads /\ p.id \in IdsOf(db.proposals) /\ p.id \in Nat
  <2>1. p \in ProposalRow
    BY Kept
  <2> QED
    BY <2>1 DEF RowsInOrder, ForeignKeysHold, IdsOf, ProposalRow
<1>2. db.links \cup {from} \in SUBSET LinkRow
  BY <1>0, <1>1, Kept DEF LinkRow, Refs
<1>3. ProposalsKeep(Decided(p))
  BY Deciding DEF RowsInOrder
<1>4. ASSUME NEW x, x.id = recorded'
      PROVE  LinksStand(db.links \cup {from}, {x})
  <2>1. from.from = <<"record", x.id>> /\ LeadsFrom(x, from.to)
    BY <1>4 DEF LeadsFrom
  <2> HIDE DEF from
  <2> QED
    BY <2>1 DEF LinksStand
<1>5. CASE p.target = None
  <2> DEFINE new == NewRecord(recorded', p.thread, p.id, None)
             ls == db.links \cup {from} \cup ThreadLink(<<"record", recorded'>>, p.thread)
  <2>1. \A r \in Current : r.id # None
    BY Kept DEF Current, RecordRow
  <2>2. db' = [d EXCEPT !.records = @ \cup {new},
                        !.links = @ \cup ThreadLink(<<"record", recorded'>>, p.thread)]
    BY <1>5, <2>1 DEF Confirm
  <2>3. db' = WrittenAs(Decided(p) \cup {}, db.records \cup {new}, db.corrections,
                        db.amendments, db.challenges, ls)
    BY <2>2 DEF WrittenAs, RowsInOrder, Tables
  <2>4. /\ new.id = recorded + 1 /\ new.id = recorded' /\ new.thread = p.thread
        /\ new.basis = p.id /\ new.supersedes = None /\ new \in RecordRow
    BY <1>0, <1>1 DEF NewRecord, RecordRow, IdOrNone
  <2> HIDE DEF new
  <2>5. Stands(new)
    <3>1. \A s \in db.records : s.id # None
      BY Kept DEF RecordRow
    <3>2. \A q \in db.proposals : q.id = p.id => q = p
      BY DEF RowsInOrder, IdsAreGivenOnce
    <3> QED
      BY <1>1, <2>4, <3>1, <3>2 DEF Stands
  <2>6. ls \in SUBSET LinkRow /\ LinksStand(ls, {new})
    <3>1. LinksStand(db.links \cup {from}, {new})
      BY <1>4, <2>4
    <3>2. /\ ThreadLink(<<"record", recorded'>>, p.thread) \in SUBSET LinkRow
          /\ \A l \in ThreadLink(<<"record", recorded'>>, p.thread) :
               l.from = <<"record", new.id>> /\ LeadsFrom(new, l.to)
      BY <1>0, <1>1, <2>4, ThreadLinks DEF LeadsFrom
    <3> HIDE DEF from
    <3> QED
      BY <1>2, <3>1, <3>2 DEF LinksStand
  <2> HIDE DEF ls
  <2> QED
    BY <1>0, <1>3, <2>3, <2>5, <2>6, Kept, KeptStands, WritingGrows DEF MadeRight
<1>6. CASE p.target # None
  <2>1. PICK r \in Current : db' = Corrected(d, r, recorded', p.thread)
    BY <1>6 DEF Confirm
  <2>2. d = [db EXCEPT !.proposals = Decided(p), !.links = db.links \cup {from}]
    BY DEF RowsInOrder, Tables
  <2>3. NewRecord(recorded', p.thread, r.basis, r.id).id = recorded'
    BY DEF NewRecord
  <2>4. LinksStand(db.links \cup {from}, {NewRecord(recorded', p.thread, r.basis, r.id)})
    BY <1>4, <2>3
  <2> HIDE DEF from, d
  <2> QED
    BY <1>0, <1>1, <1>2, <1>3, <2>1, <2>2, <2>4, CorrectedKeepsOrder
<1> QED
  BY <1>5, <1>6

(* The successor of an amended record is of its thread and stands on no    *)
(* proposal.                                                               *)
LEMMA AmendKeepsOrder ==
  ASSUME RowsInOrder, NEW r \in Current, Amend(r)
  PROVE  RowsInOrder'
<1> USE NoneIsNoThread
<1> DEFINE new == NewRecord(recorded', r.thread, None, r.id)
           made == [of |-> r.id, successor |-> recorded', thread |-> r.thread]
           as == db.amendments \cup {made}
           link == [from |-> <<"record", recorded'>>, to |-> <<"record", r.id>>]
           ls == db.links \cup {link}
<1>0. recorded' = recorded + 1 /\ recorded' \in Nat /\ proposed' = proposed
  BY DEF Amend, RowsInOrder
<1>1. r \in db.records /\ r \in RecordRow
  BY Kept DEF Current
<1>2. /\ new.id = recorded + 1 /\ new.id = recorded' /\ new.thread = r.thread
      /\ new.basis = None /\ new.supersedes = r.id /\ new \in RecordRow
      /\ new.supersedes \in Nat
  BY <1>0, <1>1 DEF NewRecord, RecordRow, IdOrNone
<1>3. db' = WrittenAs(db.proposals \cup {}, Superseded(r) \cup {new}, db.corrections, as,
                      db.challenges, ls)
  BY DEF Amend, WrittenAs, RowsInOrder, Tables
<1> HIDE DEF new
<1>4. Stands(new)
  <2>1. r.thread \in IdsOf(db.threads) \cup {None} /\ r.id \in IdsOf(db.records)
    BY <1>1 DEF RowsInOrder, ForeignKeysHold, IdsOf
  <2>2. (\A s \in db.records : s.id \in Nat) /\ (\A p \in db.proposals : p.id \in Nat)
    BY Kept DEF RecordRow, ProposalRow
  <2> QED
    BY <1>2, <2>1, <2>2 DEF Stands
<1>5. RecordsKeep(Superseded(r))
  BY <1>1, Superseding DEF RowsInOrder
<1>6. as \in SUBSET AmendmentRow /\ AmendmentsStand(as, Superseded(r), {new})
  <2>1. made \in AmendmentRow
    BY <1>0, <1>1 DEF AmendmentRow, RecordRow
  <2>2. \E x \in Superseded(r) : x.id = r.id
    BY <1>1, <1>5 DEF RecordsKeep, SameRecord
  <2>3. \E x \in Superseded(r), y \in {new} :
          made = [of |-> x.id, successor |-> y.id, thread |-> y.thread]
    BY <1>2, <2>2
  <2> HIDE DEF made
  <2> QED
    BY <2>1, <2>3, Kept DEF AmendmentsStand
<1>7. ls \in SUBSET LinkRow /\ LinksStand(ls, {new})
  <2>1. link \in LinkRow /\ link.from = <<"record", new.id>> /\ LeadsFrom(new, link.to)
    BY <1>0, <1>1, <1>2 DEF LinkRow, Refs, RecordRow, LeadsFrom
  <2> HIDE DEF link
  <2> QED
    BY <2>1, Kept DEF LinksStand
<1> HIDE DEF as, ls
<1> QED
  BY <1>0, <1>3, <1>4, <1>5, <1>6, <1>7, Kept, KeptStands, WritingGrows DEF MadeRight

(* A turn links its conversation to the thread and assembles its context.  *)
LEMMA TurnKeepsOrder ==
  ASSUME RowsInOrder, NEW t \in Threads, Turn(t)
  PROVE  RowsInOrder'
<1>1. /\ db' \in Tables
      /\ db'.records = db.records \cup {} /\ db'.proposals = db.proposals \cup {}
      /\ db'.threads = db.threads /\ db'.corrections = db.corrections
      /\ db'.amendments = db.amendments /\ db'.challenges = db.challenges
      /\ db'.links = db.links
      /\ db'.linked = db.linked \cup {t} /\ db'.assemblies = db.assemblies \cup {t}
  BY DEF Turn, RowsInOrder, Tables
<1>2. t \in IdsOf(db.threads) /\ recorded' = recorded /\ proposed' = proposed
  BY DEF Turn, ThreadExists
<1>3. Grown(db.records, db.proposals, {}, {})
  BY <1>1, <1>2, Kept, KeptStands DEF Grown
<1> QED
  BY <1>3, GrowthKeepsOrder

(* A completed deletion marks rows and takes none of the meaning.          *)
LEMMA DeletionKeepsOrder ==
  ASSUME RowsInOrder, NEW t \in Threads, DeletionCompletes(t)
  PROVE  RowsInOrder'
<1> DEFINE Touched(x) == x.thread = t /\ row[t].mode = WithMeaning
           gone(x) == IF x.id = t THEN [x EXCEPT !.removed = TRUE] ELSE x
           out(p) == IF Touched(p) THEN [p EXCEPT !.pending = FALSE] ELSE p
           lost(r) == IF Touched(r) THEN [r EXCEPT !.state = "removed"] ELSE r
           ts == {gone(x) : x \in db.threads}
           ps == {out(p) : p \in db.proposals}
           rs == {lost(r) : r \in db.records}
<1>1. \A x \in db.threads : gone(x) \in [id : Threads, removed : BOOLEAN] /\ gone(x).id = x.id
  BY DEF RowsInOrder, Tables
<1>2. \A p \in db.proposals : /\ out(p) \in ProposalRow
                              /\ out(p).id = p.id /\ out(p).thread = p.thread
  BY Kept DEF ProposalRow
<1>3. \A r \in db.records : lost(r) \in RecordRow /\ SameRecord(lost(r), r)
  BY Kept DEF RecordRow, SameRecord
<1>4. recorded' = recorded /\ proposed' = proposed
  BY DEF DeletionCompletes
<1>5. db' = [db EXCEPT !.threads = ts, !.linked = @ \ {t}, !.proposals = ps, !.records = rs]
  BY DEF DeletionCompletes
<1> HIDE DEF gone, out, lost
<1>6. ts \in SUBSET [id : Threads, removed : BOOLEAN] /\ IdsOf(ts) = IdsOf(db.threads)
  BY <1>1 DEF IdsOf
<1>7. ps \in SUBSET ProposalRow /\ ProposalsKeep(ps)
  BY <1>2 DEF ProposalsKeep, RowsInOrder, IdsAreGivenOnce
<1>8. rs \in SUBSET RecordRow /\ RecordsKeep(rs)
  BY <1>3 DEF RecordsKeep, RowsInOrder, IdsAreGivenOnce, SameRecord
<1> HIDE DEF ts, ps, rs
<1>9. /\ db' \in Tables
      /\ db'.records = rs \cup {} /\ db'.proposals = ps \cup {}
      /\ db'.threads = ts /\ db'.corrections = db.corrections
      /\ db'.amendments = db.amendments /\ db'.challenges = db.challenges
      /\ db'.links = db.links
      /\ db'.linked = db.linked \ {t} /\ db'.assemblies = db.assemblies
  BY <1>5, <1>6, <1>7, <1>8 DEF RowsInOrder, Tables, ProposalRow, RecordRow
<1>10. Grown(rs, ps, {}, {})
  BY <1>4, <1>6, <1>7, <1>8, <1>9, Kept, KeptStands DEF Grown
<1> QED
  BY <1>10, GrowthKeepsOrder
-----------------------------------------------------------------------------
(* The tables without the rows of a thread, and the tables when its purge  *)
(* is done with some of them.                                              *)
TableNames == {"threads", "linked", "assemblies", "proposals", "records", "corrections",
               "amendments", "challenges", "links"}

Without(t) ==
  LET P == OfThread(db.proposals, t)
      R == OfThread(db.records, t)
      Purged == {<<"thread", t>>} \cup {<<"proposal", p>> : p \in P}
      From == {<<"proposal", p>> : p \in P} \cup {<<"record", r>> : r \in R}
  IN  [threads |-> {x \in db.threads : x.id # t},
       linked |-> db.linked \ {t},
       assemblies |-> db.assemblies \ {t},
       proposals |-> {p \in db.proposals : p.thread # t},
       records |-> {r \in db.records : r.thread # t},
       corrections |-> {c \in db.corrections : c.thread # t},
       amendments |-> {a \in db.amendments :
                         ~(a.thread = t \/ a.of \in R \/ a.successor \in R)},
       challenges |-> {c \in db.challenges :
                         ~(c.thread = t \/ c.incoming \in P \/ c.existing \in R)},
       links |-> {l \in db.links : ~(l.to \in Purged \/ l.from \in From)}]

Left(t, gone) == [f \in TableNames |-> IF f \in gone THEN Without(t)[f] ELSE db[f]]

(* The tables, one by one, when some of them are purged.                   *)
LEMMA LeftTables ==
  ASSUME NEW t, NEW gone, NEW d, d = Left(t, gone)
  PROVE  /\ d.threads = IF "threads" \in gone THEN Without(t).threads ELSE db.threads
         /\ d.linked = IF "linked" \in gone THEN Without(t).linked ELSE db.linked
         /\ d.assemblies = IF "assemblies" \in gone THEN Without(t).assemblies ELSE db.assemblies
         /\ d.proposals = IF "proposals" \in gone THEN Without(t).proposals ELSE db.proposals
         /\ d.records = IF "records" \in gone THEN Without(t).records ELSE db.records
         /\ d.corrections = IF "corrections" \in gone THEN Without(t).corrections ELSE db.corrections
         /\ d.amendments = IF "amendments" \in gone THEN Without(t).amendments ELSE db.amendments
         /\ d.challenges = IF "challenges" \in gone THEN Without(t).challenges ELSE db.challenges
         /\ d.links = IF "links" \in gone THEN Without(t).links ELSE db.links
<1>1. \A f \in TableNames : d[f] = IF f \in gone THEN Without(t)[f] ELSE db[f]
  BY DEF Left
<1> QED
  BY <1>1 DEF TableNames

(* What the purge of a thread leaves in each table.                        *)
LEMMA WithoutTables ==
  ASSUME NEW t
  PROVE  /\ \A x : x \in Without(t).threads <=> x \in db.threads /\ x.id # t
         /\ \A x : x \in Without(t).linked <=> x \in db.linked /\ x # t
         /\ \A x : x \in Without(t).assemblies <=> x \in db.assemblies /\ x # t
         /\ \A x : x \in Without(t).proposals <=> x \in db.proposals /\ x.thread # t
         /\ \A x : x \in Without(t).records <=> x \in db.records /\ x.thread # t
         /\ \A x : x \in Without(t).corrections <=> x \in db.corrections /\ x.thread # t
         /\ \A a \in Without(t).amendments :
              /\ a \in db.amendments /\ a.thread # t
              /\ a.of \notin OfThread(db.records, t)
              /\ a.successor \notin OfThread(db.records, t)
         /\ \A c \in Without(t).challenges :
              /\ c \in db.challenges /\ c.thread # t
              /\ c.existing \notin OfThread(db.records, t)
              /\ c.incoming \notin OfThread(db.proposals, t)
         /\ \A l \in Without(t).links :
              /\ l \in db.links
              /\ \A i \in OfThread(db.records, t) : l.from # <<"record", i>>
              /\ \A i \in OfThread(db.proposals, t) : l.to # <<"proposal", i>>
  BY DEF Without

(* What is left are tables.                                                *)
LEMMA LeftIsTables ==
  ASSUME RowsInOrder, NEW t \in Threads, NEW gone
  PROVE  Left(t, gone) \in Tables
  BY DEF Left, TableNames, Without, RowsInOrder, Tables

(* A table goes after all whose rows refer to its own.                     *)
InGoodOrder(gone) ==
  /\ "records" \in gone => {"challenges", "amendments"} \subseteq gone
  /\ "proposals" \in gone => {"challenges", "records"} \subseteq gone
  /\ "threads" \in gone => {"linked", "assemblies", "proposals", "records", "corrections",
                            "amendments", "challenges"} \subseteq gone

(* What stands on a proposal of the thread is of the thread, or comes      *)
(* after a correction in another one.                                      *)
LEMMA MeaningStaysHome ==
  ASSUME RowsInOrder, NEW t \in Threads, ~ForeignSuccessor(t),
         NEW p \in db.proposals, p.thread = t,
         NEW r \in db.records, r.basis = p.id
  PROVE  r.thread = t
<1> USE NoneIsNoThread
<1> DEFINE bad == {x \in db.records : x.basis = p.id /\ x.thread # t}
           ids == {x.id : x \in bad}
<1>0. db.records \subseteq RecordRow /\ p.id \in Nat
  BY Kept DEF ProposalRow
<1>1. SUFFICES ASSUME r.thread # t
               PROVE  FALSE
  OBVIOUS
<1>2. ids \subseteq Nat /\ ids # {}
  BY <1>0, <1>1 DEF RecordRow
<1>3. PICK m \in ids : \A n \in ids : ~(<<n, m>> \in OpToRel(<, Nat))
  BY <1>2, WFMin, NatLessThanWellFounded
<1>4. PICK x \in db.records : x.basis = p.id /\ x.thread # t /\ x.id = m
  OBVIOUS
<1>5. x.supersedes # None
  BY <1>4 DEF RowsInOrder, LineageStands
<1>6. PICK y \in db.records : x.supersedes = y.id
  BY <1>5 DEF RowsInOrder, ForeignKeysHold, IdsOf
<1>7. y.id < x.id /\ y.basis = p.id
  BY <1>0, <1>4, <1>6 DEF RowsInOrder, LineageStands
<1>8. y.thread = t
  BY <1>0, <1>2, <1>3, <1>4, <1>7 DEF OpToRel, RecordRow
<1> QED
  BY <1>4, <1>6, <1>8 DEF ForeignSuccessor, OfThread

(* While the tables go in such an order no statement breaks a foreign key, *)
(* unless there is a foreign successor.                                    *)
LEMMA GoodOrderKeepsKeys ==
  ASSUME RowsInOrder, NEW t \in Threads, ~ForeignSuccessor(t), NEW gone, InGoodOrder(gone)
  PROVE  ForeignKeysHold(Left(t, gone))
<1> USE NoneIsNoThread
<1> DEFINE d == Left(t, gone)
           T == IdsOf(db.threads) \cup {None}
           P == IdsOf(db.proposals) \cup {None}
           R == IdsOf(db.records) \cup {None}
           T2 == IdsOf(d.threads) \cup {None}
           P2 == IdsOf(d.proposals) \cup {None}
           R2 == IdsOf(d.records) \cup {None}
<1>0. /\ \A p \in db.proposals : p.thread \in T
      /\ \A r \in db.records : r.thread \in T /\ r.basis \in P /\ r.supersedes \in R
      /\ \A c \in db.corrections : c.thread \in T
      /\ \A a \in db.amendments : a.of \in R /\ a.successor \in R /\ a.thread \in T
      /\ \A c \in db.challenges : c.existing \in R /\ c.incoming \in P /\ c.thread \in T
      /\ db.linked \cup db.assemblies \subseteq T
  BY DEF RowsInOrder, ForeignKeysHold
<1>10. /\ d.threads = IF "threads" \in gone THEN Without(t).threads ELSE db.threads
       /\ d.linked = IF "linked" \in gone THEN Without(t).linked ELSE db.linked
       /\ d.assemblies = IF "assemblies" \in gone THEN Without(t).assemblies ELSE db.assemblies
       /\ d.proposals = IF "proposals" \in gone THEN Without(t).proposals ELSE db.proposals
       /\ d.records = IF "records" \in gone THEN Without(t).records ELSE db.records
       /\ d.corrections = IF "corrections" \in gone THEN Without(t).corrections ELSE db.corrections
       /\ d.amendments = IF "amendments" \in gone THEN Without(t).amendments ELSE db.amendments
       /\ d.challenges = IF "challenges" \in gone THEN Without(t).challenges ELSE db.challenges
       /\ d.links = IF "links" \in gone THEN Without(t).links ELSE db.links
  BY LeftTables
<1>11. /\ \A x : x \in Without(t).threads <=> x \in db.threads /\ x.id # t
       /\ \A x : x \in Without(t).linked <=> x \in db.linked /\ x # t
       /\ \A x : x \in Without(t).assemblies <=> x \in db.assemblies /\ x # t
       /\ \A x : x \in Without(t).proposals <=> x \in db.proposals /\ x.thread # t
       /\ \A x : x \in Without(t).records <=> x \in db.records /\ x.thread # t
       /\ \A x : x \in Without(t).corrections <=> x \in db.corrections /\ x.thread # t
       /\ \A a \in Without(t).amendments :
            /\ a \in db.amendments /\ a.thread # t
            /\ a.of \notin OfThread(db.records, t)
            /\ a.successor \notin OfThread(db.records, t)
       /\ \A c \in Without(t).challenges :
            /\ c \in db.challenges /\ c.thread # t
            /\ c.existing \notin OfThread(db.records, t)
            /\ c.incoming \notin OfThread(db.proposals, t)
  BY WithoutTables
<1> HIDE DEF d
<1>1. /\ "threads" \notin gone => T2 = T
      /\ \A u \in T : u # t => u \in T2
  BY <1>10, <1>11 DEF IdsOf
<1>2. /\ "proposals" \notin gone => P2 = P
      /\ \A i \in P : i \notin OfThread(db.proposals, t) => i \in P2
  BY <1>10, <1>11 DEF IdsOf, OfThread
<1>3. /\ "records" \notin gone => R2 = R
      /\ \A i \in R : i \notin OfThread(db.records, t) => i \in R2
  BY <1>10, <1>11 DEF IdsOf, OfThread
<1> HIDE DEF T, P, R, T2, P2, R2
<1>4. d.linked \cup d.assemblies \subseteq T2
  BY <1>0, <1>1, <1>10, <1>11 DEF InGoodOrder
<1>5. \A p \in d.proposals : p.thread \in T2
  BY <1>0, <1>1, <1>10, <1>11 DEF InGoodOrder
<1>6. ASSUME NEW r \in d.records
      PROVE  r.thread \in T2 /\ r.basis \in P2 /\ r.supersedes \in R2
  <2>1. r \in db.records /\ ("records" \in gone => r.thread # t)
    BY <1>6, <1>10, <1>11
  <2>2. r.thread \in T2
    BY <1>0, <1>1, <2>1 DEF InGoodOrder
  <2>3. "records" \in gone => r.basis \notin OfThread(db.proposals, t)
    BY <2>1, MeaningStaysHome DEF OfThread
  <2>4. r.basis \in P2
    BY <1>0, <1>2, <2>1, <2>3 DEF InGoodOrder
  <2>5. "records" \in gone => r.supersedes \notin OfThread(db.records, t)
    BY <2>1 DEF ForeignSuccessor
  <2>6. r.supersedes \in R2
    BY <1>0, <1>3, <2>1, <2>5
  <2> QED
    BY <2>2, <2>4, <2>6
<1>7. \A c \in d.corrections : c.thread \in T2
  BY <1>0, <1>1, <1>10, <1>11 DEF InGoodOrder
<1>8. \A a \in d.amendments : a.of \in R2 /\ a.successor \in R2 /\ a.thread \in T2
  BY <1>0, <1>1, <1>3, <1>10, <1>11 DEF InGoodOrder
<1>9. \A c \in d.challenges : c.existing \in R2 /\ c.incoming \in P2 /\ c.thread \in T2
  BY <1>0, <1>1, <1>2, <1>3, <1>10, <1>11 DEF InGoodOrder
<1> QED
  BY <1>4, <1>5, <1>6, <1>7, <1>8, <1>9 DEF ForeignKeysHold, T2, P2, R2, d

(* The tables the first statements purge.                                  *)
Judged == {"challenges", "amendments", "corrections", "links"}
Stripped == Judged \cup {"records", "proposals"}

(* The next statement purges the next table.                               *)
LEMMA NextGoes ==
  ASSUME NEW t, NEW gone, NEW f \in TableNames
  PROVE  [Left(t, gone) EXCEPT ![f] = Without(t)[f]] = Left(t, gone \cup {f})
  BY DEF Left

(* The first four statements of a purge.                                   *)
LEMMA JudgmentsGoFirst ==
  ASSUME RowsInOrder, NEW t \in Threads
  PROVE  PurgeJudgments(t, db) =
           <<Left(t, {"challenges"}), Left(t, {"challenges", "amendments"}),
             Left(t, {"challenges", "amendments", "corrections"}), Left(t, Judged)>>
<1> DEFINE P == OfThread(db.proposals, t)
           R == OfThread(db.records, t)
           d1 == [db EXCEPT !.challenges =
                    {c \in @ : ~(c.thread = t \/ c.incoming \in P \/ c.existing \in R)}]
           d2 == [d1 EXCEPT !.amendments =
                    {a \in @ : ~(a.thread = t \/ a.of \in R \/ a.successor \in R)}]
           d3 == [d2 EXCEPT !.corrections = {c \in @ : c.thread # t}]
           Purged == {<<"thread", t>>} \cup {<<"proposal", p>> : p \in P}
           From == {<<"proposal", p>> : p \in P} \cup {<<"record", r>> : r \in R}
                     \cup {<<"correction", c>> : c \in OfThread(d3.corrections, t)}
           d4 == [d3 EXCEPT !.links = {l \in @ : ~(l.to \in Purged \/ l.from \in From)}]
           g1 == {"challenges"}
           g2 == {"challenges", "amendments"}
           g3 == {"challenges", "amendments", "corrections"}
<1>0. /\ db = Left(t, {})
      /\ g1 = {} \cup {"challenges"} /\ g2 = g1 \cup {"amendments"}
      /\ g3 = g2 \cup {"corrections"} /\ Judged = g3 \cup {"links"}
      /\ {"challenges", "amendments", "corrections", "links"} \subseteq TableNames
  BY DEF Left, RowsInOrder, Tables, TableNames, Judged
<1> DEFINE c1 == {c \in db.challenges : ~(c.thread = t \/ c.incoming \in P \/ c.existing \in R)}
           c2 == {a \in db.amendments : ~(a.thread = t \/ a.of \in R \/ a.successor \in R)}
           c3 == {c \in db.corrections : c.thread # t}
<1>a. /\ c1 = Without(t).challenges /\ c2 = Without(t).amendments
      /\ c3 = Without(t).corrections
  BY DEF Without
<1>b. /\ Left(t, {}).challenges = db.challenges /\ Left(t, g1).amendments = db.amendments
      /\ Left(t, g2).corrections = db.corrections /\ Left(t, g3).links = db.links
      /\ Left(t, g3).corrections = Without(t).corrections
  BY LeftTables
<1> HIDE DEF g1, g2, g3
<1>c. /\ [Left(t, {}) EXCEPT !.challenges = Without(t).challenges] = Left(t, g1)
      /\ [Left(t, g1) EXCEPT !.amendments = Without(t).amendments] = Left(t, g2)
      /\ [Left(t, g2) EXCEPT !.corrections = Without(t).corrections] = Left(t, g3)
      /\ [Left(t, g3) EXCEPT !.links = Without(t).links] = Left(t, Judged)
  <2>1. [Left(t, {}) EXCEPT !.challenges = Without(t).challenges] = Left(t, g1)
    BY <1>0, NextGoes
  <2>2. [Left(t, g1) EXCEPT !.amendments = Without(t).amendments] = Left(t, g2)
    BY <1>0, NextGoes
  <2>3. [Left(t, g2) EXCEPT !.corrections = Without(t).corrections] = Left(t, g3)
    BY <1>0, NextGoes
  <2>4. [Left(t, g3) EXCEPT !.links = Without(t).links] = Left(t, Judged)
    BY <1>0, NextGoes
  <2> QED
    BY <2>1, <2>2, <2>3, <2>4
<1>1. d1 = Left(t, g1)
  <2>1. d1 = [db EXCEPT !.challenges = c1]
    OBVIOUS
  <2> HIDE DEF d1, c1
  <2> QED
    BY <1>0, <1>a, <1>c, <2>1
<1> HIDE DEF d1
<1>2. d2 = Left(t, g2)
  <2>1. d2 = [Left(t, g1) EXCEPT !.amendments = c2]
    BY <1>1, <1>b
  <2> HIDE DEF d2, c2
  <2> QED
    BY <1>a, <1>c, <2>1
<1> HIDE DEF d2
<1>3. d3 = Left(t, g3)
  <2>1. d3 = [Left(t, g2) EXCEPT !.corrections = c3]
    BY <1>2, <1>b
  <2> HIDE DEF d3, c3
  <2> QED
    BY <1>a, <1>c, <2>1
<1> HIDE DEF d3
<1>4. d4 = Left(t, Judged)
  <2>1. d3.links = db.links /\ d3.corrections = c3
    BY <1>3, <1>a, <1>b
  <2>2. OfThread(d3.corrections, t) = {}
    BY <2>1 DEF OfThread
  <2>3. From = {<<"proposal", p>> : p \in P} \cup {<<"record", r>> : r \in R}
    BY <2>2
  <2> HIDE DEF From
  <2>4. {l \in d3.links : ~(l.to \in Purged \/ l.from \in From)} = Without(t).links
    BY <2>1, <2>3 DEF Without, P, R
  <2>5. d4 = [Left(t, g3) EXCEPT !.links = Without(t).links]
    BY <1>3, <2>4
  <2> HIDE DEF d4
  <2> QED
    BY <1>c, <2>5
<1> HIDE DEF d4
<1>5. PurgeJudgments(t, db) = <<d1, d2, d3, d4>>
  BY DEF PurgeJudgments, d1, d2, d3, d4
<1> QED
  BY <1>1, <1>2, <1>3, <1>4, <1>5 DEF g1, g2, g3

(* The statements that take the meaning, when it is to be taken.           *)
LEMMA MeaningGoesNext ==
  ASSUME RowsInOrder, NEW t \in Threads
  PROVE  PurgeMeaning(t, Left(t, Judged)) =
           <<Left(t, Judged \cup {"records"}), Left(t, Stripped)>>
<1> DEFINE g5 == Judged \cup {"records"}
<1>0. /\ {"records", "proposals"} \subseteq TableNames
      /\ Stripped = g5 \cup {"proposals"}
  BY DEF TableNames, Stripped
<1>1. /\ {r \in db.records : r.thread # t} = Without(t).records
      /\ {p \in db.proposals : p.thread # t} = Without(t).proposals
  BY DEF Without
<1>2. Left(t, Judged).records = db.records /\ Left(t, g5).proposals = db.proposals
  BY LeftTables DEF Judged
<1>3. /\ [Left(t, Judged) EXCEPT !.records = Without(t).records] = Left(t, g5)
      /\ [Left(t, g5) EXCEPT !.proposals = Without(t).proposals] = Left(t, Stripped)
  BY <1>0, NextGoes
<1> HIDE DEF g5
<1>4. [Left(t, Judged) EXCEPT !.records = {r \in @ : r.thread # t}] = Left(t, g5)
  BY <1>1, <1>2, <1>3
<1>5. [Left(t, g5) EXCEPT !.proposals = {p \in @ : p.thread # t}] = Left(t, Stripped)
  BY <1>1, <1>2, <1>3
<1> QED
  BY <1>4, <1>5 DEF PurgeMeaning, g5

(* The last statements; the thread itself goes only with its meaning.      *)
LEMMA ShellGoesLast ==
  ASSUME RowsInOrder, NEW t \in Threads, NEW gone,
         {"assemblies", "linked", "threads"} \cap gone = {}
  PROVE  LET d7 == Left(t, gone \cup {"assemblies"})
             d8 == Left(t, gone \cup {"assemblies", "linked"})
             d9 == Left(t, gone \cup {"assemblies", "linked", "threads"})
         IN  PurgeShell(t, Left(t, gone)) =
               IF row[t].mode = WithMeaning THEN <<d7, d8, d9>> ELSE <<d7, d8>>
<1> DEFINE g7 == gone \cup {"assemblies"}
           g8 == gone \cup {"assemblies", "linked"}
           g9 == gone \cup {"assemblies", "linked", "threads"}
<1>0. /\ {"assemblies", "linked", "threads"} \subseteq TableNames
      /\ g8 = g7 \cup {"linked"} /\ g9 = g8 \cup {"threads"}
  BY DEF TableNames
<1>1. /\ db.assemblies \ {t} = Without(t).assemblies /\ db.linked \ {t} = Without(t).linked
      /\ {x \in db.threads : x.id # t} = Without(t).threads
  BY DEF Without
<1>2. /\ Left(t, gone).assemblies = db.assemblies /\ Left(t, g7).linked = db.linked
      /\ Left(t, g8).threads = db.threads
  BY LeftTables
<1>3. [Left(t, gone) EXCEPT !.assemblies = Without(t).assemblies] = Left(t, g7)
  BY <1>0, NextGoes
<1> HIDE DEF g7, g8, g9
<1>4. /\ [Left(t, g7) EXCEPT !.linked = Without(t).linked] = Left(t, g8)
      /\ [Left(t, g8) EXCEPT !.threads = Without(t).threads] = Left(t, g9)
  BY <1>0, NextGoes
<1> DEFINE d7 == [Left(t, gone) EXCEPT !.assemblies = @ \ {t}]
           d8 == [d7 EXCEPT !.linked = @ \ {t}]
           d9 == [d8 EXCEPT !.threads = {x \in @ : x.id # t}]
<1>5. d7 = Left(t, g7)
  BY <1>1, <1>2, <1>3
<1> HIDE DEF d7
<1>6. d8 = Left(t, g8)
  BY <1>1, <1>2, <1>4, <1>5
<1> HIDE DEF d8
<1>7. d9 = Left(t, g9)
  BY <1>1, <1>2, <1>4, <1>6
<1> HIDE DEF d9
<1>8. PurgeShell(t, Left(t, gone)) =
        IF row[t].mode = WithMeaning THEN <<d7, d8, d9>> ELSE <<d7, d8>>
  BY DEF PurgeShell, d7, d8, d9
<1> QED
  BY <1>5, <1>6, <1>7, <1>8 DEF g7, g8, g9

(* The tables that are purged when all statements are done.                *)
LastGone(t) ==
  IF row[t].mode = WithMeaning THEN Stripped \cup {"assemblies", "linked", "threads"}
                               ELSE Judged \cup {"assemblies", "linked"}

(* The last element of two sequences put together.                         *)
LEMMA LastOfBoth ==
  ASSUME NEW S, NEW s \in Seq(S), NEW u \in Seq(S), Len(u) > 0
  PROVE  s \o u \in Seq(S) /\ Last(s \o u) = Last(u)
<1>1. /\ s \o u \in Seq(S) /\ Len(s \o u) = Len(s) + Len(u)
      /\ (s \o u)[Len(s) + Len(u)] = u[Len(u)]
  OBVIOUS
<1> QED
  BY <1>1 DEF Last

(* Every statement leaves the tables in good order; what the last leaves.  *)
GoodTables(t) == {Left(t, gone) : gone \in {g \in SUBSET TableNames : InGoodOrder(g)}}

(* The statements of a purge take the tables in a good order, to the end.  *)
LEMMA StatementsInOrder ==
  ASSUME RowsInOrder, NEW t \in Threads
  PROVE  /\ Statements(t) \in Seq(GoodTables(t)) /\ Len(Statements(t)) > 0
         /\ Last(Statements(t)) = Left(t, LastGone(t))
<1> DEFINE S == GoodTables(t)
           g1 == {"challenges"}
           g2 == {"challenges", "amendments"}
           g3 == {"challenges", "amendments", "corrections"}
           judgments == <<Left(t, g1), Left(t, g2), Left(t, g3), Left(t, Judged)>>
<1>0. ASSUME NEW g \in SUBSET TableNames, InGoodOrder(g)
      PROVE  Left(t, g) \in S
  BY <1>0 DEF GoodTables
<1>1. PurgeJudgments(t, db) = judgments /\ Last(judgments) = Left(t, Judged)
  BY JudgmentsGoFirst DEF Last
<1>2. /\ {g1, g2, g3, Judged} \subseteq SUBSET TableNames
      /\ InGoodOrder(g1) /\ InGoodOrder(g2) /\ InGoodOrder(g3) /\ InGoodOrder(Judged)
  BY DEF InGoodOrder, Judged, TableNames
<1>3. judgments \in Seq(S)
  <2> HIDE DEF S, g1, g2, g3
  <2>1. {Left(t, g1), Left(t, g2), Left(t, g3), Left(t, Judged)} \subseteq S
    BY <1>0, <1>2
  <2> QED
    BY <2>1
<1> HIDE DEF judgments, S
<1>4. CASE row[t].mode = WithMeaning
  <2> DEFINE g5 == Judged \cup {"records"}
             g7 == Stripped \cup {"assemblies"}
             g8 == Stripped \cup {"assemblies", "linked"}
             g9 == Stripped \cup {"assemblies", "linked", "threads"}
             meaning == <<Left(t, g5), Left(t, Stripped)>>
             shell == <<Left(t, g7), Left(t, g8), Left(t, g9)>>
  <2>1. PurgeMeaning(t, Left(t, Judged)) = meaning /\ Last(meaning) = Left(t, Stripped)
    BY MeaningGoesNext DEF Last
  <2>2. PurgeShell(t, Left(t, Stripped)) = shell /\ Last(shell) = Left(t, g9)
    <3>1. {"assemblies", "linked", "threads"} \cap Stripped = {}
      BY DEF Stripped, Judged
    <3> QED
      BY <1>4, <3>1, ShellGoesLast DEF Last
  <2>3. /\ {g5, Stripped, g7, g8, g9} \subseteq SUBSET TableNames
        /\ InGoodOrder(g5) /\ InGoodOrder(Stripped)
        /\ InGoodOrder(g7) /\ InGoodOrder(g8) /\ InGoodOrder(g9)
    BY DEF InGoodOrder, Judged, Stripped, TableNames
  <2>4. LastGone(t) = g9
    BY <1>4 DEF LastGone
  <2> HIDE DEF g5, g7, g8, g9
  <2>5. {Left(t, g5), Left(t, Stripped), Left(t, g7), Left(t, g8), Left(t, g9)} \subseteq S
    BY <1>0, <2>3
  <2>6. /\ meaning \in Seq(S) /\ Len(meaning) > 0
        /\ shell \in Seq(S) /\ Len(shell) > 0
    BY <2>5
  <2> HIDE DEF meaning, shell
  <2>7. judgments \o meaning \in Seq(S) /\ Last(judgments \o meaning) = Left(t, Stripped)
    BY <1>3, <2>1, <2>6, LastOfBoth
  <2>8. Statements(t) = (judgments \o meaning) \o shell
    BY <1>1, <1>4, <2>1, <2>2, <2>7 DEF Statements
  <2>9. Last(Statements(t)) = Left(t, g9) /\ Statements(t) \in Seq(S)
    <3> DEFINE before == judgments \o meaning
    <3>1. before \in Seq(S)
      BY <2>7
    <3> HIDE DEF before
    <3>2. before \o shell \in Seq(S) /\ Last(before \o shell) = Last(shell)
      BY <2>6, <3>1, LastOfBoth
    <3> QED
      BY <2>2, <2>8, <3>2 DEF before
  <2>10. Len(Statements(t)) > 0
    BY <2>6, <2>7, <2>8
  <2> QED
    BY <2>4, <2>9, <2>10 DEF S
<1>5. CASE row[t].mode # WithMeaning
  <2> DEFINE g7 == Judged \cup {"assemblies"}
             g8 == Judged \cup {"assemblies", "linked"}
             shell == <<Left(t, g7), Left(t, g8)>>
  <2>1. judgments \o << >> = judgments
    BY <1>3
  <2>2. PurgeShell(t, Left(t, Judged)) = shell /\ Last(shell) = Left(t, g8)
    <3>1. {"assemblies", "linked", "threads"} \cap Judged = {}
      BY DEF Judged
    <3> QED
      BY <1>5, <3>1, ShellGoesLast DEF Last
  <2>3. /\ {g7, g8} \subseteq SUBSET TableNames
        /\ InGoodOrder(g7) /\ InGoodOrder(g8)
    BY DEF InGoodOrder, Judged, TableNames
  <2>4. LastGone(t) = g8
    BY <1>5 DEF LastGone
  <2> HIDE DEF g7, g8
  <2>5. {Left(t, g7), Left(t, g8)} \subseteq S
    BY <1>0, <2>3
  <2>6. shell \in Seq(S) /\ Len(shell) > 0
    BY <2>5
  <2> HIDE DEF shell
  <2>8. Statements(t) = judgments \o shell
    BY <1>1, <1>5, <2>1, <2>2 DEF Statements
  <2>9. Last(Statements(t)) = Left(t, g8) /\ Statements(t) \in Seq(S)
    BY <1>3, <2>2, <2>6, <2>8, LastOfBoth
  <2>10. Len(Statements(t)) > 0
    BY <1>3, <2>6, <2>8
  <2> QED
    BY <2>4, <2>9, <2>10 DEF S
<1> QED
  BY <1>4, <1>5

(* A purge is its last statement, and all foreign keys hold then.          *)
LEMMA PurgeLeaves ==
  ASSUME RowsInOrder, NEW t \in Threads, PurgeConversation(t)
  PROVE  db' = Left(t, LastGone(t)) /\ ForeignKeysHold(db')
<1>1. /\ Statements(t) \in Seq(GoodTables(t)) /\ Len(Statements(t)) > 0
      /\ Last(Statements(t)) = Left(t, LastGone(t))
  BY StatementsInOrder
<1>2. Len(Statements(t)) \in DOMAIN Statements(t)
  BY <1>1
<1> QED
  BY <1>1, <1>2 DEF PurgeConversation, PurgeRefused, Last

(* A purge keeps the tables in order: what goes takes its links with it.   *)
LEMMA PurgeKeepsOrder ==
  ASSUME RowsInOrder, NEW t \in Threads, PurgeConversation(t)
  PROVE  RowsInOrder'
<1> USE NoneIsNoThread
<1>1. db' = Left(t, LastGone(t)) /\ ForeignKeysHold(db') /\ db' \in Tables
  BY PurgeLeaves, LeftIsTables
<1>2. recorded' = recorded /\ proposed' = proposed
  BY DEF PurgeConversation
<1>3. db'.records \subseteq db.records /\ db'.proposals \subseteq db.proposals
  BY <1>1, LeftTables, WithoutTables
<1>4. IdsAreGivenOnce'
  BY <1>2, <1>3 DEF RowsInOrder, IdsAreGivenOnce
<1>5. LineageStands'
  BY <1>3 DEF RowsInOrder, LineageStands
<1>6. LinksLead'
  <2> SUFFICES ASSUME NEW l \in db'.links, l.from[1] # "correction"
               PROVE  \E r \in db'.records : /\ l.from = <<"record", r.id>>
                                             /\ LeadsFrom(r, l.to)'
    BY DEF LinksLead
  <2>1. "links" \in LastGone(t)
    BY DEF LastGone, Judged, Stripped
  <2>2. /\ l \in db.links
        /\ \A i \in OfThread(db.records, t) : l.from # <<"record", i>>
        /\ \A i \in OfThread(db.proposals, t) : l.to # <<"proposal", i>>
    BY <1>1, <2>1, LeftTables, WithoutTables
  <2>3. PICK r \in db.records : l.from = <<"record", r.id>> /\ LeadsFrom(r, l.to)
    BY <2>2 DEF RowsInOrder, LinksLead
  <2>4. r.thread # t
    BY <2>2, <2>3 DEF OfThread
  <2>5. r \in db'.records
    BY <1>1, <2>4, LeftTables, WithoutTables
  <2>6. \A p \in db.proposals : l.to = <<"proposal", p.id>> => p \in db'.proposals
    <3>1. \A p \in db.proposals : l.to = <<"proposal", p.id>> => p.thread # t
      BY <2>2 DEF OfThread
    <3> QED
      BY <1>1, <3>1, LeftTables, WithoutTables
  <2>7. LeadsFrom(r, l.to)'
    BY <2>3, <2>6 DEF LeadsFrom
  <2> QED
    BY <2>3, <2>5, <2>7
<1> QED
  BY <1>1, <1>2, <1>4, <1>5, <1>6 DEF RowsInOrder

(* A step that leaves the tables and the deletion rows alone, or the rows  *)
(* of threads that are there.                                              *)
LEMMA CeremonyKeepsOrder ==
  ASSUME RowsInOrder, Ceremony
  PROVE  RowsInOrder' /\ UNCHANGED <<row, receipts, purging>>
           /\ IdsOf(db'.threads) = IdsOf(db.threads)
<1>0. db \in Tables
  BY DEF RowsInOrder
<1>1. ASSUME NEW t \in Threads, NEW target \in IdsOf(Current) \cup {None}, Propose(t, target)
      PROVE  /\ RowsInOrder' /\ UNCHANGED <<row, receipts, purging>>
             /\ db'.threads = db.threads
  <2>1. db'.threads = db.threads /\ UNCHANGED <<row, receipts, purging>>
    BY <1>0, <1>1 DEF Propose, Tables
  <2> QED
    BY <1>1, <2>1, ProposeKeepsOrder
<1>2. ASSUME NEW p \in db.proposals, Confirm(p)
      PROVE  /\ RowsInOrder' /\ UNCHANGED <<row, receipts, purging>>
             /\ db'.threads = db.threads
  <2>1. db'.threads = db.threads /\ UNCHANGED <<row, receipts, purging>>
    BY <1>0, <1>2 DEF Confirm, Corrected, Tables
  <2> QED
    BY <1>2, <2>1, ConfirmKeepsOrder
<1>3. ASSUME NEW p \in db.proposals, NEW r \in Current, Challenge(p, r)
      PROVE  /\ RowsInOrder' /\ UNCHANGED <<row, receipts, purging>>
             /\ db'.threads = db.threads
  <2>1. db'.threads = db.threads /\ UNCHANGED <<row, receipts, purging>>
    BY <1>0, <1>3 DEF Challenge, Tables
  <2> QED
    BY <1>3, <2>1, ChallengeKeepsOrder
<1>4. ASSUME NEW t \in Threads \cup {None}, SaveDirectly(t)
      PROVE  /\ RowsInOrder' /\ UNCHANGED <<row, receipts, purging>>
             /\ db'.threads = db.threads
  <2>1. db'.threads = db.threads /\ UNCHANGED <<row, receipts, purging>>
    BY <1>0, <1>4 DEF SaveDirectly, Tables
  <2> QED
    BY <1>4, <2>1, SaveKeepsOrder
<1>5. ASSUME NEW r \in Current, Correct(r)
      PROVE  /\ RowsInOrder' /\ UNCHANGED <<row, receipts, purging>>
             /\ db'.threads = db.threads
  <2>1. db'.threads = db.threads /\ UNCHANGED <<row, receipts, purging>>
    BY <1>0, <1>5 DEF Correct, Corrected, Tables
  <2> QED
    BY <1>5, <2>1, CorrectKeepsOrder
<1>6. ASSUME NEW r \in Current, Amend(r)
      PROVE  /\ RowsInOrder' /\ UNCHANGED <<row, receipts, purging>>
             /\ db'.threads = db.threads
  <2>1. db'.threads = db.threads /\ UNCHANGED <<row, receipts, purging>>
    BY <1>0, <1>6 DEF Amend, Tables
  <2> QED
    BY <1>6, <2>1, AmendKeepsOrder
<1> QED
  BY <1>1, <1>2, <1>3, <1>4, <1>5, <1>6 DEF Ceremony

(* The rows of the deletions.                                              *)
DeletionRows == [status : {"none", "planned", "completed"}, mode : Modes]

(* The whole inductive invariant.                                          *)
LEMMA PurgeInvOf ==
  PurgeInv <=> PurgeTypes /\ RowsInOrder /\ GoneOnPurpose
BY DEF PurgeInv, PurgeTypes, RowsInOrder

(* The invariant holds of the empty tables.                                *)
LEMMA PurgeInvInit ==
  PurgeInit => PurgeInv
<1> SUFFICES ASSUME PurgeInit
             PROVE  PurgeInv
  OBVIOUS
<1>1. /\ db.threads = {[id |-> t, removed |-> FALSE] : t \in Threads}
      /\ db.linked = Threads /\ db.assemblies = Threads
      /\ db.proposals = {} /\ db.records = {} /\ db.corrections = {}
      /\ db.amendments = {} /\ db.challenges = {} /\ db.links = {}
  BY DEF PurgeInit
<1> DEFINE fresh(t) == [id |-> t, removed |-> FALSE]
<1>a. \A t \in Threads : fresh(t) \in [id : Threads, removed : BOOLEAN] /\ fresh(t).id = t
  OBVIOUS
<1>b. db.threads = {fresh(t) : t \in Threads}
  BY <1>1
<1>2. IdsOf(db.threads) = Threads
  <2> HIDE DEF fresh
  <2> QED
    BY <1>a, <1>b DEF IdsOf
<1>3. db \in Tables
  <2>1. {fresh(t) : t \in Threads} \in SUBSET [id : Threads, removed : BOOLEAN]
    <3> HIDE DEF fresh
    <3> QED
      BY <1>a
  <2> QED
    BY <2>1 DEF PurgeInit, Tables
<1>4. PurgeTypes
  <2>1. row \in [Threads -> DeletionRows]
    BY DEF PurgeInit, DeletionRows, Modes
  <2>2. receipts \in [Threads -> Seq({0, 1})] /\ purging \in Threads \cup {None}
        /\ proposed \in Nat /\ recorded \in Nat
    BY DEF PurgeInit
  <2> QED
    BY <1>3, <2>1, <2>2 DEF PurgeTypes, DeletionRows
<1>5. ForeignKeysHold(db)
  BY <1>1, <1>2 DEF ForeignKeysHold
<1>6. IdsAreGivenOnce /\ LineageStands /\ LinksLead
  BY <1>1 DEF IdsAreGivenOnce, LineageStands, LinksLead
<1>7. GoneOnPurpose
  BY <1>2 DEF GoneOnPurpose, ThreadExists
<1> QED
  BY <1>4, <1>5, <1>6, <1>7 DEF PurgeInv

(* What a purge does to the threads.                                       *)
LEMMA PurgeTakesItsThread ==
  ASSUME PurgeInv, NEW t \in Threads, PurgeConversation(t),
         NEW u \in Threads, u \notin IdsOf(db'.threads)
  PROVE  \/ u \notin IdsOf(db.threads)
         \/ u = t /\ row[t].mode = WithMeaning
<1>0. RowsInOrder
  BY PurgeInvOf
<1>1. db' = Left(t, LastGone(t))
  BY <1>0, PurgeLeaves
<1>2. db'.threads = IF "threads" \in LastGone(t) THEN Without(t).threads ELSE db.threads
  BY <1>1, LeftTables
<1>3. "threads" \in LastGone(t) => row[t].mode = WithMeaning
  BY DEF LastGone, Judged
<1>4. \A x \in db.threads : x.id # t => x \in Without(t).threads
  BY WithoutTables
<1> QED
  BY <1>2, <1>3, <1>4 DEF IdsOf

(* Every step keeps the invariant.                                         *)
LEMMA PurgeInvStep ==
  PurgeInv /\ [PurgeNext]_purgeVars => PurgeInv'
<1> SUFFICES ASSUME PurgeInv, [PurgeNext]_purgeVars
             PROVE  PurgeInv'
  OBVIOUS
<1> USE NoneIsNoThread
<1>0. /\ RowsInOrder /\ GoneOnPurpose
      /\ row \in [Threads -> DeletionRows]
      /\ receipts \in [Threads -> Seq({0, 1})]
      /\ purging \in Threads \cup {None}
  BY PurgeInvOf DEF PurgeTypes, DeletionRows
<1> DEFINE Shell == /\ row' \in [Threads -> DeletionRows]
                    /\ receipts' \in [Threads -> Seq({0, 1})]
                    /\ purging' \in Threads \cup {None}
<1>1. SUFFICES RowsInOrder' /\ Shell /\ GoneOnPurpose'
  BY PurgeInvOf DEF PurgeInv, PurgeTypes, RowsInOrder, DeletionRows
<1>2. CASE Ceremony
  BY <1>0, <1>2, CeremonyKeepsOrder DEF GoneOnPurpose, ThreadExists
<1>3. ASSUME NEW t \in Threads, Turn(t)
      PROVE  RowsInOrder' /\ Shell /\ GoneOnPurpose'
  <2>1. RowsInOrder'
    BY <1>0, <1>3, TurnKeepsOrder
  <2>2. db'.threads = db.threads /\ UNCHANGED <<row, receipts, purging>>
    BY <1>0, <1>3 DEF Turn, RowsInOrder, Tables
  <2> QED
    BY <1>0, <2>1, <2>2 DEF GoneOnPurpose, ThreadExists
<1>4. ASSUME NEW t \in Threads, NEW m \in Modes, Plan(t, m)
      PROVE  RowsInOrder' /\ Shell /\ GoneOnPurpose'
  <2>1. UNCHANGED <<db, proposed, recorded, receipts, purging>>
    BY <1>4 DEF Plan
  <2>2. RowsInOrder'
    BY <1>0, <2>1 DEF RowsInOrder, IdsAreGivenOnce, LineageStands, LinksLead, LeadsFrom
  <2>3. row' \in [Threads -> DeletionRows] /\ \A u \in Threads : u # t => row'[u] = row[u]
    BY <1>0, <1>4 DEF Plan, DeletionRows
  <2>4. ThreadExists(t)
    BY <1>4 DEF Plan
  <2> QED
    BY <1>0, <2>1, <2>2, <2>3, <2>4 DEF GoneOnPurpose, ThreadExists
<1>5. ASSUME NEW t \in Threads, DeletionCompletes(t)
      PROVE  RowsInOrder' /\ Shell /\ GoneOnPurpose'
  <2>1. RowsInOrder'
    BY <1>0, <1>5, DeletionKeepsOrder
  <2>2. UNCHANGED <<receipts, purging>>
    BY <1>5 DEF DeletionCompletes
  <2>3. row' \in [Threads -> DeletionRows] /\ \A u \in Threads : u # t => row'[u] = row[u]
    BY <1>0, <1>5 DEF DeletionCompletes, DeletionRows
  <2>4. IdsOf(db.threads) \subseteq IdsOf(db'.threads)
    <3> DEFINE gone(x) == IF x.id = t THEN [x EXCEPT !.removed = TRUE] ELSE x
    <3>1. db'.threads = {gone(x) : x \in db.threads}
      BY <1>0, <1>5 DEF DeletionCompletes, RowsInOrder, Tables
    <3>2. \A x \in db.threads : gone(x).id = x.id
      BY <1>0 DEF RowsInOrder, Tables
    <3> HIDE DEF gone
    <3> QED
      BY <3>1, <3>2 DEF IdsOf
  <2>5. ThreadExists(t)
    BY <1>0, <1>5 DEF DeletionCompletes, GoneOnPurpose
  <2> QED
    BY <1>0, <2>1, <2>2, <2>3, <2>4, <2>5 DEF GoneOnPurpose, ThreadExists
<1>6. ASSUME NEW t \in Threads, PurgeConversation(t)
      PROVE  RowsInOrder' /\ Shell /\ GoneOnPurpose'
  <2>1. RowsInOrder'
    BY <1>0, <1>6, PurgeKeepsOrder
  <2>2. /\ row' = row /\ purging' = t
        /\ receipts' = [receipts EXCEPT ![t] = Append(@, 0)]
        /\ row[t].status = "completed"
    BY <1>6 DEF PurgeConversation, Available
  <2>3. receipts' \in [Threads -> Seq({0, 1})]
    BY <1>0, <2>2
  <2>4. receipts'[t] # <<>> /\ \A u \in Threads : u # t => receipts'[u] = receipts[u]
    <3>1. receipts[t] \in Seq({0, 1}) /\ receipts'[t] = Append(receipts[t], 0)
      BY <1>0, <2>2
    <3>2. Len(receipts'[t]) = Len(receipts[t]) + 1 /\ Len(receipts[t]) \in Nat
      BY <3>1
    <3>3. receipts'[t] # <<>>
      BY <3>2
    <3> QED
      BY <1>0, <2>2, <3>3
  <2>5. ASSUME NEW u \in Threads, u \notin IdsOf(db'.threads)
        PROVE  /\ receipts'[u] # <<>>
               /\ row'[u] = [status |-> "completed", mode |-> WithMeaning]
    <3>1. CASE u = t
      <4>1. u \notin IdsOf(db.threads) \/ row[t].mode = WithMeaning
        BY <1>6, <2>5, PurgeTakesItsThread
      <4>2. row[t].mode = WithMeaning
        BY <1>0, <3>1, <4>1 DEF GoneOnPurpose, ThreadExists
      <4>3. row[t] \in DeletionRows
        BY <1>0
      <4>4. row[t] = [status |-> "completed", mode |-> WithMeaning]
        BY <2>2, <4>2, <4>3 DEF DeletionRows
      <4> QED
        BY <2>2, <2>4, <3>1, <4>4
    <3>2. CASE u # t
      <4>1. u \notin IdsOf(db.threads)
        BY <1>6, <2>5, <3>2, PurgeTakesItsThread
      <4> QED
        BY <1>0, <2>2, <2>4, <3>2, <4>1 DEF GoneOnPurpose, ThreadExists
    <3> QED
      BY <3>1, <3>2
  <2> QED
    BY <1>0, <2>1, <2>2, <2>3, <2>5 DEF GoneOnPurpose, ThreadExists
<1>7. ASSUME NEW t \in Threads, Vacuum(t)
      PROVE  RowsInOrder' /\ Shell /\ GoneOnPurpose'
  <2>1. UNCHANGED <<db, proposed, recorded, row>> /\ purging' = None
    BY <1>7 DEF Vacuum
  <2>2. RowsInOrder'
    BY <1>0, <2>1 DEF RowsInOrder, IdsAreGivenOnce, LineageStands, LinksLead, LeadsFrom
  <2>3. receipts' = [receipts EXCEPT ![t] = [i \in DOMAIN @ |-> 1]]
    BY <1>7 DEF Vacuum
  <2>4. /\ [i \in DOMAIN receipts[t] |-> 1] \in Seq({0, 1})
        /\ receipts[t] # <<>> => [i \in DOMAIN receipts[t] |-> 1] # <<>>
    BY <1>0
  <2>5. /\ receipts' \in [Threads -> Seq({0, 1})]
        /\ \A u \in Threads : receipts[u] # <<>> => receipts'[u] # <<>>
    BY <1>0, <2>3, <2>4
  <2> QED
    BY <1>0, <2>1, <2>2, <2>5 DEF GoneOnPurpose, ThreadExists
<1>8. CASE NoVacuum
  <2>1. UNCHANGED <<db, proposed, recorded, row, receipts>> /\ purging' = None
    BY <1>8 DEF NoVacuum
  <2>2. RowsInOrder'
    BY <1>0, <2>1 DEF RowsInOrder, IdsAreGivenOnce, LineageStands, LinksLead, LeadsFrom
  <2> QED
    BY <1>0, <2>1, <2>2 DEF GoneOnPurpose, ThreadExists
<1>9. CASE UNCHANGED purgeVars
  <2>1. UNCHANGED <<db, proposed, recorded, row, receipts, purging>>
    BY <1>9 DEF purgeVars
  <2>2. RowsInOrder'
    BY <1>0, <2>1 DEF RowsInOrder, IdsAreGivenOnce, LineageStands, LinksLead, LeadsFrom
  <2> QED
    BY <1>0, <2>1, <2>2 DEF GoneOnPurpose, ThreadExists
<1> QED
  BY <1>2, <1>3, <1>4, <1>5, <1>6, <1>7, <1>8, <1>9 DEF PurgeNext

(* The tables, their foreign keys, the identities, the lineage of the      *)
(* records and the links stay in order whatever the ceremonies, deletions  *)
(* and purges do.                                                          *)
THEOREM PurgeInvariance == PurgeSpec => []PurgeInv
<1>1. PurgeInit => PurgeInv
  BY PurgeInvInit
<1>2. PurgeInv /\ [PurgeNext]_purgeVars => PurgeInv'
  BY PurgeInvStep
<1> QED
  BY <1>1, <1>2, PTL DEF PurgeSpec

(* A purge leaves nothing that refers to what it took: all foreign keys    *)
(* hold, every link of a record has both its ends, and a thread is gone    *)
(* only with a receipt, after a deletion that was told to take its         *)
(* meaning.                                                                *)
THEOREM PurgesAreWhole == PurgeSpec => []PurgeIsWhole
<1>1. PurgeInv => PurgeIsWhole
  <2> SUFFICES ASSUME PurgeInv
               PROVE  PurgeIsWhole
    OBVIOUS
  <2> USE NoneIsNoThread
  <2>1. db \in Tables /\ ForeignKeysHold(db) /\ RowsInOrder
    BY PurgeInvOf DEF RowsInOrder
  <2>2. ASSUME NEW l \in db.links, l.from[1] # "correction"
        PROVE  EndExists(l.from) /\ EndExists(l.to)
    <3>1. PICK r \in db.records : l.from = <<"record", r.id>> /\ LeadsFrom(r, l.to)
      BY <2>2 DEF PurgeInv, LinksLead
    <3>2. EndExists(l.from)
      BY <3>1 DEF EndExists, IdsOf
    <3>3. /\ r.thread # None => r.thread \in IdsOf(db.threads)
          /\ r.supersedes # None => r.supersedes \in IdsOf(db.records)
      BY <2>1 DEF ForeignKeysHold
    <3>4. CASE l.to = <<"thread", r.thread>> /\ r.thread # None
      <4>1. l.to[1] = "thread" /\ l.to[2] = r.thread
        BY <3>4
      <4> QED
        BY <3>2, <3>3, <3>4, <4>1 DEF EndExists
    <3>5. CASE \E p \in db.proposals : l.to = <<"proposal", p.id>>
      <4>1. PICK p \in db.proposals : l.to = <<"proposal", p.id>>
        BY <3>5
      <4>2. l.to[1] = "proposal" /\ l.to[2] \in IdsOf(db.proposals)
        BY <4>1 DEF IdsOf
      <4> QED
        BY <3>2, <4>2 DEF EndExists
    <3>6. CASE l.to = <<"record", r.supersedes>> /\ r.supersedes # None
      <4>1. l.to[1] = "record" /\ l.to[2] \in IdsOf(db.records)
        BY <3>3, <3>6
      <4> QED
        BY <3>2, <4>1 DEF EndExists
    <3> QED
      BY <3>1, <3>4, <3>5, <3>6 DEF LeadsFrom
  <2>3. \A t \in Threads : ~ThreadExists(t) =>
          /\ receipts[t] # <<>>
          /\ row[t] = [status |-> "completed", mode |-> WithMeaning]
    BY DEF PurgeInv, GoneOnPurpose
  <2> QED
    BY <2>1, <2>2, <2>3 DEF PurgeIsWhole
<1> QED
  BY <1>1, PurgeInvariance, PTL

(* The rows of the thread itself never stop its purge: a purge is refused  *)
(* only for a record that came after a correction made in another          *)
(* conversation.                                                           *)
THEOREM OnlyForeignersRefuse == PurgeSpec => []RefusedOnlyByForeigners
<1>1. PurgeInv => RefusedOnlyByForeigners
  <2> SUFFICES ASSUME PurgeInv, NEW t \in Threads, PurgeRefused(t), ~ForeignSuccessor(t)
               PROVE  FALSE
    BY DEF RefusedOnlyByForeigners
  <2>1. RowsInOrder
    BY PurgeInvOf
  <2>2. Statements(t) \in Seq(GoodTables(t))
    BY <2>1, StatementsInOrder
  <2>3. PICK i \in DOMAIN Statements(t) : ~ForeignKeysHold(Statements(t)[i])
    BY DEF PurgeRefused
  <2>4. Statements(t)[i] \in GoodTables(t)
    BY <2>2
  <2>5. PICK gone : InGoodOrder(gone) /\ Statements(t)[i] = Left(t, gone)
    BY <2>4 DEF GoodTables
  <2> QED
    BY <2>1, <2>3, <2>5, GoodOrderKeepsKeys
<1> QED
  BY <1>1, PurgeInvariance, PTL

(* What a purge takes of the records and proposals is of its own thread,   *)
(* whose deletion was completed in the mode that covers meaning.           *)
THEOREM OthersKeepTheirMeaning == PurgeSpec => MeaningOfOthersStays
<1> DEFINE Keeps ==
      \A table \in {"records", "proposals"} : \A x \in db[table] :
        purging = None /\ purging' # None /\ x \notin db'[table] =>
          /\ x.thread = purging'
          /\ row[x.thread] = [status |-> "completed", mode |-> WithMeaning]
<1>1. ASSUME PurgeInv, [PurgeNext]_purgeVars
      PROVE  [Keeps]_purgeVars
  <2> USE NoneIsNoThread
  <2> SUFFICES ASSUME purging = None, purging' # None,
                      NEW table \in {"records", "proposals"}, NEW x \in db[table],
                      x \notin db'[table]
               PROVE  /\ x.thread = purging'
                      /\ row[x.thread] = [status |-> "completed", mode |-> WithMeaning]
    OBVIOUS
  <2>1. RowsInOrder /\ row \in [Threads -> DeletionRows]
    BY <1>1, PurgeInvOf DEF PurgeTypes, DeletionRows
  <2>2. PICK t \in Threads : PurgeConversation(t)
    <3>1. ~Ceremony
      BY <2>1, CeremonyKeepsOrder
    <3>2. ~NoVacuum /\ ~UNCHANGED purgeVars
      BY DEF NoVacuum, purgeVars
    <3>3. \A t \in Threads : /\ ~Turn(t) /\ ~DeletionCompletes(t) /\ ~Vacuum(t)
                             /\ \A m \in Modes : ~Plan(t, m)
      BY DEF Turn, DeletionCompletes, Vacuum, Plan
    <3> QED
      BY <1>1, <3>1, <3>2, <3>3 DEF PurgeNext
  <2>3. purging' = t /\ row[t].status = "completed"
    BY <2>2 DEF PurgeConversation, Available
  <2>4. db' = Left(t, LastGone(t))
    BY <2>1, <2>2, PurgeLeaves
  <2>5. row[t].mode = WithMeaning
    <3>1. /\ db'.records = IF "records" \in LastGone(t) THEN Without(t).records
                                                        ELSE db.records
          /\ db'.proposals = IF "proposals" \in LastGone(t) THEN Without(t).proposals
                                                            ELSE db.proposals
      BY <2>4, LeftTables
    <3>2. "records" \in LastGone(t) \/ "proposals" \in LastGone(t)
      BY <3>1
    <3> QED
      BY <3>2 DEF LastGone, Judged
  <2>6. x.thread = t
    <3>1. /\ db'.records = IF "records" \in LastGone(t) THEN Without(t).records
                                                        ELSE db.records
          /\ db'.proposals = IF "proposals" \in LastGone(t) THEN Without(t).proposals
                                                            ELSE db.proposals
      BY <2>4, LeftTables
    <3>2. CASE table = "records"
      <4>1. x \in db.records /\ x \notin db'.records
        BY <3>2
      <4>2. x \notin Without(t).records
        BY <3>1, <4>1
      <4> QED
        BY <4>1, <4>2, WithoutTables
    <3>3. CASE table = "proposals"
      <4>1. x \in db.proposals /\ x \notin db'.proposals
        BY <3>3
      <4>2. x \notin Without(t).proposals
        BY <3>1, <4>1
      <4> QED
        BY <4>1, <4>2, WithoutTables
    <3> QED
      BY <3>2, <3>3
  <2>7. row[t] \in DeletionRows
    BY <2>1
  <2>8. row[t] = [status |-> "completed", mode |-> WithMeaning]
    BY <2>3, <2>5, <2>7 DEF DeletionRows
  <2> QED
    BY <2>3, <2>6, <2>8
<1>2. [][Keeps]_purgeVars => MeaningOfOthersStays
  BY PTL DEF MeaningOfOthersStays
<1> QED
  BY <1>1, <1>2, PurgeInvariance, PTL DEF PurgeSpec

(***************************************************************************)
(* The threads behind the ingress, for any requests, keys, identities and  *)
(* titles: what a client is told is true, and what was removed stays       *)
(* removed.                                                                *)
(***************************************************************************)

USE KeysTellIdsApart, AsksType, NullIsNoValue

(* A request at work holds the claim of its key; one that was told an      *)
(* outcome has settled it.                                                 *)
ClaimsHeld ==
  \A r \in Requests :
    /\ pc[r] \in {"execute", "settle"} =>
         /\ WellFormed(ask[r])
         /\ claims[ask[r].key] =
              [envelope |-> Envelope(ask[r]), stage |-> "pending", holder |-> r]
    /\ pc[r] = "done" /\ answer[r] \in Outcomes =>
         /\ claims[ask[r].key].stage = "settled"
         /\ claims[ask[r].key].envelope = Envelope(ask[r])

(* Whoever claimed a key asked for it, and settled it only when told.      *)
ClaimsMade ==
  \A k \in Keys :
    /\ claims[k] # NoClaim =>
         \E q \in Requests :
           /\ ask[q] # Null /\ ask[q].key = k
           /\ Envelope(ask[q]) = claims[k].envelope
    /\ claims[k].stage = "settled" =>
         \E q \in Requests :
           /\ pc[q] = "done" /\ answer[q] \in Outcomes
           /\ ask[q].key = k /\ Envelope(ask[q]) = claims[k].envelope

(* The adapter's key names what its claim was made for.                    *)
KeysMade ==
  \A k \in Keys : keys[k] # Null =>
    /\ claims[k] # NoClaim
    /\ claims[k].envelope =
         [op |-> "create", id |-> keys[k].id, title |-> keys[k].title]

(* Every thread was made under a key and satisfies the CHECK.              *)
ThreadsMade ==
  \A i \in Ids : Exists(i) =>
    /\ Storable(threads[i])
    /\ \E k \in Keys : keys[k] # Null /\ keys[k].id = i

(* What a request will be told is as true before it settles as after.      *)
OutcomesHold ==
  \A r \in Requests : pc[r] \in {"settle", "done"} =>
    /\ ask[r].op = "create" /\ answer[r] = "ok" =>
         /\ keys[ask[r].key] # Null
         /\ keys[ask[r].key] =
              [id |-> TargetId(ask[r]), title |-> ask[r].title]
    /\ answer[r] # "key-conflict"
    /\ answer[r] = "taken" =>
         /\ keys[ask[r].key] = Null
         /\ \E k \in Keys \ {ask[r].key} :
              keys[k] # Null /\ keys[k].id = TargetId(ask[r])

(* A request that was told of others' is told the truth.                   *)
RefusalsHold ==
  \A r \in Requests : pc[r] = "done" =>
    /\ answer[r] = "conflict" =>
         \E q \in Requests :
           /\ ask[q] # Null /\ ask[q].key = ask[r].key
           /\ Envelope(ask[q]) # Envelope(ask[r])
    /\ answer[r] = "replayed" =>
         \E q \in Requests :
           /\ pc[q] = "done" /\ answer[q] \in Outcomes
           /\ ask[q].key = ask[r].key /\ Envelope(ask[q]) = Envelope(ask[r])

(* A request at work has the answer of its work, a waiting one has none.   *)
AnswersPlaced ==
  \A r \in Requests :
    pc[r] = "settle" => answer[r] \in Outcomes

Inv == TypeOK /\ ClaimsHeld /\ ClaimsMade /\ KeysMade /\ ThreadsMade
         /\ OutcomesHold /\ RefusalsHold /\ AnswersPlaced
-----------------------------------------------------------------------------
LEMMA Initially == Init => Inv
BY DEF Init, Inv, TypeOK, ClaimsHeld, ClaimsMade, KeysMade, ThreadsMade,
       OutcomesHold, RefusalsHold, AnswersPlaced, Exists, NoClaim, NoRow

(* The payload of a well-formed request is one that can be claimed.        *)
LEMMA EnvelopeType ==
  ASSUME NEW a \in Asks
  PROVE  Envelope(a) \in Envelopes /\ TargetId(a) \in Ids /\ a.key \in Keys
BY DEF Envelope, Envelopes, TargetId, Ops

(* A request at work has asked something well-formed and holds its key.    *)
LEMMA AtWork ==
  ASSUME Inv, NEW r \in Requests, pc[r] \in {"execute", "settle"}
  PROVE  /\ ask[r] \in Asks /\ WellFormed(ask[r])
         /\ ask[r].key \in Keys /\ TargetId(ask[r]) \in Ids
         /\ Envelope(ask[r]) \in Envelopes
         /\ claims[ask[r].key] =
              [envelope |-> Envelope(ask[r]), stage |-> "pending", holder |-> r]
<1>1. ask[r] \in Asks
  BY DEF Inv, TypeOK
<1> QED
  BY <1>1, EnvelopeType DEF Inv, ClaimsHeld

(* Nothing recorded under a key is no record.                              *)
LEMMA EmptyIsNoRecord ==
  ASSUME NEW i \in Ids, NEW t \in Titles
  PROVE  [id |-> i, title |-> t] # Null
OBVIOUS

LEMMA TypeStep ==
  ASSUME Inv, [Next]_vars
  PROVE  TypeOK'
<1> USE DEF Inv, TypeOK
<1>1. ASSUME NEW r \in Requests, NEW a \in Asks, Dispatch(r, a)
      PROVE  TypeOK'
  <2>1. /\ UNCHANGED <<threads, links, keys, deletion, server>>
        /\ ask' = [ask EXCEPT ![r] = a] /\ pc[r] = "new"
    BY <1>1
    DEF Dispatch, InvalidRequest, Claim, Replay, InProgress, KeyConflict, Arrives
  <2>2. CASE Claim(r, a)
    <3>1. /\ claims' = [claims EXCEPT ![a.key] =
               [envelope |-> Envelope(a), stage |-> "pending", holder |-> r]]
          /\ pc' = [pc EXCEPT ![r] = "execute"] /\ answer' = answer
      BY <2>2 DEF Claim
    <3> QED
      BY <2>1, <3>1, EnvelopeType
  <2>3. CASE ~Claim(r, a)
    <3>1. /\ claims' = claims /\ pc' = [pc EXCEPT ![r] = "done"]
          /\ \E w \in {"invalid", "in-progress", "conflict", "replayed"} :
               answer' = [answer EXCEPT ![r] = w]
      BY <1>1, <2>3
      DEF Dispatch, InvalidRequest, Replay, InProgress, KeyConflict, Told
    <3> QED
      BY <2>1, <3>1
  <2> QED
    BY <2>2, <2>3
<1>2. ASSUME NEW r \in Requests, Create(r)
      PROVE  TypeOK'
  <2>1. /\ ask[r] \in Asks /\ ask[r].title \in Titles
        /\ ask[r].key \in Keys /\ TargetId(ask[r]) \in Ids
    BY <1>2, AtWork, EnvelopeType DEF Create, Executing, WellFormed
  <2>2. /\ pc' = [pc EXCEPT ![r] = "settle"] /\ pc[r] = "execute"
        /\ \E w \in Outcomes : answer' = [answer EXCEPT ![r] = w]
        /\ UNCHANGED <<links, deletion, claims, ask, server>>
    BY <1>2 DEF Create, Executing, Executes, Outcomes
  <2>3. threads' \in [Ids -> Row \cup {NoRow}]
    BY <1>2, <2>1 DEF Create, Row
  <2>4. keys' \in [Keys -> [id : Ids, title : Titles] \cup {Null}]
    BY <1>2, <2>1 DEF Create
  <2> QED
    BY <2>2, <2>3, <2>4
<1>3. ASSUME NEW r \in Requests, Verb(r)
      PROVE  TypeOK'
  <2>1. /\ ask[r] \in Asks /\ ask[r].id \in Ids
        /\ ask[r].title \in Titles \cup {Null}
        /\ ask[r].op = "rename" => ask[r].title \in Titles
    <3>1. pc[r] = "execute" /\ ask[r].op # "create"
      BY <1>3 DEF Verb, Executing
    <3>2. ask[r] \in Asks /\ WellFormed(ask[r])
      BY <3>1, AtWork
    <3> QED
      BY <3>1, <3>2 DEF WellFormed
  <2>2. /\ pc' = [pc EXCEPT ![r] = "settle"] /\ pc[r] = "execute"
        /\ \E w \in Outcomes : answer' = [answer EXCEPT ![r] = w]
        /\ UNCHANGED <<links, deletion, claims, ask, server, keys>>
    BY <1>3 DEF Verb, Executing, Executes, Update, Outcomes
  <2>3. threads' \in [Ids -> Row \cup {NoRow}]
    BY <1>3, <2>1 DEF Verb, Update, Row, NoRow, Exists
  <2> QED
    BY <2>2, <2>3
<1>4. ASSUME NEW r \in Requests, Settle(r)
      PROVE  TypeOK'
  <2>1. /\ ask[r].key \in Keys /\ Envelope(ask[r]) \in Envelopes
        /\ claims[ask[r].key] =
             [envelope |-> Envelope(ask[r]), stage |-> "pending", holder |-> r]
    BY <1>4, AtWork DEF Settle
  <2>2. claims' = [claims EXCEPT ![ask[r].key] =
          [envelope |-> Envelope(ask[r]), stage |-> "settled", holder |-> r]]
    <3>1. claims' = [claims EXCEPT ![ask[r].key] =
            [claims[ask[r].key] EXCEPT !.stage = "settled"]]
      BY <1>4 DEF Settle
    <3>2. [claims[ask[r].key] EXCEPT !.stage = "settled"] =
            [envelope |-> Envelope(ask[r]), stage |-> "settled", holder |-> r]
      BY <2>1
    <3> QED
      BY <3>1, <3>2
  <2> QED
    BY <1>4, <2>1, <2>2 DEF Settle
<1>5. ASSUME NEW k \in Keys, LeaseExpires(k)
      PROVE  TypeOK'
  <2>1. /\ claims[k] \in [envelope : Envelopes, stage : {"pending", "settled"},
                          holder : Requests \cup {Null}]
        /\ claims' = [claims EXCEPT ![k] = [claims[k] EXCEPT !.holder = Null]]
    BY <1>5 DEF LeaseExpires, NoClaim
  <2> QED
    BY <1>5, <2>1 DEF LeaseExpires
<1>6. CASE Crash \/ Restart
  BY <1>6 DEF Crash, Restart
<1>7. ASSUME NEW i \in Ids,
             \/ EnsureConversationLink(i) \/ PlanDeletion(i)
             \/ CancelDeletion(i) \/ CompleteDeletion(i)
      PROVE  TypeOK'
  BY <1>7
  DEF EnsureConversationLink, PlanDeletion, CancelDeletion, CompleteDeletion,
      Beside
<1>8. ASSUME NEW i \in Ids, TombstoneThread(i) \/ Purge(i)
      PROVE  TypeOK'
  BY <1>8 DEF TombstoneThread, Purge, Beside, Exists, Row
<1>9. CASE UNCHANGED vars
  BY <1>9 DEF vars
<1> QED
  BY <1>1, <1>2, <1>3, <1>4, <1>5, <1>6, <1>7, <1>8, <1>9 DEF Next

(* The steps in which nothing of the requests moves.                       *)
StandsStill == UNCHANGED <<keys, claims, pc, ask, answer>>

(* A step of a turn or a deletion, a restart or a stutter is one.          *)
LEMMA BesideStandsStill ==
  ASSUME \/ Restart \/ UNCHANGED vars
         \/ \E i \in Ids :
              \/ EnsureConversationLink(i) \/ PlanDeletion(i)
              \/ CancelDeletion(i) \/ TombstoneThread(i)
              \/ CompleteDeletion(i) \/ Purge(i)
  PROVE  StandsStill
BY DEF StandsStill, Restart, vars, EnsureConversationLink, PlanDeletion,
       CancelDeletion, TombstoneThread, CompleteDeletion, Purge, Beside

(* What a request does when it arrives: it claims its key, or is told why  *)
(* not and changes nothing.                                                *)
Refused(r, a) ==
  /\ pc[r] = "new" /\ pc' = [pc EXCEPT ![r] = "done"]
  /\ ask' = [ask EXCEPT ![r] = a]
  /\ UNCHANGED <<claims, keys, threads>>
  /\ \/ answer' = [answer EXCEPT ![r] = "invalid"]
     \/ answer' = [answer EXCEPT ![r] = "in-progress"]
     \/ /\ answer' = [answer EXCEPT ![r] = "replayed"]
        /\ claims[a.key].envelope = Envelope(a)
        /\ claims[a.key].stage = "settled"
     \/ /\ answer' = [answer EXCEPT ![r] = "conflict"]
        /\ claims[a.key] # NoClaim /\ claims[a.key].envelope # Envelope(a)

LEMMA Arrival ==
  ASSUME NEW r \in Requests, NEW a \in Asks, Dispatch(r, a)
  PROVE  Claim(r, a) \/ Refused(r, a)
BY DEF Dispatch, InvalidRequest, Replay, InProgress, KeyConflict, Arrives, Told,
       Refused

(* The work of a request: it gets its outcome, and only the first create   *)
(* under a key records that key.                                           *)
Works(r) ==
  /\ pc[r] = "execute" /\ pc' = [pc EXCEPT ![r] = "settle"]
  /\ UNCHANGED <<claims, ask>>
  /\ \E w \in Outcomes : answer' = [answer EXCEPT ![r] = w]
  /\ \/ keys' = keys
     \/ /\ ask[r].op = "create" /\ keys[ask[r].key] = Null
        /\ keys' = [keys EXCEPT ![ask[r].key] =
             [id |-> TargetId(ask[r]), title |-> ask[r].title]]

LEMMA Work ==
  ASSUME NEW r \in Requests, Create(r) \/ Verb(r)
  PROVE  Works(r)
BY DEF Works, Create, Verb, Executing, Executes, Update, KeyUsed, Outcomes

(* Every step is one of these.                                             *)
LEMMA Kinds ==
  ASSUME [Next]_vars
  PROVE  \/ \E r \in Requests, a \in Asks : Claim(r, a)
         \/ \E r \in Requests, a \in Asks : Refused(r, a)
         \/ \E r \in Requests : Works(r)
         \/ \E r \in Requests : Settle(r)
         \/ \E k \in Keys : LeaseExpires(k)
         \/ Crash
         \/ StandsStill
BY Arrival, Work, BesideStandsStill DEF Next

LEMMA PlacedStep ==
  ASSUME Inv, [Next]_vars
  PROVE  AnswersPlaced'
<1> USE DEF Inv, TypeOK, AnswersPlaced
<1>1. ASSUME NEW r \in Requests, NEW a \in Asks, Claim(r, a)
      PROVE  AnswersPlaced'
  BY <1>1 DEF Claim, Arrives
<1>2. ASSUME NEW r \in Requests, NEW a \in Asks, Refused(r, a)
      PROVE  AnswersPlaced'
  BY <1>2 DEF Refused
<1>3. ASSUME NEW r \in Requests, Works(r)
      PROVE  AnswersPlaced'
  BY <1>3 DEF Works
<1>4. ASSUME NEW r \in Requests, Settle(r)
      PROVE  AnswersPlaced'
  BY <1>4 DEF Settle
<1>5. ASSUME NEW k \in Keys, LeaseExpires(k)
      PROVE  AnswersPlaced'
  BY <1>5 DEF LeaseExpires
<1>6. CASE Crash
  BY <1>6 DEF Crash
<1>7. CASE StandsStill
  BY <1>7 DEF StandsStill
<1> QED
  BY <1>1, <1>2, <1>3, <1>4, <1>5, <1>6, <1>7, Kinds

(* A claim is taken by nobody while its holder is at work, and nothing     *)
(* touches it once it is settled.                                          *)
LEMMA HeldStep ==
  ASSUME Inv, [Next]_vars
  PROVE  ClaimsHeld'
<1> USE DEF Inv, TypeOK, ClaimsHeld
<1>1. ASSUME NEW r \in Requests, NEW a \in Asks, Claim(r, a)
      PROVE  ClaimsHeld'
  <2>1. /\ pc[r] = "new" /\ WellFormed(a) /\ answer' = answer
        /\ \/ claims[a.key] = NoClaim
           \/ /\ claims[a.key].stage = "pending"
              /\ claims[a.key].holder = Null
        /\ claims' = [claims EXCEPT ![a.key] =
             [envelope |-> Envelope(a), stage |-> "pending", holder |-> r]]
        /\ pc' = [pc EXCEPT ![r] = "execute"]
        /\ ask' = [ask EXCEPT ![r] = a]
    BY <1>1 DEF Claim, Arrives
  <2>2. a.key \in Keys /\ ask'[r] = a
    BY <2>1, EnvelopeType
  <2>3. ASSUME NEW q \in Requests, q # r, pc[q] # "new"
        PROVE  ask'[q] = ask[q] /\ ask[q] \in Asks /\ ask[q].key \in Keys
    BY <2>1, <2>3, EnvelopeType
  <2>4. ASSUME NEW q \in Requests, q # r, pc[q] \in {"execute", "settle"}
        PROVE  /\ WellFormed(ask'[q])
               /\ claims'[ask'[q].key] =
                    [envelope |-> Envelope(ask'[q]), stage |-> "pending",
                     holder |-> q]
    BY <2>1, <2>2, <2>3, <2>4 DEF NoClaim
  <2>5. ASSUME NEW q \in Requests, q # r, pc[q] = "done",
               answer[q] \in Outcomes
        PROVE  /\ claims'[ask'[q].key].stage = "settled"
               /\ claims'[ask'[q].key].envelope = Envelope(ask'[q])
    <3>1. /\ claims[ask[q].key].stage = "settled"
          /\ claims[ask[q].key].envelope = Envelope(ask[q])
      BY <2>5
    <3>2. ask[q].key # a.key
      BY <2>1, <3>1 DEF NoClaim
    <3>3. claims'[ask[q].key] = claims[ask[q].key] /\ ask'[q] = ask[q]
      BY <2>1, <2>2, <2>3, <2>5, <3>2
    <3> QED
      BY <3>1, <3>3
  <2>6. /\ WellFormed(ask'[r])
        /\ claims'[ask'[r].key] =
             [envelope |-> Envelope(ask'[r]), stage |-> "pending", holder |-> r]
        /\ pc'[r] = "execute"
    BY <2>1, <2>2
  <2> QED
    BY <2>1, <2>4, <2>5, <2>6
<1>2. ASSUME NEW r \in Requests, NEW a \in Asks, Refused(r, a)
      PROVE  ClaimsHeld'
  BY <1>2 DEF Refused, Outcomes
<1>3. ASSUME NEW r \in Requests, Works(r)
      PROVE  ClaimsHeld'
  BY <1>3 DEF Works
<1>4. ASSUME NEW r \in Requests, Settle(r)
      PROVE  ClaimsHeld'
  <2>1. /\ pc[r] = "settle" /\ pc' = [pc EXCEPT ![r] = "done"]
        /\ ask[r].key \in Keys /\ UNCHANGED <<ask, answer>>
        /\ claims[ask[r].key] =
             [envelope |-> Envelope(ask[r]), stage |-> "pending", holder |-> r]
        /\ claims' = [claims EXCEPT ![ask[r].key].stage = "settled"]
    BY <1>4, AtWork DEF Settle
  <2>2. ASSUME NEW q \in Requests, pc[q] # "new"
        PROVE  ask[q].key \in Keys
    BY <2>2, EnvelopeType
  <2>3. /\ claims'[ask[r].key].stage = "settled"
        /\ claims'[ask[r].key].envelope = Envelope(ask[r])
    BY <2>1
  <2>4. ASSUME NEW q \in Requests, q # r, pc[q] \in {"execute", "settle"}
        PROVE  /\ WellFormed(ask[q])
               /\ claims'[ask[q].key] =
                    [envelope |-> Envelope(ask[q]), stage |-> "pending",
                     holder |-> q]
    BY <2>1, <2>2, <2>4
  <2>5. ASSUME NEW q \in Requests, q # r, pc[q] = "done",
               answer[q] \in Outcomes
        PROVE  /\ claims'[ask[q].key].stage = "settled"
               /\ claims'[ask[q].key].envelope = Envelope(ask[q])
    BY <2>1, <2>2, <2>5
  <2> QED
    BY <2>1, <2>3, <2>4, <2>5
<1>5. ASSUME NEW k \in Keys, LeaseExpires(k)
      PROVE  ClaimsHeld'
  <2>1. ASSUME NEW q \in Requests, pc[q] # "new"
        PROVE  ask[q].key \in Keys
    BY <2>1, EnvelopeType
  <2>2. ASSUME NEW m \in Keys, m # k
        PROVE  claims'[m] = claims[m]
    BY <1>5, <2>2 DEF LeaseExpires
  <2>3. ASSUME NEW q \in Requests, pc[q] \in {"execute", "settle"}
        PROVE  ask[q].key # k
    <3>1. claims[ask[q].key] =
            [envelope |-> Envelope(ask[q]), stage |-> "pending", holder |-> q]
      BY <2>3
    <3>2. claims[ask[q].key].holder = q
      BY <3>1
    <3>3. pc[claims[k].holder] = "lost"
      BY <1>5 DEF LeaseExpires
    <3>4. ask[q].key = k => pc[q] = "lost"
      BY <3>2, <3>3
    <3> QED
      BY <2>3, <3>4
  <2>4. ASSUME NEW q \in Requests, pc[q] = "done", answer[q] \in Outcomes
        PROVE  ask[q].key # k
    BY <1>5, <2>4 DEF LeaseExpires
  <2> QED
    BY <1>5, <2>1, <2>2, <2>3, <2>4 DEF LeaseExpires
<1>6. CASE Crash
  BY <1>6 DEF Crash
<1>7. CASE StandsStill
  BY <1>7 DEF StandsStill
<1> QED
  BY <1>1, <1>2, <1>3, <1>4, <1>5, <1>6, <1>7, Kinds

(* Requests that asked keep asking the same, and outcomes stay told.       *)
LEMMA AskedOnce ==
  ASSUME Inv, [Next]_vars, NEW q \in Requests, ask[q] # Null
  PROVE  /\ ask'[q] = ask[q]
         /\ pc[q] = "done" => pc'[q] = "done" /\ answer'[q] = answer[q]
<1> USE DEF Inv, TypeOK
<1>1. ASSUME NEW r \in Requests, NEW a \in Asks, Claim(r, a)
      PROVE  /\ ask'[q] = ask[q]
             /\ pc[q] = "done" => pc'[q] = "done" /\ answer'[q] = answer[q]
  BY <1>1 DEF Claim, Arrives
<1>2. ASSUME NEW r \in Requests, NEW a \in Asks, Refused(r, a)
      PROVE  /\ ask'[q] = ask[q]
             /\ pc[q] = "done" => pc'[q] = "done" /\ answer'[q] = answer[q]
  BY <1>2 DEF Refused
<1>3. ASSUME NEW r \in Requests, Works(r)
      PROVE  /\ ask'[q] = ask[q]
             /\ pc[q] = "done" => pc'[q] = "done" /\ answer'[q] = answer[q]
  BY <1>3 DEF Works
<1>4. ASSUME NEW r \in Requests, Settle(r)
      PROVE  /\ ask'[q] = ask[q]
             /\ pc[q] = "done" => pc'[q] = "done" /\ answer'[q] = answer[q]
  BY <1>4 DEF Settle
<1>5. CASE (\E k \in Keys : LeaseExpires(k)) \/ Crash \/ StandsStill
  BY <1>5 DEF LeaseExpires, Crash, StandsStill
<1> QED
  BY <1>1, <1>2, <1>3, <1>4, <1>5, Kinds

(* A claim keeps its payload, and a settled one stays settled.             *)
LEMMA ClaimedOnce ==
  ASSUME Inv, [Next]_vars, NEW k \in Keys, claims[k] # NoClaim
  PROVE  /\ claims'[k].envelope = claims[k].envelope
         /\ claims'[k] # NoClaim
<1> USE DEF Inv, TypeOK
<1>1. ASSUME NEW r \in Requests, NEW a \in Asks, Claim(r, a)
      PROVE  claims'[k].envelope = claims[k].envelope /\ claims'[k] # NoClaim
  <2>1. a.key \in Keys
    BY EnvelopeType
  <2>2. CASE a.key # k
    BY <1>1, <2>1, <2>2 DEF Claim
  <2>3. CASE a.key = k
    <3>1. /\ claims'[k] =
               [envelope |-> Envelope(a), stage |-> "pending", holder |-> r]
          /\ claims[k].envelope = Envelope(a)
      BY <1>1, <2>3 DEF Claim
    <3> QED
      BY <3>1 DEF NoClaim
  <2> QED
    BY <2>2, <2>3
<1>2. ASSUME NEW r \in Requests, NEW a \in Asks, Refused(r, a)
      PROVE  claims' = claims
  BY <1>2 DEF Refused
<1>3. ASSUME NEW r \in Requests, Settle(r)
      PROVE  claims'[k].envelope = claims[k].envelope /\ claims'[k] # NoClaim
  <2>1. claims' = [claims EXCEPT ![ask[r].key].stage = "settled"]
    BY <1>3 DEF Settle
  <2>2. claims[k] \in [envelope : Envelopes, stage : {"pending", "settled"},
                       holder : Requests \cup {Null}]
    OBVIOUS
  <2> QED
    BY <2>1, <2>2 DEF NoClaim
<1>4. ASSUME NEW m \in Keys, LeaseExpires(m)
      PROVE  claims'[k].envelope = claims[k].envelope /\ claims'[k] # NoClaim
  <2>1. claims' = [claims EXCEPT ![m].holder = Null]
    BY <1>4 DEF LeaseExpires
  <2>2. claims[k] \in [envelope : Envelopes, stage : {"pending", "settled"},
                       holder : Requests \cup {Null}]
    OBVIOUS
  <2> QED
    BY <2>1, <2>2 DEF NoClaim
<1>5. CASE (\E r \in Requests : Works(r)) \/ Crash \/ StandsStill
  BY <1>5 DEF Works, Crash, StandsStill
<1> QED
  BY <1>1, <1>2, <1>3, <1>4, <1>5, Kinds

(* Only who asked for it claims or settles a key.                          *)
LEMMA MadeStep ==
  ASSUME Inv, [Next]_vars
  PROVE  ClaimsMade'
<1> DEFINE Claimer(k) == \E q \in Requests :
                           /\ ask[q] # Null /\ ask[q].key = k
                           /\ Envelope(ask[q]) = claims[k].envelope
           Settler(k) == \E q \in Requests :
                           /\ pc[q] = "done" /\ answer[q] \in Outcomes
                           /\ ask[q].key = k
                           /\ Envelope(ask[q]) = claims[k].envelope
<1> SUFFICES ASSUME NEW k \in Keys
             PROVE  /\ claims'[k] # NoClaim => Claimer(k)'
                    /\ claims'[k].stage = "settled" => Settler(k)'
  BY DEF ClaimsMade
<1>1. CASE claims[k] # NoClaim
  <2>1. Claimer(k)
    BY <1>1 DEF Inv, ClaimsMade
  <2>2. Claimer(k)'
    BY <1>1, <2>1, AskedOnce, ClaimedOnce
  <2>3. claims[k].stage = "settled" => Settler(k)
    BY DEF Inv, ClaimsMade
  <2>4. claims[k].stage = "settled" => Settler(k)'
    <3>1. ASSUME NEW q \in Requests, pc[q] = "done"
          PROVE  ask[q] # Null
      BY <3>1 DEF Inv, TypeOK
    <3> QED
      BY <1>1, <2>3, <3>1, AskedOnce, ClaimedOnce
  <2>5. ASSUME NEW r \in Requests, Settle(r), ask[r].key = k
        PROVE  Settler(k)'
    <3>1. /\ pc[r] = "settle" /\ pc'[r] = "done" /\ ask' = ask
          /\ answer' = answer /\ answer[r] \in Outcomes /\ ask[r] # Null
      BY <2>5 DEF Settle, Inv, TypeOK, AnswersPlaced
    <3>2. claims[k] =
            [envelope |-> Envelope(ask[r]), stage |-> "pending", holder |-> r]
      BY <2>5, <3>1 DEF Inv, ClaimsHeld
    <3>3. claims[k].envelope = Envelope(ask[r])
      BY <3>2
    <3>4. claims'[k].envelope = claims[k].envelope
      BY <1>1, ClaimedOnce
    <3> QED
      BY <2>5, <3>1, <3>3, <3>4
  <2>6. ASSUME claims'[k].stage = "settled", claims[k].stage # "settled"
        PROVE  \E r \in Requests : Settle(r) /\ ask[r].key = k
    <3>1. ASSUME NEW r \in Requests, NEW a \in Asks, Claim(r, a)
          PROVE  FALSE
      BY <2>6, <3>1, EnvelopeType DEF Claim, Inv, TypeOK
    <3>2. ASSUME NEW r \in Requests, Settle(r), ask[r].key # k
          PROVE  FALSE
      BY <2>6, <3>2 DEF Settle, Inv, TypeOK
    <3>3. ASSUME NEW m \in Keys, LeaseExpires(m)
          PROVE  FALSE
      BY <2>6, <3>3 DEF LeaseExpires, Inv, TypeOK
    <3>4. claims' # claims
      BY <2>6
    <3> QED
      BY <3>1, <3>2, <3>3, <3>4, Kinds
      DEF Refused, Works, Crash, StandsStill
  <2> QED
    BY <2>2, <2>4, <2>5, <2>6
<1>2. CASE claims[k] = NoClaim
  <2>1. claims[k].stage = "none"
    BY <1>2 DEF NoClaim
  <2>2. ASSUME NEW r \in Requests, NEW a \in Asks, Claim(r, a)
        PROVE  /\ claims'[k] # NoClaim => Claimer(k)'
               /\ claims'[k].stage # "settled"
    <3>1. CASE a.key # k
      BY <1>2, <2>1, <2>2, <3>1, EnvelopeType DEF Claim, Inv, TypeOK
    <3>2. CASE a.key = k
      <4>1. /\ claims'[k] =
                 [envelope |-> Envelope(a), stage |-> "pending", holder |-> r]
            /\ ask'[r] = a /\ a # Null
        BY <2>2, <3>2, EnvelopeType DEF Claim, Arrives, Inv, TypeOK
      <4> QED
        BY <3>2, <4>1
    <3> QED
      BY <3>1, <3>2
  <2>3. ASSUME NEW r \in Requests, Settle(r)
        PROVE  claims'[k] = claims[k]
    <3>1. claims[ask[r].key] =
            [envelope |-> Envelope(ask[r]), stage |-> "pending", holder |-> r]
      BY <2>3 DEF Settle, Inv, ClaimsHeld
    <3>2. ask[r].key # k
      BY <2>1, <3>1
    <3> QED
      BY <2>3, <3>2 DEF Settle, Inv, TypeOK
  <2>4. ASSUME NEW m \in Keys, LeaseExpires(m)
        PROVE  claims'[k] = claims[k]
    BY <2>1, <2>4 DEF LeaseExpires, Inv, TypeOK
  <2> QED
    BY <1>2, <2>1, <2>2, <2>3, <2>4, Kinds
    DEF Refused, Works, Crash, StandsStill
<1> QED
  BY <1>1, <1>2

(* The adapter records a key for the payload its claim was made for.       *)
LEMMA KeysStep ==
  ASSUME Inv, [Next]_vars
  PROVE  KeysMade'
<1> SUFFICES ASSUME NEW k \in Keys, keys'[k] # Null
             PROVE  /\ claims'[k] # NoClaim
                    /\ claims'[k].envelope =
                         [op |-> "create", id |-> keys'[k].id,
                          title |-> keys'[k].title]
  BY DEF KeysMade, NoClaim
<1>1. CASE keys'[k] = keys[k]
  <2>1. claims[k].envelope =
          [op |-> "create", id |-> keys[k].id, title |-> keys[k].title]
    BY <1>1 DEF Inv, KeysMade
  <2>2. claims[k] # NoClaim
    BY <1>1 DEF Inv, KeysMade
  <2> QED
    BY <1>1, <2>1, <2>2, ClaimedOnce
<1>2. CASE keys'[k] # keys[k]
  <2>1. PICK r \in Requests : Works(r) /\ keys' # keys
    BY <1>2, Kinds
    DEF Claim, Arrives, Refused, Settle, LeaseExpires, Crash, StandsStill
  <2>2. /\ ask[r].op = "create" /\ pc[r] = "execute" /\ claims' = claims
        /\ keys' = [keys EXCEPT ![ask[r].key] =
             [id |-> TargetId(ask[r]), title |-> ask[r].title]]
    BY <2>1 DEF Works
  <2>3. /\ ask[r].key = k
        /\ keys'[k] = [id |-> TargetId(ask[r]), title |-> ask[r].title]
    BY <1>2, <2>2 DEF Inv, TypeOK
  <2>4. claims[k] =
          [envelope |-> Envelope(ask[r]), stage |-> "pending", holder |-> r]
    BY <2>2, <2>3 DEF Inv, ClaimsHeld
  <2>5. claims'[k].envelope = Envelope(ask[r]) /\ claims'[k].stage = "pending"
    BY <2>2, <2>4
  <2> QED
    BY <2>2, <2>3, <2>5 DEF Envelope, NoClaim
<1> QED
  BY <1>1, <1>2

(* A recorded key is never forgotten or changed.                           *)
LEMMA KeysStay ==
  ASSUME Inv, [Next]_vars, NEW k \in Keys, keys[k] # Null
  PROVE  keys'[k] = keys[k]
<1>1. ASSUME NEW r \in Requests, Works(r)
      PROVE  keys'[k] = keys[k]
  BY <1>1 DEF Works, Inv, TypeOK
<1> QED
  BY <1>1, Kinds
  DEF Claim, Arrives, Refused, Settle, LeaseExpires, Crash, StandsStill

(* Only these write threads.                                               *)
LEMMA Quiescence ==
  ASSUME [Next]_vars,
         ~\E r \in Requests : Create(r) \/ Verb(r),
         ~\E i \in Ids : TombstoneThread(i) \/ Purge(i)
  PROVE  threads' = threads
BY DEF Next, Dispatch, InvalidRequest, Claim, Replay, InProgress, KeyConflict,
       Arrives, Settle, LeaseExpires, Crash, Restart, EnsureConversationLink,
       PlanDeletion, CancelDeletion, CompleteDeletion, vars

(* The verbs change the title or the state of threads that are there.      *)
LEMMA RowsKept ==
  ASSUME Inv, NEW r \in Requests, Verb(r), NEW i \in Ids
  PROVE  /\ threads'[i].retention = threads[i].retention
         /\ threads[i] = NoRow => threads'[i] = NoRow
<1>1. CASE threads'[i] = threads[i]
  BY <1>1
<1>2. CASE threads'[i] # threads[i]
  <2>1. PICK t : /\ threads' = [threads EXCEPT ![ask[r].id] = t]
                 /\ Exists(ask[r].id)
                 /\ t.retention = threads[ask[r].id].retention
    <3>1. Exists(ask[r].id)
      BY <1>2 DEF Verb, Update, Exists, NoRow
    <3>2. ask[r].id \in Ids
      BY AtWork DEF Verb, Executing, WellFormed
    <3>3. threads[ask[r].id] \in Row
      BY <3>1, <3>2 DEF Exists, Inv, TypeOK
    <3> QED
      BY <1>2, <3>1, <3>3 DEF Verb, Update, Row
  <2> QED
    BY <1>2, <2>1 DEF Inv, TypeOK, Exists
<1> QED
  BY <1>1, <1>2

(* Threads appear under a key only, and satisfy the CHECK after any write. *)
LEMMA ThreadsStep ==
  ASSUME Inv, [Next]_vars
  PROVE  ThreadsMade'
<1> SUFFICES ASSUME NEW i \in Ids, Exists(i)'
             PROVE  /\ Storable(threads'[i])
                    /\ \E k \in Keys : keys'[k] # Null /\ keys'[k].id = i
  BY DEF ThreadsMade
<1>1. Exists(i) => \E k \in Keys : keys'[k] # Null /\ keys'[k].id = i
  BY KeysStay DEF Inv, ThreadsMade
<1>2. Exists(i) => Storable(threads[i])
  BY DEF Inv, ThreadsMade
<1>3. ASSUME NEW r \in Requests, Create(r)
      PROVE  /\ Storable(threads'[i])
             /\ \E k \in Keys : keys'[k] # Null /\ keys'[k].id = i
  <2>1. CASE threads'[i] = threads[i]
    BY <1>1, <1>2, <2>1 DEF Exists
  <2>2. CASE threads'[i] # threads[i]
    <3>1. /\ ask[r].key \in Keys /\ ask[r].title \in Titles
          /\ TargetId(ask[r]) \in Ids
      BY <1>3, AtWork DEF Create, Executing, WellFormed
    <3>2. /\ keys' = [keys EXCEPT ![ask[r].key] =
               [id |-> TargetId(ask[r]), title |-> ask[r].title]]
          /\ threads' = [threads EXCEPT ![TargetId(ask[r])] =
               [title |-> ask[r].title, state |-> "active",
                retention |-> "currently-relevant"]]
      BY <1>3, <2>2 DEF Create
    <3>3. /\ i = TargetId(ask[r])
          /\ threads'[i] = [title |-> ask[r].title, state |-> "active",
                            retention |-> "currently-relevant"]
      BY <2>2, <3>1, <3>2 DEF Inv, TypeOK
    <3>4. keys'[ask[r].key] =
            [id |-> TargetId(ask[r]), title |-> ask[r].title]
      BY <3>1, <3>2 DEF Inv, TypeOK
    <3>5. keys'[ask[r].key].id = i /\ keys'[ask[r].key] # Null
      BY <3>1, <3>3, <3>4
    <3> QED
      BY <3>1, <3>3, <3>5 DEF Storable
  <2> QED
    BY <2>1, <2>2
<1>4. ASSUME NEW r \in Requests, Verb(r)
      PROVE  Storable(threads'[i]) /\ Exists(i)
  <2>1. CASE threads'[i] = threads[i]
    BY <1>2, <2>1 DEF Exists
  <2>2. CASE threads'[i] # threads[i]
    <3>1. PICK t : /\ threads' = [threads EXCEPT ![ask[r].id] = t]
                   /\ Storable(t) /\ Exists(ask[r].id)
      BY <1>4, <2>2 DEF Verb, Update, Exists, NoRow
    <3> QED
      BY <2>2, <3>1 DEF Inv, TypeOK
  <2> QED
    BY <2>1, <2>2
<1>5. ASSUME NEW j \in Ids, TombstoneThread(j)
      PROVE  Storable(threads'[i]) /\ Exists(i)
  <2>1. threads[j] \in Row
    BY <1>5 DEF TombstoneThread, Exists, Inv, TypeOK
  <2>2. CASE i = j
    BY <1>5, <2>1, <2>2 DEF TombstoneThread, Storable, Row, Inv, TypeOK
  <2>3. CASE i # j
    BY <1>2, <1>5, <2>3 DEF TombstoneThread, Inv, TypeOK, Exists
  <2> QED
    BY <1>5, <2>2, <2>3 DEF TombstoneThread
<1>6. ASSUME NEW j \in Ids, Purge(j)
      PROVE  Storable(threads'[i]) /\ Exists(i)
  BY <1>2, <1>6 DEF Purge, Inv, TypeOK, Exists
<1>7. CASE threads' = threads
  BY <1>1, <1>2, <1>7 DEF Exists
<1> QED
  BY <1>1, <1>3, <1>4, <1>5, <1>6, <1>7, Quiescence

(* A request that did no work is told something only when it arrives.      *)
LEMMA ToldOnArrival ==
  ASSUME Inv, [Next]_vars, NEW r \in Requests,
         \/ pc'[r] = "done" /\ pc[r] \notin {"done", "settle"}
         \/ pc'[r] = "settle" /\ pc[r] \notin {"execute", "settle"}
  PROVE  \E a \in Asks : Refused(r, a)
<1> USE DEF Inv, TypeOK
<1>1. ASSUME NEW q \in Requests, NEW a \in Asks, Claim(q, a)
      PROVE  FALSE
  BY <1>1 DEF Claim
<1>2. ASSUME NEW q \in Requests, NEW a \in Asks, Refused(q, a)
      PROVE  q = r
  BY <1>2 DEF Refused
<1>3. ASSUME NEW q \in Requests, Works(q)
      PROVE  FALSE
  BY <1>3 DEF Works
<1>4. ASSUME NEW q \in Requests, Settle(q)
      PROVE  FALSE
  BY <1>4 DEF Settle
<1>5. ASSUME (\E k \in Keys : LeaseExpires(k)) \/ Crash \/ StandsStill
      PROVE  FALSE
  BY <1>5 DEF LeaseExpires, Crash, StandsStill
<1> QED
  BY <1>1, <1>2, <1>3, <1>4, <1>5, Kinds

(* While a claim is not settled for good, only its holder records its key; *)
(* a refused create has lost its identity to a key that is not forgotten.  *)
LEMMA OutcomesStep ==
  ASSUME Inv, [Next]_vars
  PROVE  OutcomesHold'
<1> DEFINE Fair(r) ==
      /\ ask[r].op = "create" /\ answer[r] = "ok" =>
           /\ keys[ask[r].key] # Null
           /\ keys[ask[r].key] =
                [id |-> TargetId(ask[r]), title |-> ask[r].title]
      /\ answer[r] # "key-conflict"
      /\ answer[r] = "taken" =>
           /\ keys[ask[r].key] = Null
           /\ \E k \in Keys \ {ask[r].key} :
                keys[k] # Null /\ keys[k].id = TargetId(ask[r])
<1> SUFFICES ASSUME NEW r \in Requests, pc'[r] \in {"settle", "done"}
             PROVE  Fair(r)'
  BY DEF OutcomesHold
<1>1. CASE pc[r] \in {"settle", "done"}
  <2>1. Fair(r) /\ ask[r] \in Asks /\ ask[r].key \in Keys
    BY <1>1, EnvelopeType DEF Inv, OutcomesHold, TypeOK
  <2>2. ask'[r] = ask[r]
    BY <1>1, AskedOnce DEF Inv, TypeOK
  <2>3. answer'[r] = answer[r]
    BY <1>1, Kinds
    DEF Claim, Arrives, Refused, Works, Settle, LeaseExpires, Crash, StandsStill,
        Inv, TypeOK
  <2>4. answer[r] = "taken" => keys'[ask[r].key] = Null
    <3>1. ASSUME answer[r] = "taken", NEW q \in Requests, Works(q),
                 ask[q].key = ask[r].key
          PROVE  FALSE
      <4>1. /\ pc[q] = "execute"
            /\ claims[ask[q].key] =
                 [envelope |-> Envelope(ask[q]), stage |-> "pending",
                  holder |-> q]
        BY <3>1, AtWork DEF Works
      <4>2. claims[ask[q].key].stage = "pending" /\ claims[ask[q].key].holder = q
        BY <4>1
      <4>3. CASE pc[r] = "settle"
        <5>1. claims[ask[r].key] =
                [envelope |-> Envelope(ask[r]), stage |-> "pending",
                 holder |-> r]
          BY <4>3, AtWork
        <5>2. claims[ask[r].key].holder = r
          BY <5>1
        <5> QED
          BY <3>1, <4>1, <4>2, <4>3, <5>2
      <4>4. CASE pc[r] = "done"
        <5>1. claims[ask[r].key].stage = "settled"
          BY <3>1, <4>4 DEF Inv, ClaimsHeld, Outcomes
        <5> QED
          BY <3>1, <4>2, <5>1
      <4> QED
        BY <1>1, <4>3, <4>4
    <3>2. ASSUME answer[r] = "taken", NEW q \in Requests, Works(q)
          PROVE  keys'[ask[r].key] = keys[ask[r].key]
      BY <2>1, <3>1, <3>2 DEF Works, Inv, TypeOK
    <3> QED
      BY <2>1, <3>2, Kinds
      DEF Claim, Arrives, Refused, Settle, LeaseExpires, Crash, StandsStill
  <2>5. keys[ask[r].key] # Null => keys'[ask[r].key] = keys[ask[r].key]
    BY <2>1, KeysStay
  <2>6. answer[r] = "taken" =>
          \E k \in Keys \ {ask[r].key} :
            keys'[k] # Null /\ keys'[k].id = TargetId(ask[r])
    BY <2>1, KeysStay
  <2> QED
    BY <2>1, <2>2, <2>3, <2>4, <2>5, <2>6
<1>2. CASE pc[r] = "execute"
  <2>1. /\ ask[r] \in Asks /\ WellFormed(ask[r]) /\ ask[r].key \in Keys
        /\ TargetId(ask[r]) \in Ids
        /\ claims[ask[r].key] =
             [envelope |-> Envelope(ask[r]), stage |-> "pending", holder |-> r]
    BY <1>2, AtWork
  <2>2. claims[ask[r].key].envelope = Envelope(ask[r])
    BY <2>1
  <2>3. Create(r) \/ Verb(r)
    <3>1. ASSUME NEW q \in Requests, Create(q) \/ Verb(q), q # r
          PROVE  pc'[r] = pc[r]
      BY <3>1, Work DEF Works, Inv, TypeOK
    <3>2. ASSUME NEW q \in Requests, NEW a \in Asks, Dispatch(q, a)
          PROVE  pc'[r] = pc[r]
      BY <1>2, <3>2, Arrival DEF Claim, Arrives, Refused, Inv, TypeOK
    <3>3. ASSUME NEW q \in Requests, Settle(q)
          PROVE  pc'[r] = pc[r]
      BY <1>2, <3>3 DEF Settle, Inv, TypeOK
    <3>4. Crash => pc'[r] = "lost"
      BY <1>2 DEF Crash
    <3>5. (\E k \in Keys : LeaseExpires(k)) \/ StandsStill => pc' = pc
      BY DEF LeaseExpires, StandsStill
    <3> QED
      BY <1>2, <3>1, <3>2, <3>3, <3>4, <3>5, BesideStandsStill DEF Next
  <2>4. CASE Create(r)
    <3>1. /\ ask' = ask /\ ask[r].title \in Titles
          /\ ask[r].op = "create"
      BY <2>1, <2>4 DEF Create, Executing, Executes, WellFormed
    <3>2. CASE keys[ask[r].key] # Null
      <4>1. Envelope(ask[r]) =
              [op |-> "create", id |-> keys[ask[r].key].id,
               title |-> keys[ask[r].key].title]
        BY <2>1, <2>2, <3>2 DEF Inv, KeysMade
      <4>2. /\ keys[ask[r].key].id = TargetId(ask[r])
            /\ keys[ask[r].key].title = ask[r].title
        BY <4>1 DEF Envelope
      <4>3. keys[ask[r].key] \in [id : Ids, title : Titles]
        BY <2>1, <3>2 DEF Inv, TypeOK
      <4>4. keys[ask[r].key] =
              [id |-> TargetId(ask[r]), title |-> ask[r].title]
        BY <4>2, <4>3
      <4>5. answer'[r] = "ok" /\ keys' = keys
        BY <2>4, <3>2, <4>4
        DEF Create, Executes, KeyUsed, Inv, TypeOK
      <4> QED
        BY <3>1, <3>2, <4>4, <4>5
    <3>3. CASE keys[ask[r].key] = Null /\ ~Exists(TargetId(ask[r]))
      <4>1. answer'[r] = "ok"
        BY <2>4, <3>3 DEF Create, Executes, KeyUsed, Inv, TypeOK
      <4>2. keys'[ask[r].key] =
              [id |-> TargetId(ask[r]), title |-> ask[r].title]
        BY <2>1, <2>4, <3>3 DEF Create, KeyUsed, Inv, TypeOK
      <4> QED
        BY <2>1, <3>1, <4>1, <4>2, EmptyIsNoRecord
    <3>4. CASE keys[ask[r].key] = Null /\ Exists(TargetId(ask[r]))
      <4>1. answer'[r] = "taken" /\ keys' = keys
        BY <2>4, <3>4 DEF Create, Executes, KeyUsed, Inv, TypeOK
      <4>2. \E k \in Keys : keys[k] # Null /\ keys[k].id = TargetId(ask[r])
        BY <2>1, <3>4 DEF Inv, ThreadsMade
      <4> QED
        BY <3>1, <3>4, <4>1, <4>2
    <3> QED
      BY <3>2, <3>3, <3>4
  <2>5. CASE Verb(r)
    <3>1. ask' = ask /\ ask[r].op # "create"
      BY <2>5 DEF Verb, Executing, Executes, Update
    <3>2. \E w \in Outcomes \ {"taken", "key-conflict"} :
            answer' = [answer EXCEPT ![r] = w]
      BY <2>5 DEF Verb, Executes, Update, Outcomes
    <3>3. answer'[r] # "taken" /\ answer'[r] # "key-conflict"
      BY <3>2 DEF Inv, TypeOK
    <3> QED
      BY <3>1, <3>3
  <2> QED
    BY <2>3, <2>4, <2>5
<1>3. CASE pc[r] \in {"new", "lost"}
  <2>1. PICK a \in Asks : Refused(r, a)
    BY <1>3, ToldOnArrival
  <2>2. answer'[r] \in {"invalid", "in-progress", "replayed", "conflict"}
    BY <2>1 DEF Refused, Inv, TypeOK
  <2> QED
    BY <2>2
<1> QED
  BY <1>1, <1>2, <1>3 DEF Inv, TypeOK

(* Whom a refusal or a replay tells of has asked, and was told.            *)
LEMMA RefusalsStep ==
  ASSUME Inv, [Next]_vars
  PROVE  RefusalsHold'
<1> DEFINE Differs(r) == \E q \in Requests :
             /\ ask[q] # Null /\ ask[q].key = ask[r].key
             /\ Envelope(ask[q]) # Envelope(ask[r])
           Repeats(r) == \E q \in Requests :
             /\ pc[q] = "done" /\ answer[q] \in Outcomes
             /\ ask[q].key = ask[r].key /\ Envelope(ask[q]) = Envelope(ask[r])
<1> SUFFICES ASSUME NEW r \in Requests, pc'[r] = "done"
             PROVE  /\ answer'[r] = "conflict" => Differs(r)'
                    /\ answer'[r] = "replayed" => Repeats(r)'
  BY DEF RefusalsHold
<1>1. CASE pc[r] = "done"
  <2>1. /\ ask'[r] = ask[r] /\ answer'[r] = answer[r]
        /\ answer[r] = "conflict" => Differs(r)
        /\ answer[r] = "replayed" => Repeats(r)
    BY <1>1, AskedOnce DEF Inv, TypeOK, RefusalsHold
  <2>2. ASSUME NEW q \in Requests, pc[q] = "done"
        PROVE  ask[q] # Null
    BY <2>2 DEF Inv, TypeOK
  <2> QED
    BY <2>1, <2>2, AskedOnce
<1>2. CASE pc[r] = "settle"
  <2>1. answer[r] \in Outcomes
    BY <1>2 DEF Inv, AnswersPlaced
  <2>2. answer'[r] = answer[r]
    BY <1>2, Kinds
    DEF Claim, Arrives, Refused, Works, Settle, LeaseExpires, Crash, StandsStill,
        Inv, TypeOK
  <2> QED
    BY <2>1, <2>2 DEF Outcomes
<1>3. CASE pc[r] \in {"new", "execute", "lost"}
  <2>1. PICK a \in Asks : Refused(r, a)
    BY <1>3, ToldOnArrival
  <2>2. a.key \in Keys /\ ask'[r] = a
    BY <2>1, EnvelopeType DEF Refused, Inv, TypeOK
  <2>3. ASSUME answer'[r] = "conflict"
        PROVE  Differs(r)'
    <3>1. claims[a.key] # NoClaim /\ claims[a.key].envelope # Envelope(a)
      BY <2>1, <2>3 DEF Refused, Inv, TypeOK
    <3>2. PICK q \in Requests :
            /\ ask[q] # Null /\ ask[q].key = a.key
            /\ Envelope(ask[q]) = claims[a.key].envelope
      BY <2>2, <3>1 DEF Inv, ClaimsMade
    <3>3. ask'[q] = ask[q]
      BY <3>2, AskedOnce
    <3> QED
      BY <2>2, <3>1, <3>2, <3>3
  <2>4. ASSUME answer'[r] = "replayed"
        PROVE  Repeats(r)'
    <3>1. /\ claims[a.key].stage = "settled"
          /\ claims[a.key].envelope = Envelope(a)
      BY <2>1, <2>4 DEF Refused, Inv, TypeOK
    <3>2. PICK q \in Requests :
            /\ pc[q] = "done" /\ answer[q] \in Outcomes
            /\ ask[q].key = a.key /\ Envelope(ask[q]) = claims[a.key].envelope
      BY <2>2, <3>1 DEF Inv, ClaimsMade
    <3>3. /\ ask'[q] = ask[q]
          /\ pc'[q] = "done" /\ answer'[q] = answer[q]
      BY <3>2, AskedOnce DEF Inv, TypeOK
    <3> QED
      BY <2>2, <3>1, <3>2, <3>3
  <2> QED
    BY <2>3, <2>4
<1> QED
  BY <1>1, <1>2, <1>3 DEF Inv, TypeOK
-----------------------------------------------------------------------------
THEOREM Invariance == Spec => []Inv
<1>1. Inv /\ [Next]_vars => Inv'
  BY TypeStep, HeldStep, MadeStep, KeysStep, ThreadsStep, OutcomesStep,
     RefusalsStep, PlacedStep
  DEF Inv
<1> QED
  BY Initially, <1>1, PTL DEF Spec

(* No client is ever told anything of a thread that is not so.             *)
THEOREM ClientsAreToldTheTruth == Spec => []AnswersAreTrue
<1>1. Inv => AnswersAreTrue
  <2> SUFFICES ASSUME Inv, NEW r \in Requests, pc[r] = "done",
                      answer[r] = "conflict"
               PROVE  \E q \in Requests :
                        /\ ask[q] # Null /\ ask[q].key = ask[r].key
                        /\ \/ ask[q].op # ask[r].op
                           \/ ask[q].title # ask[r].title
                           \/ /\ ask[q].id # ask[r].id
                              /\ {ask[q].id, ask[r].id} \cap Ids # {}
    BY DEF Inv, OutcomesHold, RefusalsHold, AnswersAreTrue
  <2>1. PICK q \in Requests :
          /\ ask[q] # Null /\ ask[q].key = ask[r].key
          /\ Envelope(ask[q]) # Envelope(ask[r])
    BY DEF Inv, RefusalsHold
  <2>2. \/ ask[q].op # ask[r].op \/ ask[q].title # ask[r].title
        \/ TargetId(ask[q]) # TargetId(ask[r])
    BY <2>1 DEF Envelope
  <2>3. TargetId(ask[q]) # TargetId(ask[r]) =>
          ask[q].id # ask[r].id /\ (ask[q].id \in Ids \/ ask[r].id \in Ids)
    BY <2>1 DEF TargetId
  <2> QED
    BY <2>1, <2>2, <2>3
<1> QED
  BY <1>1, Invariance, PTL

(* No retry brings a deleted thread back, and no key creates twice.        *)
THEOREM DeletedThreadsStayDeleted == Spec => RemovedStaysRemoved
<1>1. Inv /\ Inv' /\ [Next]_vars =>
        [\A i \in Ids :
           /\ Removed(i) =>
                \/ threads'[i] = NoRow
                \/ Removed(i)' /\ threads'[i].title = Null
           /\ ~Exists(i) /\ deletion[i] = "completed" /\ Exists(i)' =>
                \E k \in Keys :
                  keys[k] = Null /\ keys'[k] # Null /\ keys'[k].id = i]_vars
  <2> SUFFICES ASSUME Inv, Inv', [Next]_vars, NEW i \in Ids
               PROVE  /\ Removed(i) =>
                           \/ threads'[i] = NoRow
                           \/ Removed(i)' /\ threads'[i].title = Null
                      /\ ~Exists(i) /\ Exists(i)' =>
                           \E k \in Keys :
                             /\ keys[k] = Null /\ keys'[k] # Null
                             /\ keys'[k].id = i
    OBVIOUS
  <2>1. threads'[i] # NoRow => Storable(threads'[i])
    BY DEF Inv, ThreadsMade, Exists
  <2>2. Removed(i) /\ threads'[i] # NoRow => Removed(i)'
    <3>1. ASSUME NEW r \in Requests, Create(r), Removed(i)
          PROVE  threads'[i] = threads[i]
      BY <3>1 DEF Create, Exists, Removed, NoRow, Inv, TypeOK
    <3>2. ASSUME NEW r \in Requests, Verb(r)
          PROVE  threads'[i].retention = threads[i].retention
      BY <3>2, RowsKept
    <3>3. ASSUME NEW j \in Ids, TombstoneThread(j), Removed(i)
          PROVE  threads'[i] = threads[i]
      BY <3>3 DEF TombstoneThread, Inv, TypeOK
    <3>4. ASSUME NEW j \in Ids, Purge(j)
          PROVE  threads'[i] = threads[i] \/ threads'[i] = NoRow
      BY <3>4 DEF Purge, Inv, TypeOK
    <3> QED
      BY <3>1, <3>2, <3>3, <3>4, Quiescence DEF Removed
  <2>3. ASSUME ~Exists(i), Exists(i)'
        PROVE  \E k \in Keys :
                 keys[k] = Null /\ keys'[k] # Null /\ keys'[k].id = i
    <3>1. PICK r \in Requests : Create(r)
      <4>1. ASSUME NEW r \in Requests, Verb(r)
            PROVE  FALSE
        BY <2>3, <4>1, RowsKept DEF Exists
      <4>2. ASSUME NEW j \in Ids, TombstoneThread(j) \/ Purge(j)
            PROVE  FALSE
        BY <2>3, <4>2 DEF TombstoneThread, Purge, Exists, Inv, TypeOK
      <4> QED
        BY <2>3, <4>1, <4>2, Quiescence DEF Exists
    <3>2. /\ ask[r].key \in Keys /\ TargetId(ask[r]) \in Ids
          /\ ask[r].title \in Titles
      BY <3>1, AtWork DEF Create, Executing, WellFormed
    <3>3. /\ keys[ask[r].key] = Null
          /\ keys' = [keys EXCEPT ![ask[r].key] =
               [id |-> TargetId(ask[r]), title |-> ask[r].title]]
          /\ i = TargetId(ask[r])
      BY <2>3, <3>1, <3>2 DEF Create, KeyUsed, Exists, Inv, TypeOK
    <3>4. keys'[ask[r].key] =
            [id |-> TargetId(ask[r]), title |-> ask[r].title]
      BY <3>2, <3>3 DEF Inv, TypeOK
    <3> QED
      BY <3>2, <3>3, <3>4, EmptyIsNoRecord
  <2> QED
    BY <2>1, <2>2, <2>3 DEF Storable, Removed
<1> QED
  BY <1>1, Invariance, PTL DEF Spec, RemovedStaysRemoved
==============================================================================
