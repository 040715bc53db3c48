---------------------------- MODULE MeaningRecords ----------------------------
(***************************************************************************)
(* The durable meaning records of the shared world: claims, commitments    *)
(* and open loops, their lifecycle (sharedworld/meaning-store.ts), their   *)
(* retention (retention-store.ts) and the amendment of commitments         *)
(* (conflict-store.ts), over the tables and storage constraints of         *)
(* migration 5 (migrations.ts).                                            *)
(*                                                                         *)
(* node:sqlite is synchronous and every verb runs in one BEGIN IMMEDIATE   *)
(* transaction, so a verb is one step.  The order of the statements inside *)
(* it matters all the same: SQLite checks indexes and CHECKs after each of *)
(* them and a refusal rolls the verb back.  A verb is enabled here exactly *)
(* when every statement of it is storable.                                 *)
(*                                                                         *)
(* A caller's expectedVersion only narrows these guards, and so does an    *)
(* idempotency key; ChangesAreVersioned is what makes the first sound.     *)
(***************************************************************************)
EXTENDS Naturals, FiniteSets

CONSTANTS
  Claims, Commitments, OpenLoops,  \* the identities each family can mint
  CommitmentKeys,                  \* what a commitment is about
  Null,                            \* SQL NULL
  PassBatch,                       \* PASS_BATCH_LIMIT
  MaxTime,                         \* bound on the clock and on deadlines
  MaxVersion                       \* bound on re-assigned deadlines

Ids == Claims \cup Commitments \cup OpenLoops

ASSUME FamiliesDisjoint ==
  /\ Claims \cap Commitments = {}
  /\ Claims \cap OpenLoops = {}
  /\ Commitments \cap OpenLoops = {}
ASSUME NullIsNoValue == Null \notin Nat \cup CommitmentKeys \cup Ids
ASSUME BoundsAreNat == PassBatch \in Nat /\ MaxTime \in Nat /\ MaxVersion \in Nat

VARIABLES
  row,  \* the three tables, by record identity
  now   \* the clock; it may be set back

vars == <<row, now>>

ClaimStatuses == {"active", "superseded", "retired"}
CommitmentStatuses == {"active", "released", "superseded", "amended"}
LoopStatuses == {"open", "resolved", "superseded", "abandoned", "transformed"}

Statuses(i) ==
  CASE i \in Claims -> ClaimStatuses
    [] i \in Commitments -> CommitmentStatuses
    [] i \in OpenLoops -> LoopStatuses

(* The one status per family that may become context-eligible.             *)
EligibleStatus(i) == IF i \in OpenLoops THEN "open" ELSE "active"

SameFamily(i, j) ==
  \/ {i, j} \subseteq Claims
  \/ {i, j} \subseteq Commitments
  \/ {i, j} \subseteq OpenLoops

(* A row.  Columns a family lacks stay Null; exit stands for exit_by,      *)
(* exited_at_ms and exit_reason: unset, set, or set with a reason.         *)
Rows(i) ==
  [status : Statuses(i) \cup {"absent"},
   version : Nat,
   retention : {"currently-relevant", "expired", "user-removed"},
   expires : Nat \cup {Null},
   key : CommitmentKeys \cup {Null},
   supersedes : Ids \cup {Null},
   exit : {"unset", "set", "reasoned"}]

NewRow(status, key, supersedes) ==
  [status |-> status, version |-> 1, retention |-> "currently-relevant",
   expires |-> Null, key |-> key, supersedes |-> supersedes, exit |-> "unset"]

NoRow == [NewRow("absent", Null, Null) EXCEPT !.version = 0]

Exists(i) == row[i].status # "absent"
Relevant(i) == row[i].retention = "currently-relevant"
Removed(i) == row[i].retention = "user-removed"
HasEligibleStatus(i) == row[i].status = EligibleStatus(i)
CurrentEffective(i) == HasEligibleStatus(i) /\ Relevant(i)

TypeOK ==
  /\ DOMAIN row = Ids
  /\ \A i \in Ids : row[i] \in Rows(i)
  /\ now \in Nat

Init ==
  /\ row = [i \in Ids |-> NoRow]
  /\ now = 0
-----------------------------------------------------------------------------
(* Storage constraints, over the tables t a statement leaves behind.       *)

(* uq_qlt_commitment_active_key, a partial index; NULLs are distinct.      *)
ActiveKeysUnique(t) ==
  \A i, j \in Commitments :
    /\ t[i].status = "active" /\ t[j].status = "active"
    /\ t[i].key = t[j].key /\ t[i].key # Null
    => i = j

(* A loop that is not open says who ended it and when.                     *)
LoopExitsAttributed(t) ==
  \A l \in OpenLoops : t[l].status \in {"absent", "open"} \/ t[l].exit # "unset"

(* A user-removed row is content-free.                                     *)
TombstonesEmpty(t) ==
  \A i \in Ids : t[i].retention = "user-removed" =>
    t[i].key = Null /\ t[i].expires = Null /\ t[i].exit # "reasoned"

Storable(t) ==
  ActiveKeysUnique(t) /\ LoopExitsAttributed(t) /\ TombstonesEmpty(t)

(* What every UPDATE of a verb does to a row besides its own columns.      *)
Bumped(r) == [r EXCEPT !.version = @ + 1]
Moved(r, status) == [Bumped(r) EXCEPT !.status = status]
-----------------------------------------------------------------------------
(* createClaim, createCommitment, createOpenLoop, and the record a         *)
(* confirmed proposal creates.                                             *)
Create(i, k) ==
  /\ ~Exists(i)
  /\ k \in IF i \in Commitments THEN CommitmentKeys ELSE {Null}
  /\ row' = [row EXCEPT ![i] = NewRow(EligibleStatus(i), k, Null)]
  /\ Storable(row')
  /\ UNCHANGED now

Exits(i) ==
  CASE i \in Claims -> {"retired"}
    [] i \in Commitments -> {"released"}
    [] i \in OpenLoops -> {"resolved", "abandoned", "transformed"}

(* The reason of a loop's exit: optional to resolve, required otherwise.   *)
ExitMarks(i, status) ==
  IF i \notin OpenLoops THEN {"unset"}
  ELSE IF status = "resolved" THEN {"set", "reasoned"} ELSE {"reasoned"}

(* retireClaim, releaseCommitment, resolveLoop, abandonLoop, transformLoop *)
(* ask for the lifecycle status only: an expired or removed record may     *)
(* still be ended, unless its tombstone would have to carry a reason.      *)
Exit(i, status) ==
  /\ HasEligibleStatus(i)
  /\ status \in Exits(i)
  /\ \E mark \in ExitMarks(i, status) :
       row' = [row EXCEPT ![i] = [Moved(@, status) EXCEPT !.exit = mark]]
  /\ Storable(row')
  /\ UNCHANGED now
-----------------------------------------------------------------------------
(* A bug: the subject's lifecycle status is not looked at.                 *)
CorrectUnchecked(i, j) ==
  /\ Exists(i) /\ Relevant(i)
  /\ ~Exists(j) /\ SameFamily(i, j)
  /\ row' = [row EXCEPT ![j] = NewRow(EligibleStatus(i), row[i].key, i),
                        ![i] = Moved(@, "superseded")]
  /\ Storable(row')
  /\ UNCHANGED now

(* applyCorrection: the successor is inserted, and then the subject is     *)
(* superseded.  The successor carries no deadline.                         *)
Correct(i, j) ==
  LET inserted == [row EXCEPT ![j] = NewRow(EligibleStatus(i), row[i].key, i)]
      superseded == [inserted EXCEPT ![i] = Moved(@, "superseded")]
  IN  /\ CurrentEffective(i)
      /\ ~Exists(j) /\ SameFamily(i, j)
      /\ Storable(inserted) /\ Storable(superseded)
      /\ row' = superseded
      /\ UNCHANGED now

(* A bug: a removed commitment is amended like any other.                  *)
AmendRemoved(i, j) ==
  /\ {i, j} \subseteq Commitments
  /\ HasEligibleStatus(i) /\ ~Exists(j)
  /\ row' = [row EXCEPT ![i] = Moved(@, "amended"),
                        ![j] = NewRow("active", row[i].key, i)]
  /\ Storable(row')
  /\ UNCHANGED now

(* A bug: the amendment's row is written without the commitment's key.     *)
AmendKeyless(i, j) ==
  /\ {i, j} \subseteq Commitments
  /\ CurrentEffective(i) /\ ~Exists(j)
  /\ row' = [row EXCEPT ![i] = Moved(@, "amended"),
                        ![j] = NewRow("active", Null, i)]
  /\ Storable(row')
  /\ UNCHANGED now

(* amendCommitment, and the resolution of a conflict by amendment: the     *)
(* predecessor vacates its key first.                                      *)
Amend(i, j) ==
  LET vacated == [row EXCEPT ![i] = Moved(@, "amended")]
      inserted == [vacated EXCEPT ![j] = NewRow("active", row[i].key, i)]
  IN  /\ {i, j} \subseteq Commitments
      /\ CurrentEffective(i)
      /\ ~Exists(j)
      /\ Storable(vacated) /\ Storable(inserted)
      /\ row' = inserted
      /\ UNCHANGED now
-----------------------------------------------------------------------------
(* The content-free tombstone.                                             *)
Tombstone(r) ==
  [Bumped(r) EXCEPT !.retention = "user-removed", !.key = Null, !.expires = Null,
                    !.exit = IF r.exit = "reasoned" THEN "set" ELSE r.exit]

(* removeRecord.  The lifecycle status stays, and a second removal         *)
(* converges without an effect.                                            *)
Remove(i) ==
  /\ Exists(i)
  /\ ~Removed(i)
  /\ row' = [row EXCEPT ![i] = Tombstone(@)]
  /\ Storable(row')
  /\ UNCHANGED now

(* A bug: a new deadline brings an expired claim back.                     *)
SetExpiryRevives(c, t) ==
  /\ c \in Claims /\ row[c].status = "active" /\ ~Removed(c)
  /\ t # Null => t > now
  /\ row[c].version <= MaxVersion
  /\ row' = [row EXCEPT ![c] =
       [Bumped(@) EXCEPT !.expires = t, !.retention = "currently-relevant"]]
  /\ UNCHANGED now

(* setClaimExpiry: a deadline in the future, or none.                      *)
SetExpiry(c, t) ==
  /\ c \in Claims
  /\ CurrentEffective(c)
  /\ t # Null => t > now
  /\ row[c].version < MaxVersion
  /\ row' = [row EXCEPT ![c] = [Bumped(@) EXCEPT !.expires = t]]
  /\ Storable(row')
  /\ UNCHANGED now

Due == {c \in Claims :
          CurrentEffective(c) /\ row[c].expires # Null /\ row[c].expires <= now}

(* A bug: the limit without the order.                                     *)
BatchesUnordered == {B \in SUBSET Due : Cardinality(B) <= PassBatch}

(* ORDER BY expires_at_ms, id LIMIT PASS_BATCH_LIMIT; ties go either way.  *)
Batches ==
  {B \in SUBSET Due :
     /\ Cardinality(B) <= PassBatch
     /\ B # Due => Cardinality(B) = PassBatch
     /\ \A b \in B, d \in Due \ B : row[b].expires <= row[d].expires}

(* A bug: the pass writes the retention state and nothing else.            *)
RetentionPassUnversioned(B) ==
  /\ B \in Batches
  /\ row' = [i \in Ids |->
       IF i \in B THEN [row[i] EXCEPT !.retention = "expired"] ELSE row[i]]
  /\ UNCHANGED now

(* runRetentionPass, the only writer of 'expired'.                         *)
RetentionPass(B) ==
  /\ B \in Batches
  /\ row' = [i \in Ids |->
       IF i \in B THEN [Bumped(row[i]) EXCEPT !.retention = "expired"]
                  ELSE row[i]]
  /\ Storable(row')
  /\ UNCHANGED now

(* Date.now() between two verbs.                                           *)
ClockMoves(t) ==
  /\ now' = t
  /\ UNCHANGED row

Next ==
  \/ \E i \in Ids, k \in CommitmentKeys \cup {Null} : Create(i, k)
  \/ \E i \in Ids : \E status \in Statuses(i) \cup Exits(i) : Exit(i, status)
  \/ \E i, j \in Ids : Correct(i, j)
  \/ \E i, j \in Commitments : Amend(i, j)
  \/ \E i \in Ids : Remove(i)
  \/ \E c \in Claims, t \in (1 .. MaxTime) \cup {Null} : SetExpiry(c, t)
  \/ \E B \in SUBSET Claims : RetentionPass(B)
  \/ \E t \in 0 .. MaxTime : ClockMoves(t)

Spec == Init /\ [][Next]_vars
-----------------------------------------------------------------------------
(* At most one active commitment holds a key (migrations.ts): the conflict *)
(* detector and resolveCurrentEffectiveCommitment read one row per key.    *)
OneStandingCommitment ==
  \A i, j \in Commitments :
    CurrentEffective(i) /\ CurrentEffective(j) /\ row[i].key = row[j].key => i = j

Holds(i, k) == CurrentEffective(i) /\ row[i].key = k

(* A key once committed to is let go only by a release or a removal of its *)
(* holder: an amendment hands it over without a gap (conflict-store.ts:    *)
(* the predecessor moves first, in the same transaction).                  *)
KeyHeldUntilReleased ==
  [][\A k \in CommitmentKeys, i \in Commitments :
       Holds(i, k) =>
         \/ \E j \in Commitments : Holds(j, k)'
         \/ row[i].status' = "released"
         \/ Removed(i)']_vars

(* Corrections and amendments build chains: a predecessor exists, is of    *)
(* the same family and key and has left its eligible status; no record has *)
(* two successors (applyCorrection: "duplicate successors fail closed");   *)
(* and a superseded or amended record has one.                             *)
LineageIsLinear ==
  /\ \A j \in Ids : row[j].supersedes # Null =>
       LET i == row[j].supersedes
       IN  /\ Exists(j)
           /\ SameFamily(i, j)
           /\ row[i].status \in {"superseded", "amended"}
           /\ row[i].key = row[j].key \/ Removed(i) \/ Removed(j)
  /\ \A j, l \in Ids :
       row[j].supersedes = row[l].supersedes /\ row[j].supersedes # Null => j = l
  /\ \A i \in Ids : row[i].status \in {"superseded", "amended"} =>
       \E j \in Ids : row[j].supersedes = i

(* The strengthening the proofs rest on.                                   *)
FreshIdentities == \A i \in Ids : ~Exists(i) => row[i].version = 0
CommitmentsHaveKeys ==
  \A m \in Commitments : Exists(m) /\ ~Removed(m) => row[m].key # Null

IInv ==
  /\ TypeOK
  /\ Storable(row)
  /\ LineageIsLinear
  /\ FreshIdentities
  /\ CommitmentsHaveKeys

(* No ghost derivative: a record that appears with a predecessor replaces  *)
(* one that was current-effective until that very step (conflict-store.ts  *)
(* and meaning-store.ts: removed or expired material is never the basis of *)
(* a fresh record).                                                        *)
NoGhostDerivative ==
  [][\A j \in Ids : ~Exists(j) /\ Exists(j)' =>
       \/ row[j].supersedes' = Null
       \/ \E i \in Ids : /\ row[j].supersedes' = i
                         /\ CurrentEffective(i)
                         /\ ~HasEligibleStatus(i)']_vars

(* Once a record has stopped being current-effective, by whatever path, it *)
(* never is again, and a tombstone is never filled (d1-contract.ts: no     *)
(* un-expiry, no un-removal).                                              *)
NothingComesBack ==
  [][\A i \in Ids : Exists(i) =>
       /\ ~CurrentEffective(i) => ~CurrentEffective(i)'
       /\ Removed(i) => Removed(i)' /\ row[i].key' = Null]_vars

(* Optimistic concurrency is sound: equal versions mean equal rows, since  *)
(* whatever changes a row of any table bumps its version by one.           *)
ChangesAreVersioned ==
  [][\A i \in Ids : row[i]' # row[i] => row[i].version' = row[i].version + 1]_vars

(* A pass that hits its batch limit leaves only claims whose deadline is   *)
(* no earlier than those it expired, so that no deadline can be overtaken  *)
(* forever; and it expires nothing before its time.                        *)
EarliestDeadlinesFirst ==
  [][\A c \in Claims : Relevant(c) /\ row[c].retention' = "expired" =>
       /\ c \in Due
       /\ \A d \in Due : Relevant(d)' => row[c].expires <= row[d].expires]_vars
-----------------------------------------------------------------------------
(* What the contract freeze says of act.correctRecord: a current record    *)
(* can be corrected while there is a new identity to mint.  It holds of    *)
(* claims only.                                                            *)
CurrentIsCorrectable ==
  \A i, j \in Ids :
    CurrentEffective(i) /\ ~Exists(j) /\ SameFamily(i, j) => ENABLED Correct(i, j)
=============================================================================
