----------------------------- MODULE MemoryViews -----------------------------
(***************************************************************************)
(* What is read from the records of MeaningRecords: the lists of the       *)
(* inspection surface and of the memory tray (sharedworld/sqlite.ts,       *)
(* inspection-surface.ts), the candidates of a reply and the selection     *)
(* made among them (context-assembler.ts), and what is told of it later.   *)
(*                                                                         *)
(* The record machine is that of MeaningRecords; its verbs move            *)
(* updated_at_ms, by which every list is ordered, and hand the subject of  *)
(* a record to its successor.  An assembly is one step here: TurnContext   *)
(* has the interleavings inside it.  A confirmation that creates a record  *)
(* is two steps, in either order, with the same outcome.                   *)
(*                                                                         *)
(* Malformed rows (provenance-invalid, evaluation-failed) are left out:    *)
(* the columns' CHECKs refuse them.  A row whose content no longer has its *)
(* fingerprint is one that is not in Intact.                               *)
(***************************************************************************)
EXTENDS MeaningRecords, FiniteSetsExt

CONSTANTS
  Proposals,      \* identities of proposals
  SubjectOf,      \* what a new claim or open loop is about
  Threads, Turns,
  OriginOf,       \* source_thread_id of a row, Null for a global one
  KindOf,         \* proposal_kind
  ThreadOf,       \* the conversation of a turn
  SizeOf,         \* the bytes a record renders to
  Intact,         \* the records whose content has its fingerprint
  ScanLimit,      \* QLT_CONTEXT_SCAN_LIMIT_PER_FAMILY
  MaxRecords,     \* QLT_CONTEXT_MAX_RECORDS
  MaxBytes,       \* QLT_CONTEXT_MAX_BYTES less the frame of the block
  EvidenceLimit,  \* QLT_CONTEXT_EXCLUSION_EVIDENCE_LIMIT
  Filters,             \* the filters asked for: a thread and a kind
  MaxOffset, MaxLimit  \* bounds on the pages asked for

Listed == Ids \cup Proposals
Kinds == {"claim", "commitment", "open_loop"}
Modes == {"across", "per", "off"}

(* Identities are text, ordered; here they are numbers.                    *)
ASSUME IdentitiesAreOrdered == Listed \subseteq Nat /\ Ids \cap Proposals = {}
ASSUME ListedIsFinite == IsFiniteSet(Listed)
ASSUME Columns ==
  /\ OriginOf \in [Listed -> Threads \cup {Null}]
  /\ KindOf \in [Proposals -> Kinds \cup {"correction"}]
  /\ ThreadOf \in [Turns -> Threads]
  /\ SizeOf \in [Ids -> Nat \ {0}]
  /\ Intact \subseteq Ids
  /\ DOMAIN SubjectOf = Claims \cup OpenLoops
  /\ Null \notin Threads
ASSUME LimitsAreNat ==
  {ScanLimit, MaxRecords, MaxBytes, EvidenceLimit, MaxOffset, MaxLimit} \subseteq Nat

VARIABLES
  subject,   \* of claims and open loops
  touched,   \* updated_at_ms
  proposal,  \* the proposals: absent, pending or decided
  assembly   \* qlt_context_assembly with the policy evidence of its turn

tables == <<row, now, subject, touched, proposal>>
views == <<tables, assembly>>

NoAssembly == [outcome |-> "unrecorded", mode |-> "off", selected |-> {},
               excluded |-> {}, beyond |-> 0]

ViewInit ==
  /\ Init
  /\ subject = [i \in Claims \cup OpenLoops |-> Null]
  /\ touched = [x \in Listed |-> 0]
  /\ proposal = [p \in Proposals |-> "absent"]
  /\ assembly = [t \in Turns |-> NoAssembly]
-----------------------------------------------------------------------------
(* The order of every list: updated_at_ms DESC, id ASC.                    *)
Before(x, y) == touched[x] > touched[y] \/ (touched[x] = touched[y] /\ x < y)
Rank(S, x) == Cardinality({y \in S : Before(y, x)})

(* LIMIT n, and slice(offset, offset + limit).                             *)
Top(S, n) == {x \in S : Rank(S, x) < n}
Slice(S, offset, limit) ==
  {x \in S : offset <= Rank(S, x) /\ Rank(S, x) < offset + limit}

RecordFamilies == {Claims, Commitments, OpenLoops}
FamilyOf(i) ==
  CASE i \in Claims -> Claims [] i \in Commitments -> Commitments
    [] i \in OpenLoops -> OpenLoops
KindOfFamily(F) ==
  CASE F = Claims -> "claim" [] F = Commitments -> "commitment"
    [] F = OpenLoops -> "open_loop"

HasSuccessor(i) == \E j \in FamilyOf(i) : row[j].supersedes = i
-----------------------------------------------------------------------------
(* listInspectionRecords.  A filter that is Null is not given.             *)
Buckets == {"pending", "current", "history"}
KindFilters == Kinds \cup {"proposal", Null}
ASSUME FiltersAreKnown == Filters \subseteq (Threads \cup {Null}) \X KindFilters

FromThread(x, th) == th = Null \/ OriginOf[x] = th

(* A bug: the buckets look at the lifecycle status alone.                  *)
InBucketByStatus(i, bucket) ==
  CASE bucket = "current" -> HasEligibleStatus(i) /\ ~HasSuccessor(i)
    [] bucket = "history" -> Exists(i) /\ ~(HasEligibleStatus(i) /\ ~HasSuccessor(i))
    [] bucket = "pending" -> FALSE

InBucket(i, bucket) ==
  CASE bucket = "current" -> CurrentEffective(i) /\ ~HasSuccessor(i)
    [] bucket = "history" -> Exists(i) /\ ~(CurrentEffective(i) /\ ~HasSuccessor(i))
    [] bucket = "pending" -> FALSE

ProposalRows(bucket, th, kind) ==
  {p \in Proposals :
     /\ proposal[p] = CASE bucket = "pending" -> "pending"
                        [] bucket = "history" -> "decided"
                        [] bucket = "current" -> "none"
     /\ FromThread(p, th)
     /\ kind \in {Null, "proposal", KindOf[p]}}

FamilyRows(F, bucket, th, kind) ==
  {i \in F : /\ InBucket(i, bucket)
             /\ FromThread(i, th)
             /\ kind \in {Null, KindOfFamily(F)}}

Sources(bucket, th, kind) ==
  {ProposalRows(bucket, th, kind)} \cup {FamilyRows(F, bucket, th, kind) : F \in RecordFamilies}

(* A bug: each source is asked for one page.                               *)
WindowOfOnePage(offset, limit) == limit

(* The rows that are read of each source.                                  *)
Window(offset, limit) == offset + limit

(* The page of a list that is kept in several tables, and its total.       *)
Page(sources, offset, limit) ==
  Slice(UNION {Top(S, Window(offset, limit)) : S \in sources}, offset, limit)
Total(bucket, th, kind) ==
  Cardinality(ProposalRows(bucket, th, kind))
    + Cardinality(FamilyRows(Claims, bucket, th, kind))
    + Cardinality(FamilyRows(Commitments, bucket, th, kind))
    + Cardinality(FamilyRows(OpenLoops, bucket, th, kind))

(* listMemoryRows: what the tray of a thread shows, by lifecycle status.   *)
MemoryRows(F, th, status) ==
  {i \in F : Exists(i) /\ OriginOf[i] = th /\ row[i].status = status}
-----------------------------------------------------------------------------
(* listContextCandidates, and the evaluation of each in the conversation   *)
(* th under a mode.                                                        *)

Candidates ==
  UNION {Top({i \in F : Exists(i) /\ Relevant(i)}, ScanLimit) : F \in RecordFamilies}

Verdict(i, th, mode) ==
  IF ~HasEligibleStatus(i)
    THEN IF row[i].status = "superseded" THEN "superseded" ELSE "ineligible"
  ELSE IF HasSuccessor(i) THEN "superseded"
  ELSE IF i \notin Intact THEN "integrity-failed"
  ELSE IF mode = "per" /\ OriginOf[i] # th THEN "scope-excluded"
  ELSE "ok"

(* The structured identity: duplicates of it are all withheld.             *)
Identity(i) == IF i \in Commitments THEN row[i].key ELSE subject[i]
SameIdentity(i, j) == SameFamily(i, j) /\ Identity(i) = Identity(j)

(* A bug: the newest of the records of an identity is taken.               *)
AmbiguousButNewest(valid) ==
  {i \in valid : \E j \in valid \ {i} : SameIdentity(i, j) /\ Before(j, i)}

Ambiguous(valid) == {i \in valid : \E j \in valid \ {i} : SameIdentity(i, j)}

(* Layer, then class, then the order of every list.                        *)
Layer(i, th) == CASE OriginOf[i] = th -> 0 [] OriginOf[i] = Null -> 1
                  [] OriginOf[i] \notin {th, Null} -> 2
Class(i) == CASE i \in OpenLoops -> 0 [] i \in Commitments -> 1 [] i \in Claims -> 2

Ahead(i, j, th) ==
  \/ Layer(i, th) < Layer(j, th)
  \/ Layer(i, th) = Layer(j, th) /\ Class(i) < Class(j)
  \/ Layer(i, th) = Layer(j, th) /\ Class(i) = Class(j) /\ Before(i, j)

UpTo(pool, i, th) == {j \in pool : j = i \/ Ahead(j, i, th)}
Weight(S) == MapThenSumSet(LAMBDA i : SizeOf[i], S)

(* The budget: the first record that does not fit ends the selection.      *)
Fits(pool, i, th) ==
  LET upTo == UpTo(pool, i, th)
  IN  Cardinality(upTo) <= MaxRecords /\ Weight(upTo) <= MaxBytes

(* The order in which exclusions are noted: rows as they are scanned, then *)
(* the groups in the order of their first row, then the tail of the pool.  *)
FamilyRank(i) == CASE i \in Claims -> 0 [] i \in Commitments -> 1 [] i \in OpenLoops -> 2
Scanned(i, j) ==
  FamilyRank(i) < FamilyRank(j) \/ (FamilyRank(i) = FamilyRank(j) /\ Before(i, j))
FirstOf(i, valid) ==
  CHOOSE j \in valid : SameIdentity(i, j) /\ \A l \in valid : SameIdentity(i, l) => ~Scanned(l, j)

Evaluate(th, mode) ==
  LET valid == {i \in Candidates : Verdict(i, th, mode) = "ok"}
      ambiguous == Ambiguous(valid)
      pool == valid \ ambiguous
      selected == {i \in pool : Fits(pool, i, th)}
      excluded == Candidates \ selected
      reason == [i \in excluded |-> IF i \notin valid THEN Verdict(i, th, mode)
                                    ELSE IF i \in ambiguous THEN "conflict-ambiguous"
                                    ELSE "budget"]
      noted(i, j) ==
        \/ i \notin valid /\ (j \in valid \/ Scanned(i, j))
        \/ i \in ambiguous /\ j \in pool
        \/ {i, j} \subseteq ambiguous /\
             (Scanned(FirstOf(i, valid), FirstOf(j, valid)) \/ (SameIdentity(i, j) /\ Scanned(i, j)))
        \/ {i, j} \subseteq pool /\ Ahead(i, j, th)
      first == {i \in excluded :
                  Cardinality({j \in excluded : noted(j, i)}) < EvidenceLimit}
  IN  [outcome |-> IF selected = {} THEN "empty" ELSE "complete",
       mode |-> mode,
       selected |-> {[id |-> i, version |-> row[i].version] : i \in selected},
       excluded |-> {[id |-> i, reason |-> reason[i]] : i \in first},
       beyond |-> Cardinality(excluded \ first)]
-----------------------------------------------------------------------------
(* What is told of a recorded turn: usageStateOf.                          *)
Usage(a) ==
  IF a.outcome = "unrecorded" THEN "unrecorded"
  ELSE IF a.mode = "off" THEN "off"
  ELSE IF a.outcome = "failed" THEN "unavailable"
  ELSE IF a.outcome = "complete" THEN "used"
  ELSE IF \E e \in a.excluded : e.reason = "scope-excluded" THEN "scope-empty"
  ELSE "none"

(* A bug: a row is looked up by its identity alone.                        *)
FoundById(e) == Exists(e.id)

(* replayRecord and turnDetail: the row a selection names, still the same. *)
Unchanged(e) == Exists(e.id) /\ row[e.id].version = e.version

(* The block is rendered again from a saved selection.                     *)
Replays(t) ==
  assembly[t].outcome = "complete" /\ \A e \in assembly[t].selected : Unchanged(e)
-----------------------------------------------------------------------------
(* A verb of MeaningRecords, or the clock: the rows it changed are touched *)
(* at this moment, a successor takes over the subject, and a removal       *)
(* empties it.                                                             *)
Write ==
  /\ Next
  /\ touched' = [x \in Listed |->
       IF x \in Ids /\ row'[x] # row[x] THEN now ELSE touched[x]]
  /\ subject' = [i \in Claims \cup OpenLoops |->
       IF Removed(i)' THEN Null
       ELSE IF Exists(i) \/ ~Exists(i)' THEN subject[i]
       ELSE IF row'[i].supersedes = Null THEN SubjectOf[i]
       ELSE subject[row'[i].supersedes]]
  /\ UNCHANGED <<proposal, assembly>>

Draft(p) ==
  /\ proposal[p] = "absent"
  /\ proposal' = [proposal EXCEPT ![p] = "pending"]
  /\ touched' = [touched EXCEPT ![p] = now]
  /\ UNCHANGED <<row, now, subject, assembly>>

Decide(p) ==
  /\ proposal[p] = "pending"
  /\ proposal' = [proposal EXCEPT ![p] = "decided"]
  /\ touched' = [touched EXCEPT ![p] = now]
  /\ UNCHANGED <<row, now, subject, assembly>>

(* The first model call of a turn: what is saved first stays.              *)
Assemble(t, mode) ==
  /\ assembly[t].outcome = "unrecorded"
  /\ assembly' = [assembly EXCEPT ![t] =
       IF mode = "off" THEN [NoAssembly EXCEPT !.outcome = "empty"]
                       ELSE Evaluate(ThreadOf[t], mode)]
  /\ UNCHANGED tables

AssembleFails(t, mode) ==
  /\ assembly[t].outcome = "unrecorded"
  /\ mode # "off"
  /\ assembly' = [assembly EXCEPT ![t] =
       [NoAssembly EXCEPT !.outcome = "failed", !.mode = mode]]
  /\ UNCHANGED tables

ViewNext ==
  \/ Write
  \/ \E p \in Proposals : Draft(p) \/ Decide(p)
  \/ \E t \in Turns, mode \in Modes : Assemble(t, mode) \/ AssembleFails(t, mode)

ViewSpec == ViewInit /\ [][ViewNext]_views
-----------------------------------------------------------------------------
(* Every record is in exactly one bucket; a page read from windows of the  *)
(* sources is the page of the whole list, for every filter, and the total  *)
(* is that of the whole list (sqlite.ts: "the global page is contained in  *)
(* the union of per-source top-(offset+limit) lists").                     *)
Matching(bucket, th, kind) ==
  {i \in Ids : /\ InBucket(i, bucket) /\ FromThread(i, th)
               /\ kind \in {Null, KindOfFamily(FamilyOf(i))}}
  \cup ProposalRows(bucket, th, kind)

BucketsPartition ==
  \A i \in Ids : Exists(i) => \E b \in Buckets : {c \in Buckets : InBucket(i, c)} = {b}

PagesAreWhole ==
  \A b \in Buckets, f \in Filters :
    LET whole == Matching(b, f[1], f[2])
        sources == Sources(b, f[1], f[2])
    IN  /\ Total(b, f[1], f[2]) = Cardinality(whole)
        /\ \A offset \in 0 .. MaxOffset, limit \in 1 .. MaxLimit :
             Page(sources, offset, limit) = Slice(whole, offset, limit)

ListsAreWhole == BucketsPartition /\ PagesAreWhole

(* The three readers of "current" agree, over every history of writes: the *)
(* Current bucket, what may be selected, and what the verbs call current.  *)
CurrentAgrees ==
  \A i \in Ids :
    /\ InBucket(i, "current") <=> CurrentEffective(i)
    /\ \A th \in Threads :
         CurrentEffective(i) <=>
           /\ Exists(i) /\ Relevant(i)
           /\ Verdict(i, th, "across") \in {"ok", "integrity-failed"}
    /\ CurrentEffective(i) /\ OriginOf[i] # Null =>
         i \in MemoryRows(FamilyOf(i), OriginOf[i], EligibleStatus(i))

(* A selection is sound: current records of the scope, intact, no two of   *)
(* an identity, within the budget.  And it is complete: a record that could *)
(* have been selected is missing only behind ScanLimit newer rows, beside  *)
(* another of its identity, or with the records ahead of it over budget.   *)
Selectable(i, th, mode) ==
  CurrentEffective(i) /\ i \in Intact /\ (mode = "per" => OriginOf[i] = th)

Behind(i) ==
  Cardinality({j \in FamilyOf(i) : Exists(j) /\ Relevant(j) /\ Before(j, i)}) >= ScanLimit

SelectionIsSound ==
  [][\A t \in Turns :
       /\ assembly[t].outcome = "unrecorded"
       /\ Usage(assembly'[t]) \in {"used", "none", "scope-empty"}
       =>
       LET th == ThreadOf[t]
           a == assembly'[t]
           ids == {e.id : e \in a.selected}
           able == {i \in Ids : Selectable(i, th, a.mode)}
       IN  /\ ids \subseteq able
           /\ \A i \in ids : \A j \in able \ {i} : SameIdentity(i, j) => Behind(j)
           /\ Cardinality(ids) <= MaxRecords /\ Weight(ids) <= MaxBytes
           /\ \A i \in able \ ids :
                \/ Behind(i)
                \/ \E j \in able \ {i} : SameIdentity(i, j)
                \/ Cardinality(UpTo(able, i, th)) > MaxRecords
                \/ Weight(UpTo(able, i, th)) > MaxBytes]_views

(* A block that is rendered again is rendered from records that are still  *)
(* current, and what is told of the selection stays: whatever has ended,   *)
(* replaced, expired or emptied a record has moved its version.            *)
ReplayIsCurrent ==
  \A t \in Turns : Replays(t) =>
    \A e \in assembly[t].selected : CurrentEffective(e.id) /\ ~HasSuccessor(e.id)
=============================================================================
