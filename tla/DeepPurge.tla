------------------------------ MODULE DeepPurge -------------------------------
(***************************************************************************)
(* The deep purge of a deleted conversation (purgeConversation in          *)
(* src/src/lib/sharedworld/deletion-store.ts) over the rows the other      *)
(* stores leave behind: proposals, records, corrections, amendments,       *)
(* challenges, source links, context evidence, and the foreign keys of     *)
(* src/src/lib/sharedworld/migrations.ts between them.                     *)
(*                                                                         *)
(* The three families of records have the same keys, and none refers to    *)
(* another: one family stands for each.  The deletion that comes first is  *)
(* ConversationDeletion's; here it is two steps.  The purge is one         *)
(* synchronous call: nothing but a crash comes between its transaction and *)
(* the VACUUM.                                                             *)
(***************************************************************************)
EXTENDS Naturals, Sequences, FiniteSets

CONSTANTS
  Threads,
  None,          \* no thread, no proposal, no record
  MaxProposals,  \* bounds on the rows ever made, and on the purges of a
  MaxRecords,    \* thread
  MaxPurges

WithMeaning == "conversation-and-originating-meaning"
Modes == {"conversation-only", WithMeaning}

ASSUME NoneIsNoThread == None \notin Threads \cup Nat
ASSUME BoundsType == {MaxProposals, MaxRecords, MaxPurges} \subseteq Nat

VARIABLES
  db,        \* the tables, see Tables
  proposed,  \* how many proposals were made, and how many records: the next
  recorded,  \* id of each, never given twice
  row,       \* per thread, the deletion row
  receipts,  \* per thread, the receipts of its purges: vacuumed or not
  purging    \* the thread whose purge has committed and not returned

purgeVars == <<db, proposed, recorded, row, receipts, purging>>

IdOrNone == Nat \cup {None}
Refs == {"thread", "proposal", "record", "correction"} \X (Threads \cup Nat)

(* A correction has the id of the successor it makes.                      *)
Tables ==
  [threads : SUBSET [id : Threads, removed : BOOLEAN],
   linked : SUBSET Threads,          \* with a conversation link
   assemblies : SUBSET Threads,      \* with context evidence
   proposals : SUBSET [id : Nat, thread : Threads, pending : BOOLEAN,
                       target : IdOrNone],
   records : SUBSET [id : Nat, thread : Threads \cup {None}, basis : IdOrNone,
                     supersedes : IdOrNone, state : {"current", "past", "removed"}],
   corrections : SUBSET [id : Nat, thread : Threads \cup {None}],
   amendments : SUBSET [of : Nat, successor : Nat, thread : Threads \cup {None}],
   challenges : SUBSET [existing : Nat, incoming : Nat, thread : Threads],
   links : SUBSET [from : Refs, to : Refs]]

IdsOf(table) == {x.id : x \in table}
OfThread(table, t) == {x.id : x \in {y \in table : y.thread = t}}

(* The foreign keys, which SQLite checks after every statement.            *)
ForeignKeysHold(d) ==
  LET T == IdsOf(d.threads) \cup {None}
      P == IdsOf(d.proposals) \cup {None}
      R == IdsOf(d.records) \cup {None}
  IN  /\ d.linked \cup d.assemblies \subseteq T
      /\ \A p \in d.proposals : p.thread \in T
      /\ \A r \in d.records :
           r.thread \in T /\ r.basis \in P /\ r.supersedes \in R
      /\ \A c \in d.corrections : c.thread \in T
      /\ \A a \in d.amendments :
           a.of \in R /\ a.successor \in R /\ a.thread \in T
      /\ \A c \in d.challenges :
           c.existing \in R /\ c.incoming \in P /\ c.thread \in T

PurgeInit ==
  /\ db = [threads |-> {[id |-> t, removed |-> FALSE] : t \in Threads},
           linked |-> Threads, assemblies |-> Threads,
           proposals |-> {}, records |-> {}, corrections |-> {},
           amendments |-> {}, challenges |-> {}, links |-> {}]
  /\ proposed = 0
  /\ recorded = 0
  /\ row = [t \in Threads |-> [status |-> "none", mode |-> "conversation-only"]]
  /\ receipts = [t \in Threads |-> <<>>]
  /\ purging = None

ThreadExists(t) == t \in IdsOf(db.threads)
ThreadRemoved(t) == [id |-> t, removed |-> TRUE] \in db.threads
Current == {r \in db.records : r.state = "current"}
-----------------------------------------------------------------------------
(* createProposal.  The agent proposes records of their own; a correction  *)
(* of a target, in whatever thread, is the store's port alone so far (the  *)
(* operator's scripts use it), but all that follows can handle one.        *)
Propose(t, target) ==
  /\ purging = None
  /\ ThreadExists(t)
  /\ proposed < MaxProposals
  /\ target \in IdsOf(Current) \cup {None}
  /\ proposed' = proposed + 1
  /\ db' = [db EXCEPT !.proposals = @ \cup
              {[id |-> proposed', thread |-> t, pending |-> TRUE,
                target |-> target]}]
  /\ UNCHANGED <<recorded, row, receipts, purging>>

ThreadLink(from, t) ==
  IF t = None THEN {} ELSE {[from |-> from, to |-> <<"thread", t>>]}

Decided(p) == (db.proposals \ {p}) \cup {[p EXCEPT !.pending = FALSE]}

NewRecord(id, t, basis, of) ==
  [id |-> id, thread |-> t, basis |-> basis, supersedes |-> of,
   state |-> "current"]

Superseded(r) == (db.records \ {r}) \cup {[r EXCEPT !.state = "past"]}

(* The successor of a correction refers to the proposal its subject came   *)
(* from (normative_basis_proposal_id); the correction row and the links.   *)
Corrected(d, r, id, t) ==
  [d EXCEPT
     !.records = Superseded(r) \cup {NewRecord(id, t, r.basis, r.id)},
     !.corrections = @ \cup {[id |-> id, thread |-> t]},
     !.links = @ \cup ThreadLink(<<"record", id>>, t) \cup
       {[from |-> <<k, id>>, to |-> <<"record", r.id>>] :
          k \in {"record", "correction"}}]

(* confirmProposal: a record of its own, or the correction it proposes.    *)
(* Refused as stale when the thread is removed or the target not current.  *)
Confirm(p) ==
  /\ purging = None
  /\ p.pending
  /\ ~ThreadRemoved(p.thread)
  /\ recorded < MaxRecords
  /\ recorded' = recorded + 1
  /\ LET new == <<"record", recorded'>>
         from == [from |-> new, to |-> <<"proposal", p.id>>]
         d == [db EXCEPT !.proposals = Decided(p), !.links = @ \cup {from}]
     IN  \/ /\ p.target = None
            /\ db' = [d EXCEPT
                        !.records = @ \cup {NewRecord(recorded', p.thread, p.id, None)},
                        !.links = @ \cup ThreadLink(new, p.thread)]
         \/ \E r \in Current :
              /\ r.id = p.target
              /\ db' = Corrected(d, r, recorded', p.thread)
  /\ UNCHANGED <<proposed, row, receipts, purging>>

(* The confirmation is refused because a current commitment has its key:   *)
(* the challenge between the two is recorded.                              *)
Challenge(p, r) ==
  /\ purging = None
  /\ p.pending /\ p.target = None
  /\ ~ThreadRemoved(p.thread)
  /\ \A c \in db.challenges : c.incoming # p.id
  /\ db' = [db EXCEPT !.challenges = @ \cup
              {[existing |-> r.id, incoming |-> p.id, thread |-> p.thread]}]
  /\ UNCHANGED <<proposed, recorded, row, receipts, purging>>

(* The user saves a record directly, for a thread or for none: the request *)
(* may name a removed thread, whose row is still there.                    *)
SaveDirectly(t) ==
  /\ purging = None
  /\ t # None => ThreadExists(t)
  /\ recorded < MaxRecords
  /\ recorded' = recorded + 1
  /\ db' = [db EXCEPT
              !.records = @ \cup {NewRecord(recorded', t, None, None)},
              !.links = @ \cup ThreadLink(<<"record", recorded'>>, t)]
  /\ UNCHANGED <<proposed, row, receipts, purging>>

(* correctRecord: in the thread of the subject.                            *)
Correct(r) ==
  /\ purging = None
  /\ recorded < MaxRecords
  /\ recorded' = recorded + 1
  /\ db' = Corrected(db, r, recorded', r.thread)
  /\ UNCHANGED <<proposed, row, receipts, purging>>

(* applyAmendmentInTransaction, for the amendment of a commitment and for  *)
(* a challenge that is resolved with one.                                  *)
Amend(r) ==
  /\ purging = None
  /\ recorded < MaxRecords
  /\ recorded' = recorded + 1
  /\ db' = [db EXCEPT
              !.records = Superseded(r) \cup
                            {NewRecord(recorded', r.thread, None, r.id)},
              !.amendments = @ \cup {[of |-> r.id, successor |-> recorded',
                                      thread |-> r.thread]},
              !.links = @ \cup {[from |-> <<"record", recorded'>>,
                                 to |-> <<"record", r.id>>]}]
  /\ UNCHANGED <<proposed, row, receipts, purging>>

(* A turn, also one in a conversation that a removed thread got later.     *)
Turn(t) ==
  /\ purging = None
  /\ ThreadExists(t)
  /\ db' = [db EXCEPT !.linked = @ \cup {t}, !.assemblies = @ \cup {t}]
  /\ UNCHANGED <<proposed, recorded, row, receipts, purging>>
-----------------------------------------------------------------------------
Plan(t, m) ==
  /\ purging = None
  /\ ThreadExists(t)
  /\ row[t].status = "none"
  /\ row' = [row EXCEPT ![t] = [status |-> "planned", mode |-> m]]
  /\ UNCHANGED <<db, proposed, recorded, receipts, purging>>

(* The meaning step, if it was asked for, the tombstone, and completion.   *)
DeletionCompletes(t) ==
  LET Touched(x) == x.thread = t /\ row[t].mode = WithMeaning
  IN  /\ purging = None
      /\ row[t].status = "planned"
      /\ row' = [row EXCEPT ![t].status = "completed"]
      /\ db' = [db EXCEPT
           !.threads = {IF x.id = t THEN [x EXCEPT !.removed = TRUE] ELSE x : x \in @},
           !.linked = @ \ {t},
           !.proposals = {IF Touched(p) THEN [p EXCEPT !.pending = FALSE]
                                        ELSE p : p \in @},
           !.records = {IF Touched(r) THEN [r EXCEPT !.state = "removed"]
                                      ELSE r : r \in @}]
      /\ UNCHANGED <<proposed, recorded, receipts, purging>>
-----------------------------------------------------------------------------
(* A bug: links are deleted by what they lead to, not by where they start. *)
PurgeJudgmentsByTarget(t, d) ==
  LET P == OfThread(d.proposals, t)
      R == OfThread(d.records, t)
      d1 == [d EXCEPT !.challenges =
               {c \in @ : ~(c.thread = t \/ c.incoming \in P \/ c.existing \in R)},
                      !.amendments =
               {a \in @ : ~(a.thread = t \/ a.of \in R \/ a.successor \in R)},
                      !.corrections = {c \in @ : c.thread # t}]
      Purged == {<<"thread", t>>} \cup {<<"proposal", p>> : p \in P}
  IN  <<d1, [d1 EXCEPT !.links = {l \in @ : l.to \notin Purged}]>>

(* The statements of the purge, in their order.  (1) The challenges and    *)
(* (2) the amendments that name a row of the thread, wherever they were    *)
(* made, (3) its corrections, (4) the source links.                        *)
PurgeJudgments(t, d) ==
  LET P == OfThread(d.proposals, t)
      R == OfThread(d.records, t)
      d1 == [d EXCEPT !.challenges =
               {c \in @ : ~(c.thread = t \/ c.incoming \in P \/ c.existing \in R)}]
      d2 == [d1 EXCEPT !.amendments =
               {a \in @ : ~(a.thread = t \/ a.of \in R \/ a.successor \in R)}]
      d3 == [d2 EXCEPT !.corrections = {c \in @ : c.thread # t}]
      Purged == {<<"thread", t>>} \cup {<<"proposal", p>> : p \in P}
      From == {<<"proposal", p>> : p \in P} \cup {<<"record", r>> : r \in R}
                \cup {<<"correction", c>> : c \in OfThread(d3.corrections, t)}
      d4 == [d3 EXCEPT !.links = {l \in @ : ~(l.to \in Purged \/ l.from \in From)}]
  IN  <<d1, d2, d3, d4>>

(* A bug: the frozen order before Amendment 1, proposals first.            *)
PurgeProposalsFirst(t, d) ==
  LET d5 == [d EXCEPT !.proposals = {p \in @ : p.thread # t}]
      d6 == [d5 EXCEPT !.records = {r \in @ : r.thread # t}]
  IN  <<d5, d6>>

(* (5) its records and (6) its proposals.                                  *)
PurgeMeaning(t, d) ==
  LET d5 == [d EXCEPT !.records = {r \in @ : r.thread # t}]
      d6 == [d5 EXCEPT !.proposals = {p \in @ : p.thread # t}]
  IN  <<d5, d6>>

(* (7) its context evidence, (8) its link and (9) the thread itself.       *)
PurgeShell(t, d) ==
  LET d7 == [d EXCEPT !.assemblies = @ \ {t}]
      d8 == [d7 EXCEPT !.linked = @ \ {t}]
      d9 == [d8 EXCEPT !.threads = {x \in @ : x.id # t}]
  IN  IF row[t].mode = WithMeaning THEN <<d7, d8, d9>> ELSE <<d7, d8>>

Last(s) == s[Len(s)]

(* A bug: the recorded mode is looked at for the thread row only.          *)
StatementsInEveryMode(t) ==
  LET judgments == PurgeJudgments(t, db)
      before == judgments \o PurgeMeaning(t, Last(judgments))
  IN  before \o PurgeShell(t, Last(before))

Statements(t) ==
  LET judgments == PurgeJudgments(t, db)
      meaning == IF row[t].mode = WithMeaning
                   THEN PurgeMeaning(t, Last(judgments)) ELSE <<>>
      before == judgments \o meaning
  IN  before \o PurgeShell(t, Last(before))

Available(t) == row[t].status = "completed" /\ ThreadRemoved(t)

(* One transaction with the receipt in it: a foreign key that breaks rolls *)
(* everything back, and the purge is refused.                              *)
PurgeRefused(t) == \E i \in DOMAIN Statements(t) : ~ForeignKeysHold(Statements(t)[i])

PurgeConversation(t) ==
  /\ purging = None
  /\ Available(t)
  /\ ~PurgeRefused(t)
  /\ Len(receipts[t]) < MaxPurges
  /\ db' = Last(Statements(t))
  /\ receipts' = [receipts EXCEPT ![t] = Append(@, 0)]
  /\ purging' = t
  /\ UNCHANGED <<proposed, recorded, row>>

(* The VACUUM is best effort: if it succeeds, a second transaction says so *)
(* on every receipt of the thread.                                         *)
Vacuum(t) ==
  /\ purging = t
  /\ purging' = None
  /\ receipts' = [receipts EXCEPT ![t] = [i \in DOMAIN @ |-> 1]]
  /\ UNCHANGED <<db, proposed, recorded, row>>

(* It fails, or the process ends before it.                                *)
NoVacuum ==
  /\ purging # None
  /\ purging' = None
  /\ UNCHANGED <<db, proposed, recorded, row, receipts>>
-----------------------------------------------------------------------------
Ceremony ==
  \/ \E t \in Threads, target \in IdsOf(Current) \cup {None} : Propose(t, target)
  \/ \E p \in db.proposals : Confirm(p)
  \/ \E p \in db.proposals, r \in Current : Challenge(p, r)
  \/ \E t \in Threads \cup {None} : SaveDirectly(t)
  \/ \E r \in Current : Correct(r) \/ Amend(r)

PurgeNext ==
  \/ Ceremony
  \/ \E t \in Threads : \/ Turn(t)
                        \/ \E m \in Modes : Plan(t, m)
                        \/ DeletionCompletes(t)
                        \/ PurgeConversation(t)
                        \/ Vacuum(t)
  \/ NoVacuum

PurgeSpec == PurgeInit /\ [][PurgeNext]_purgeVars
-----------------------------------------------------------------------------
EndExists(ref) ==
  CASE ref[1] = "thread" -> ref[2] \in IdsOf(db.threads)
    [] ref[1] = "proposal" -> ref[2] \in IdsOf(db.proposals)
    [] ref[1] = "record" -> ref[2] \in IdsOf(db.records)
    [] ref[1] = "correction" -> ref[2] \in IdsOf(db.corrections)

(* A purge leaves no end loose.  The thread row goes only with a receipt   *)
(* in the same transaction, after it nothing refers to the thread, and no  *)
(* link of a record or a proposal, in whatever thread it was made, has     *)
(* lost one of its ends.                                                   *)
PurgeIsWhole ==
  /\ db \in Tables /\ ForeignKeysHold(db)
  /\ \A t \in Threads : ~ThreadExists(t) =>
       /\ receipts[t] # <<>>
       /\ row[t] = [status |-> "completed", mode |-> WithMeaning]
  /\ \A l \in db.links : l.from[1] # "correction" => EndExists(l.from) /\ EndExists(l.to)

(* A record or a proposal vanishes only in the purge of its own thread,    *)
(* and only if the user chose to lose the meaning with the conversation;   *)
(* what it says and what it stands on never changes by a purge.            *)
MeaningOfOthersStays ==
  [][\A table \in {"records", "proposals"} : \A x \in db[table] :
       purging = None /\ purging' # None /\ x \notin db'[table] =>
         /\ x.thread = purging'
         /\ row[x.thread] = [status |-> "completed", mode |-> WithMeaning]]_purgeVars

(* A record in another thread that superseded one of this thread.          *)
ForeignSuccessor(t) ==
  \E r \in db.records : r.thread # t /\ r.supersedes \in OfThread(db.records, t)

(* The order of the statements suits the foreign keys: a purge is refused  *)
(* only for a successor in another thread, never for what the ceremonies   *)
(* of the thread itself left behind or for the challenges of others.       *)
RefusedOnlyByForeigners ==
  \A t \in Threads : Available(t) /\ PurgeRefused(t) => ForeignSuccessor(t)
==============================================================================
