--------------------------- MODULE ProposalCeremony ---------------------------
(***************************************************************************)
(* The confirmation ceremony: the agent drafts proposals, the user         *)
(* confirms, rejects, withdraws or amends them, and a commitment whose key *)
(* is held raises a challenge (sharedworld/ceremony-actions.ts,            *)
(* meaning-store.ts, conflict-surface.ts, conflict-store.ts).              *)
(*                                                                         *)
(* A request is a sequence of awaited calls; a step here is one call with  *)
(* the code that leads to it.  The store's ports are asynchronous, and     *)
(* whatever else the server does may come between two steps.  The store    *)
(* verbs are single transactions and single steps.  The records themselves *)
(* change as MeaningRecords says, by the ceremony and beside it.           *)
(*                                                                         *)
(* Proposals of one thread.  Proposals of loops are left out, which are to *)
(* loops what those of claims are to claims, and so are corrections, which *)
(* the capability refuses.  Requests carry a key, as the workspace sends   *)
(* them, and under one key and proposal the same payload.                  *)
(***************************************************************************)
EXTENDS MeaningRecords

CONSTANTS
  Proposals,              \* the identities that can be minted
  Turns,                  \* the turns drafts come from
  Requests,               \* the user's requests
  Keys                    \* idempotency keys

ASSUME NullIsNoProposal == Null \notin Proposals

Ops == {"confirm", "reject", "withdraw", "amend"}

VARIABLES
  proposal,   \* qlt_proposal with its proposed-from and amends links
  challenge,  \* qlt_conflict_challenge, by incoming proposal
  used,       \* the idempotency rows of the proposal verbs
  thread,     \* the retention of the source thread
  asks,       \* operation, proposal and key of a request
  pc,         \* where it is
  seen,       \* the proposal status it last read
  holder,     \* the current-effective commitment it found
  expected,   \* the version its user saw
  answer      \* what it was told

requests == <<asks, pc, seen, holder, expected, answer>>
ceremony == <<proposal, challenge, used, thread, requests>>
allVars == <<vars, ceremony>>

Open == {"proposed", "awaiting_decision"}
Decided == {"confirmed", "rejected", "amended", "withdrawn"}

DecisionOf(op) ==
  CASE op = "confirm" -> "confirmed"
    [] op = "reject" -> "rejected"
    [] op = "withdraw" -> "withdrawn"
    [] op = "amend" -> "amended"

NoProposal == [status |-> "absent", version |-> 0, key |-> Null, turn |-> Null,
               made |-> Null, amends |-> Null]
NoRequest == [op |-> "none", proposal |-> Null, key |-> Null]
NoChallenge == [status |-> "none", existing |-> Null]

Status(p) == proposal[p].status
Op(r) == asks[r].op
Target(r) == asks[r].proposal

CeremonyTypeOK ==
  /\ \A p \in Proposals :
       /\ proposal[p] \in
            [status : Open \cup Decided \cup {"absent"}, version : 0 .. 3,
             key : CommitmentKeys \cup {Null}, turn : Turns \cup {Null},
             made : Ids \cup {Null}, amends : Proposals \cup {Null}]
       /\ challenge[p] \in [status : {"none", "open", "dismissed", "resolved"},
                            existing : Commitments \cup {Null}]
  /\ thread \in {"live", "removed"}
  /\ \A r \in Requests :
       /\ asks[r] = NoRequest \/ asks[r] \in [op : Ops, proposal : Proposals, key : Keys]
       /\ pc[r] \in {"idle", "mark", "probe", "detect", "challenge",
                     "decide", "done"}
       /\ seen[r] \in Open \cup Decided \cup {"absent"}
       /\ holder[r] \in Commitments \cup {Null}
       /\ expected[r] \in 0 .. 3
       /\ answer[r] \in {"none", "ok", "conflict", "version", "refused"}

CeremonyInit ==
  /\ Init
  /\ proposal = [p \in Proposals |-> NoProposal]
  /\ challenge = [p \in Proposals |-> NoChallenge]
  /\ used = {}
  /\ thread = "live"
  /\ asks = [r \in Requests |-> NoRequest]
  /\ pc = [r \in Requests |-> "idle"]
  /\ seen = [r \in Requests |-> "absent"]
  /\ holder = [r \in Requests |-> Null]
  /\ expected = [r \in Requests |-> 0]
  /\ answer = [r \in Requests |-> "none"]
-----------------------------------------------------------------------------
(* uq_qlt_proposal_open_per_turn, over the table ps.                       *)
OneOpenPerTurn(ps) ==
  \A p, q \in Proposals :
    /\ ps[p].status \in Open /\ ps[q].status \in Open
    /\ ps[p].turn = ps[q].turn
    /\ (ps[p].key = Null) = (ps[q].key = Null)
    => p = q

(* What a proposal about a key, or about none, would make.                 *)
FamilyFor(key) == IF key = Null THEN Claims ELSE Commitments

(* A bug: an amendment does not say what it amends.                        *)
NewProposalUnlinked(key, turn, amends) ==
  [status |-> "proposed", version |-> 1, key |-> key, turn |-> turn,
   made |-> Null, amends |-> Null]

NewProposal(key, turn, amends) ==
  [status |-> "proposed", version |-> 1, key |-> key, turn |-> turn,
   made |-> Null, amends |-> amends]

(* The capability's createProposal.  A retry under its key changes nothing.*)
Draft(p, key, turn) ==
  /\ Status(p) = "absent"
  /\ FamilyFor(key) # {}
  /\ proposal' = [proposal EXCEPT ![p] = NewProposal(key, turn, Null)]
  /\ OneOpenPerTurn(proposal')
  /\ UNCHANGED <<vars, challenge, used, thread, requests>>

(* QLT_PROPOSAL_TRANSITIONS.                                               *)
Allowed(from) ==
  CASE from = "proposed" -> {"awaiting_decision", "withdrawn"}
    [] from = "awaiting_decision" -> Decided
    [] OTHER -> {}

Transition(p, to) == Moved(proposal[p], to)

MayMove(p, to) == to \in Allowed(Status(p))
-----------------------------------------------------------------------------
(* Idempotency rows are scoped by verb; a row under the same key for       *)
(* another proposal is a conflict.                                         *)
Entry(verb, r) == [verb |-> verb, key |-> asks[r].key, proposal |-> Target(r)]

(* A bug: the sub-step is keyed and the decision is not.                   *)
SettledUnkeyed(verb, r) == verb = "awaiting" /\ Entry(verb, r) \in used

Settled(verb, r) == Entry(verb, r) \in used
KeyClash(verb, r) ==
  \E e \in used : e.verb = verb /\ e.key = asks[r].key /\ e.proposal # Target(r)

At(r, label) == pc[r] = label
Go(r, label) == pc' = [pc EXCEPT ![r] = label]
Told(r, what) ==
  /\ Go(r, "done")
  /\ answer' = [answer EXCEPT ![r] = what]
  /\ expected' = [expected EXCEPT ![r] = 0]

(* A user decides on a proposal as it was when the inbox was last read,    *)
(* perhaps with the version it had; awaitingSubStep reads it as it is ...  *)
Submit(r, op, p, key) ==
  /\ At(r, "idle")
  /\ Status(p) # "absent"
  /\ asks' = [asks EXCEPT ![r] = [op |-> op, proposal |-> p, key |-> key]]
  /\ seen' = [seen EXCEPT ![r] = Status(p)]
  /\ \E v \in IF op = "confirm" THEN {0, proposal[p].version} ELSE {0} :
       expected' = [expected EXCEPT ![r] = v]
  /\ Go(r, "mark")
  /\ UNCHANGED <<vars, proposal, challenge, used, thread, holder, answer>>

AfterSubStep(r) == Go(r, IF Op(r) = "confirm" THEN "probe" ELSE "decide")

(* ... and, if it was only proposed, makes it decidable under a derived key*)
MarkNothing(r) ==
  /\ At(r, "mark")
  /\ seen[r] # "proposed" \/ Settled("awaiting", r)
  /\ AfterSubStep(r)
  /\ UNCHANGED <<asks, vars, proposal, challenge, used, thread, seen, holder,
                 expected, answer>>

MarkProposalAwaitingDecision(r) ==
  /\ At(r, "mark")
  /\ seen[r] = "proposed"
  /\ ~Settled("awaiting", r) /\ ~KeyClash("awaiting", r)
  /\ MayMove(Target(r), "awaiting_decision")
  /\ proposal' = [proposal EXCEPT
                    ![Target(r)] = Transition(Target(r), "awaiting_decision")]
  /\ used' = used \cup {Entry("awaiting", r)}
  /\ AfterSubStep(r)
  /\ UNCHANGED <<asks, vars, challenge, thread, seen, holder, expected, answer>>

MarkRefused(r) ==
  /\ At(r, "mark")
  /\ seen[r] = "proposed" /\ ~Settled("awaiting", r)
  /\ KeyClash("awaiting", r) \/ ~MayMove(Target(r), "awaiting_decision")
  /\ Told(r, "refused")
  /\ UNCHANGED <<asks, vars, proposal, challenge, used, thread, seen, holder>>
-----------------------------------------------------------------------------
(* confirmProposal probes whether the conflict detector must be asked.     *)
Probe(r) ==
  /\ At(r, "probe")
  /\ seen' = [seen EXCEPT ![r] = Status(Target(r))]
  /\ Go(r, IF /\ Status(Target(r)) = "awaiting_decision"
              /\ proposal[Target(r)].key # Null
           THEN "detect" ELSE "decide")
  /\ UNCHANGED <<asks, vars, proposal, challenge, used, thread, holder, expected, answer>>

(* resolveCurrentEffectiveCommitment.                                      *)
Holders(key) == {i \in Commitments : Holds(i, key)}

Detect(r) ==
  /\ At(r, "detect")
  /\ \/ /\ Holders(proposal[Target(r)].key) = {}
        /\ Go(r, "decide")
        /\ UNCHANGED holder
     \/ \E i \in Holders(proposal[Target(r)].key) :
          /\ holder' = [holder EXCEPT ![r] = i]
          /\ Go(r, "challenge")
  /\ UNCHANGED <<asks, vars, proposal, challenge, used, thread, seen, expected,
                 answer>>

(* A bug: the challenge names what the detector found, current or not.     *)
EnsureChallengeUnchecked(r) ==
  /\ At(r, "challenge")
  /\ challenge' = [challenge EXCEPT ![Target(r)] =
                     [status |-> "open", existing |-> holder[r]]]
  /\ Told(r, "conflict")
  /\ UNCHANGED <<asks, vars, proposal, used, thread, seen, holder>>

(* ensureChallenge: one per proposal, ever, and only against a commitment  *)
(* that is still current.                                                  *)
EnsureChallenge(r) ==
  /\ At(r, "challenge")
  /\ \/ /\ challenge[Target(r)] # NoChallenge
        /\ Told(r, "conflict")
        /\ UNCHANGED challenge
     \/ /\ challenge[Target(r)] = NoChallenge
        /\ CurrentEffective(holder[r])
        /\ challenge' = [challenge EXCEPT ![Target(r)] =
                           [status |-> "open", existing |-> holder[r]]]
        /\ Told(r, "conflict")
     \/ /\ challenge[Target(r)] = NoChallenge
        /\ ~CurrentEffective(holder[r])
        /\ Told(r, "refused")
        /\ UNCHANGED challenge
  /\ holder' = [holder EXCEPT ![r] = Null]
  /\ UNCHANGED <<asks, vars, proposal, used, thread, seen>>
-----------------------------------------------------------------------------
(* Every verb first replays what its key has settled.                      *)
Replay(r) ==
  /\ At(r, "decide")
  /\ Settled(Op(r), r)
  /\ Told(r, "ok")
  /\ UNCHANGED <<asks, vars, proposal, challenge, used, thread, seen, holder>>

Fresh(r) ==
  /\ At(r, "decide")
  /\ ~Settled(Op(r), r)

(* assertProposalNotStale, for proposals without a target.                 *)
NotStale == thread = "live"

VersionMatches(r) == expected[r] \in {0, proposal[Target(r)].version}

Settles(r) ==
  /\ used' = used \cup {Entry(Op(r), r)}
  /\ Told(r, "ok")
  /\ UNCHANGED <<asks, challenge, thread, seen, holder>>

(* Whether the storage takes the record a confirmation makes.              *)
KeyFree(key) ==
  \A i \in Commitments : row[i].status = "active" /\ key # Null => row[i].key # key

(* A bug: the record is made and the proposal left as it was.              *)
ConfirmForgets(r) ==
  /\ Fresh(r) /\ ~KeyClash("confirm", r)
  /\ Status(Target(r)) = "awaiting_decision"
  /\ NotStale /\ VersionMatches(r)
  /\ \E i \in FamilyFor(proposal[Target(r)].key) :
       /\ Create(i, proposal[Target(r)].key)
       /\ proposal' = [proposal EXCEPT ![Target(r)].made = i]
  /\ Settles(r)

(* confirmProposal makes the record, links it and closes the proposal in   *)
(* one transaction.                                                        *)
ConfirmProposal(r) ==
  /\ Op(r) = "confirm"
  /\ Fresh(r) /\ ~KeyClash("confirm", r)
  /\ Status(Target(r)) = "awaiting_decision"
  /\ NotStale /\ VersionMatches(r)
  /\ \E i \in FamilyFor(proposal[Target(r)].key) :
       /\ Create(i, proposal[Target(r)].key)
       /\ proposal' = [proposal EXCEPT ![Target(r)] =
                         [Transition(Target(r), "confirmed") EXCEPT !.made = i]]
  /\ Settles(r)

(* rejectProposal and withdrawProposal; neither asks whether it is stale.  *)
CloseProposal(r) ==
  /\ Op(r) \in {"reject", "withdraw"}
  /\ Fresh(r) /\ ~KeyClash(Op(r), r)
  /\ MayMove(Target(r), DecisionOf(Op(r)))
  /\ proposal' = [proposal EXCEPT
                    ![Target(r)] = Transition(Target(r), DecisionOf(Op(r)))]
  /\ Settles(r)
  /\ UNCHANGED vars

(* amendProposal closes the original and opens its amendment, which takes  *)
(* its place in the turn and may be about another key.                     *)
AmendProposal(r, p, key) ==
  LET closed == [proposal EXCEPT ![Target(r)] = Transition(Target(r), "amended")]
  IN  /\ Op(r) = "amend"
      /\ Fresh(r) /\ ~KeyClash("amend", r)
      /\ MayMove(Target(r), "amended")
      /\ Status(p) = "absent"
      /\ (key = Null) = (proposal[Target(r)].key = Null)
      /\ proposal' = [closed EXCEPT ![p] =
                        NewProposal(key, proposal[Target(r)].turn, Target(r))]
      /\ OneOpenPerTurn(proposal')
      /\ Settles(r)
      /\ UNCHANGED vars

Decidable(r) ==
  IF Op(r) = "confirm" THEN Status(Target(r)) = "awaiting_decision" /\ NotStale
  ELSE MayMove(Target(r), DecisionOf(Op(r)))

(* A refusal rolls the transaction back.  The version is looked at last.   *)
DecideRefused(r) ==
  /\ Fresh(r)
  /\ \/ /\ \/ KeyClash(Op(r), r)
           \/ ~Decidable(r)
           \/ Op(r) = "confirm" /\ ~KeyFree(proposal[Target(r)].key)
        /\ Told(r, "refused")
     \/ /\ ~KeyClash(Op(r), r) /\ Decidable(r)
        /\ Op(r) = "confirm" /\ KeyFree(proposal[Target(r)].key)
        /\ ~VersionMatches(r)
        /\ Told(r, "version")
  /\ UNCHANGED <<asks, vars, proposal, challenge, used, thread, seen, holder>>
-----------------------------------------------------------------------------
(* dismissChallenge leaves the proposal to the ordinary verbs.             *)
DismissChallenge(p) ==
  /\ challenge[p].status = "open"
  /\ challenge' = [challenge EXCEPT ![p].status = "dismissed"]
  /\ UNCHANGED <<vars, proposal, used, thread, requests>>

(* A bug: the challenge is resolved whether or not the amendment succeeds. *)
ResolveAnyway(p, j) ==
  /\ challenge[p].status = "open"
  /\ challenge' = [challenge EXCEPT ![p].status = "resolved"]
  /\ UNCHANGED <<vars, proposal, used, thread, requests>>

(* resolveChallengeWithAmendment: the challenge and the amendment of the   *)
(* commitment it names, in one transaction.                                *)
ResolveChallengeWithAmendment(p, j) ==
  /\ challenge[p].status = "open"
  /\ Amend(challenge[p].existing, j)
  /\ challenge' = [challenge EXCEPT ![p].status = "resolved"]
  /\ UNCHANGED <<proposal, used, thread, requests>>

(* The withdrawal of a governed deletion: straight to the store, with the  *)
(* open challenge dismissed first.                                         *)
DeletionWithdraws(p) ==
  /\ Status(p) \in Open
  /\ challenge' = [challenge EXCEPT ![p].status =
                     IF @ = "open" THEN "dismissed" ELSE @]
  /\ proposal' = [proposal EXCEPT ![p] = Transition(p, "withdrawn")]
  /\ UNCHANGED <<vars, used, thread, requests>>

(* tombstoneThread.                                                        *)
DeletionTombstones ==
  /\ thread = "live"
  /\ thread' = "removed"
  /\ UNCHANGED <<vars, proposal, challenge, used, requests>>

(* The records change beside the ceremony: direct saves, exits,            *)
(* corrections, amendments and removals.                                   *)
RecordVerb == Next /\ UNCHANGED ceremony

Step(r) ==
  \/ \E op \in Ops, p \in Proposals, key \in Keys : Submit(r, op, p, key)
  \/ MarkNothing(r) \/ MarkProposalAwaitingDecision(r) \/ MarkRefused(r)
  \/ Probe(r) \/ Detect(r) \/ EnsureChallenge(r)
  \/ Replay(r) \/ ConfirmProposal(r) \/ CloseProposal(r) \/ DecideRefused(r)
  \/ \E p \in Proposals, key \in CommitmentKeys \cup {Null} :
       AmendProposal(r, p, key)

CeremonyNext ==
  \/ \E r \in Requests : Step(r)
  \/ \E p \in Proposals, key \in CommitmentKeys \cup {Null}, turn \in Turns :
       Draft(p, key, turn)
  \/ \E p \in Proposals : DismissChallenge(p) \/ DeletionWithdraws(p)
  \/ \E p \in Proposals, j \in Commitments : ResolveChallengeWithAmendment(p, j)
  \/ DeletionTombstones
  \/ RecordVerb

CeremonySpec == CeremonyInit /\ [][CeremonyNext]_allVars
-----------------------------------------------------------------------------
(* A proposal is confirmed exactly if it has made a record, which is its   *)
(* own, of its family, and no derivative of another record (Q3 freeze      *)
(* B-05: the target record is created exactly once).                       *)
ConfirmedMadeOneRecord ==
  \A p \in Proposals :
    /\ Status(p) = "confirmed" <=> proposal[p].made # Null
    /\ proposal[p].made # Null =>
         LET i == proposal[p].made
         IN  /\ Exists(i)
             /\ i \in FamilyFor(proposal[p].key)
             /\ row[i].supersedes = Null
             /\ \A q \in Proposals : proposal[q].made = i => q = p

(* An amendment takes over the turn of a proposal closed as amended, and   *)
(* every such proposal has exactly one (Q3 freeze B-07).                   *)
AmendmentsReplace ==
  /\ \A p \in Proposals : proposal[p].amends # Null =>
       LET q == proposal[p].amends
       IN  /\ Status(q) = "amended"
           /\ proposal[p].turn = proposal[q].turn
  /\ \A q \in Proposals : Status(q) = "amended" =>
       \E p \in Proposals : {x \in Proposals : proposal[x].amends = q} = {p}

(* What a user was told holds, and goes on to hold: a request that         *)
(* succeeded decided its proposal, and one sent away with a conflict left  *)
(* the challenge it was told of.                                           *)
AnswersHold ==
  \A r \in Requests :
    /\ answer[r] = "ok" => Status(Target(r)) = DecisionOf(Op(r))
    /\ answer[r] = "conflict" => challenge[Target(r)].status # "none"

(* A retry that finds its proposal decided is told what the first attempt  *)
(* was told (Q3 freeze, section 10: an identical retry replays).  One that *)
(* overlaps the first attempt may meet the record of that attempt, and be  *)
(* told a conflict.                                                        *)
RetriesConverge ==
  \A r, q \in Requests :
    /\ asks[r] = asks[q]
    /\ answer[q] = "ok"
    /\ pc[r] = "done" /\ seen[r] \in Decided
    => answer[r] = "ok"

AnswersAreTrue == AnswersHold /\ RetriesConverge

(* A challenge names a commitment that exists and that is about the        *)
(* proposal's key, and is resolved only by an amendment of that commitment *)
(* (d1-contract.ts: resolved rows carry existing-amended).                 *)
ChallengesAreTruthful ==
  \A p \in Proposals : challenge[p].status # "none" =>
    LET i == challenge[p].existing
    IN  /\ i \in Commitments /\ Exists(i)
        /\ row[i].key = proposal[p].key \/ Removed(i)
        /\ challenge[p].status = "resolved" =>
             \E j \in Commitments :
               row[i].status = "amended" /\ row[j].supersedes = i

(* Decisions are final, closed challenges stay closed, and a challenge     *)
(* appears only beside a commitment that is current-effective (the         *)
(* detector's precondition) and never changes a record.                    *)
JudgmentsAreFinal ==
  [][\A p \in Proposals :
       /\ Status(p) \in Decided => proposal'[p] = proposal[p]
       /\ challenge[p].status \in {"dismissed", "resolved"} =>
            challenge'[p] = challenge[p]
       /\ challenge[p].status = "none" /\ challenge'[p].status # "none" =>
            CurrentEffective(challenge'[p].existing) /\ row' = row]_allVars
=============================================================================
