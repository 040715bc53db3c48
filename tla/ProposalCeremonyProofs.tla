------------------------ MODULE ProposalCeremonyProofs ------------------------
(***************************************************************************)
(* The ceremony for any number of proposals, turns, requests and keys.     *)
(*                                                                         *)
(* Every step of it is a step of the record store or leaves the records    *)
(* alone, so that whatever is proved of the records holds of them beside   *)
(* the ceremony.  The rest follows from what a step can do to proposals.   *)
(***************************************************************************)
EXTENDS ProposalCeremony, MeaningRecordsProofs

ProposalRows ==
  [status : Open \cup Decided \cup {"absent"}, version : Nat,
   key : CommitmentKeys \cup {Null}, turn : Turns \cup {Null},
   made : Ids \cup {Null}, amends : Proposals \cup {Null}]

Labels == {"idle", "mark", "probe", "detect", "challenge", "decide", "done"}

(* A request that is under way has a proposal.                             *)
Targeted ==
  /\ asks \in [Requests -> [op : Ops \cup {"none"}, proposal : Proposals \cup {Null},
                            key : Keys \cup {Null}]]
  /\ pc \in [Requests -> Labels]
  /\ \A r \in Requests : pc[r] # "idle" => Target(r) \in Proposals

CeremonyTypes == proposal \in [Proposals -> ProposalRows] /\ Targeted

(* The inductive invariant, over that of the records.                      *)
CInv == CeremonyTypes /\ ConfirmedMadeOneRecord
-----------------------------------------------------------------------------
(* What a step can do to the proposals, and what to the records with it.   *)
Drafted ==
  \E p \in Proposals, key \in CommitmentKeys \cup {Null}, turn \in Turns :
    /\ Status(p) = "absent"
    /\ proposal' = [proposal EXCEPT ![p] = NewProposal(key, turn, Null)]

Stepped ==
  \E p \in Proposals, to \in (Open \cup Decided) \ {"confirmed", "amended"} :
    /\ Status(p) \in Open
    /\ proposal' = [proposal EXCEPT ![p] = Transition(p, to)]

Replaced ==
  \E p, q \in Proposals, key \in CommitmentKeys \cup {Null} :
    /\ Status(p) = "absent" /\ Status(q) \in Open
    /\ proposal' = [[proposal EXCEPT ![q] = Transition(q, "amended")]
                      EXCEPT ![p] = NewProposal(key, proposal[q].turn, q)]

Made ==
  \E p \in Proposals : \E i \in FamilyFor(proposal[p].key) :
    /\ Status(p) \in Open
    /\ Create(i, proposal[p].key)
    /\ proposal' = [proposal EXCEPT ![p] =
                      [Transition(p, "confirmed") EXCEPT !.made = i]]

CeremonyShape ==
  \/ Made
  \/ /\ [Next]_vars
     /\ Drafted \/ Stepped \/ Replaced \/ UNCHANGED proposal

LEMMA MovableIsOpen ==
  ASSUME NEW p, NEW to, MayMove(p, to)
  PROVE  Status(p) \in Open /\ to \in (Open \cup Decided)
  BY DEF MayMove, Allowed, Open, Decided

LEMMA CeremonyStepShape ==
  ASSUME CeremonyTypes, [CeremonyNext]_allVars
  PROVE  CeremonyShape
<1> USE DEF CeremonyTypes, Targeted
<1>1. ASSUME NEW r \in Requests, pc[r] # "idle"
      PROVE  Target(r) \in Proposals
  BY <1>1
<1>2. ASSUME NEW r \in Requests, ConfirmProposal(r)
      PROVE  Made
  BY <1>1, <1>2, Zenon DEF ConfirmProposal, Fresh, At, Open, Made
<1>3. ASSUME NEW r \in Requests, MarkProposalAwaitingDecision(r)
      PROVE  CeremonyShape
  <2>1. Target(r) \in Proposals
    BY <1>1, <1>3 DEF MarkProposalAwaitingDecision, At
  <2>2. Stepped
    BY <1>3, <2>1, MovableIsOpen DEF MarkProposalAwaitingDecision, Stepped, Open
  <2> QED
    BY <1>3, <2>2 DEF MarkProposalAwaitingDecision, CeremonyShape
<1>4. ASSUME NEW r \in Requests, CloseProposal(r)
      PROVE  CeremonyShape
  <2>1. Target(r) \in Proposals
    BY <1>1, <1>4 DEF CloseProposal, Fresh, At
  <2>2. DecisionOf(Op(r)) \in {"rejected", "withdrawn"}
    BY <1>4 DEF CloseProposal, DecisionOf
  <2>3. Stepped
    BY <1>4, <2>1, <2>2, MovableIsOpen DEF CloseProposal, Stepped, Decided
  <2> QED
    BY <1>4, <2>3 DEF CloseProposal, CeremonyShape
<1>5. ASSUME NEW r \in Requests, NEW p \in Proposals,
             NEW key \in CommitmentKeys \cup {Null}, AmendProposal(r, p, key)
      PROVE  CeremonyShape
  <2>1. Target(r) \in Proposals
    BY <1>1, <1>5 DEF AmendProposal, Fresh, At
  <2>2. Replaced
    BY <1>5, <2>1, MovableIsOpen, Zenon DEF AmendProposal, Replaced
  <2> QED
    BY <1>5, <2>2 DEF AmendProposal, CeremonyShape
<1>6. ASSUME NEW p \in Proposals, DeletionWithdraws(p)
      PROVE  CeremonyShape
  BY <1>6 DEF DeletionWithdraws, Stepped, CeremonyShape, Decided
<1>7. ASSUME NEW p \in Proposals, NEW key \in CommitmentKeys \cup {Null},
             NEW turn \in Turns, Draft(p, key, turn)
      PROVE  CeremonyShape
  BY <1>7, Zenon DEF Draft, Drafted, CeremonyShape
<1>8. ASSUME NEW p \in Proposals, NEW j \in Commitments,
             ResolveChallengeWithAmendment(p, j)
      PROVE  CeremonyShape
  <2>1. Amend(challenge[p].existing, j) /\ challenge[p].existing \in Commitments
    BY <1>8 DEF ResolveChallengeWithAmendment, Amend
  <2>2. Next
    BY <2>1, Zenon DEF Next
  <2> QED
    BY <1>8, <2>2 DEF ResolveChallengeWithAmendment, CeremonyShape
<1>9. ASSUME UNCHANGED <<vars, proposal>>
      PROVE  CeremonyShape
  BY <1>9 DEF CeremonyShape
<1>10. ASSUME NEW r \in Requests, Step(r)
       PROVE  CeremonyShape
  <2>1. \/ UNCHANGED <<vars, proposal>>
        \/ MarkProposalAwaitingDecision(r) \/ ConfirmProposal(r) \/ CloseProposal(r)
        \/ \E p \in Proposals, key \in CommitmentKeys \cup {Null} :
             AmendProposal(r, p, key)
    BY <1>10 DEF Step, Submit, MarkNothing, MarkRefused, Probe, Detect,
         EnsureChallenge, Replay, DecideRefused
  <2> QED
    BY <1>2, <1>3, <1>4, <1>5, <1>9, <2>1 DEF CeremonyShape
<1>11. ASSUME NEW p \in Proposals, DismissChallenge(p)
       PROVE  CeremonyShape
  BY <1>9, <1>11 DEF DismissChallenge
<1>12. ASSUME DeletionTombstones \/ UNCHANGED allVars
       PROVE  CeremonyShape
  BY <1>9, <1>12 DEF DeletionTombstones, allVars, ceremony
<1>13. ASSUME RecordVerb
       PROVE  CeremonyShape
  BY <1>13 DEF RecordVerb, ceremony, CeremonyShape
<1> QED
  BY <1>6, <1>7, <1>8, <1>10, <1>11, <1>12, <1>13 DEF CeremonyNext
-----------------------------------------------------------------------------
LEMMA KeyedFamily ==
  ASSUME NEW key, NEW i \in FamilyFor(key)
  PROVE  i \in Ids
  BY DEF FamilyFor, Ids

LEMMA ShapeKeepsRecords ==
  ASSUME CeremonyTypes, CeremonyShape
  PROVE  [Next]_vars
<1>1. ASSUME NEW p \in Proposals, NEW i \in FamilyFor(proposal[p].key),
             Create(i, proposal[p].key)
      PROVE  Next
  <2>1. proposal[p].key \in CommitmentKeys \cup {Null} /\ i \in Ids
    BY KeyedFamily DEF CeremonyTypes, ProposalRows
  <2> QED
    BY <1>1, <2>1, Zenon DEF Next
<1> QED
  BY <1>1 DEF CeremonyShape, Made

(* Records are never unmade, and keep the predecessor they were made with. *)
LEMMA RecordsStay ==
  ASSUME TypeOK, [Next]_vars, NEW i \in Ids, Exists(i)
  PROVE  row'[i].status # "absent" /\ row'[i].supersedes = row[i].supersedes
<1>1. Shape
  BY StepShape
<1>2. ASSUME NEW j \in Ids, Creation(j)
      PROVE  row'[i] = row[i]
  BY <1>2 DEF Creation, TypeOK
<1>3. ASSUME NEW j \in Ids, NEW k \in Ids, Succession(j, k)
      PROVE  row'[i].status # "absent" /\ row'[i].supersedes = row[i].supersedes
  BY <1>3 DEF Succession, Moves, Exists
<1>4. ASSUME Edit
      PROVE  row'[i].status # "absent" /\ row'[i].supersedes = row[i].supersedes
  BY <1>4 DEF Edit, Edited, Moves, Exists
<1> QED
  BY <1>1, <1>2, <1>3, <1>4 DEF Shape, Exists

(* The rows of proposals.                                                  *)
LEMMA BumpedProposal ==
  ASSUME NEW r \in ProposalRows
  PROVE  /\ Bumped(r) \in ProposalRows
         /\ Bumped(r).made = r.made /\ Bumped(r).key = r.key
  BY DEF ProposalRows, Bumped

LEMMA TransitionRow ==
  ASSUME NEW p \in Proposals, proposal[p] \in ProposalRows,
         NEW to \in Open \cup Decided
  PROVE  /\ Transition(p, to) \in ProposalRows
         /\ Transition(p, to).status = to
         /\ Transition(p, to).made = proposal[p].made
         /\ Transition(p, to).key = proposal[p].key
<1>1. ASSUME NEW r \in ProposalRows
      PROVE  /\ [r EXCEPT !.status = to] \in ProposalRows
             /\ [r EXCEPT !.status = to].status = to
             /\ [r EXCEPT !.status = to].made = r.made
             /\ [r EXCEPT !.status = to].key = r.key
  BY DEF ProposalRows
<1> QED
  BY <1>1, BumpedProposal DEF Transition, Moved

LEMMA ConfirmedRow ==
  ASSUME NEW p \in Proposals, proposal[p] \in ProposalRows, NEW i \in Ids
  PROVE  LET t == [Transition(p, "confirmed") EXCEPT !.made = i]
         IN  /\ t \in ProposalRows
             /\ t.status = "confirmed" /\ t.made = i /\ t.key = proposal[p].key
<1>1. "confirmed" \in Open \cup Decided
  BY DEF Decided
<1>2. ASSUME NEW r \in ProposalRows
      PROVE  LET t == [r EXCEPT !.made = i]
             IN  /\ t \in ProposalRows
                 /\ t.status = r.status /\ t.made = i /\ t.key = r.key
  BY DEF ProposalRows
<1> QED
  BY <1>1, <1>2, TransitionRow

LEMMA ShapeKeepsTypes ==
  ASSUME CeremonyTypes, CeremonyShape
  PROVE  proposal' \in [Proposals -> ProposalRows]
<1> USE DEF CeremonyTypes
<1>1. ASSUME NEW p \in Proposals, NEW to \in Open \cup Decided
      PROVE  Transition(p, to) \in ProposalRows
  BY TransitionRow
<1>2. ASSUME NEW key \in CommitmentKeys \cup {Null}, NEW turn \in Turns \cup {Null},
             NEW q \in Proposals \cup {Null}
      PROVE  NewProposal(key, turn, q) \in ProposalRows
  BY DEF NewProposal, ProposalRows, Open
<1>3. CASE Made
  <2>0. PICK p \in Proposals : \E i \in FamilyFor(proposal[p].key) :
          proposal' = [proposal EXCEPT ![p] =
                         [Transition(p, "confirmed") EXCEPT !.made = i]]
    BY <1>3, Zenon DEF Made
  <2>1. PICK i \in FamilyFor(proposal[p].key) :
          proposal' = [proposal EXCEPT ![p] =
                         [Transition(p, "confirmed") EXCEPT !.made = i]]
    BY <2>0
  <2>2. [Transition(p, "confirmed") EXCEPT !.made = i] \in ProposalRows
    BY ConfirmedRow, KeyedFamily
  <2> QED
    BY <2>1, <2>2
<1>4. CASE Drafted
  <2>1. PICK p \in Proposals, key \in CommitmentKeys \cup {Null}, turn \in Turns :
          proposal' = [proposal EXCEPT ![p] = NewProposal(key, turn, Null)]
    BY <1>4, Zenon DEF Drafted
  <2>2. NewProposal(key, turn, Null) \in ProposalRows
    BY <1>2
  <2> QED
    BY <2>1, <2>2
<1>5. CASE Stepped
  <2>1. PICK p \in Proposals, to \in (Open \cup Decided) \ {"confirmed", "amended"} :
          proposal' = [proposal EXCEPT ![p] = Transition(p, to)]
    BY <1>5, Zenon DEF Stepped
  <2> QED
    BY <1>1, <2>1
<1>6. CASE Replaced
  <2>1. PICK p \in Proposals, q \in Proposals, key \in CommitmentKeys \cup {Null} :
          proposal' = [[proposal EXCEPT ![q] = Transition(q, "amended")]
                         EXCEPT ![p] = NewProposal(key, proposal[q].turn, q)]
    BY <1>6 DEF Replaced
  <2>2. Transition(q, "amended") \in ProposalRows
    BY <1>1 DEF Decided
  <2>3. NewProposal(key, proposal[q].turn, q) \in ProposalRows
    BY <1>2 DEF ProposalRows
  <2> QED
    BY <2>1, <2>2, <2>3
<1> QED
  BY <1>3, <1>4, <1>5, <1>6 DEF CeremonyShape

LEMMA StepKeepsTargets ==
  ASSUME Targeted, [CeremonyNext]_allVars
  PROVE  Targeted'
<1> USE DEF Targeted
<1>1. ASSUME NEW r \in Requests, NEW op \in Ops, NEW p \in Proposals, NEW key \in Keys,
             Submit(r, op, p, key)
      PROVE  Targeted'
  <2>1. /\ asks' = [asks EXCEPT ![r] = [op |-> op, proposal |-> p, key |-> key]]
        /\ pc' = [pc EXCEPT ![r] = "mark"]
    BY <1>1 DEF Submit, Go
  <2>2. asks' \in [Requests -> [op : Ops \cup {"none"}, proposal : Proposals \cup {Null},
                                key : Keys \cup {Null}]]
    BY <2>1
  <2> QED
    <3>1. asks'[r].proposal = p /\ \A q \in Requests \ {r} : asks'[q] = asks[q]
      BY <2>1
    <3>2. pc' \in [Requests -> Labels] /\ \A q \in Requests \ {r} : pc'[q] = pc[q]
      BY <2>1 DEF Labels
    <3> QED
      BY <2>2, <3>1, <3>2 DEF Target
<1>2. ASSUME NEW r \in Requests, pc[r] # "idle", asks' = asks,
             NEW label \in Labels, pc' = [pc EXCEPT ![r] = label]
      PROVE  Targeted'
  BY <1>2 DEF Target
<1>3. ASSUME NEW r \in Requests, Step(r),
             ~ \E op \in Ops, p \in Proposals, key \in Keys : Submit(r, op, p, key)
      PROVE  Targeted'
  <2>1. CASE MarkNothing(r) \/ MarkProposalAwaitingDecision(r) \/ MarkRefused(r)
    BY <1>2, <2>1 DEF MarkNothing, MarkProposalAwaitingDecision, MarkRefused, Told, Go,
       AfterSubStep, At, Labels
  <2>2. CASE Probe(r) \/ Detect(r) \/ EnsureChallenge(r)
    BY <1>2, <2>2 DEF Probe, Detect, EnsureChallenge, Told, Go, At, Labels
  <2>3. CASE Replay(r) \/ DecideRefused(r)
    BY <1>2, <2>3 DEF Replay, DecideRefused, Told, Go, At, Fresh, Labels
  <2>4. ASSUME Fresh(r), Settles(r)
        PROVE  Targeted'
    BY <1>2, <2>4 DEF Settles, Told, Go, At, Fresh, Labels
  <2>5. CASE ConfirmProposal(r) \/ CloseProposal(r)
    BY <2>4, <2>5 DEF ConfirmProposal, CloseProposal
  <2>6. CASE \E p \in Proposals, key \in CommitmentKeys \cup {Null} :
               AmendProposal(r, p, key)
    BY <2>4, <2>6 DEF AmendProposal
  <2> QED
    BY <1>3, <2>1, <2>2, <2>3, <2>5, <2>6 DEF Step
<1>4. ASSUME UNCHANGED <<asks, pc>>
      PROVE  Targeted'
  BY <1>4 DEF Target
<1>5. ASSUME ~ \E r \in Requests : Step(r)
      PROVE  UNCHANGED <<asks, pc>>
  BY <1>5 DEF CeremonyNext, Draft, DismissChallenge, DeletionWithdraws,
     ResolveChallengeWithAmendment, DeletionTombstones, RecordVerb, allVars, ceremony,
     requests
<1> QED
  BY <1>1, <1>2, <1>3, <1>4, <1>5

LEMMA ShapeKeepsConfirmations ==
  ASSUME IInv, CInv, CeremonyShape
  PROVE  ConfirmedMadeOneRecord'
<1> USE DEF IInv, CInv, CeremonyTypes
<1>1. [Next]_vars
  BY ShapeKeepsRecords
<1>2. ASSUME NEW p \in Proposals, proposal[p].made # Null
      PROVE  LET i == proposal[p].made
             IN  /\ i \in Ids /\ row'[i].status # "absent" /\ i \in FamilyFor(proposal[p].key)
                 /\ row'[i].supersedes = Null
                 /\ \A q \in Proposals : proposal[q].made = i => q = p
  <2>1. proposal[p].made \in Ids
    BY <1>2 DEF ProposalRows
  <2>2. /\ Exists(proposal[p].made) /\ proposal[p].made \in FamilyFor(proposal[p].key)
        /\ row[proposal[p].made].supersedes = Null
        /\ \A q \in Proposals : proposal[q].made = proposal[p].made => q = p
    BY <1>2 DEF ConfirmedMadeOneRecord
  <2> QED
    BY <1>1, <2>1, <2>2, RecordsStay
<1>3. ASSUME proposal' \in [Proposals -> ProposalRows],
             \A p \in Proposals :
               \/ proposal'[p] = proposal[p]
               \/ /\ proposal'[p].made = Null
                  /\ proposal'[p].status # "confirmed"
               \/ /\ proposal'[p].made = proposal[p].made
                  /\ proposal'[p].key = proposal[p].key
                  /\ proposal[p].status # "confirmed"
                  /\ proposal'[p].status # "confirmed"
      PROVE  ConfirmedMadeOneRecord'
  BY <1>2, <1>3 DEF ConfirmedMadeOneRecord, Status, Exists
<1>4. proposal' \in [Proposals -> ProposalRows]
  BY ShapeKeepsTypes
<1>5. CASE Drafted \/ Stepped \/ Replaced \/ UNCHANGED proposal
  <2>1. ASSUME Drafted
        PROVE  ConfirmedMadeOneRecord'
    BY <1>3, <1>4, <2>1 DEF Drafted, NewProposal
  <2>2. ASSUME Stepped
        PROVE  ConfirmedMadeOneRecord'
    <3>1. PICK p \in Proposals, to \in (Open \cup Decided) \ {"confirmed", "amended"} :
            /\ Status(p) \in Open
            /\ proposal' = [proposal EXCEPT ![p] = Transition(p, to)]
      BY <2>2, Zenon DEF Stepped
    <3>2. /\ proposal'[p] = Transition(p, to)
          /\ \A q \in Proposals \ {p} : proposal'[q] = proposal[q]
      BY <3>1
    <3>3. proposal[p].status # "confirmed"
      BY <3>1 DEF Status, Open
    <3> QED
      BY <1>3, <1>4, <3>2, <3>3, TransitionRow
  <2>3. ASSUME Replaced
        PROVE  ConfirmedMadeOneRecord'
    <3>1. PICK p \in Proposals, q \in Proposals, key \in CommitmentKeys \cup {Null} :
            /\ Status(p) = "absent" /\ Status(q) \in Open
            /\ proposal' = [[proposal EXCEPT ![q] = Transition(q, "amended")]
                              EXCEPT ![p] = NewProposal(key, proposal[q].turn, q)]
      BY <2>3, Zenon DEF Replaced
    <3>2. /\ proposal'[q] = Transition(q, "amended")
          /\ proposal'[p] = NewProposal(key, proposal[q].turn, q)
          /\ \A x \in Proposals \ {p, q} : proposal'[x] = proposal[x]
      BY <3>1 DEF Status, Open
    <3>3. proposal[q].status # "confirmed" /\ "amended" \in Open \cup Decided
      BY <3>1 DEF Status, Open, Decided
    <3>4. proposal'[p].made = Null /\ proposal'[p].status = "proposed"
      BY <3>2 DEF NewProposal
    <3> QED
      BY <1>3, <1>4, <3>2, <3>3, <3>4, TransitionRow
  <2> QED
    BY <1>3, <1>4, <1>5, <2>1, <2>2, <2>3
<1>6. CASE Made
  <2>0. PICK p \in Proposals : \E i \in FamilyFor(proposal[p].key) :
          /\ Status(p) \in Open
          /\ Create(i, proposal[p].key)
          /\ proposal' = [proposal EXCEPT ![p] =
                            [Transition(p, "confirmed") EXCEPT !.made = i]]
    BY <1>6, Zenon DEF Made
  <2>1. PICK i \in FamilyFor(proposal[p].key) :
          /\ Status(p) \in Open
          /\ Create(i, proposal[p].key)
          /\ proposal' = [proposal EXCEPT ![p] =
                            [Transition(p, "confirmed") EXCEPT !.made = i]]
    BY <2>0
  <2>2. /\ proposal'[p].made = i /\ proposal'[p].status = "confirmed"
        /\ proposal'[p].key = proposal[p].key
        /\ \A q \in Proposals \ {p} : proposal'[q] = proposal[q]
    BY <2>1, ConfirmedRow, KeyedFamily
  <2>3. i \in Ids /\ ~Exists(i)
    BY <2>1, KeyedFamily DEF Create
  <2>4. row'[i].status # "absent" /\ row'[i].supersedes = Null
    BY <2>1, <2>3, Families DEF Create, Exists, NewRow, TypeOK
  <2>5. \A q \in Proposals : proposal[q].made # i
    BY <2>3, NullIsNoValue DEF ConfirmedMadeOneRecord
  <2> QED
    <3> SUFFICES ASSUME NEW x \in Proposals
                 PROVE  /\ proposal'[x].status = "confirmed" <=> proposal'[x].made # Null
                        /\ proposal'[x].made # Null =>
                             /\ row'[proposal'[x].made].status # "absent"
                             /\ proposal'[x].made \in FamilyFor(proposal'[x].key)
                             /\ row'[proposal'[x].made].supersedes = Null
                             /\ \A q \in Proposals :
                                  proposal'[q].made = proposal'[x].made => q = x
      BY DEF ConfirmedMadeOneRecord, Status, Exists
    <3>1. CASE x = p
      <4>1. i # Null /\ i \in FamilyFor(proposal[p].key)
        BY <2>1, <2>3, NullIsNoValue
      <4>2. \A q \in Proposals : proposal'[q].made = i => q = p
        BY <2>2, <2>5
      <4> QED
        BY <2>2, <2>4, <3>1, <4>1, <4>2
    <3>2. CASE x # p
      BY <1>2, <2>2, <2>5, <3>2 DEF ConfirmedMadeOneRecord, Status
    <3> QED
      BY <3>1, <3>2
<1> QED
  BY <1>5, <1>6 DEF CeremonyShape

THEOREM CeremonyInvariance == CeremonySpec => [](IInv /\ CInv)
<1>1. CeremonyInit => IInv /\ CInv
  <2> SUFFICES ASSUME CeremonyInit
               PROVE  IInv /\ CInv
    OBVIOUS
  <2>1. IInv
    BY InitialRecords DEF CeremonyInit
  <2>2. CeremonyTypes
    <3>1. NoProposal \in ProposalRows
      BY DEF NoProposal, ProposalRows
    <3>2. /\ NoRequest \in [op : Ops \cup {"none"}, proposal : Proposals \cup {Null},
                           key : Keys \cup {Null}]
          /\ "idle" \in Labels
      BY DEF NoRequest, Labels
    <3> QED
      BY <3>1, <3>2, Zenon DEF CeremonyInit, CeremonyTypes, Targeted
  <2>3. ConfirmedMadeOneRecord
    BY DEF CeremonyInit, ConfirmedMadeOneRecord, NoProposal, Status
  <2> QED
    BY <2>1, <2>2, <2>3 DEF CInv
<1>2. IInv /\ CInv /\ [CeremonyNext]_allVars => IInv' /\ CInv'
  <2> SUFFICES ASSUME IInv, CInv, [CeremonyNext]_allVars
               PROVE  IInv' /\ CInv'
    OBVIOUS
  <2>1. CeremonyShape
    BY CeremonyStepShape DEF CInv
  <2>2. IInv'
    BY <2>1, ShapeKeepsRecords, RecordStepKeepsInvariant DEF CInv
  <2>3. CeremonyTypes'
    BY <2>1, ShapeKeepsTypes, StepKeepsTargets DEF CInv, CeremonyTypes
  <2>4. ConfirmedMadeOneRecord'
    BY <2>1, ShapeKeepsConfirmations
  <2> QED
    BY <2>2, <2>3, <2>4 DEF CInv
<1> QED
  BY <1>1, <1>2, PTL DEF CeremonySpec

(* A proposal is confirmed exactly if it has made a record, and no other   *)
(* proposal has made the same one: confirmProposal creates the record and  *)
(* closes the proposal in one transaction.                                 *)
THEOREM ConfirmationsMakeOneRecord == CeremonySpec => []ConfirmedMadeOneRecord
  BY CeremonyInvariance, PTL DEF CInv

(* The ceremony implements the record store: every proposal, challenge and *)
(* retry the surfaces let through is, to the tables, a verb of the store.  *)
LEMMA CeremonyKeepsRecords == CeremonySpec => Spec
<1>1. CeremonyInit => Init
  BY DEF CeremonyInit
<1>2. CInv /\ [CeremonyNext]_allVars => [Next]_vars
  BY CeremonyStepShape, ShapeKeepsRecords DEF CInv
<1> QED
  BY <1>1, <1>2, CeremonyInvariance, PTL DEF CeremonySpec, Spec

-----------------------------------------------------------------------------
(***************************************************************************)
(* Judgments: what was decided, challenged and told.                       *)
(***************************************************************************)

(* What a decided proposal is, it stays; one that is there keeps its key,  *)
(* its turn and what it amends.                                            *)
ProposalsForward ==
  \A p \in Proposals :
    /\ Status(p) \in Decided => proposal'[p] = proposal[p]
    /\ Status(p) # "absent" =>
         /\ proposal'[p].status # "absent"
         /\ proposal'[p].key = proposal[p].key
         /\ proposal'[p].turn = proposal[p].turn
         /\ proposal'[p].amends = proposal[p].amends

LEMMA TransitionKeeps ==
  ASSUME NEW p \in Proposals, proposal[p] \in ProposalRows, NEW to \in Open \cup Decided
  PROVE  /\ Transition(p, to).turn = proposal[p].turn
         /\ Transition(p, to).amends = proposal[p].amends
  BY DEF Transition, Moved, Bumped, ProposalRows

LEMMA ProposalsGoForward ==
  ASSUME CeremonyTypes, CeremonyShape
  PROVE  ProposalsForward
<1> USE DEF CeremonyTypes
<1>1. CASE Made
  <2>0. PICK p \in Proposals : \E i \in FamilyFor(proposal[p].key) :
          /\ Status(p) \in Open
          /\ proposal' = [proposal EXCEPT ![p] =
                            [Transition(p, "confirmed") EXCEPT !.made = i]]
    BY <1>1, Zenon DEF Made
  <2>1. PICK i \in FamilyFor(proposal[p].key) :
          proposal' = [proposal EXCEPT ![p] =
                         [Transition(p, "confirmed") EXCEPT !.made = i]]
    BY <2>0
  <2> DEFINE t == Transition(p, "confirmed")
  <2>2. /\ t \in ProposalRows /\ t.status = "confirmed" /\ t.key = proposal[p].key
        /\ t.turn = proposal[p].turn /\ t.amends = proposal[p].amends
    BY TransitionRow, TransitionKeeps DEF Decided
  <2>3. /\ proposal'[p] = [t EXCEPT !.made = i]
        /\ \A q \in Proposals \ {p} : proposal'[q] = proposal[q]
    BY <2>1
  <2> HIDE DEF t
  <2>4. /\ proposal'[p].status = "confirmed" /\ proposal'[p].key = proposal[p].key
        /\ proposal'[p].turn = proposal[p].turn /\ proposal'[p].amends = proposal[p].amends
    BY <2>2, <2>3 DEF ProposalRows
  <2> QED
    BY <2>0, <2>3, <2>4 DEF ProposalsForward, Status, Open, Decided
<1>2. CASE Drafted
  BY <1>2 DEF Drafted, ProposalsForward, Status, Decided
<1>3. CASE Stepped
  <2>1. PICK p \in Proposals, to \in (Open \cup Decided) \ {"confirmed", "amended"} :
          /\ Status(p) \in Open
          /\ proposal' = [proposal EXCEPT ![p] = Transition(p, to)]
    BY <1>3, Zenon DEF Stepped
  <2>2. /\ proposal'[p] = Transition(p, to)
        /\ \A q \in Proposals \ {p} : proposal'[q] = proposal[q]
    BY <2>1
  <2> QED
    BY <2>1, <2>2, TransitionRow, TransitionKeeps
    DEF ProposalsForward, Status, Open, Decided
<1>4. CASE Replaced
  <2>1. PICK p \in Proposals, q \in Proposals, key \in CommitmentKeys \cup {Null} :
          /\ Status(p) = "absent" /\ Status(q) \in Open
          /\ proposal' = [[proposal EXCEPT ![q] = Transition(q, "amended")]
                            EXCEPT ![p] = NewProposal(key, proposal[q].turn, q)]
    BY <1>4, Zenon DEF Replaced
  <2>2. /\ proposal'[q] = Transition(q, "amended")
        /\ \A x \in Proposals \ {p, q} : proposal'[x] = proposal[x]
    BY <2>1 DEF Status, Open
  <2>3. "amended" \in Open \cup Decided
    BY DEF Decided
  <2> QED
    BY <2>1, <2>2, <2>3, TransitionRow, TransitionKeeps
    DEF ProposalsForward, Status, Open, Decided
<1>5. CASE UNCHANGED proposal
  BY <1>5 DEF ProposalsForward, Status
<1> QED
  BY <1>1, <1>2, <1>3, <1>4, <1>5 DEF CeremonyShape

(***************************************************************************)
(* Amendments.                                                             *)
(***************************************************************************)
AbsentAmendsNothing ==
  \A p \in Proposals : Status(p) = "absent" => proposal[p].amends = Null

AmendmentInv == AmendmentsReplace /\ AbsentAmendsNothing

LEMMA AmendmentStep ==
  ASSUME CeremonyTypes, AmendmentInv, CeremonyShape
  PROVE  AmendmentInv'
<1> USE DEF CeremonyTypes
<1>0. ProposalsForward
  BY ProposalsGoForward
<1>1. proposal' \in [Proposals -> ProposalRows]
  BY ShapeKeepsTypes
<1>2. ASSUME \A p \in Proposals :
               /\ proposal'[p].amends = proposal[p].amends
               /\ Status(p) # "absent" => proposal'[p].turn = proposal[p].turn
               /\ (proposal'[p].status = "amended") = (proposal[p].status = "amended")
               /\ proposal'[p].status = "absent" => proposal[p].status = "absent"
      PROVE  AmendmentInv'
  <2>1. \A p \in Proposals : proposal[p].amends # Null =>
          Status(p) # "absent" /\ proposal[p].amends \in Proposals
    BY DEF AmendmentInv, AbsentAmendsNothing, ProposalRows
  <2>2. \A q \in Proposals :
          {x \in Proposals : proposal'[x].amends = q} =
            {x \in Proposals : proposal[x].amends = q}
    BY <1>2
  <2>3. \A q \in Proposals : Status(q) = "amended" => Status(q) # "absent"
    OBVIOUS
  <2> QED
    BY <1>2, <2>1, <2>2, <2>3
    DEF AmendmentInv, AmendmentsReplace, AbsentAmendsNothing, Status
<1>3. CASE Replaced
  <2>1. PICK p \in Proposals, q \in Proposals, key \in CommitmentKeys \cup {Null} :
          /\ Status(p) = "absent" /\ Status(q) \in Open
          /\ proposal' = [[proposal EXCEPT ![q] = Transition(q, "amended")]
                            EXCEPT ![p] = NewProposal(key, proposal[q].turn, q)]
    BY <1>3, Zenon DEF Replaced
  <2>2. /\ proposal'[q] = Transition(q, "amended")
        /\ proposal'[p] = NewProposal(key, proposal[q].turn, q)
        /\ \A x \in Proposals \ {p, q} : proposal'[x] = proposal[x]
        /\ p # q
    BY <2>1 DEF Status, Open
  <2>3. /\ proposal'[q].status = "amended" /\ proposal'[q].turn = proposal[q].turn
        /\ proposal'[q].amends = proposal[q].amends
    BY <2>2, TransitionRow, TransitionKeeps DEF Decided
  <2>4. /\ proposal'[p].status = "proposed" /\ proposal'[p].turn = proposal[q].turn
        /\ proposal'[p].amends = q
    BY <2>2 DEF NewProposal
  <2>5. \A x \in Proposals : proposal[x].amends \notin {p, q}
    BY <2>1, NullIsNoProposal DEF AmendmentInv, AmendmentsReplace, Status, Open
  <2>6. proposal[p].amends = Null
    BY <2>1 DEF AmendmentInv, AbsentAmendsNothing
  <2>7. \A x \in Proposals : proposal'[x].amends = q <=> x = p
    BY <2>2, <2>3, <2>4, <2>5
  <2>8. \A x \in Proposals : proposal'[x].amends = IF x = p THEN q ELSE proposal[x].amends
    BY <2>2, <2>3, <2>4
  <2>9. ASSUME NEW x \in Proposals, proposal'[x].amends # Null
        PROVE  /\ proposal'[proposal'[x].amends].status = "amended"
               /\ proposal'[x].turn = proposal'[proposal'[x].amends].turn
    <3>1. CASE x = p
      BY <2>3, <2>4, <3>1
    <3>2. CASE x # p
      <4>1. proposal[x].amends \in Proposals /\ proposal[x].amends \notin {p, q}
        BY <2>5, <2>8, <2>9, <3>2 DEF ProposalRows
      <4>2. proposal'[proposal[x].amends] = proposal[proposal[x].amends]
        BY <2>2, <4>1
      <4>3. proposal'[x].turn = proposal[x].turn
        BY <2>2, <2>3, <3>2
      <4> QED
        BY <2>8, <2>9, <3>2, <4>1, <4>2, <4>3 DEF AmendmentInv, AmendmentsReplace, Status
    <3> QED
      BY <3>1, <3>2
  <2>10. ASSUME NEW y \in Proposals, proposal'[y].status = "amended"
         PROVE  \E z \in Proposals : {x \in Proposals : proposal'[x].amends = y} = {z}
    <3>1. CASE y = q
      BY <2>7, <3>1
    <3>2. CASE y # q
      <4>1. y # p /\ proposal[y].status = "amended"
        BY <2>2, <2>4, <2>10, <3>2
      <4>2. {x \in Proposals : proposal'[x].amends = y} =
              {x \in Proposals : proposal[x].amends = y}
        BY <2>6, <2>8, <3>2, NullIsNoProposal
      <4> QED
        BY <4>1, <4>2 DEF AmendmentInv, AmendmentsReplace, Status
    <3> QED
      BY <3>1, <3>2
  <2>11. ASSUME NEW x \in Proposals, proposal'[x].status = "absent"
         PROVE  proposal'[x].amends = Null
    BY <2>2, <2>3, <2>4, <2>11 DEF AmendmentInv, AbsentAmendsNothing, Status
  <2> QED
    BY <2>9, <2>10, <2>11 DEF AmendmentInv, AmendmentsReplace, AbsentAmendsNothing, Status
<1>4. CASE Made
  <2>1. PICK p \in Proposals : \E i \in FamilyFor(proposal[p].key) :
          /\ Status(p) \in Open
          /\ proposal' = [proposal EXCEPT ![p] =
                            [Transition(p, "confirmed") EXCEPT !.made = i]]
    BY <1>4, Zenon DEF Made
  <2>2. /\ proposal'[p].status = "confirmed"
        /\ \A q \in Proposals \ {p} : proposal'[q] = proposal[q]
    BY <2>1, ConfirmedRow, KeyedFamily
  <2> QED
    BY <1>0, <1>2, <2>1, <2>2 DEF ProposalsForward, Status, Open
<1>5. CASE Drafted
  <2>1. PICK p \in Proposals, key \in CommitmentKeys \cup {Null}, turn \in Turns :
          /\ Status(p) = "absent"
          /\ proposal' = [proposal EXCEPT ![p] = NewProposal(key, turn, Null)]
    BY <1>5, Zenon DEF Drafted
  <2>2. /\ proposal'[p].status = "proposed" /\ proposal'[p].amends = Null
        /\ \A q \in Proposals \ {p} : proposal'[q] = proposal[q]
    BY <2>1 DEF NewProposal
  <2>3. proposal[p].amends = Null
    BY <2>1 DEF AmendmentInv, AbsentAmendsNothing
  <2> QED
    BY <1>2, <2>1, <2>2, <2>3 DEF Status
<1>6. CASE Stepped
  <2>1. PICK p \in Proposals, to \in (Open \cup Decided) \ {"confirmed", "amended"} :
          /\ Status(p) \in Open
          /\ proposal' = [proposal EXCEPT ![p] = Transition(p, to)]
    BY <1>6, Zenon DEF Stepped
  <2>2. /\ proposal'[p].status = to /\ to # "amended"
        /\ \A q \in Proposals \ {p} : proposal'[q] = proposal[q]
    BY <2>1, TransitionRow
  <2> QED
    BY <1>0, <1>2, <2>1, <2>2 DEF ProposalsForward, Status, Open, Decided
<1>7. CASE UNCHANGED proposal
  BY <1>2, <1>7 DEF Status
<1> QED
  BY <1>3, <1>4, <1>5, <1>6, <1>7 DEF CeremonyShape

(***************************************************************************)
(* What a challenge is about.                                              *)
(***************************************************************************)
(* The commitment i was made under the key k.                              *)
About(i, k) == i \in Commitments /\ Exists(i) /\ (row[i].key = k \/ Removed(i))

(* It has been amended.                                                    *)
Succeeded(i) ==
  row[i].status = "amended" /\ \E j \in Commitments : row[j].supersedes = i

LEMMA AboutStays ==
  ASSUME IInv, [Next]_vars, NEW i, NEW k, About(i, k)
  PROVE  About(i, k)' /\ (Succeeded(i) => Succeeded(i)')
<1> i \in Ids /\ i \in Commitments
  BY DEF About, Ids
<1>0. TypeOK
  BY DEF IInv
<1>1. row'[i].status # "absent" /\ Exists(i)
  BY <1>0, RecordsStay DEF About
<1>2. /\ row'[i].key = row[i].key \/ row'[i].retention = "user-removed"
      /\ Removed(i) => row'[i].retention = "user-removed"
      /\ row[i].status = "amended" => row'[i].status = "amended"
  <2>1. ASSUME NEW a \in Ids, Creation(a)
        PROVE  row'[i] = row[i]
    BY <1>0, <1>1, <2>1 DEF Creation, TypeOK
  <2>2. ASSUME NEW a \in Ids, NEW b \in Ids, Succession(a, b)
        PROVE  /\ row'[i].key = row[i].key /\ row'[i].retention = row[i].retention
               /\ row[i].status = "amended" => row'[i].status = "amended"
    BY <1>1, <2>2, Families DEF Succession, CurrentEffective, HasEligibleStatus
  <2>3. ASSUME Edit
        PROVE  /\ row'[i].key = row[i].key \/ row'[i].retention = "user-removed"
               /\ Removed(i) => row'[i].retention = "user-removed"
               /\ row[i].status = "amended" => row'[i].status = "amended"
    BY <2>3, Families DEF Edit, Edited, HasEligibleStatus, Removed
  <2> QED
    BY <1>0, <2>1, <2>2, <2>3, StepShape DEF Shape, Removed
<1>3. \A j \in Commitments : row[j].supersedes = i => row'[j].supersedes = i
  <2> SUFFICES ASSUME NEW j \in Commitments, row[j].supersedes = i
               PROVE  row'[j].supersedes = i
    OBVIOUS
  <2>1. j \in Ids /\ Exists(j)
    BY NullIsNoValue DEF IInv, LineageIsLinear, Ids
  <2> QED
    BY <1>0, <2>1, RecordsStay
<1> QED
  BY <1>1, <1>2, <1>3 DEF About, Succeeded, Exists, Removed

(* An amendment succeeds the commitment.                                   *)
LEMMA AmendSucceeds ==
  ASSUME TypeOK, NEW i \in Commitments, NEW j \in Commitments, Amend(i, j)
  PROVE  Succeeded(i)'
<1> i \in Ids /\ j \in Ids
  BY DEF Ids
<1>1. Succession(i, j)
  BY AmendShape
<1>2. row'[i].status = "amended"
  <2>1. i # j /\ row[i] \in Rows(i)
    BY <1>1 DEF Succession, TypeOK
  <2>2. row'[i] = Moved(row[i], "amended")
    BY <2>1 DEF Amend, TypeOK
  <2> QED
    BY <2>1, <2>2 DEF Moved, Bumped, Rows
<1>3. row'[j].supersedes = i
  BY <1>1 DEF Succession, NewRow
<1> QED
  BY <1>2, <1>3 DEF Succeeded

(***************************************************************************)
(* Challenges.                                                             *)
(***************************************************************************)
ChallengeRows ==
  [status : {"none", "open", "dismissed", "resolved"}, existing : Commitments \cup {Null}]

JudgmentTypes ==
  /\ challenge \in [Proposals -> ChallengeRows]
  /\ \A p \in Proposals : challenge[p].status = "none" => challenge[p] = NoChallenge
  /\ holder \in [Requests -> Commitments \cup {Null}]
  /\ seen \in [Requests -> Open \cup Decided \cup {"absent"}]
  /\ answer \in [Requests -> {"none", "ok", "conflict", "version", "refused"}]

(* What a step can do to the challenges.                                   *)
Raised ==
  \E r \in Requests :
    /\ pc[r] = "challenge" /\ Target(r) \in Proposals
    /\ challenge[Target(r)] = NoChallenge
    /\ CurrentEffective(holder[r])
    /\ challenge' = [challenge EXCEPT ![Target(r)] =
                       [status |-> "open", existing |-> holder[r]]]
    /\ UNCHANGED <<vars, proposal>>

Dismissed ==
  \E p \in Proposals :
    /\ challenge[p].status = "open"
    /\ challenge' = [challenge EXCEPT ![p].status = "dismissed"]

Resolved ==
  \E p \in Proposals, j \in Commitments :
    /\ challenge[p].status = "open"
    /\ Amend(challenge[p].existing, j)
    /\ challenge' = [challenge EXCEPT ![p].status = "resolved"]

ChallengeShape == Raised \/ Dismissed \/ Resolved \/ UNCHANGED challenge

LEMMA ChallengeStepShape ==
  ASSUME CeremonyTypes, JudgmentTypes, [CeremonyNext]_allVars
  PROVE  ChallengeShape
<1>1. ASSUME NEW r \in Requests, EnsureChallenge(r)
      PROVE  ChallengeShape
  <2>1. Target(r) \in Proposals /\ pc[r] = "challenge"
    BY <1>1 DEF EnsureChallenge, At, CeremonyTypes, Targeted
  <2> QED
    BY <1>1, <2>1 DEF EnsureChallenge, ChallengeShape, Raised
<1>2. ASSUME NEW r \in Requests, Step(r), ~EnsureChallenge(r)
      PROVE  UNCHANGED challenge
  <2>1. CASE \E op \in Ops, p \in Proposals, key \in Keys : Submit(r, op, p, key)
    BY <2>1 DEF Submit
  <2>2. CASE \E p \in Proposals, key \in CommitmentKeys \cup {Null} :
               AmendProposal(r, p, key)
    BY <2>2 DEF AmendProposal, Settles
  <2> QED
    BY <1>2, <2>1, <2>2 DEF Step, MarkNothing, MarkProposalAwaitingDecision, MarkRefused,
       Probe, Detect, Replay, ConfirmProposal, CloseProposal, DecideRefused, Settles
<1>3. ASSUME NEW p \in Proposals, DeletionWithdraws(p)
      PROVE  ChallengeShape
  BY <1>3 DEF DeletionWithdraws, ChallengeShape, Dismissed, JudgmentTypes, ChallengeRows
<1>4. ASSUME NEW p \in Proposals, DismissChallenge(p)
      PROVE  ChallengeShape
  BY <1>4 DEF DismissChallenge, ChallengeShape, Dismissed
<1>5. ASSUME NEW p \in Proposals, NEW j \in Commitments,
             ResolveChallengeWithAmendment(p, j)
      PROVE  ChallengeShape
  BY <1>5, Zenon DEF ResolveChallengeWithAmendment, ChallengeShape, Resolved
<1>6. ASSUME NEW p \in Proposals, NEW key, NEW turn, Draft(p, key, turn)
      PROVE  UNCHANGED challenge
  BY <1>6 DEF Draft
<1>7. CASE DeletionTombstones \/ RecordVerb \/ UNCHANGED allVars
  BY <1>7 DEF DeletionTombstones, RecordVerb, allVars, ceremony, ChallengeShape
<1> QED
  BY <1>1, <1>2, <1>3, <1>4, <1>5, <1>6, <1>7 DEF CeremonyNext, ChallengeShape

(* Closed challenges stay, open ones keep their commitment, and none       *)
(* disappears.                                                             *)
ChallengesForward ==
  \A p \in Proposals :
    /\ challenge[p].status \in {"dismissed", "resolved"} => challenge'[p] = challenge[p]
    /\ challenge[p].status # "none" =>
         challenge'[p].status # "none" /\ challenge'[p].existing = challenge[p].existing

LEMMA ChallengesGoForward ==
  ASSUME JudgmentTypes, ChallengeShape
  PROVE  ChallengesForward
  BY DEF JudgmentTypes, ChallengeRows, ChallengeShape, Raised, Dismissed, Resolved,
     ChallengesForward, NoChallenge

(* What every challenge is about, whatever becomes of it.                  *)
ChallengeHolds ==
  \A p \in Proposals : challenge[p].status # "none" =>
    /\ Status(p) # "absent"
    /\ About(challenge[p].existing, proposal[p].key)
    /\ challenge[p].status = "resolved" => Succeeded(challenge[p].existing)

(***************************************************************************)
(* Requests.                                                               *)
(***************************************************************************)
(* What is recorded under the key of a verb was decided by it.             *)
EntriesDecide ==
  /\ used \subseteq [verb : Ops \cup {"awaiting"}, key : Keys, proposal : Proposals]
  /\ \A e \in used : e.verb \in Ops => Status(e.proposal) = DecisionOf(e.verb)

(* What a request has read and found still holds, and what it was told.    *)
RequestHolds(r) ==
  /\ pc[r] # "idle" =>
       /\ asks[r] \in [op : Ops, proposal : Proposals, key : Keys]
       /\ Status(Target(r)) # "absent"
       /\ seen[r] \in Decided => Status(Target(r)) \in Decided
  /\ pc[r] \in {"detect", "challenge"} => seen[r] = "awaiting_decision"
  /\ pc[r] = "challenge" => About(holder[r], proposal[Target(r)].key)
  /\ answer[r] # "none" => pc[r] = "done"
  /\ answer[r] = "ok" => Entry(Op(r), r) \in used
  /\ answer[r] = "conflict" => challenge[Target(r)].status # "none"
  /\ pc[r] = "done" /\ seen[r] \in Decided /\ answer[r] # "ok" =>
       Entry(Op(r), r) \notin used

JudgmentInv ==
  /\ JudgmentTypes
  /\ ChallengeHolds
  /\ EntriesDecide
  /\ \A r \in Requests : RequestHolds(r)

(* What is recorded is kept; what is new was open and is decided by it.    *)
EntriesForward ==
  /\ used \subseteq used'
  /\ \A e \in used' \ used :
       /\ e \in [verb : Ops \cup {"awaiting"}, key : Keys, proposal : Proposals]
       /\ e.verb \in Ops =>
            /\ Status(e.proposal) \notin Decided
            /\ proposal'[e.proposal].status = DecisionOf(e.verb)

Forward ==
  [Next]_vars /\ ProposalsForward /\ ChallengesForward /\ EntriesForward

LEMMA Decisions ==
  ASSUME NEW op \in Ops
  PROVE  DecisionOf(op) \in Decided
  BY DEF Ops, DecisionOf, Decided

LEMMA EntriesStayTrue ==
  ASSUME EntriesDecide, Forward
  PROVE  EntriesDecide'
<1>1. ASSUME NEW e \in used, e.verb \in Ops
      PROVE  proposal'[e.proposal].status = DecisionOf(e.verb)
  <2>1. e.proposal \in Proposals /\ Status(e.proposal) \in Decided
    BY <1>1, Decisions DEF EntriesDecide
  <2> QED
    BY <1>1, <2>1 DEF EntriesDecide, Forward, ProposalsForward, Status
<1> QED
  BY <1>1 DEF EntriesDecide, Forward, EntriesForward, Status

(* A request that does nothing.                                            *)
LEMMA OthersStay ==
  ASSUME IInv, CeremonyTypes, EntriesDecide, Forward, NEW r \in Requests, RequestHolds(r),
         asks'[r] = asks[r], pc'[r] = pc[r], seen'[r] = seen[r], holder'[r] = holder[r],
         answer'[r] = answer[r]
  PROVE  RequestHolds(r)'
<1> DEFINE p == Target(r)
<1>1. pc[r] # "idle" =>
        /\ p \in Proposals
        /\ proposal'[p].status # "absent" /\ proposal'[p].key = proposal[p].key
        /\ seen[r] \in Decided => proposal'[p].status \in Decided
  BY DEF RequestHolds, Forward, ProposalsForward, CeremonyTypes, Targeted, Status
<1>2. pc[r] = "challenge" =>
        /\ holder[r] \in Commitments /\ row'[holder[r]].status # "absent"
        /\ \/ row'[holder[r]].key = proposal[p].key
           \/ row'[holder[r]].retention = "user-removed"
  BY AboutStays DEF RequestHolds, Forward, About, Exists, Removed
<1>3. answer[r] = "conflict" => challenge'[p].status # "none"
  BY <1>1 DEF RequestHolds, Forward, ChallengesForward
<1>4. answer[r] = "ok" => Entry(Op(r), r) \in used'
  BY DEF RequestHolds, Forward, EntriesForward
<1>5. pc[r] = "done" /\ seen[r] \in Decided /\ answer[r] # "ok" =>
        Entry(Op(r), r) \notin used'
  <2> SUFFICES ASSUME pc[r] = "done", seen[r] \in Decided, answer[r] # "ok"
               PROVE  Entry(Op(r), r) \notin used'
    OBVIOUS
  <2>1. Entry(Op(r), r) \notin used /\ Status(p) \in Decided /\ Op(r) \in Ops
    BY DEF RequestHolds, Op
  <2> QED
    BY <2>1 DEF Forward, EntriesForward, Entry
<1> QED
  BY <1>1, <1>2, <1>3, <1>4, <1>5
  DEF RequestHolds, Target, Op, Entry, Status, About, Exists, Removed

(* What a step does to the entries.                                        *)
LEMMA SettlingStep ==
  ASSUME CeremonyTypes, JudgmentInv, NEW r \in Requests, Fresh(r), Settles(r),
         Status(Target(r)) \in Open,
         proposal'[Target(r)].status = DecisionOf(Op(r))
  PROVE  EntriesForward
<1>1. asks[r] \in [op : Ops, proposal : Proposals, key : Keys]
  BY DEF Fresh, At, JudgmentInv, RequestHolds
<1>2. Entry(Op(r), r) \in [verb : Ops \cup {"awaiting"}, key : Keys, proposal : Proposals]
  BY <1>1 DEF Entry, Op, Target
<1>3. Status(Target(r)) \notin Decided
  BY DEF Open, Decided
<1>4. used' = used \cup {Entry(Op(r), r)} /\ Entry(Op(r), r).proposal = Target(r)
      /\ Entry(Op(r), r).verb = Op(r)
  BY DEF Settles, Entry
<1> QED
  BY <1>2, <1>3, <1>4 DEF EntriesForward

(* A confirmation, a rejection, a withdrawal or an amendment decides.      *)
LEMMA DecidingSteps ==
  ASSUME CeremonyTypes, NEW r \in Requests,
         \/ ConfirmProposal(r) \/ CloseProposal(r)
         \/ \E p \in Proposals, key \in CommitmentKeys \cup {Null} :
              AmendProposal(r, p, key)
  PROVE  /\ Fresh(r) /\ Settles(r)
         /\ Status(Target(r)) \in Open
         /\ proposal'[Target(r)].status = DecisionOf(Op(r))
<1>0. Target(r) \in Proposals /\ proposal \in [Proposals -> ProposalRows]
  BY DEF CeremonyTypes, Targeted, ConfirmProposal, CloseProposal, AmendProposal, Fresh, At
<1>1. CASE ConfirmProposal(r)
  <2>1. PICK i \in FamilyFor(proposal[Target(r)].key) :
          proposal' = [proposal EXCEPT ![Target(r)] =
                         [Transition(Target(r), "confirmed") EXCEPT !.made = i]]
    BY <1>1, Zenon DEF ConfirmProposal
  <2>2. proposal'[Target(r)].status = "confirmed"
    BY <1>0, <2>1, ConfirmedRow, KeyedFamily
  <2> QED
    BY <1>1, <2>2 DEF ConfirmProposal, DecisionOf, Open
<1>2. CASE CloseProposal(r)
  <2>1. DecisionOf(Op(r)) \in Open \cup Decided
    BY <1>2 DEF CloseProposal, DecisionOf, Decided
  <2>2. proposal'[Target(r)] = Transition(Target(r), DecisionOf(Op(r)))
    BY <1>0, <1>2 DEF CloseProposal
  <2> QED
    BY <1>0, <1>2, <2>1, <2>2, TransitionRow, MovableIsOpen DEF CloseProposal
<1>3. CASE \E p \in Proposals, key \in CommitmentKeys \cup {Null} :
             AmendProposal(r, p, key)
  <2>1. PICK p \in Proposals, key \in CommitmentKeys \cup {Null} :
             AmendProposal(r, p, key)
    BY <1>3
  <2>2. /\ Fresh(r) /\ Settles(r) /\ MayMove(Target(r), "amended") /\ Op(r) = "amend"
        /\ Status(p) = "absent"
        /\ proposal' = [[proposal EXCEPT ![Target(r)] = Transition(Target(r), "amended")]
             EXCEPT ![p] = NewProposal(key, proposal[Target(r)].turn, Target(r))]
    BY <2>1, Zenon DEF AmendProposal
  <2>3. Status(Target(r)) \in Open
    BY <2>2, MovableIsOpen
  <2>4. proposal'[Target(r)] = Transition(Target(r), "amended")
    BY <1>0, <2>2, <2>3 DEF Status, Open
  <2> QED
    BY <1>0, <2>2, <2>3, <2>4, TransitionRow DEF DecisionOf, Decided
<1> QED
  BY <1>1, <1>2, <1>3

LEMMA EntriesGoForward ==
  ASSUME CeremonyTypes, JudgmentInv, [CeremonyNext]_allVars
  PROVE  EntriesForward
<1>1. ASSUME NEW r \in Requests, MarkProposalAwaitingDecision(r)
      PROVE  EntriesForward
  <2>1. asks[r] \in [op : Ops, proposal : Proposals, key : Keys]
    BY <1>1 DEF MarkProposalAwaitingDecision, At, JudgmentInv, RequestHolds
  <2>2. /\ Entry("awaiting", r) \in
             [verb : Ops \cup {"awaiting"}, key : Keys, proposal : Proposals]
        /\ Entry("awaiting", r).verb \notin Ops
    BY <2>1 DEF Entry, Target, Ops
  <2> QED
    BY <1>1, <2>2 DEF MarkProposalAwaitingDecision, EntriesForward
<1>2. ASSUME NEW r \in Requests,
             \/ ConfirmProposal(r) \/ CloseProposal(r)
             \/ \E p \in Proposals, key \in CommitmentKeys \cup {Null} :
                  AmendProposal(r, p, key)
      PROVE  EntriesForward
  BY <1>2, DecidingSteps, SettlingStep
<1>3. ASSUME UNCHANGED used
      PROVE  EntriesForward
  BY <1>3 DEF EntriesForward
<1>4. ASSUME NEW r \in Requests, Step(r)
      PROVE  EntriesForward
  <2>1. \/ UNCHANGED used
        \/ MarkProposalAwaitingDecision(r) \/ ConfirmProposal(r) \/ CloseProposal(r)
        \/ \E p \in Proposals, key \in CommitmentKeys \cup {Null} :
             AmendProposal(r, p, key)
    BY <1>4 DEF Step, Submit, MarkNothing, MarkRefused, Probe, Detect,
         EnsureChallenge, Replay, DecideRefused
  <2> QED
    BY <1>1, <1>2, <1>3, <2>1
<1>5. ASSUME ~ \E r \in Requests : Step(r)
      PROVE  UNCHANGED used
  BY <1>5 DEF CeremonyNext, Draft, DismissChallenge, DeletionWithdraws,
     ResolveChallengeWithAmendment, DeletionTombstones, RecordVerb, allVars, ceremony
<1> QED
  BY <1>3, <1>4, <1>5

LEMMA CeremonyGoesForward ==
  ASSUME CeremonyTypes, JudgmentInv, [CeremonyNext]_allVars
  PROVE  Forward
  BY CeremonyStepShape, ShapeKeepsRecords, ProposalsGoForward, ChallengeStepShape,
     ChallengesGoForward, EntriesGoForward DEF Forward, JudgmentInv

(* What a request tells and reads has its type.                            *)
LEMMA TypesOfSteps ==
  ASSUME CeremonyTypes, JudgmentTypes, [CeremonyNext]_allVars
  PROVE  JudgmentTypes'
<1> USE DEF JudgmentTypes
<1>0. ChallengeShape
  BY ChallengeStepShape
<1>1. /\ challenge' \in [Proposals -> ChallengeRows]
      /\ \A p \in Proposals : challenge'[p].status = "none" => challenge'[p] = NoChallenge
  <2>1. CASE Raised
    <3>1. PICK r \in Requests :
            /\ Target(r) \in Proposals
            /\ challenge' = [challenge EXCEPT ![Target(r)] =
                               [status |-> "open", existing |-> holder[r]]]
      BY <2>1 DEF Raised
    <3> QED
      BY <3>1 DEF ChallengeRows
  <2>2. CASE Dismissed
    BY <2>2 DEF Dismissed, ChallengeRows
  <2>3. CASE Resolved
    BY <2>3 DEF Resolved, ChallengeRows
  <2> QED
    BY <1>0, <2>1, <2>2, <2>3 DEF ChallengeShape
<1>2. ASSUME NEW r \in Requests, Step(r)
      PROVE  /\ holder' \in [Requests -> Commitments \cup {Null}]
             /\ seen' \in [Requests -> Open \cup Decided \cup {"absent"}]
             /\ answer' \in [Requests -> {"none", "ok", "conflict", "version", "refused"}]
  <2>1. CASE \E op \in Ops, p \in Proposals, key \in Keys : Submit(r, op, p, key)
    <3>1. PICK op \in Ops, p \in Proposals, key \in Keys : Submit(r, op, p, key)
      BY <2>1
    <3>2. Status(p) \in Open \cup Decided \cup {"absent"}
      BY DEF CeremonyTypes, ProposalRows, Status
    <3>3. seen' = [seen EXCEPT ![r] = Status(p)] /\ UNCHANGED <<holder, answer>>
      BY <3>1 DEF Submit
    <3> QED
      BY <3>2, <3>3
  <2>2. CASE Probe(r)
    <3>1. Status(Target(r)) \in Open \cup Decided \cup {"absent"}
      BY <2>2 DEF CeremonyTypes, Targeted, ProposalRows, Status, Probe, At
    <3> QED
      BY <2>2, <3>1 DEF Probe
  <2>3. CASE Detect(r)
    <3>1. Holders(proposal[Target(r)].key) \subseteq Commitments
      BY DEF Holders
    <3> QED
      BY <2>3, <3>1 DEF Detect
  <2>4. CASE EnsureChallenge(r)
    BY <2>4 DEF EnsureChallenge, Told
  <2>5. CASE \E p \in Proposals, key \in CommitmentKeys \cup {Null} :
               AmendProposal(r, p, key)
    BY <2>5 DEF AmendProposal, Settles, Told
  <2>6. CASE ConfirmProposal(r) \/ CloseProposal(r)
    BY <2>6 DEF ConfirmProposal, CloseProposal, Settles, Told
  <2>7. CASE MarkNothing(r) \/ MarkProposalAwaitingDecision(r) \/ MarkRefused(r)
    BY <2>7 DEF MarkNothing, MarkProposalAwaitingDecision, MarkRefused, Told
  <2>8. CASE Replay(r) \/ DecideRefused(r)
    BY <2>8 DEF Replay, DecideRefused, Told
  <2> QED
    BY <1>2, <2>1, <2>2, <2>3, <2>4, <2>5, <2>6, <2>7, <2>8 DEF Step
<1>3. ASSUME ~ \E r \in Requests : Step(r)
      PROVE  UNCHANGED <<holder, seen, answer>>
  BY <1>3 DEF CeremonyNext, Draft, DismissChallenge, DeletionWithdraws,
     ResolveChallengeWithAmendment, DeletionTombstones, RecordVerb, allVars, ceremony,
     requests
<1> QED
  BY <1>1, <1>2, <1>3

(* What a challenge is about remains so.                                   *)
LEMMA ChallengesStayTrue ==
  ASSUME IInv, CeremonyTypes, JudgmentInv, Forward, ChallengeShape
  PROVE  ChallengeHolds'
<1> DEFINE Good(p, i, s) ==
      /\ proposal'[p].status # "absent"
      /\ i \in Commitments /\ row'[i].status # "absent"
      /\ row'[i].key = proposal'[p].key \/ row'[i].retention = "user-removed"
      /\ s = "resolved" => /\ row'[i].status = "amended"
                           /\ \E j \in Commitments : row'[j].supersedes = i
<1>1. ASSUME NEW p \in Proposals, challenge[p].status # "none"
      PROVE  Good(p, challenge[p].existing, challenge[p].status)
  <2> DEFINE i == challenge[p].existing
             k == proposal[p].key
  <2>1. /\ Status(p) # "absent" /\ About(i, k)
        /\ challenge[p].status = "resolved" => Succeeded(i)
    BY <1>1 DEF JudgmentInv, ChallengeHolds
  <2>2. proposal'[p].status # "absent" /\ proposal'[p].key = k
    BY <2>1 DEF Forward, ProposalsForward
  <2>3. /\ i \in Commitments /\ row'[i].status # "absent"
        /\ row'[i].key = k \/ row'[i].retention = "user-removed"
    BY <2>1, AboutStays DEF Forward, About, Exists, Removed
  <2>4. Succeeded(i) => /\ row'[i].status = "amended"
                        /\ \E j \in Commitments : row'[j].supersedes = i
    BY <2>1, AboutStays DEF Forward, Succeeded
  <2> QED
    BY <2>1, <2>2, <2>3, <2>4
<1>2. ASSUME NEW p \in Proposals, challenge'[p].status # "none"
      PROVE  Good(p, challenge'[p].existing, challenge'[p].status)
  <2>1. CASE Raised
    <3>1. PICK r \in Requests :
            /\ pc[r] = "challenge" /\ Target(r) \in Proposals
            /\ challenge' = [challenge EXCEPT ![Target(r)] =
                               [status |-> "open", existing |-> holder[r]]]
            /\ UNCHANGED <<vars, proposal>>
      BY <2>1 DEF Raised
    <3>2. CASE p = Target(r)
      <4>1. challenge'[p] = [status |-> "open", existing |-> holder[r]]
        BY <3>1, <3>2 DEF JudgmentInv, JudgmentTypes
      <4>2. Status(p) # "absent" /\ About(holder[r], proposal[p].key)
        BY <3>1, <3>2 DEF JudgmentInv, RequestHolds
      <4> QED
        BY <3>1, <4>1, <4>2 DEF About, Exists, Removed, Status, vars
    <3>3. CASE p # Target(r)
      <4>1. challenge'[p] = challenge[p]
        BY <3>1, <3>3 DEF JudgmentInv, JudgmentTypes
      <4> QED
        BY <1>1, <1>2, <4>1
    <3> QED
      BY <3>2, <3>3
  <2>2. CASE Dismissed
    <3>1. /\ challenge[p].status # "none" /\ challenge'[p].existing = challenge[p].existing
          /\ challenge'[p].status \in {challenge[p].status, "dismissed"}
      BY <1>2, <2>2 DEF Dismissed, JudgmentInv, JudgmentTypes, ChallengeRows
    <3> QED
      BY <1>1, <3>1
  <2>3. CASE Resolved
    <3>1. PICK q \in Proposals, j \in Commitments :
            /\ challenge[q].status = "open"
            /\ Amend(challenge[q].existing, j)
            /\ challenge' = [challenge EXCEPT ![q].status = "resolved"]
      BY <2>3, Zenon DEF Resolved
    <3>2. /\ challenge[p].status # "none" /\ challenge'[p].existing = challenge[p].existing
          /\ p # q => challenge'[p] = challenge[p]
      BY <1>2, <3>1 DEF JudgmentInv, JudgmentTypes, ChallengeRows
    <3>3. Good(p, challenge[p].existing, challenge[p].status)
      BY <1>1, <3>2
    <3>4. CASE p = q
      <4>1. challenge[q].existing \in Commitments
        BY <3>3, <3>4
      <4>2. Succeeded(challenge[q].existing)'
        <5> DEFINE i == challenge[q].existing
        <5>1. row'[i].status = "amended" /\ \E x \in Commitments : row'[x].supersedes = i
          BY <3>1, <4>1, AmendSucceeds DEF IInv, Succeeded
        <5>2. challenge'[q].existing = i
          BY <3>2, <3>4
        <5> QED
          BY <5>1, <5>2 DEF Succeeded
      <4> QED
        BY <3>2, <3>3, <3>4, <4>2 DEF Succeeded
    <3>5. CASE p # q
      BY <3>2, <3>3, <3>5
    <3> QED
      BY <3>4, <3>5
  <2>4. CASE UNCHANGED challenge
    BY <1>1, <1>2, <2>4
  <2> QED
    BY <2>1, <2>2, <2>3, <2>4 DEF ChallengeShape
<1> HIDE DEF Good
<1>3. \A p \in Proposals : challenge'[p].status # "none" =>
        Good(p, challenge'[p].existing, challenge'[p].status)
  BY <1>2
<1> QED
  BY <1>3 DEF Good, ChallengeHolds, About, Succeeded, Exists, Removed, Status

(* What a request that is under way relies on.                             *)
Relies(r) ==
  /\ asks[r] \in [op : Ops, proposal : Proposals, key : Keys]
  /\ Target(r) \in Proposals
  /\ proposal'[Target(r)].status # "absent"
  /\ proposal'[Target(r)].key = proposal[Target(r)].key
  /\ seen[r] \in Decided => proposal'[Target(r)].status \in Decided

LEMMA UnderWay ==
  ASSUME CeremonyTypes, JudgmentInv, Forward, NEW r \in Requests, pc[r] # "idle"
  PROVE  Relies(r)
  BY DEF JudgmentInv, RequestHolds, Forward, ProposalsForward, CeremonyTypes, Targeted,
     Status, Relies

(* A request that has been answered.                                       *)
LEMMA AnsweredHolds ==
  ASSUME CeremonyTypes, JudgmentInv, Forward, NEW r \in Requests, pc[r] # "idle",
         UNCHANGED <<asks, seen>>, pc'[r] = "done",
         answer'[r] = "ok" => Entry(Op(r), r) \in used',
         answer'[r] = "conflict" => challenge'[Target(r)].status # "none",
         seen[r] \in Decided /\ answer'[r] # "ok" => Entry(Op(r), r) \notin used'
  PROVE  RequestHolds(r)'
<1>1. Relies(r)
  BY UnderWay
<1> QED
  BY <1>1 DEF RequestHolds, Relies, Target, Op, Entry, Status

(* One that goes on.                                                       *)
LEMMA WaitingHolds ==
  ASSUME CeremonyTypes, JudgmentInv, Forward, NEW r \in Requests,
         pc[r] \notin {"idle", "done"},
         UNCHANGED <<asks, answer>>, pc'[r] \in {"probe", "detect", "challenge", "decide"},
         seen'[r] \in Decided => proposal'[Target(r)].status \in Decided,
         pc'[r] \in {"detect", "challenge"} => seen'[r] = "awaiting_decision",
         pc'[r] = "challenge" =>
           /\ UNCHANGED row
           /\ holder'[r] \in Commitments /\ row[holder'[r]].status # "absent"
           /\ row[holder'[r]].key = proposal[Target(r)].key
  PROVE  RequestHolds(r)'
<1>1. Relies(r)
  BY UnderWay
<1>2. answer[r] = "none"
  BY DEF JudgmentInv, RequestHolds
<1> QED
  BY <1>1, <1>2
  DEF RequestHolds, Relies, Target, Op, Entry, Status, About, Exists, Removed

(* Whatever a request does, it is in order afterwards.                     *)
LEMMA ActingStep ==
  ASSUME CeremonyTypes, JudgmentInv, Forward, NEW r \in Requests, Step(r)
  PROVE  RequestHolds(r)'
<1> USE DEF JudgmentInv, JudgmentTypes
<1> pc \in [Requests -> Labels]
  BY DEF CeremonyTypes, Targeted
<1>1. CASE \E op \in Ops, p \in Proposals, key \in Keys : Submit(r, op, p, key)
  <2>1. PICK op \in Ops, p \in Proposals, key \in Keys : Submit(r, op, p, key)
    BY <1>1
  <2>2. /\ asks'[r] = [op |-> op, proposal |-> p, key |-> key]
        /\ seen'[r] = Status(p) /\ pc'[r] = "mark" /\ answer'[r] = answer[r]
        /\ Status(p) # "absent" /\ UNCHANGED proposal /\ pc[r] = "idle"
    BY <2>1 DEF Submit, At, Go, CeremonyTypes, Targeted
  <2>3. answer[r] = "none"
    BY <2>2 DEF RequestHolds
  <2> QED
    BY <2>2, <2>3 DEF RequestHolds, Target, Status
<1>2. CASE MarkNothing(r)
  <2>1. /\ pc[r] = "mark" /\ UNCHANGED <<asks, answer, seen>>
        /\ pc'[r] \in {"probe", "decide"}
    BY <1>2 DEF MarkNothing, AfterSubStep, At, Go
  <2>2. Relies(r)
    BY <2>1, UnderWay
  <2> QED
    BY <2>1, <2>2, WaitingHolds DEF Relies
<1>3. CASE MarkProposalAwaitingDecision(r)
  <2>1. /\ pc[r] = "mark" /\ UNCHANGED <<asks, answer, seen>>
        /\ pc'[r] \in {"probe", "decide"}
        /\ seen[r] \notin Decided
    BY <1>3 DEF MarkProposalAwaitingDecision, AfterSubStep, At, Go, Decided
  <2> QED
    BY <2>1, WaitingHolds
<1>4. CASE MarkRefused(r)
  <2>1. /\ pc[r] = "mark" /\ UNCHANGED <<asks, seen>> /\ pc'[r] = "done"
        /\ seen[r] \notin Decided /\ answer'[r] = "refused"
    BY <1>4 DEF MarkRefused, Told, At, Go, Decided
  <2> QED
    BY <2>1, AnsweredHolds
<1>5. CASE Probe(r)
  <2>1. /\ pc[r] = "probe" /\ UNCHANGED <<asks, answer, proposal>>
        /\ seen'[r] = Status(Target(r)) /\ pc'[r] \in {"detect", "decide"}
        /\ pc'[r] = "detect" => Status(Target(r)) = "awaiting_decision"
    BY <1>5 DEF Probe, At, Go
  <2> QED
    BY <2>1, WaitingHolds DEF Status
<1>6. CASE Detect(r)
  <2>1. /\ pc[r] = "detect" /\ UNCHANGED <<asks, answer, seen, row>>
        /\ pc'[r] \in {"challenge", "decide"}
        /\ pc'[r] = "challenge" => holder'[r] \in Holders(proposal[Target(r)].key)
    BY <1>6 DEF Detect, At, Go, vars
  <2>2. seen[r] = "awaiting_decision" /\ seen[r] \notin Decided
    BY <2>1 DEF RequestHolds, Decided
  <2>3. ASSUME pc'[r] = "challenge"
        PROVE  /\ holder'[r] \in Commitments /\ row[holder'[r]].status # "absent"
               /\ row[holder'[r]].key = proposal[Target(r)].key
    BY <2>1, <2>3
    DEF Holders, Holds, CurrentEffective, HasEligibleStatus, EligibleStatus
  <2> QED
    BY <2>1, <2>2, <2>3, WaitingHolds
<1>7. CASE EnsureChallenge(r)
  <2>1. /\ pc[r] = "challenge" /\ UNCHANGED <<asks, seen>> /\ pc'[r] = "done"
        /\ answer'[r] \in {"conflict", "refused"}
    BY <1>7 DEF EnsureChallenge, Told, At, Go
  <2>2. seen[r] \notin Decided
    BY <2>1 DEF RequestHolds, Decided
  <2>3. Target(r) \in Proposals
    BY <2>1 DEF CeremonyTypes, Targeted
  <2>4. answer'[r] = "conflict" => challenge'[Target(r)].status # "none"
    <3>1. CASE challenge[Target(r)] # NoChallenge /\ UNCHANGED challenge
      BY <2>3, <3>1
    <3>2. CASE challenge' = [challenge EXCEPT ![Target(r)] =
                               [status |-> "open", existing |-> holder[r]]]
      BY <2>3, <3>2
    <3>3. CASE Told(r, "refused")
      BY <3>3 DEF Told
    <3> QED
      BY <1>7, <3>1, <3>2, <3>3 DEF EnsureChallenge
  <2> QED
    BY <2>1, <2>2, <2>4, AnsweredHolds
<1>8. CASE Replay(r)
  <2>1. /\ pc[r] = "decide" /\ UNCHANGED <<asks, seen, used>> /\ pc'[r] = "done"
        /\ answer'[r] = "ok" /\ Entry(Op(r), r) \in used
    BY <1>8 DEF Replay, Settled, Told, At, Go
  <2> QED
    BY <2>1, AnsweredHolds
<1>9. CASE DecideRefused(r)
  <2>1. /\ pc[r] = "decide" /\ UNCHANGED <<asks, seen, used>> /\ pc'[r] = "done"
        /\ answer'[r] \notin {"ok", "conflict"} /\ Entry(Op(r), r) \notin used
    BY <1>9 DEF DecideRefused, Fresh, Settled, Told, At, Go
  <2> QED
    BY <2>1, AnsweredHolds
<1>10. CASE \/ ConfirmProposal(r) \/ CloseProposal(r)
            \/ \E p \in Proposals, key \in CommitmentKeys \cup {Null} :
                 AmendProposal(r, p, key)
  <2>1. Fresh(r) /\ Settles(r)
    BY <1>10, DecidingSteps
  <2>2. /\ pc[r] = "decide" /\ UNCHANGED <<asks, seen>> /\ pc'[r] = "done"
        /\ answer'[r] = "ok" /\ Entry(Op(r), r) \in used'
    BY <2>1 DEF Fresh, Settles, Told, At, Go
  <2> QED
    BY <2>2, AnsweredHolds
<1> QED
  BY <1>1, <1>2, <1>3, <1>4, <1>5, <1>6, <1>7, <1>8, <1>9, <1>10 DEF Step

(* Of the requests a step changes only the one that takes it.              *)
LEMMA StepIsOfOne ==
  ASSUME CeremonyTypes, JudgmentTypes, NEW r \in Requests, Step(r),
         NEW q \in Requests, q # r
  PROVE  /\ asks'[q] = asks[q] /\ pc'[q] = pc[q] /\ seen'[q] = seen[q]
         /\ holder'[q] = holder[q] /\ answer'[q] = answer[q]
<1> USE DEF CeremonyTypes, Targeted, JudgmentTypes
<1>1. CASE \E op \in Ops, p \in Proposals, key \in Keys : Submit(r, op, p, key)
  BY <1>1 DEF Submit, Go
<1>2. CASE \E p \in Proposals, key \in CommitmentKeys \cup {Null} :
             AmendProposal(r, p, key)
  BY <1>2 DEF AmendProposal, Settles, Told, Go
<1>3. CASE ConfirmProposal(r) \/ CloseProposal(r)
  BY <1>3 DEF ConfirmProposal, CloseProposal, Settles, Told, Go
<1>4. CASE MarkNothing(r) \/ MarkProposalAwaitingDecision(r) \/ MarkRefused(r)
  BY <1>4 DEF MarkNothing, MarkProposalAwaitingDecision, MarkRefused, AfterSubStep, Told, Go
<1>5. CASE Probe(r) \/ Detect(r)
  BY <1>5 DEF Probe, Detect, Go
<1>6. CASE EnsureChallenge(r) \/ Replay(r) \/ DecideRefused(r)
  BY <1>6 DEF EnsureChallenge, Replay, DecideRefused, Told, Go
<1> QED
  BY <1>1, <1>2, <1>3, <1>4, <1>5, <1>6 DEF Step

LEMMA JudgmentStep ==
  ASSUME IInv, CeremonyTypes, JudgmentInv, [CeremonyNext]_allVars
  PROVE  JudgmentInv' /\ Forward /\ ChallengeShape
<1>1. JudgmentTypes /\ EntriesDecide
  BY DEF JudgmentInv
<1>2. Forward
  BY CeremonyGoesForward
<1>3. JudgmentTypes' /\ ChallengeShape
  BY <1>1, TypesOfSteps, ChallengeStepShape
<1>4. ChallengeHolds'
  BY <1>2, <1>3, ChallengesStayTrue
<1>5. EntriesDecide'
  BY <1>1, <1>2, EntriesStayTrue
<1>6. ASSUME NEW q \in Requests
      PROVE  RequestHolds(q)'
  <2>0. RequestHolds(q)
    BY DEF JudgmentInv
  <2>1. CASE Step(q)
    BY <1>2, <2>1, ActingStep
  <2>2. CASE \E r \in Requests : r # q /\ Step(r)
    <3>1. PICK r \in Requests : r # q /\ Step(r)
      BY <2>2
    <3>2. /\ asks'[q] = asks[q] /\ pc'[q] = pc[q] /\ seen'[q] = seen[q]
          /\ holder'[q] = holder[q] /\ answer'[q] = answer[q]
      BY <1>1, <3>1, StepIsOfOne
    <3> QED
      BY <1>1, <1>2, <2>0, <3>2, OthersStay
  <2>3. CASE ~ \E r \in Requests : Step(r)
    <3>1. UNCHANGED requests
      BY <2>3 DEF CeremonyNext, Draft, DismissChallenge, DeletionWithdraws,
         ResolveChallengeWithAmendment, DeletionTombstones, RecordVerb, allVars, ceremony
    <3> QED
      BY <1>1, <1>2, <2>0, <3>1, OthersStay DEF requests
  <2> QED
    BY <2>1, <2>2, <2>3
<1> QED
  BY <1>2, <1>3, <1>4, <1>5, <1>6 DEF JudgmentInv

THEOREM JudgmentInvariance == CeremonySpec => [](JudgmentInv /\ AmendmentInv)
<1>1. CeremonyInit => JudgmentInv /\ AmendmentInv
  <2> SUFFICES ASSUME CeremonyInit
               PROVE  JudgmentInv /\ AmendmentInv
    OBVIOUS
  <2> USE DEF CeremonyInit, NoProposal, NoChallenge, NoRequest
  <2>1. JudgmentTypes
    BY DEF JudgmentTypes, ChallengeRows
  <2>2. ChallengeHolds /\ EntriesDecide
    BY DEF ChallengeHolds, EntriesDecide
  <2>3. \A r \in Requests : RequestHolds(r)
    BY DEF RequestHolds
  <2>4. AmendmentInv
    BY DEF AmendmentInv, AmendmentsReplace, AbsentAmendsNothing, Status
  <2> QED
    BY <2>1, <2>2, <2>3, <2>4 DEF JudgmentInv
<1>2. IInv /\ CInv /\ JudgmentInv /\ AmendmentInv /\ [CeremonyNext]_allVars
        => JudgmentInv' /\ AmendmentInv'
  BY JudgmentStep, CeremonyStepShape, AmendmentStep DEF CInv
<1> QED
  BY <1>1, <1>2, CeremonyInvariance, PTL DEF CeremonySpec

(* An amendment takes the place of exactly one proposal, in its turn:      *)
(* amendProposal closes the one and opens the other in one transaction.    *)
THEOREM AmendmentsStay == CeremonySpec => []AmendmentsReplace
<1>1. AmendmentInv => AmendmentsReplace
  BY DEF AmendmentInv
<1> QED
  BY <1>1, JudgmentInvariance, PTL

(* What a user was told remains true whoever acts afterwards, and an       *)
(* identical retry that finds the proposal decided is told it too: an      *)
(* idempotency row is written with the decision, and decisions are final.  *)
(* A retry that overlaps the first attempt is not promised that: a         *)
(* confirmation may be sent away with a conflict.                          *)
THEOREM AnswersStayTrue == CeremonySpec => []AnswersAreTrue
<1>1. JudgmentInv => AnswersAreTrue
  <2> SUFFICES ASSUME JudgmentInv
               PROVE  AnswersAreTrue
    OBVIOUS
  <2>1. AnswersHold
    <3> SUFFICES ASSUME NEW r \in Requests
                 PROVE  /\ answer[r] = "ok" => Status(Target(r)) = DecisionOf(Op(r))
                        /\ answer[r] = "conflict" => challenge[Target(r)].status # "none"
      BY DEF AnswersHold
    <3>1. answer[r] = "ok" => Entry(Op(r), r) \in used /\ Op(r) \in Ops
      BY DEF JudgmentInv, RequestHolds, Op
    <3>2. Entry(Op(r), r).proposal = Target(r) /\ Entry(Op(r), r).verb = Op(r)
      BY DEF Entry
    <3> QED
      BY <3>1, <3>2 DEF JudgmentInv, EntriesDecide, RequestHolds
  <2>2. RetriesConverge
    <3> SUFFICES ASSUME NEW r \in Requests, NEW q \in Requests, asks[r] = asks[q],
                        answer[q] = "ok", pc[r] = "done", seen[r] \in Decided
                 PROVE  answer[r] = "ok"
      BY DEF RetriesConverge
    <3>1. Entry(Op(q), q) \in used /\ Entry(Op(r), r) = Entry(Op(q), q)
      BY DEF JudgmentInv, RequestHolds, Entry, Op, Target
    <3> QED
      BY <3>1 DEF JudgmentInv, RequestHolds
  <2> QED
    BY <2>1, <2>2 DEF AnswersAreTrue
<1> QED
  BY <1>1, JudgmentInvariance, PTL

(* A challenge is about a commitment made under the proposal's key, and    *)
(* is resolved only by an amendment of it, however the commitments change  *)
(* between the detector's look and the user's judgment.                    *)
THEOREM ChallengesStayTruthful == CeremonySpec => []ChallengesAreTruthful
<1>1. JudgmentInv => ChallengesAreTruthful
  BY DEF JudgmentInv, ChallengeHolds, ChallengesAreTruthful, About, Succeeded
<1> QED
  BY <1>1, JudgmentInvariance, PTL

(* Decisions and closed challenges stay, and a challenge appears only      *)
(* beside a commitment that is current in that step (ensureChallenge reads *)
(* it again), which leaves the records alone.                              *)
THEOREM JudgmentsStayFinal == CeremonySpec => JudgmentsAreFinal
<1> DEFINE Final(p) ==
      /\ Status(p) \in Decided => proposal'[p] = proposal[p]
      /\ challenge[p].status \in {"dismissed", "resolved"} =>
           challenge'[p] = challenge[p]
      /\ challenge[p].status = "none" /\ challenge'[p].status # "none" =>
           CurrentEffective(challenge'[p].existing) /\ row' = row
<1>1. IInv /\ CInv /\ JudgmentInv /\ [CeremonyNext]_allVars =>
        [\A p \in Proposals : Final(p)]_allVars
  <2> SUFFICES ASSUME IInv, CInv, JudgmentInv, [CeremonyNext]_allVars, NEW p \in Proposals
               PROVE  Final(p)
    OBVIOUS
  <2>1. Forward /\ ChallengeShape
    BY JudgmentStep DEF CInv
  <2>2. ASSUME challenge[p].status = "none", challenge'[p].status # "none"
        PROVE  CurrentEffective(challenge'[p].existing) /\ row' = row
    <3>1. Raised
      BY <2>1, <2>2 DEF ChallengeShape, Dismissed, Resolved, JudgmentInv, JudgmentTypes,
         ChallengeRows
    <3>2. PICK r \in Requests :
            /\ Target(r) \in Proposals /\ CurrentEffective(holder[r])
            /\ challenge' = [challenge EXCEPT ![Target(r)] =
                               [status |-> "open", existing |-> holder[r]]]
            /\ UNCHANGED <<vars, proposal>>
      BY <3>1 DEF Raised
    <3>3. p = Target(r) /\ challenge'[p].existing = holder[r]
      BY <2>2, <3>2 DEF JudgmentInv, JudgmentTypes
    <3> QED
      BY <3>2, <3>3 DEF vars
  <2> QED
    BY <2>1, <2>2 DEF Forward, ProposalsForward, ChallengesForward
<1> QED
  BY <1>1, CeremonyInvariance, JudgmentInvariance, PTL DEF CeremonySpec, JudgmentsAreFinal
=============================================================================
