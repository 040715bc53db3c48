------------------------- MODULE TurnAdmissionProofs -------------------------
(***************************************************************************)
(* The safety of the turn-admission boundary, for any number of            *)
(* conversations, keys, requests, messages and crashes.                    *)
(***************************************************************************)
EXTENDS TurnAdmission, SequenceTheorems, TLAPS

USE ConvOfType, KeyOfType, MaxCrashesType
    DEF InSection, Locations, Answers, TurnStates

(* Chaining one more request leaves the head of the chain in place.        *)
LEMMA AppendKeepsHead ==
  ASSUME NEW q \in Seq(Requests), NEW r \in Requests
  PROVE  /\ Append(q, r) \in Seq(Requests)
         /\ Append(q, r) # <<>>
         /\ q # <<>> => Head(Append(q, r)) = Head(q)
  OBVIOUS

(* When the head settles its promise, no other request of its conversation *)
(* was inside the section, so the section stays exclusive.                 *)
LEMMA LeaveSection ==
  ASSUME TypeOK, SectionIsExclusive,
         NEW r \in Requests, NEW a \in Answers,
         pc[r] \in InSection, Leave(r, a)
  PROVE  /\ sections' \in [Conversations -> Seq(Requests)]
         /\ pc' \in [Requests -> Locations]
         /\ answer' \in [Requests -> Answers]
         /\ SectionIsExclusive'
<1>1. AtHead(r)
  BY DEF SectionIsExclusive
<1>2. Tail(sections[ConvOf[r]]) \in Seq(Requests)
  BY <1>1 DEF TypeOK, AtHead
<1>3. /\ sections' \in [Conversations -> Seq(Requests)]
      /\ pc' \in [Requests -> Locations]
      /\ answer' \in [Requests -> Answers]
  BY <1>2 DEF TypeOK, Leave
<1>4. ASSUME NEW s \in Requests, pc'[s] \in InSection
      PROVE  AtHead(s)'
  <2>1. s # r /\ pc[s] = pc'[s]
    BY <1>4 DEF Leave, TypeOK
  <2>2. AtHead(s)
    BY <1>4, <2>1 DEF SectionIsExclusive
  <2>3. ConvOf[s] # ConvOf[r]
    BY <1>1, <2>1, <2>2 DEF AtHead
  <2> QED
    BY <2>2, <2>3 DEF Leave, AtHead, TypeOK
<1> QED
  BY <1>3, <1>4 DEF SectionIsExclusive

(* A request answers once, so what has ended has ended for good.           *)
LEMMA EndedStays ==
  ASSUME TypeOK, Unanswered, [Next]_vars, NEW k, NEW d
  PROVE  Ended(k, d) => Ended(k, d)'
<1>1. ASSUME NEW r \in Requests, NEW s \in Requests, DispatchOver(s), Proceed(r)
      PROVE  DispatchOver(s)'
  <2>1. CASE s # r
    BY <1>1, <2>1
    DEF Proceed, Enter, GetReceipt, Refuse, Admit, Reserve, Replay, CreateTurn,
        DispatchFails, Settle, Return, Leave, DispatchOver, TypeOK
  <2>2. CASE s = r
    <3>1. pc[r] # "done" /\ pc[r] # "lost"
      BY <1>1
      DEF Proceed, Enter, GetReceipt, Refuse, Admit, Reserve, Replay, CreateTurn,
          DispatchFails, Settle, Return
    <3>2. pc[r] = "returning"
      BY <1>1, <2>2, <3>1 DEF DispatchOver, Unanswered
    <3>3. Return(r)
      BY <1>1, <3>2
      DEF Proceed, Enter, GetReceipt, Refuse, Admit, Reserve, Replay, CreateTurn,
          DispatchFails, Settle
    <3> QED
      BY <2>2, <3>3 DEF Return, Leave, DispatchOver, TypeOK
  <2> QED
    BY <2>1, <2>2
<1>2. ASSUME NEW s \in Requests, DispatchOver(s)
      PROVE  DispatchOver(s)'
  <2>1. ASSUME NEW r \in Requests, Post(r)
        PROVE  DispatchOver(s)'
    BY <1>2, <2>1 DEF Post, DispatchOver, Unanswered, TypeOK
  <2>2. CASE Crash
    BY <1>2, <2>2 DEF Crash, DispatchOver, TypeOK
  <2>3. CASE UNCHANGED <<pc, answer>>
    BY <1>2, <2>3 DEF DispatchOver
  <2> QED
    BY <1>1, <1>2, <2>1, <2>2, <2>3
    DEF Next, vars, Boot, TurnEnds, ReconcileAfterRestart, Listen
<1> QED
  BY <1>2 DEF Ended, Digest

(* Two requests of one conversation are never both inside its section.     *)
LEMMA AloneInSection ==
  ASSUME SectionIsExclusive, NEW r \in Requests, NEW s \in Requests,
         pc[r] \in InSection, pc[s] \in InSection, ConvOf[r] = ConvOf[s]
  PROVE  r = s
  BY DEF SectionIsExclusive, AtHead

(* A dispatch settles the receipt it holds and nothing else of the         *)
(* receipts, so what other requests know of them stays true.               *)
LEMMA SettleOwn ==
  ASSUME IInv, NEW r \in Requests, Settle(r)
  PROVE  /\ receipts' \in [Keys -> Receipts]
         /\ receipts'[KeyOf[r]] = [status |-> "settled", digest |-> Digest(r)]
         /\ \A k \in Keys : k # KeyOf[r] => receipts'[k] = receipts[k]
         /\ \A k \in Keys :
              /\ receipts'[k] = NoReceipt <=> receipts[k] = NoReceipt
              /\ receipts[k] # NoReceipt =>
                   receipts'[k].digest = receipts[k].digest
<1> DEFINE key == KeyOf[r]
<1>1. /\ receipts[key] \in [status : {"reserved", "settled"}, digest : Digests]
      /\ receipts[key].digest = Digest(r)
  BY DEF Settle, IInv, CreatorOwnsKey, TypeOK, Receipts
<1>2. /\ receipts' = [receipts EXCEPT ![key] =
                        [status |-> "settled", digest |-> Digest(r)]]
      /\ receipts \in [Keys -> Receipts]
      /\ key \in Keys
  <2>1. [receipts[key] EXCEPT !.status = "settled"]
          = [status |-> "settled", digest |-> Digest(r)]
    BY <1>1
  <2> QED
    BY <2>1 DEF Settle, IInv, TypeOK
<1>3. receipts' \in [Keys -> Receipts]
  BY <1>2 DEF Receipts, Digests
<1> QED
  BY <1>1, <1>2, <1>3 DEF NoReceipt

-----------------------------------------------------------------------------
LEMMA InitIInv == Init => IInv
  BY DEF Init, IInv, TypeOK, Receipts, NoReceipt, SectionIsExclusive,
         ReceiptReadHolds, AdmittedAlone, CreatorOwnsKey, TurnHasReceipt,
         Unanswered, SettledHasEnded, OneOpenTurn, OneTurnPerKey,
         AnswersAreTrue

(* Every step of the system preserves the invariant.                       *)
LEMMA StepIInv == IInv /\ [Next]_vars => IInv'
<1> SUFFICES ASSUME IInv, [Next]_vars
             PROVE  IInv'
  OBVIOUS
<1> USE DEF IInv
<1>0. \A k, d : Ended(k, d) => Ended(k, d)'
  BY EndedStays
<1>1. ASSUME NEW r \in Requests, Post(r)
      PROVE  IInv'
  <2>1. TypeOK' /\ SectionIsExclusive'
    BY <1>1, AppendKeepsHead DEF Post, TypeOK, SectionIsExclusive, AtHead
  <2>2. SettledHasEnded' /\ AnswersAreTrue'
    BY <1>0, <1>1 DEF Post, SettledHasEnded, AnswersAreTrue, TypeOK, Digest
  <2> QED
    BY <1>1, <2>1, <2>2
    DEF Post, TypeOK, ReceiptReadHolds, AdmittedAlone, CreatorOwnsKey,
        TurnHasReceipt, Unanswered, OneOpenTurn, OneTurnPerKey, OpenTurns
<1>2. ASSUME NEW r \in Requests, Enter(r)
      PROVE  IInv'
  <2>1. SettledHasEnded' /\ AnswersAreTrue'
    BY <1>0, <1>2 DEF Enter, SettledHasEnded, AnswersAreTrue, TypeOK, Digest
  <2> QED
    BY <1>2, <2>1
    DEF Enter, TypeOK, SectionIsExclusive, AtHead, ReceiptReadHolds,
        AdmittedAlone, CreatorOwnsKey, TurnHasReceipt, Unanswered, OneOpenTurn,
        OneTurnPerKey, OpenTurns
<1>3. ASSUME NEW r \in Requests, GetReceipt(r)
      PROVE  IInv'
  <2>1. SettledHasEnded' /\ AnswersAreTrue'
    BY <1>0, <1>3 DEF GetReceipt, SettledHasEnded, AnswersAreTrue, TypeOK, Digest
  <2> QED
    BY <1>3, <2>1
    DEF GetReceipt, TypeOK, SectionIsExclusive, AtHead, ReceiptReadHolds,
        AdmittedAlone, CreatorOwnsKey, TurnHasReceipt, Unanswered, OneOpenTurn,
        OneTurnPerKey, OpenTurns
<1>4. ASSUME NEW r \in Requests, Refuse(r)
      PROVE  IInv'
  <2>1. TypeOK' /\ SectionIsExclusive'
    BY <1>4, LeaveSection DEF Refuse, TypeOK
  <2>3. SettledHasEnded' /\ AnswersAreTrue'
    BY <1>0, <1>4
    DEF Refuse, Leave, TypeOK, SettledHasEnded, AnswersAreTrue, Unanswered,
        Digest
  <2> QED
    BY <1>4, <2>1, <2>3
    DEF Refuse, Leave, TypeOK, ReceiptReadHolds, AdmittedAlone,
        CreatorOwnsKey, TurnHasReceipt, Unanswered, OneOpenTurn,
        OneTurnPerKey, OpenTurns, Digest
<1>5. ASSUME NEW r \in Requests, Admit(r)
      PROVE  IInv'
  BY <1>5
  DEF Admit, TypeOK, SectionIsExclusive, AtHead, ReceiptReadHolds,
      AdmittedAlone, CreatorOwnsKey, TurnHasReceipt, Unanswered,
      SettledHasEnded, Ended, DispatchOver, OneOpenTurn, OneTurnPerKey,
      AnswersAreTrue, OpenTurns
<1>6. ASSUME NEW r \in Requests, Reserve(r)
      PROVE  IInv'
  <2> DEFINE k == KeyOf[r]
  <2>1. /\ receipts[k] = NoReceipt
        /\ receipts' = [receipts EXCEPT ![k] = [status |-> "reserved",
                                                digest |-> Digest(r)]]
        /\ receipts'[k].status = "reserved"
        /\ receipts'[k].digest = Digest(r)
        /\ receipts'[k] # NoReceipt
    BY <1>6 DEF Reserve, TypeOK, NoReceipt
  <2>2. TypeOK' /\ SectionIsExclusive'
    BY <1>6, <2>1
    DEF Reserve, TypeOK, Receipts, Digests, SectionIsExclusive, AtHead
  <2>3. ReceiptReadHolds'
    <3> SUFFICES ASSUME NEW s \in Requests, pc'[s] = "listOpenTurns",
                        KeyOf[s] = k
                 PROVE  Digest(r) # Digest(s)
      <4>1. \A j \in Keys : j # k => receipts'[j] = receipts[j]
        BY <1>6, <2>1 DEF TypeOK
      <4>2. \A s \in Requests :
              pc'[s] = "listOpenTurns" => pc[s] = "listOpenTurns"
        BY <1>6 DEF Reserve, TypeOK
      <4>3. \A s \in Requests : Digest(s)' = Digest(s)
        BY DEF Digest
      <4> QED
        BY <2>1, <4>1, <4>2, <4>3 DEF ReceiptReadHolds
    <3>1. s # r /\ pc[s] = "listOpenTurns" /\ pc[r] = "dispatch"
      BY <1>6 DEF Reserve, TypeOK
    <3>2. ConvOf[s] # ConvOf[r]
      BY <3>1, AloneInSection, pc[s] \in InSection, pc[r] \in InSection
    <3> QED
      BY <3>2 DEF Digest
  <2>4. AdmittedAlone'
    BY <1>6, <2>1 DEF Reserve, AdmittedAlone, OpenTurns, TypeOK
  <2>5. CreatorOwnsKey'
    <3>1. \A s \in Requests : pc[s] \in {"creating", "settling"} => KeyOf[s] # k
      BY <2>1 DEF CreatorOwnsKey
    <3>2. \A s \in Requests : KeyOf[s] = k => turns[s] = "none"
      BY <2>1 DEF TurnHasReceipt
    <3>3. \A s \in Requests : pc'[s] \in {"creating", "settling"} =>
             s = r \/ pc'[s] = pc[s]
      BY <1>6 DEF Reserve, TypeOK
    <3>4. \A s \in Requests : Digest(s)' = Digest(s)
      BY DEF Digest
    <3>5. \A j \in Keys : j # k => receipts'[j] = receipts[j]
      BY <1>6, <2>1 DEF TypeOK
    <3>6. turns' = turns
      BY <1>6 DEF Reserve
    <3> QED
      BY <2>1, <3>1, <3>2, <3>3, <3>4, <3>5, <3>6 DEF CreatorOwnsKey
  <2>6. SettledHasEnded'
    <3>1. \A j \in Keys : j # k => receipts'[j] = receipts[j]
      BY <1>6, <2>1 DEF TypeOK
    <3>2. \A j, d : Ended(j, d)' <=> Ended(j, d)
      BY <1>6 DEF Reserve, Ended, DispatchOver, Digest, TypeOK
    <3> QED
      BY <2>1, <3>1, <3>2 DEF SettledHasEnded
  <2>7. TurnHasReceipt' /\ Unanswered'
    BY <1>6, <2>1 DEF Reserve, TypeOK, TurnHasReceipt, Unanswered
  <2>8. OneOpenTurn' /\ OneTurnPerKey' /\ AnswersAreTrue'
    BY <1>0, <1>6
    DEF Reserve, OneOpenTurn, OneTurnPerKey, AnswersAreTrue, TypeOK, Digest
  <2> QED
    BY <2>2, <2>3, <2>4, <2>5, <2>6, <2>7, <2>8
<1>7. ASSUME NEW r \in Requests, Replay(r)
      PROVE  IInv'
  <2>1. PICK a \in {"conflict", "in_progress", "replayed"} :
          /\ Leave(r, a)
          /\ a = "replayed" => /\ receipts[KeyOf[r]].status = "settled"
                               /\ receipts[KeyOf[r]].digest = Digest(r)
    <3>1. receipts[KeyOf[r]] \in [status : {"reserved", "settled"}, digest : Digests]
      BY <1>7 DEF Replay, TypeOK, Receipts
    <3> QED
      BY <1>7, <3>1 DEF Replay, Disposition
  <2>2. TypeOK' /\ SectionIsExclusive'
    BY <1>7, <2>1, LeaveSection DEF Replay, TypeOK
  <2>4. SettledHasEnded'
    BY <1>0, <1>7 DEF Replay, SettledHasEnded
  <2>5. a = "replayed" => Ended(KeyOf[r], Digest(r))
    BY <2>1 DEF SettledHasEnded
  <2>6. AnswersAreTrue'
    BY <1>0, <1>7, <2>1, <2>5
    DEF Replay, Leave, AnswersAreTrue, Unanswered, TypeOK, Digest
  <2> QED
    BY <1>7, <2>1, <2>2, <2>4, <2>6
    DEF Replay, Leave, TypeOK, ReceiptReadHolds, AdmittedAlone,
        CreatorOwnsKey, TurnHasReceipt, Unanswered, OneOpenTurn,
        OneTurnPerKey, OpenTurns, Digest
<1>8. ASSUME NEW r \in Requests, CreateTurn(r)
      PROVE  IInv'
  <2>1. TypeOK' /\ SectionIsExclusive' /\ ReceiptReadHolds' /\ Unanswered'
    BY <1>8
    DEF CreateTurn, TypeOK, SectionIsExclusive, AtHead, ReceiptReadHolds, Unanswered,
        Digest
  <2>2. /\ OpenTurns(ConvOf[r]) = {}
        /\ receipts[KeyOf[r]] # NoReceipt
        /\ \A s \in Requests : KeyOf[s] = KeyOf[r] =>
             turns[s] = "none" /\ (pc[s] \in {"creating", "settling"} => s = r)
    BY <1>8 DEF CreateTurn, AdmittedAlone, CreatorOwnsKey
  <2>3. AdmittedAlone'
    <3> SUFFICES ASSUME NEW s \in Requests, pc'[s] \in {"creating", "dispatch"}
                 PROVE  OpenTurns(ConvOf[s])' = OpenTurns(ConvOf[s])
      BY <1>8 DEF CreateTurn, TypeOK, AdmittedAlone
    <3>1. s # r /\ pc[s] \in InSection /\ pc[r] \in InSection
      BY <1>8 DEF CreateTurn, TypeOK
    <3>2. ConvOf[s] # ConvOf[r]
      BY <3>1, AloneInSection
    <3> QED
      BY <1>8, <3>2 DEF CreateTurn, OpenTurns, TypeOK
  <2>4. CreatorOwnsKey'
    BY <1>8, <2>2 DEF CreateTurn, CreatorOwnsKey, TypeOK, Digest
  <2>5. SettledHasEnded' /\ AnswersAreTrue'
    BY <1>0, <1>8 DEF CreateTurn, SettledHasEnded, AnswersAreTrue, TypeOK, Digest
  <2>6. OneOpenTurn' /\ OneTurnPerKey' /\ TurnHasReceipt'
    BY <1>8, <2>2
    DEF CreateTurn, OneOpenTurn, OneTurnPerKey, OpenTurns, TurnHasReceipt, TypeOK
  <2> QED
    BY <2>1, <2>3, <2>4, <2>5, <2>6
<1>9. ASSUME NEW r \in Requests, DispatchFails(r)
      PROVE  IInv'
  <2>1. SettledHasEnded' /\ AnswersAreTrue'
    BY <1>0, <1>9 DEF DispatchFails, SettledHasEnded, AnswersAreTrue, TypeOK, Digest
  <2> QED
    BY <1>9, <2>1
    DEF DispatchFails, TypeOK, SectionIsExclusive, AtHead, ReceiptReadHolds,
        AdmittedAlone, CreatorOwnsKey, TurnHasReceipt, Unanswered, OneOpenTurn,
        OneTurnPerKey, OpenTurns, Digest
<1>15. ASSUME NEW r \in Requests, Settle(r)
       PROVE  IInv'
  <2>1. TypeOK' /\ SectionIsExclusive' /\ Unanswered'
    BY <1>15, SettleOwn DEF Settle, TypeOK, SectionIsExclusive, AtHead, Unanswered
  <2>2. \A s \in Requests :
          /\ receipts'[KeyOf[s]] = NoReceipt <=> receipts[KeyOf[s]] = NoReceipt
          /\ receipts[KeyOf[s]] # NoReceipt =>
               receipts'[KeyOf[s]].digest = receipts[KeyOf[s]].digest
          /\ Digest(s)' = Digest(s)
    BY <1>15, SettleOwn DEF Digest
  <2>5. \A s \in Requests : s # r => pc'[s] = pc[s]
    BY <1>15 DEF Settle, TypeOK
  <2>6. pc'[r] = "returning" /\ turns' = turns
    BY <1>15 DEF Settle, TypeOK
  <2>7. ReceiptReadHolds' /\ TurnHasReceipt'
    BY <2>2, <2>5, <2>6 DEF ReceiptReadHolds, TurnHasReceipt
  <2>8. AdmittedAlone'
    BY <2>2, <2>5, <2>6 DEF AdmittedAlone, OpenTurns
  <2>9. CreatorOwnsKey'
    BY <2>2, <2>5, <2>6 DEF CreatorOwnsKey
  <2>3. SettledHasEnded'
    <3>1. Ended(KeyOf[r], Digest(r))'
      BY <1>15 DEF Settle, Ended, DispatchOver, TypeOK, Digest
    <3> QED
      <4>1. ASSUME NEW j \in Keys, receipts'[j].status = "settled"
            PROVE  Ended(j, receipts[j].digest)'
        <5>1. CASE j = KeyOf[r]
          <6>1. receipts'[KeyOf[r]] = [status |-> "settled", digest |-> Digest(r)]
            BY <1>15, SettleOwn
          <6> QED
            BY <3>1, <5>1, <6>1 DEF Digest
        <5>2. CASE j # KeyOf[r]
          <6>1. receipts'[j] = receipts[j]
            BY <1>15, <5>2, SettleOwn
          <6> QED
            BY <1>0, <4>1, <6>1 DEF SettledHasEnded
        <5> QED
          BY <5>1, <5>2
      <4> QED
        BY <4>1 DEF SettledHasEnded
  <2>4. OneOpenTurn' /\ OneTurnPerKey' /\ AnswersAreTrue'
    BY <1>0, <1>15
    DEF Settle, OneOpenTurn, OneTurnPerKey, AnswersAreTrue, TypeOK, Digest
  <2> QED
    BY <2>1, <2>3, <2>4, <2>7, <2>8, <2>9
<1>16. ASSUME NEW r \in Requests, Return(r)
       PROVE  IInv'
  <2>1. PICK a \in {"started", "failed"} :
          Leave(r, a) /\ (a = "started" <=> turns[r] # "none")
    BY <1>16 DEF Return
  <2>2. TypeOK' /\ SectionIsExclusive'
    BY <1>16, <2>1, LeaveSection DEF Return, TypeOK
  <2>3. SettledHasEnded' /\ AnswersAreTrue'
    BY <1>0, <1>16, <2>1
    DEF Return, Leave, TypeOK, SettledHasEnded, AnswersAreTrue, Digest
  <2> QED
    BY <1>16, <2>1, <2>2, <2>3
    DEF Return, Leave, TypeOK, ReceiptReadHolds, AdmittedAlone,
        CreatorOwnsKey, TurnHasReceipt, Unanswered, OneOpenTurn,
        OneTurnPerKey, OpenTurns, Digest
<1>10. ASSUME NEW r \in Requests, NEW outcome \in {"completed", "failed"},
              TurnEnds(r, outcome)
       PROVE  IInv'
  BY <1>10
  DEF TurnEnds, TypeOK, SectionIsExclusive, AtHead, ReceiptReadHolds,
      AdmittedAlone, CreatorOwnsKey, TurnHasReceipt, Unanswered,
      SettledHasEnded, Ended, DispatchOver, OneOpenTurn, OneTurnPerKey,
      AnswersAreTrue, OpenTurns
<1>11. CASE Crash
  BY <1>11
  DEF Crash, TypeOK, SectionIsExclusive, AtHead, ReceiptReadHolds,
      AdmittedAlone, CreatorOwnsKey, TurnHasReceipt, Unanswered,
      SettledHasEnded, Ended, DispatchOver, OneOpenTurn, OneTurnPerKey,
      AnswersAreTrue, OpenTurns
<1>12. ASSUME NEW r \in Requests, ReconcileAfterRestart(r)
       PROVE  IInv'
  BY <1>12
  DEF ReconcileAfterRestart, TypeOK, SectionIsExclusive, AtHead,
      ReceiptReadHolds, AdmittedAlone, CreatorOwnsKey, TurnHasReceipt,
      Unanswered, SettledHasEnded, Ended, DispatchOver, OneOpenTurn, OneTurnPerKey,
      AnswersAreTrue, OpenTurns
<1>13. CASE Listen
  BY <1>13
  DEF Listen, TypeOK, SectionIsExclusive, AtHead, ReceiptReadHolds,
      AdmittedAlone, CreatorOwnsKey, TurnHasReceipt, Unanswered,
      SettledHasEnded, Ended, DispatchOver, OneOpenTurn, OneTurnPerKey,
      AnswersAreTrue, OpenTurns
<1>14. CASE UNCHANGED vars
  BY <1>14
  DEF vars, TypeOK, SectionIsExclusive, AtHead, ReceiptReadHolds,
      AdmittedAlone, CreatorOwnsKey, TurnHasReceipt, Unanswered,
      SettledHasEnded, Ended, DispatchOver, OneOpenTurn, OneTurnPerKey,
      AnswersAreTrue, OpenTurns
<1> QED
  BY <1>1, <1>2, <1>3, <1>4, <1>5, <1>6, <1>7, <1>8, <1>9, <1>10, <1>11,
     <1>12, <1>13, <1>14, <1>15, <1>16
  DEF Next, Proceed, Boot

-----------------------------------------------------------------------------
(* The invariant holds in every reachable state.                           *)
THEOREM Invariance == Spec => []IInv
  BY InitIInv, StepIInv, PTL DEF Spec

(* Type correctness of the admission boundary.                             *)
THEOREM TypeCorrect == Spec => []TypeOK
  BY Invariance, PTL DEF IInv

(* However many requests race, whatever fails and whenever the process     *)
(* crashes, no conversation ever has two open turns.                       *)
THEOREM AtMostOneOpenTurn == Spec => []OneOpenTurn
  BY Invariance, PTL DEF IInv

(* However many conversations race with one key, it starts one turn.       *)
THEOREM AtMostOneTurnPerKey == Spec => []OneTurnPerKey
  BY Invariance, PTL DEF IInv

(* No client is told that a turn started, or was replayed, that was not.   *)
THEOREM ClientsAreToldTheTruth == Spec => []AnswersAreTrue
  BY Invariance, PTL DEF IInv

(* A request VICT already holds is never refused as an overlapping one.    *)
THEOREM RetriesPassThrough == Spec => RetryNotRefused
<1>1. IInv /\ [Next]_vars => [RefusesNoRetry]_vars
  <2> SUFFICES ASSUME IInv, Next, NEW r \in Requests,
                      answer[r] = "none", answer'[r] = "refused"
               PROVE  pc[r] = "listOpenTurns"
    BY DEF IInv, ReceiptReadHolds, RefusesNoRetry, vars
  <2>1. ASSUME NEW s \in Requests, NEW a, Leave(s, a)
        PROVE  r = s /\ a = "refused"
    BY <2>1 DEF Leave, IInv, TypeOK
  <2>2. ASSUME NEW s \in Requests, Replay(s)
        PROVE  FALSE
    <3>1. receipts[KeyOf[s]] \in [status : {"reserved", "settled"}, digest : Digests]
      BY <2>2 DEF Replay, IInv, TypeOK, Receipts
    <3>2. Disposition(s) # "refused"
      BY <3>1 DEF Disposition
    <3> QED
      BY <2>1, <2>2, <3>2 DEF Replay
  <2>3. ASSUME NEW s \in Requests, Return(s)
        PROVE  FALSE
    BY <2>1, <2>3 DEF Return
  <2>4. ASSUME NEW s \in Requests, Refuse(s)
        PROVE  pc[r] = "listOpenTurns"
    BY <2>1, <2>4 DEF Refuse
  <2>5. answer' # answer
    OBVIOUS
  <2> QED
    BY <2>2, <2>3, <2>4, <2>5
    DEF Next, Proceed, Boot, Post, Enter, GetReceipt, Admit, Reserve, CreateTurn,
        DispatchFails, Settle, TurnEnds, Crash, ReconcileAfterRestart, Listen
<1> QED
  BY <1>1, Invariance, PTL DEF Spec, RetryNotRefused
-----------------------------------------------------------------------------
(* The boundary implements the abstract promise: the step that makes a     *)
(* turn durable is its Start, the settling of a turn its End, and every    *)
(* other step a stutter.                                                   *)
THEOREM ImplementsPromise == Spec => PromiseKept
<1> DEFINE mapped == <<OpenRequests, EndedRequests>>
<1>1. Init => Promise!Init
  BY DEF Init, Promise!Init, OpenRequests, EndedRequests
<1>2. IInv /\ [Next]_vars => [Promise!Next]_mapped
  <2> SUFFICES ASSUME IInv, [Next]_vars
               PROVE  Promise!Next \/ UNCHANGED mapped
    OBVIOUS
  <2>1. ASSUME NEW r \in Requests, CreateTurn(r)
        PROVE  Promise!Start(r)
    <3>1. /\ \A s \in OpenRequests : ConvOf[s] # ConvOf[r]
          /\ \A s \in OpenRequests \cup EndedRequests : KeyOf[s] # KeyOf[r]
      BY <2>1
      DEF CreateTurn, IInv, AdmittedAlone, CreatorOwnsKey, OpenTurns,
          OpenRequests, EndedRequests
    <3>2. /\ OpenRequests' = OpenRequests \cup {r}
          /\ EndedRequests' = EndedRequests
      BY <2>1
      DEF CreateTurn, IInv, TypeOK, CreatorOwnsKey, OpenRequests, EndedRequests
    <3> QED
      BY <3>1, <3>2 DEF Promise!Start
  <2>2. ASSUME NEW r \in Requests, NEW outcome \in {"completed", "failed"},
               turns[r] = "open", turns' = [turns EXCEPT ![r] = outcome]
        PROVE  Promise!End(r)
    BY <2>2 DEF IInv, TypeOK, OpenRequests, EndedRequests, Promise!End
  <2>3. ASSUME NEW r \in Requests, NEW outcome \in {"completed", "failed"},
               TurnEnds(r, outcome)
        PROVE  Promise!End(r)
    BY <2>2, <2>3 DEF TurnEnds
  <2>4. ASSUME NEW r \in Requests, ReconcileAfterRestart(r)
        PROVE  Promise!End(r)
    BY <2>2, <2>4 DEF ReconcileAfterRestart
  <2>5. ASSUME UNCHANGED turns
        PROVE  UNCHANGED mapped
    BY <2>5 DEF OpenRequests, EndedRequests
  <2>6. CASE UNCHANGED vars
    BY <2>5, <2>6 DEF vars
  <2>7. CASE Next
    BY <2>1, <2>3, <2>4, <2>5, <2>7
    DEF Promise!Next, Next, Proceed, Boot, Post, Enter, GetReceipt, Refuse,
        Admit, Reserve, Replay, DispatchFails, Settle, Return, Crash, Listen
  <2> QED
    BY <2>6, <2>7
<1> QED
  BY <1>1, <1>2, Invariance, PTL DEF Spec, PromiseKept, Promise!Spec
-----------------------------------------------------------------------------
(* What a step does to the chains: a request joins its chain at the end,   *)
(* one that waits goes on waiting, the head leaves, the process dies, or   *)
(* nothing happens to them.                                                *)
Joins(r) ==
  /\ pc[r] = "new"
  /\ sections' = [sections EXCEPT ![ConvOf[r]] = Append(@, r)]
  /\ pc' = [pc EXCEPT ![r] = "queued"]
Advances(r) ==
  /\ r \in Waiting
  /\ UNCHANGED sections
  /\ \E next \in InSection : pc' = [pc EXCEPT ![r] = next]
HeadLeaves(r) ==
  /\ AtHead(r)
  /\ sections' = [sections EXCEPT ![ConvOf[r]] = Tail(@)]
  /\ pc' = [pc EXCEPT ![r] = "done"]
AllAreLost ==
  /\ sections' = [c \in Conversations |-> <<>>]
  /\ \A r \in Requests : r \notin Waiting'

LEMMA ChainSteps ==
  ASSUME IInv, [Next]_vars
  PROVE  \/ \E r \in Requests : Joins(r) \/ Advances(r) \/ HeadLeaves(r)
         \/ AllAreLost
         \/ UNCHANGED <<sections, pc>>
<1>1. ASSUME NEW r \in Requests, Proceed(r)
      PROVE  Advances(r) \/ HeadLeaves(r)
  <2>1. pc[r] \in InSection => AtHead(r)
    BY DEF IInv, SectionIsExclusive
  <2>2. CASE \/ Enter(r) \/ GetReceipt(r) \/ Admit(r) \/ Reserve(r)
             \/ CreateTurn(r) \/ DispatchFails(r) \/ Settle(r)
    BY <2>2
    DEF Enter, GetReceipt, Admit, Reserve, CreateTurn, DispatchFails, Settle,
        Advances, Waiting
  <2>3. CASE Refuse(r) \/ Replay(r) \/ Return(r)
    BY <2>1, <2>3 DEF Refuse, Replay, Return, Leave, HeadLeaves
  <2> QED
    BY <1>1, <2>2, <2>3 DEF Proceed
<1>2. ASSUME NEW r \in Requests, Post(r)
      PROVE  Joins(r)
  BY <1>2 DEF Post, Joins
<1>3. CASE Crash
  BY <1>3 DEF Crash, AllAreLost, Waiting, IInv, TypeOK
<1>4. ASSUME NEW r \in Requests, NEW outcome, TurnEnds(r, outcome)
      PROVE  UNCHANGED <<sections, pc>>
  BY <1>4 DEF TurnEnds
<1>5. CASE Boot
  BY <1>5 DEF Boot, Listen, ReconcileAfterRestart
<1>6. CASE UNCHANGED vars
  BY <1>6 DEF vars
<1> QED
  BY <1>1, <1>2, <1>3, <1>4, <1>5, <1>6 DEF Next

(* Where a request stands after a step.                                    *)
LEMMA PlacesAfterJoining ==
  ASSUME TypeOK, NEW r \in Requests, Joins(r)
  PROVE  /\ Waiting' = Waiting \cup {r}
         /\ r \notin Waiting
         /\ \A c \in Conversations : c # ConvOf[r] => sections'[c] = sections[c]
         /\ LET q == sections[ConvOf[r]]
                p == sections'[ConvOf[r]]
            IN  /\ q \in Seq(Requests) /\ p \in Seq(Requests)
                /\ Len(p) = Len(q) + 1
                /\ \A i \in 1 .. Len(q) : p[i] = q[i]
                /\ p[Len(q) + 1] = r
<1>1. Waiting' = Waiting \cup {r} /\ r \notin Waiting
  BY DEF Joins, Waiting, TypeOK
<1>2. \A c \in Conversations : c # ConvOf[r] => sections'[c] = sections[c]
  BY DEF Joins, TypeOK
<1>3. /\ sections'[ConvOf[r]] = Append(sections[ConvOf[r]], r)
      /\ sections[ConvOf[r]] \in Seq(Requests)
  BY DEF Joins, TypeOK
<1> QED
  BY <1>1, <1>2, <1>3

LEMMA PlacesAfterLeaving ==
  ASSUME TypeOK, NEW r \in Requests, HeadLeaves(r)
  PROVE  /\ Waiting' = Waiting \ {r}
         /\ \A c \in Conversations : c # ConvOf[r] => sections'[c] = sections[c]
         /\ LET q == sections[ConvOf[r]]
                p == sections'[ConvOf[r]]
            IN  /\ q \in Seq(Requests) /\ p \in Seq(Requests)
                /\ Len(q) \in Nat \ {0}
                /\ Len(p) = Len(q) - 1
                /\ \A i \in 1 .. Len(p) : p[i] = q[i + 1]
                /\ q[1] = r
<1>1. Waiting' = Waiting \ {r}
  BY DEF HeadLeaves, Waiting, TypeOK
<1>2. \A c \in Conversations : c # ConvOf[r] => sections'[c] = sections[c]
  BY DEF HeadLeaves, TypeOK
<1>3. /\ sections'[ConvOf[r]] = Tail(sections[ConvOf[r]])
      /\ sections[ConvOf[r]] \in Seq(Requests)
      /\ sections[ConvOf[r]] # <<>>
      /\ Head(sections[ConvOf[r]]) = r
  BY DEF HeadLeaves, TypeOK, AtHead
<1> QED
  BY <1>1, <1>2, <1>3

LEMMA InitChains == Init => ChainsHoldWaiting
<1> SUFFICES ASSUME Init
             PROVE  ChainsHoldWaiting
  OBVIOUS
<1>1. Waiting = {}
  BY DEF Init, Waiting
<1>2. ASSUME NEW c \in Conversations
      PROVE  DOMAIN sections[c] = {}
  <2>1. sections[c] = <<>>
    BY DEF Init
  <2>2. <<>> \in Seq(Requests) /\ Len(<<>>) = 0
    OBVIOUS
  <2> QED
    BY <2>1, <2>2
<1> QED
  BY <1>1, <1>2 DEF ChainsHoldWaiting

LEMMA StepChains ==
  IInv /\ ChainsHoldWaiting /\ [Next]_vars => ChainsHoldWaiting'
<1> SUFFICES ASSUME IInv, ChainsHoldWaiting, [Next]_vars
             PROVE  ChainsHoldWaiting'
  OBVIOUS
<1>0. TypeOK /\ \A c \in Conversations : sections[c] \in Seq(Requests)
  BY DEF IInv, TypeOK
<1>1. ASSUME NEW r \in Requests, Joins(r)
      PROVE  ChainsHoldWaiting'
  <2>1. SUFFICES ASSUME NEW c \in Conversations
        PROVE  /\ \A i \in DOMAIN sections'[c] :
                    sections'[c][i] \in Waiting' /\ ConvOf[sections'[c][i]] = c
               /\ \A i, j \in DOMAIN sections'[c] :
                    sections'[c][i] = sections'[c][j] => i = j
               /\ \A s \in Waiting' :
                    ConvOf[s] = c => \E i \in DOMAIN sections'[c] : sections'[c][i] = s
    BY DEF ChainsHoldWaiting
  <2>2. CASE c # ConvOf[r]
    BY <1>0, <1>1, <2>2, PlacesAfterJoining DEF ChainsHoldWaiting
  <2>3. CASE c = ConvOf[r]
    <3> DEFINE q == sections[c]
               p == sections'[c]
    <3>1. /\ q \in Seq(Requests) /\ p \in Seq(Requests)
          /\ Len(p) = Len(q) + 1
          /\ \A i \in 1 .. Len(q) : p[i] = q[i]
          /\ p[Len(q) + 1] = r
          /\ Waiting' = Waiting \cup {r}
          /\ r \notin Waiting
      BY <1>0, <1>1, <2>3, PlacesAfterJoining
    <3>2. /\ \A i \in 1 .. Len(q) : q[i] \in Waiting /\ ConvOf[q[i]] = c
          /\ \A i, j \in 1 .. Len(q) : q[i] = q[j] => i = j
          /\ \A s \in Waiting : ConvOf[s] = c => \E i \in 1 .. Len(q) : q[i] = s
      BY <3>1 DEF ChainsHoldWaiting
    <3>3. DOMAIN p = 1 .. Len(q) + 1 /\ Len(q) \in Nat
      BY <3>1
    <3> HIDE DEF q, p
    <3>4. \A i \in 1 .. Len(q) + 1 : i \in 1 .. Len(q) \/ i = Len(q) + 1
      BY <3>3
    <3>5. \A i \in 1 .. Len(q) + 1 : p[i] \in Waiting' /\ ConvOf[p[i]] = c
      BY <2>3, <3>1, <3>2, <3>4
    <3>6. \A i, j \in 1 .. Len(q) + 1 : p[i] = p[j] => i = j
      BY <3>1, <3>2, <3>4
    <3>7. \A s \in Waiting' : ConvOf[s] = c => \E i \in 1 .. Len(q) + 1 : p[i] = s
      BY <3>1, <3>2, <3>3
    <3> QED
      BY <3>3, <3>5, <3>6, <3>7 DEF p
  <2> QED
    BY <2>2, <2>3
<1>2. ASSUME NEW r \in Requests, Advances(r)
      PROVE  ChainsHoldWaiting'
  <2>1. Waiting' = Waiting
    BY <1>0, <1>2 DEF Advances, Waiting, TypeOK
  <2> QED
    BY <1>2, <2>1 DEF Advances, ChainsHoldWaiting
<1>3. ASSUME NEW r \in Requests, HeadLeaves(r)
      PROVE  ChainsHoldWaiting'
  <2>1. SUFFICES ASSUME NEW c \in Conversations
        PROVE  /\ \A i \in DOMAIN sections'[c] :
                    sections'[c][i] \in Waiting' /\ ConvOf[sections'[c][i]] = c
               /\ \A i, j \in DOMAIN sections'[c] :
                    sections'[c][i] = sections'[c][j] => i = j
               /\ \A s \in Waiting' :
                    ConvOf[s] = c => \E i \in DOMAIN sections'[c] : sections'[c][i] = s
    BY DEF ChainsHoldWaiting
  <2>2. CASE c # ConvOf[r]
    BY <1>0, <1>3, <2>2, PlacesAfterLeaving DEF ChainsHoldWaiting
  <2>3. CASE c = ConvOf[r]
    <3> DEFINE q == sections[c]
               p == sections'[c]
    <3>1. /\ q \in Seq(Requests) /\ p \in Seq(Requests)
          /\ Len(q) \in Nat \ {0}
          /\ Len(p) = Len(q) - 1
          /\ \A i \in 1 .. Len(p) : p[i] = q[i + 1]
          /\ q[1] = r
          /\ Waiting' = Waiting \ {r}
      BY <1>0, <1>3, <2>3, PlacesAfterLeaving
    <3>2. /\ \A i \in 1 .. Len(q) : q[i] \in Waiting /\ ConvOf[q[i]] = c
          /\ \A i, j \in 1 .. Len(q) : q[i] = q[j] => i = j
          /\ \A s \in Waiting : ConvOf[s] = c => \E i \in 1 .. Len(q) : q[i] = s
      BY <3>1 DEF ChainsHoldWaiting
    <3>3. DOMAIN p = 1 .. Len(p) /\ Len(p) \in Nat
      BY <3>1
    <3> HIDE DEF q, p
    <3>4. \A i \in 1 .. Len(p) : i + 1 \in 1 .. Len(q) /\ i + 1 # 1
      BY <3>1, <3>3
    <3>5. \A i \in 1 .. Len(p) : p[i] \in Waiting' /\ ConvOf[p[i]] = c
      <4>1. 1 \in 1 .. Len(q)
        BY <3>1
      <4>2. \A i \in 1 .. Len(p) : q[i + 1] # r
        BY <3>1, <3>2, <3>4, <4>1
      <4> QED
        BY <3>1, <3>2, <3>4, <4>2
    <3>6. \A i, j \in 1 .. Len(p) : p[i] = p[j] => i = j
      BY <3>1, <3>2, <3>3, <3>4
    <3>7. ASSUME NEW s \in Waiting', ConvOf[s] = c
          PROVE  \E i \in 1 .. Len(p) : p[i] = s
      <4>1. PICK i \in 1 .. Len(q) : q[i] = s
        BY <3>1, <3>2, <3>7
      <4>2. i - 1 \in 1 .. Len(p) /\ i = (i - 1) + 1
        BY <3>1, <3>7, <4>1
      <4> QED
        BY <3>1, <4>1, <4>2
    <3> QED
      BY <3>3, <3>5, <3>6, <3>7 DEF p
  <2> QED
    BY <2>2, <2>3
<1>4. CASE AllAreLost
  BY <1>4 DEF AllAreLost, ChainsHoldWaiting, Waiting
<1>5. CASE UNCHANGED <<sections, pc>>
  BY <1>5 DEF ChainsHoldWaiting, Waiting
<1> QED
  BY <1>1, <1>2, <1>3, <1>4, <1>5, ChainSteps

(* The chains always hold exactly the requests that wait.                  *)
THEOREM ChainsAreWaitingLists == Spec => []ChainsHoldWaiting
  BY Invariance, InitChains, StepChains, PTL DEF Spec

(* Whoever waits stands behind a head that may take a step.                *)
THEOREM NoChainIsPoisoned == Spec => []ChainsMove
<1>1. IInv /\ ChainsHoldWaiting => ChainsMove
  <2> SUFFICES ASSUME IInv, ChainsHoldWaiting, NEW r \in Waiting
               PROVE  \E s \in Waiting : ConvOf[s] = ConvOf[r] /\ AtHead(s)
    BY DEF ChainsMove
  <2> DEFINE q == sections[ConvOf[r]]
  <2>1. ConvOf[r] \in Conversations /\ q \in Seq(Requests)
    BY DEF Waiting, IInv, TypeOK
  <2>2. PICK i \in DOMAIN q : q[i] = r
    BY <2>1 DEF ChainsHoldWaiting
  <2>3. q # <<>> /\ 1 \in DOMAIN q /\ Head(q) = q[1]
    BY <2>1, <2>2
  <2>4. q[1] \in Waiting /\ ConvOf[q[1]] = ConvOf[r]
    BY <2>1, <2>3 DEF ChainsHoldWaiting
  <2> QED
    BY <2>3, <2>4 DEF AtHead
<1> QED
  BY <1>1, Invariance, ChainsAreWaitingLists, PTL

(* No request that goes on waiting loses its place, whatever happens to    *)
(* the others.                                                             *)
THEOREM FirstComeFirstServed == Spec => NobodyOvertakes
<1>1. IInv /\ [Next]_vars => [KeepsItsPlace]_vars
  <2> SUFFICES ASSUME IInv, [Next]_vars, NEW r \in Waiting, r \in Waiting',
                      NEW i \in DOMAIN sections[ConvOf[r]],
                      sections[ConvOf[r]][i] = r
               PROVE  \E j \in 1 .. i : /\ j \in DOMAIN sections'[ConvOf[r]]
                                        /\ sections'[ConvOf[r]][j] = r
    BY DEF KeepsItsPlace
  <2> DEFINE q == sections[ConvOf[r]]
             p == sections'[ConvOf[r]]
  <2>0. /\ TypeOK /\ q \in Seq(Requests)
        /\ ConvOf[r] \in Conversations
        /\ i \in 1 .. Len(q) /\ i \in 1 .. i
    BY DEF IInv, TypeOK, Waiting
  <2>1. ASSUME NEW s \in Requests, Joins(s)
        PROVE  i \in DOMAIN p /\ p[i] = r
    BY <2>0, <2>1, PlacesAfterJoining
  <2>2. ASSUME NEW s \in Requests, HeadLeaves(s)
        PROVE  \E j \in 1 .. i : j \in DOMAIN p /\ p[j] = r
    <3>1. r # s
      BY <2>0, <2>2, PlacesAfterLeaving
    <3>2. CASE ConvOf[s] # ConvOf[r]
      BY <2>0, <2>2, <3>2, PlacesAfterLeaving
    <3>3. CASE ConvOf[s] = ConvOf[r]
      <4>1. /\ p \in Seq(Requests) /\ Len(p) = Len(q) - 1
            /\ \A j \in 1 .. Len(p) : p[j] = q[j + 1]
            /\ q[1] = s
        BY <2>0, <2>2, <3>3, PlacesAfterLeaving
      <4>2. i - 1 \in 1 .. Len(p) /\ i - 1 \in 1 .. i /\ (i - 1) + 1 = i
        BY <2>0, <3>1, <4>1
      <4>3. DOMAIN p = 1 .. Len(p) /\ p[i - 1] = q[(i - 1) + 1]
        BY <4>1, <4>2
      <4>4. i - 1 \in DOMAIN p /\ p[i - 1] = r
        BY <2>0, <4>2, <4>3
      <4> HIDE DEF p
      <4> QED
        BY <4>2, <4>4
    <3> QED
      BY <3>2, <3>3
  <2>3. ~ AllAreLost
    BY DEF AllAreLost, Waiting
  <2> QED
    BY <2>0, <2>1, <2>2, <2>3, ChainSteps DEF Advances
<1> QED
  BY <1>1, Invariance, PTL DEF Spec, NobodyOvertakes
=============================================================================
