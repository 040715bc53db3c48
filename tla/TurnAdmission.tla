---------------------------- MODULE TurnAdmission ----------------------------
(***************************************************************************)
(* The turn-admission boundary: how concurrent POST requests that start    *)
(* agent turns are serialized per conversation                             *)
(* (src/src/lib/server/turn-admission.ts, and the turns route that calls   *)
(* it through the composition).                                            *)
(*                                                                         *)
(* A request belongs to one conversation and carries an idempotency key    *)
(* and an input.  Every await of the critical section is a step of its     *)
(* own, so requests of different conversations interleave freely.  The     *)
(* VICT command service and the turn store are libraries: their part is    *)
(* modelled from how this repository uses and tests them.                  *)
(***************************************************************************)
EXTENDS Naturals, Sequences

CONSTANTS
  Conversations,  \* Mastra conversation ids
  Keys,           \* idempotency keys chosen by the client
  Requests,       \* POST /api/threads/:id/turns
  ConvOf,         \* the conversation a request was resolved to
  KeyOf,          \* its idempotency key
  InputOf,        \* its message
  MaxCrashes      \* bound on the number of crashes

ASSUME ConvOfType == ConvOf \in [Requests -> Conversations]
ASSUME KeyOfType == KeyOf \in [Requests -> Keys]
ASSUME MaxCrashesType == MaxCrashes \in Nat

VARIABLES
  server,    \* "up": the HTTP server listens; "down": crashed or booting
  sections,  \* per conversation, the requests of the promise chain, in order
  pc,        \* where each request is
  answer,    \* what its client was told
  receipts,  \* per key, the durable command-idempotency receipt
  turns,     \* per request, the durable turn its dispatch created
  crashes

vars == <<server, sections, pc, answer, receipts, turns, crashes>>

(***************************************************************************)
(* A request inside the section is at one of its awaits: reading the       *)
(* receipt, listing open turns, dispatching, creating the turn intent,     *)
(* settling the receipt, or on its way back with the result.               *)
(***************************************************************************)
InSection == {"getReceipt", "listOpenTurns", "dispatch", "creating", "settling",
              "returning"}
Locations == {"new", "queued", "done", "lost"} \cup InSection
Answers == {"none", "started", "replayed", "in_progress", "conflict",
            "refused", "failed"}
TurnStates == {"none", "open", "completed", "failed"}

(* VICT's digest of the command payload {threadId, input}.                 *)
Digest(r) == <<ConvOf[r], InputOf[r]>>
Digests == {Digest(r) : r \in Requests}
NoReceipt == [status |-> "none"]
Receipts == {NoReceipt}
              \cup [status : {"reserved", "settled"}, digest : Digests]

OpenTurns(c) == {r \in Requests : ConvOf[r] = c /\ turns[r] = "open"}

TypeOK ==
  /\ server \in {"up", "down"}
  /\ sections \in [Conversations -> Seq(Requests)]
  /\ pc \in [Requests -> Locations]
  /\ answer \in [Requests -> Answers]
  /\ receipts \in [Keys -> Receipts]
  /\ turns \in [Requests -> TurnStates]
  /\ crashes \in 0 .. MaxCrashes

Init ==
  /\ server = "up"
  /\ sections = [c \in Conversations |-> <<>>]
  /\ pc = [r \in Requests |-> "new"]
  /\ answer = [r \in Requests |-> "none"]
  /\ receipts = [k \in Keys |-> NoReceipt]
  /\ turns = [r \in Requests |-> "none"]
  /\ crashes = 0
-----------------------------------------------------------------------------
(* The request reaches runExclusive: it is chained behind the tail of its  *)
(* conversation's section.                                                 *)
Post(r) ==
  /\ server = "up"
  /\ pc[r] = "new"
  /\ sections' = [sections EXCEPT ![ConvOf[r]] = Append(@, r)]
  /\ pc' = [pc EXCEPT ![r] = "queued"]
  /\ UNCHANGED <<server, answer, receipts, turns, crashes>>

(* Every earlier promise of the chain has settled, however it settled.     *)
AtHead(r) ==
  /\ sections[ConvOf[r]] # <<>>
  /\ Head(sections[ConvOf[r]]) = r

Enter(r) ==
  /\ pc[r] = "queued"
  /\ AtHead(r)
  /\ pc' = [pc EXCEPT ![r] = "getReceipt"]
  /\ UNCHANGED <<server, sections, answer, receipts, turns, crashes>>

(* The request's promise settles and its successor may run.                *)
Leave(r, a) ==
  /\ sections' = [sections EXCEPT ![ConvOf[r]] = Tail(@)]
  /\ pc' = [pc EXCEPT ![r] = "done"]
  /\ answer' = [answer EXCEPT ![r] = a]

(* A bug: the open turns are listed without a look at the receipt.         *)
GetReceiptSkipped(r) ==
  /\ pc[r] = "getReceipt"
  /\ pc' = [pc EXCEPT ![r] = "listOpenTurns"]
  /\ UNCHANGED <<server, sections, answer, receipts, turns, crashes>>

(* A receipt of this key, whatever its status, passes the request through  *)
(* to VICT; otherwise the open turns are listed.                           *)
GetReceipt(r) ==
  /\ pc[r] = "getReceipt"
  /\ pc' = [pc EXCEPT ![r] =
              IF receipts[KeyOf[r]] # NoReceipt THEN "dispatch"
                                                ELSE "listOpenTurns"]
  /\ UNCHANGED <<server, sections, answer, receipts, turns, crashes>>

Refuse(r) ==
  /\ pc[r] = "listOpenTurns"
  /\ OpenTurns(ConvOf[r]) # {}
  /\ Leave(r, "refused")
  /\ UNCHANGED <<server, receipts, turns, crashes>>

(* A bug: the open turns are listed and not looked at.                     *)
AdmitUnchecked(r) ==
  /\ pc[r] = "listOpenTurns"
  /\ pc' = [pc EXCEPT ![r] = "dispatch"]
  /\ UNCHANGED <<server, sections, answer, receipts, turns, crashes>>

Admit(r) ==
  /\ pc[r] = "listOpenTurns"
  /\ OpenTurns(ConvOf[r]) = {}
  /\ pc' = [pc EXCEPT ![r] = "dispatch"]
  /\ UNCHANGED <<server, sections, answer, receipts, turns, crashes>>
-----------------------------------------------------------------------------
(* VICT's command boundary.  The receipt namespace is (actor, command,     *)
(* key): it is not scoped by conversation.                                 *)
Reserve(r) ==
  /\ pc[r] = "dispatch"
  /\ receipts[KeyOf[r]] = NoReceipt
  /\ receipts' = [receipts EXCEPT ![KeyOf[r]] =
                    [status |-> "reserved", digest |-> Digest(r)]]
  /\ pc' = [pc EXCEPT ![r] = "creating"]
  /\ UNCHANGED <<server, sections, answer, turns, crashes>>

(* A bug: the payload digest is not compared.                              *)
DispositionUnchecked(r) ==
  IF receipts[KeyOf[r]].status = "reserved" THEN "in_progress" ELSE "replayed"

Disposition(r) ==
  CASE receipts[KeyOf[r]].digest # Digest(r) -> "conflict"
    [] receipts[KeyOf[r]].digest = Digest(r)
         /\ receipts[KeyOf[r]].status = "reserved" -> "in_progress"
    [] OTHER -> "replayed"

Replay(r) ==
  /\ pc[r] = "dispatch"
  /\ receipts[KeyOf[r]] # NoReceipt
  /\ Leave(r, Disposition(r))
  /\ UNCHANGED <<server, receipts, turns, crashes>>

(* The durable turn exists before the dispatch returns; its run goes on.   *)
CreateTurn(r) ==
  /\ pc[r] = "creating"
  /\ turns' = [turns EXCEPT ![r] = "open"]
  /\ pc' = [pc EXCEPT ![r] = "settling"]
  /\ UNCHANGED <<server, sections, answer, receipts, crashes>>

(* The start is refused by VICT or throws.                                 *)
DispatchFails(r) ==
  /\ pc[r] = "creating"
  /\ pc' = [pc EXCEPT ![r] = "settling"]
  /\ UNCHANGED <<server, sections, answer, receipts, turns, crashes>>

(* Whatever came of it is recorded under the key.                          *)
Settle(r) ==
  /\ pc[r] = "settling"
  /\ receipts' = [receipts EXCEPT ![KeyOf[r]].status = "settled"]
  /\ pc' = [pc EXCEPT ![r] = "returning"]
  /\ UNCHANGED <<server, sections, answer, turns, crashes>>

(* A bug: a rejected section is never taken off the chain.                 *)
ReturnPoisoned(r) ==
  /\ pc[r] = "returning"
  /\ IF turns[r] = "none"
     THEN /\ pc' = [pc EXCEPT ![r] = "done"]
          /\ answer' = [answer EXCEPT ![r] = "failed"]
          /\ UNCHANGED sections
     ELSE Leave(r, "started")
  /\ UNCHANGED <<server, receipts, turns, crashes>>

(* The section's promise resolves with the started turn, or rejects.       *)
Return(r) ==
  /\ pc[r] = "returning"
  /\ Leave(r, IF turns[r] = "none" THEN "failed" ELSE "started")
  /\ UNCHANGED <<server, receipts, turns, crashes>>

(* The asynchronous run of a turn settles it.                              *)
TurnEnds(r, outcome) ==
  /\ server = "up"
  /\ turns[r] = "open"
  /\ turns' = [turns EXCEPT ![r] = outcome]
  /\ UNCHANGED <<server, sections, pc, answer, receipts, crashes>>
-----------------------------------------------------------------------------
(* The process dies: the in-memory sections and the pending requests go    *)
(* with it; receipts and turns are durable.                                *)
Crash ==
  /\ crashes < MaxCrashes
  /\ server' = "down"
  /\ crashes' = crashes + 1
  /\ sections' = [c \in Conversations |-> <<>>]
  /\ pc' = [r \in Requests |->
              IF pc[r] \in {"new", "done"} THEN pc[r] ELSE "lost"]
  /\ UNCHANGED <<answer, receipts, turns>>

(* Boot settles the turns the crash left open, one durable update each,    *)
(* and the server listens only afterwards.                                 *)
ReconcileAfterRestart(r) ==
  /\ server = "down"
  /\ turns[r] = "open"
  /\ turns' = [turns EXCEPT ![r] = "failed"]
  /\ UNCHANGED <<server, sections, pc, answer, receipts, crashes>>

Listen ==
  /\ server = "down"
  /\ \A r \in Requests : turns[r] # "open"
  /\ server' = "up"
  /\ UNCHANGED <<sections, pc, answer, receipts, turns, crashes>>
-----------------------------------------------------------------------------
(* The steps of the section and of the dispatch that a request waits for.  *)
Proceed(r) ==
  \/ Enter(r)
  \/ GetReceipt(r)
  \/ Refuse(r)
  \/ Admit(r)
  \/ Reserve(r)
  \/ Replay(r)
  \/ CreateTurn(r)
  \/ DispatchFails(r)
  \/ Settle(r)
  \/ Return(r)

Boot == Listen \/ \E r \in Requests : ReconcileAfterRestart(r)

Next ==
  \/ \E r \in Requests :
       \/ Post(r)
       \/ Proceed(r)
       \/ \E outcome \in {"completed", "failed"} : TurnEnds(r, outcome)
  \/ Crash
  \/ Boot

(* The event loop runs every ready continuation and a crashed process is   *)
(* restarted; nothing promises that a turn ever ends.                      *)
Fairness == WF_vars(Boot) /\ \A r \in Requests : WF_vars(Proceed(r))

Spec == Init /\ [][Next]_vars
FairSpec == Spec /\ Fairness
-----------------------------------------------------------------------------
(* "Exactly one active agent turn per conversation": however requests      *)
(* interleave, no conversation ever has two open turns.                    *)
OneOpenTurn ==
  \A r, s \in Requests :
    turns[r] = "open" /\ turns[s] = "open" /\ ConvOf[r] = ConvOf[s] => r = s

(* A key never starts two turns, even when two conversations race with it: *)
(* their sections do not exclude each other, only the receipt does.        *)
OneTurnPerKey ==
  \A r, s \in Requests :
    turns[r] # "none" /\ turns[s] # "none" /\ KeyOf[r] = KeyOf[s] => r = s

(* The dispatch of this very payload under this key has ended: its client  *)
(* was told so, or will be unless the process dies before.                 *)
DispatchOver(s) ==
  pc[s] \in {"returning", "lost"} \/ answer[s] \in {"started", "failed"}
Ended(k, digest) ==
  \E s \in Requests : KeyOf[s] = k /\ Digest(s) = digest /\ DispatchOver(s)

(* What the client was told is true: "started" only of a request that has  *)
(* a turn, and nothing else of such a request, though the answer may be    *)
(* lost in a crash; "replayed" only of a request identical to one whose    *)
(* dispatch ended.                                                         *)
AnswersAreTrue ==
  \A r \in Requests :
    /\ answer[r] = "started" => turns[r] # "none"
    /\ turns[r] # "none" =>
         answer[r] = "started" \/ pc[r] \in {"settling", "returning", "lost"}
    /\ answer[r] = "replayed" => Ended(KeyOf[r], Digest(r))

(* A retry of a request VICT already holds is never refused as a new       *)
(* overlapping one, although the receipt was read an await earlier.        *)
RefusesNoRetry ==
  \A r \in Requests :
    answer[r] = "none" /\ answer'[r] = "refused" =>
      \/ receipts[KeyOf[r]] = NoReceipt
      \/ receipts[KeyOf[r]].digest # Digest(r)
RetryNotRefused == [][RefusesNoRetry]_vars

(* The second message is never queued behind a reply: every request is     *)
(* answered, or lost with the process, even if no turn ever ends.          *)
EveryRequestAnswered ==
  \A r \in Requests : pc[r] = "queued" ~> pc[r] \in {"done", "lost"}

(* A turn that a crash left open does not block its conversation for ever: *)
(* once the process is down, every turn there is settles.                  *)
StrandedTurnsSettle ==
  server = "down" ~> \A r \in Requests : turns[r] # "open"

(* Both: neither a request nor a conversation is stuck.                     *)
NothingIsStuck == EveryRequestAnswered /\ StrandedTurnsSettle

(* The boundary implements the abstract promise: its durable turns, per    *)
(* request, are the open and the ended ones of the promise.                *)
OpenRequests == {r \in Requests : turns[r] = "open"}
EndedRequests == {r \in Requests : turns[r] \in {"completed", "failed"}}
Promise == INSTANCE ExclusiveTurns
             WITH open <- OpenRequests, ended <- EndedRequests
PromiseKept == Promise!Spec
-----------------------------------------------------------------------------
(* The inductive invariant behind the safety properties.                   *)

(* Only the head of a promise chain is inside its section.                 *)
SectionIsExclusive == \A r \in Requests : pc[r] \in InSection => AtHead(r)

(* What a request knows of the receipts is still true enough when it uses  *)
(* it: only its own section could have reserved this very payload.         *)
ReceiptReadHolds ==
  \A r \in Requests :
    pc[r] = "listOpenTurns" =>
      receipts[KeyOf[r]] = NoReceipt \/ receipts[KeyOf[r]].digest # Digest(r)

(* The conversation of an admitted request stays free until it starts.     *)
AdmittedAlone ==
  \A r \in Requests :
    (\/ pc[r] = "creating"
     \/ pc[r] = "dispatch" /\ receipts[KeyOf[r]] = NoReceipt)
    => OpenTurns(ConvOf[r]) = {}

(* A request that is creating its turn holds the receipt, alone; it still  *)
(* does when it settles it.                                                *)
CreatorOwnsKey ==
  \A r \in Requests : pc[r] \in {"creating", "settling"} =>
    /\ receipts[KeyOf[r]] # NoReceipt
    /\ receipts[KeyOf[r]].digest = Digest(r)
    /\ \A s \in Requests : KeyOf[s] = KeyOf[r] =>
         /\ pc[r] = "creating" => turns[s] = "none"
         /\ pc[s] \in {"creating", "settling"} => s = r

(* Turns and settled receipts leave their traces.                          *)
TurnHasReceipt ==
  \A r \in Requests : turns[r] # "none" => receipts[KeyOf[r]] # NoReceipt
Unanswered ==
  \A r \in Requests : pc[r] # "done" => answer[r] = "none"
SettledHasEnded ==
  \A k \in Keys :
    receipts[k].status = "settled" => Ended(k, receipts[k].digest)

IInv ==
  /\ TypeOK
  /\ SectionIsExclusive
  /\ ReceiptReadHolds
  /\ AdmittedAlone
  /\ CreatorOwnsKey
  /\ TurnHasReceipt
  /\ Unanswered
  /\ SettledHasEnded
  /\ OneOpenTurn
  /\ OneTurnPerKey
  /\ AnswersAreTrue

(* Beside it, why every request's turn comes: the chain of a conversation  *)
(* holds its waiting requests and nobody else, each of them once.          *)
Waiting == {r \in Requests : pc[r] \in InSection \cup {"queued"}}
ChainsHoldWaiting ==
  \A c \in Conversations :
    /\ \A i \in DOMAIN sections[c] :
         sections[c][i] \in Waiting /\ ConvOf[sections[c][i]] = c
    /\ \A i, j \in DOMAIN sections[c] : sections[c][i] = sections[c][j] => i = j
    /\ \A r \in Waiting :
         ConvOf[r] = c => \E i \in DOMAIN sections[c] : sections[c][i] = r

(* A chain is never poisoned: whatever was refused, replayed or rejected   *)
(* before, a request that waits stands behind a head that also waits. That *)
(* head may enter, and inside the section no step has a condition.         *)
ChainsMove ==
  \A r \in Waiting : \E s \in Waiting : ConvOf[s] = ConvOf[r] /\ AtHead(s)

(* Nobody overtakes: a request that goes on waiting never falls behind its *)
(* place in the chain.                                                     *)
KeepsItsPlace ==
  \A r \in Waiting : r \in Waiting' =>
    \A i \in DOMAIN sections[ConvOf[r]] :
      sections[ConvOf[r]][i] = r =>
        \E j \in 1 .. i : /\ j \in DOMAIN sections'[ConvOf[r]]
                          /\ sections'[ConvOf[r]][j] = r
NobodyOvertakes == [][KeepsItsPlace]_vars
=============================================================================
