# Quellight in TLA+

Quellight is a chat workspace for one user. A single Node process serves the
routes, runs agent turns through the VICT framework (and Mastra behind it), and
keeps the *Shared World* (threads, proposals, confirmed meaning, memory policy)
in SQLite; a page in the browser follows the replies. This directory models the
parts of it in which order, crashes and retries matter, model-checks them with
TLC and proves the most important results with TLAPS.

Contents: 1 the system; 2 what is hard about it; 3 modules and their
correspondence to the code; 4 runs, bounds and fairness; 5 what the code does
not keep; 6 proofs; 7 what is only model-checked; 8 what is not modelled; 9 what
is left.

Run a model with `tlc -config X.cfg M`, check a proof with `tlapm M.tla`.
`PROJECT.json` maps every definition to the lines it models. Paths below are
relative to `src/src/`, except `docs/` and `test/`.

## 1. The system

| Part (source) | State | Operations | Must guarantee |
|---|---|---|---|
| Turn admission (`lib/server/turn-admission.ts`, turns route) | a promise chain per conversation, in memory; VICT's receipts and turns, durable | `admitTurn`: read the receipt of the key, list open turns, dispatch | one open turn per conversation, one turn per key, a truthful answer for every request, no retry refused |
| Threads and ingress (`lib/sharedworld/sqlite.ts`, `lib/server/application-server.ts`) | thread rows, idempotency rows, conversation links; the ingress's own claims of keys | create, rename, archive, reopen, link, mark deleted | an answer is true of the thread it names; a key does one thing; what is removed stays removed |
| Conversation deletion (`lib/server/conversation-lifecycle.ts`, `lib/sharedworld/deletion-store.ts`, deletion route) | the deletion row; thread tombstone and link; VICT's deletion intent and fences | plan, execute, cancel, recover on boot | "completed" is true; the scope is never broadened; what is deleted is never written again; an interrupted deletion completes |
| Deep purge (`lib/sharedworld/deletion-store.ts`, purge route) | every table that refers to a conversation | nine statements in a transaction, a receipt, a VACUUM | nothing refers to what is gone; nothing of another conversation goes; it is possible once the deletion is complete |
| Meaning records (`lib/sharedworld/meaning-store.ts`, `retention-store.ts`, `conflict-store.ts`) | three tables of claims, commitments and open loops under unique indexes and CHECKs | create, exit, correct, amend, remove, set a deadline, retention pass | one holder per commitment key, linear lineages, no resurrection, sound versions |
| Confirmation ceremony (`lib/sharedworld/ceremony-actions.ts`, `conflict-surface.ts`) | proposals, challenges, idempotency rows | draft, confirm, reject, withdraw, amend, dismiss or resolve a challenge | one record per confirmation, answers that hold, retries that converge, final judgments |
| Turn context (`lib/sharedworld/context-assembler.ts`, model seam) | promises and rendered blocks per turn, in memory; assemblies and policy evidence, durable | `resolveForStream` for every model call; selection under a scan limit, a count and a byte budget | a reply is given its own memory, under its own policy, and nothing that was gone |
| Memory mode (`lib/sharedworld/memory-policy.ts`) | one row with a revision; per turn the applied policy | set the mode, bind it at the admission, record it | the evidence is the policy of the admission |
| Read surfaces (`lib/sharedworld/inspection-surface.ts`, `sqlite.ts`) | none of their own | lists by bucket, filter and page; the tray; what was used for a reply | everything is shown once; all readers agree on what is current |
| Workspace page: conversation (`lib/islands/ConversationWorkspace.svelte`, `stream-client.ts`) | the thread shown, its messages, the connection, a cursor, a stop intent | open, send, pump, stop, reconcile | no text twice or out of order; no stop is claimed that did not happen; the durable transcript in the end |
| Workspace page: deletion and purge (same component) | chooser, mode, purge word, notices | open, pick, cancel, confirm | a notice is true; a confirmation is for the thread it was opened on |
| Workspace page: memory tray (same component) | the lists shown, a draft amendment, challenges | list, decide, amend | *not modelled* (section 8) |
| Model seam (`lib/server/model-seam.ts`) | a timer and a reader per model call | bound a model call, inject its memory | a reply that ends as complete is complete, and a silent provider does not keep the turn |
| Composition and runtime (`lib/server/composition.ts`, `runtime.ts`) | the process | boot: settle turns, recover deletions, listen | nothing is served before recovery is over |
| Export, validation, contracts, definition | none of their own | parse, check, project | closed inputs; no authority from the client |

**Interaction.** A turn request resolves the conversation link of its thread
(Shared World) and passes through the section of that conversation (admission);
the dispatch makes VICT create a turn, whose model calls ask the turn context
for memory under the mode bound at the admission. The agent drafts proposals
through one capability; the user's decisions change the records by the
ceremony. A deletion passes through the same section, withdraws proposals,
removes records, tombstones the thread and drives VICT's coordinator, which
calls back into the Shared World; a purge then deletes the rows. The page sees
all of this through requests and one event stream per reply. SQLite calls are
synchronous, so that code between two `await`s is atomic; everything else
interleaves.

## 2. What is hard

`PROJECT.json` lists the hazards, each at its line. In short:

- *check, then await, then act*: the receipt and the open turns, the link and
  the section, the detector and its challenge, the lookup of a promise and its
  installation, the list of records to remove and their removal;
- *crashes* between the steps of a deletion, and between the claim of a key, the
  transaction and the receipt, with fences, promises and sections in memory;
- *retries* of what was done, refused, cancelled or decided by someone else;
- *statement order* under indexes and foreign keys that are checked after each
  statement;
- *versions and deadlines*: a write that forgets to bump, a pass at its limit,
  a clock that is set back;
- *limits*: scans, windows and budgets that cut before they filter;
- *streams*: drops, gaps and duplicates, frames of one thread that arrive while
  another is open, a stop request racing the terminal frame;
- *forms that stay open*: what was opened for one thread is confirmed on another.

## 3. Modules

| Module | Models | Used by |
|---|---|---|
| `ExclusiveTurns` | abstract: at most one open turn per conversation and one turn per key | refined by `TurnAdmission` |
| `TurnAdmission` | the section protocol with VICT's command receipts, crash and boot | `MCTurnAdmission`, `TurnAdmissionProofs` |
| `SharedWorldThreads` | mutations of threads from the ingress to the row, beside links, deletions and purges | `MCSharedWorldThreads`, `SharedWorldProofs` |
| `GovernedDeletion` | abstract: one scope, tombstone first, nothing deleted comes back, an end is an end | refined by `ConversationDeletion` |
| `ConversationDeletion` | deletion requests, cancel, boot recovery, coordinator, beside turns and confirmations | `MCConversationDeletion`, `ConversationDeletionProofs` |
| `DeepPurge` | the purge, statement by statement, over every row that is left behind | `MCDeepPurge`, `SharedWorldProofs` |
| `MeaningRecords` | the record tables and every verb that changes them | `ProposalCeremony`, `MemoryViews`, `MCMeaningRecords`, `MeaningRecordsProofs` |
| `ProposalCeremony` | `EXTENDS MeaningRecords`: requests over proposals and challenges, step by awaited step | `MCProposalCeremony`, `ProposalCeremonyProofs` |
| `MemoryViews` | `EXTENDS MeaningRecords`: the lists, the selection for a reply, what is told of it | `MCMemoryViews`, `MemoryViewsProofs` |
| `TurnContext` | model calls over policy, records, assemblies, cache and promises | `ModelCall` |
| `ModelCall` | `EXTENDS TurnContext`: the clock, the timer and the stream of each call | `MCTurnContext`, `TurnContextProofs` |
| `ConversationWorkspace` | the page: threads opened, sends, streams, stops, transcripts | `WorkspaceDeletion` |
| `WorkspaceDeletion` | `EXTENDS ConversationWorkspace`: the deletion and purge controls, and the specification of the page | `MCConversationWorkspace`, `WorkspaceDeletionProofs` |

Conventions. One step is the code between two awaits; a store verb, which is one
`BEGIN IMMEDIATE` transaction without an await, is one step, and its guard is
that every statement of it satisfies the constraints of the schema. An operator
introduced by "A bug:" is not part of any specification: it is the neighbour of
the definition that follows, changed as a plausible mistake would change it.
For every property of a passing run, `mutants` names one that breaks it.

**TurnAdmission.** `sections` are the promise chains of `runExclusive`; `pc`
names the await a request is at. `GetReceipt`, `Refuse`/`Admit` and the
dispatch (`Reserve`, then `CreateTurn` or `DispatchFails`, then `Settle`; or
`Replay`) are `turn-admission.ts:118-150`; with `Return` the promise of the section
resolves or rejects. The receipt, the turn and the settlement are durable writes of
their own, so that a crash may leave a turn whose client was told nothing, and a
receipt that is reserved for ever. The key namespace of receipts is the actor's, not
the conversation's, so that sections of two conversations race for one key.
`Crash` empties what is in memory; `ReconcileAfterRestart` and `Listen` are the
end of the composition. The promise is
`INSTANCE ExclusiveTurns WITH open <- OpenRequests, ended <- EndedRequests`.

**SharedWorldThreads.** `claims` are the command service's claims per key, with
the payload they were made for and the holder of the lease, `keys` the adapter's
`qlt_idempotency` rows, `threads` and `links` the tables. A request is checked
and bound to a target, claims its key (or is told of the other use of it), is
executed in one transaction and settles; a crash comes between any two, and a
retry takes over a lease that has run out. The identity of a created thread is
derived from its key (`StableId`) unless the request names one.

**ConversationDeletion.** One thread. `row` is the deletion row, `vict` the
receipts of the coordinator's two steps, `target` the conversation a driver
resolved, `todo` the records it has listed and not yet removed. Requests and
the boot are drivers of the same steps and differ where the code does: a
request records its intent and prefers the link it resolved, the boot reads
the link again and records nothing. The admission of a deletion is
`AdmitTurn`, an empty dispatch: a passage through the section, not a stay. As a
`GovernedDeletion` its status and mode are those of `row`, its tombstone is the
removal of the link, its transcripts are `memory`, and what it has taken is the
meaning that is withdrawn or removed.

**DeepPurge.** The three families of records have the same keys, so one stands
for each. The actions beside `Purge` (proposals, confirmations, direct saves,
corrections, amendments, challenges, turns, the deletion in two steps) exist to
leave behind every row and link the nine statements may meet. Foreign keys are
checked after each statement, and a refusal rolls the purge back.

**MeaningRecords.** `row` has the columns the constraints and verbs look at.
`Correct` inserts and then updates, `Amend` updates and then inserts, each
statement checked by `Storable`, because that is what the two transactions do.
An `expectedVersion` only narrows a guard, so verbs are modelled without, and
`ChangesAreVersioned` states what makes the check sound.

**ProposalCeremony.** A request goes `mark` (the sub-step that makes a proposal
decidable), `probe`, `detect`, `challenge` (confirmations only), `decide`; each
is an awaited call. Its `expected` version is the one its user saw. Proposals
of claims and commitments are modelled, those of loops behave as those of
claims. `RecordVerb` is everything `MeaningRecords` allows beside the ceremony,
whose own steps use the verbs of that module and nothing else on the records.

**MemoryViews.** `touched` is `updated_at_ms`, the order of every list, and
`assembly` what was recorded of a turn. A list is a function of the tables:
buckets, filters, the bounded windows the sources are read through, the merge
and the page. The selection is the code's pipeline: scan (the limit cuts before
the status is looked at), verdict of a row, scope, groups of equal identity,
total order, count and bytes, bounded evidence.

**TurnContext.** A call goes `list` (open turns), `get` (saved assembly) or
`wait` (another call's promise), `again`, `policy`, `scan`, `save`, `render`,
or `reread` for a replay without a rendered block. `bound` is the policy in
the scope of the turn, `evidence` and `assembly` the two tables, `admitted` a
history variable. Every port may throw (`Fault`). `Bypass` lets a second turn
open beside the first, which the admission excludes and the code defends
against all the same. A turn may end, stopped, while calls of it run on; a call
that asks for its memory only then is attributed to the one turn that is open, be
it the next one. `astray` are the turns that met such a call.

**ModelCall.** The deadline seam around the context seam, as `modelFactory`
composes them. `seam` is where a call is, `source` and `ending` the streams on
its two sides, `hit` is `deadlineHit`, and `due` the parts that had been passed
when the time was up. The clock of a call starts with it, before its memory is
resolved; the timer is set when the provider has produced a stream. A part, the
end of the source, the timer and the consumer's leaving are one callback each,
in any order. When the timer comes first, the reader waits on and its source is
not cancelled; the consumer's leaving is not told to the source either. The
bound is one per model call, so that a turn of several calls lasts longer.

**ConversationWorkspace.** Variables carry the component's names. A send is a
process: `posting`, `pumping`, `reconciling`, `refreshing` (the list of threads);
transcript reads and stop requests are records that wait for an answer. The stop
control stays while a stop is pending, so that several requests of one intent
overlap; the later ones may be told that the first is being processed. A stream is read with bounded attempts
from its cursor; `Deliverable` is at-least-once delivery that keeps the order
and may lose text but no first frame and no terminal. The component is one for
all threads, so that a stream of one thread goes on while another is open: what
it then shows is what the code does with it, and `alone`/`healed` mark the
sends of which `ReconciledShowsAll` speaks.

**WorkspaceDeletion.** The controls survive a change of the thread, and a
handler reads `selectedThreadId` when it runs. `row` and `stored` are the
server, `listed` what the page last fetched of it, a request waits, is handled,
answered, or lost before or after it was handled; a completed one is followed
by a fetch of the list, and so are a send and an action on the thread (rename,
archive, reopen: `ThreadAction`), which opens again whatever is selected by then.
A notice takes its words about meaning from the radios when the answer comes;
`kept` marks the requests under which they were left alone. The server's part is one step with the answers that
`ConversationDeletion` and `DeepPurge` can give. `Conversation` is a step of
`ConversationWorkspace` beside them.

## 4. Runs

All runs finish within five minutes with two workers. `CHECK_DEADLOCK FALSE` is
set where a model stops when its requests are answered and its bounds are used
up; `Threads` alone can always go on and is checked for deadlock.

| Run | Instance | Shows |
|---|---|---|
| `TurnAdmission` | 5 requests (a request, its retry, an edited retry, a distinct one, the same key in another conversation), 1 crash | truthful answers, no retry refused, refinement of `ExclusiveTurns`; nothing is stuck: every request is answered, stranded turns settle |
| `Deletion` | a deletion, its retry, one with the other mode; cancel, coordinator failure, crash, interrupted boot; 2 items, or 1 item beside a turn | completion is truthful, the scope is never broadened, a deleted transcript stays deleted, refinement of `GovernedDeletion`; every request is answered and recovery completes |
| `DeepPurge` | 2 threads, 2 proposals, 2 records, 2 purges | a purge is whole, refused only for a successor made elsewhere, and leaves the meaning of others |
| `Threads` | 3 requests, each any of 8; 3 keys, 3 identities; crash, takeover, link, deletion, purge | answers are true, what was removed stays removed |
| `MeaningRecords` | 3 claims with deadlines up to 2 and a batch limit of 1, *or* 3 commitments over 2 keys with 2 loops | the invariant of the proofs and five action properties of the records |
| `ProposalCeremony` | 2 requests of any kind, 2 proposals, 2 commitments, 1 key, deletion, record verbs | one record per confirmation, amendments replace, answers hold, challenges are truthful, judgments final |
| `TurnContext` | 2 calls, 2 turns, a record of this and one of another conversation, a second turn opened beside the first or after it was stopped under its call, 1 fault; streams of 2 parts | memory keeps to the admission, injected memory is own and fresh, the first record of a turn stands; streams are honest; every call ends |
| `MemoryViews` | 3 claims (two of one subject, one not intact), a commitment, a loop, a proposal; scan limit 2, 2 records, 4 bytes; 4 writes | lists are whole, readers of "current" agree, a selection is sound, a replay is current |
| `Workspace` | 2 threads, 3 frames, 2 attempts, 2 troubles (threads opened or acted on, stops, failures); 2 sends, *or* 3 clicks on the deletion controls, a send among them when clicks and troubles are 3 at most | text once and in order, cancellation only after its terminal, a reconciled view is the transcript, notices are true; every request returns |
| `DeletionRetry`, `RecordCorrection`, `WrongChooser` | smallest instance that shows it | a counterexample each, section 5 |

**Why the bounds are enough.** The admission relates a request to at most one
other request of its conversation and one of its key; the five requests contain
every pairing, with every order of arrival. A deletion has one row, so three
requests are the original, a retry and a conflict; one crash, one failure and
one faulty boot are what separates the coordinator's two steps in every way.
Two items tell "all removed" from "some removed". A purge concerns a
conversation and one other: two threads, with a record that supersedes one of
the other's, are every way a row can refer across. An idempotency key relates a
claim, its takeover and one other use: three requests. A violation of linearity
or of the unique key needs a record, its successor and a competitor: three
records; a pass at its limit needs two due claims and a third that is not. The
ceremony's guards read one proposal, its amendment and one other request. In
`TurnContext` a third call could only join or repeat what the second does. In
`MemoryViews` every limit (scan, count, bytes, evidence, page) is smaller than
what there is to list. In `Workspace` a handler meets at most one other send or
one other thread, and a reply of three frames has a first frame, a text and a
terminal.

**Constraints.** `ClaimsAlone`: no verb reads two families, so that a behaviour
using claims beside commitments is the interleaving of two that are explored.
`OneTurnOrOneKey` and `FewChanges` (ceremony): two turns are explored with one
key, two keys with one turn, and three changes of records. `FewAtOnce`
(deletion): at most two of crash, failure and interrupted boot, and a turn beside
the deletion of one item; each pair of faults and each fault beside a turn is
there. `InOrder` (context): turns and calls are numbered as they come, in place
of symmetry, which liveness rules out, and a turn is followed by another once it
has called its model; `FewChanges` bounds the changes from outside.
`SilentTogether` (context): when both calls are made, the streams of both open in
time and pass no part, since a stream reads nothing of the other or of the tables;
one call alone has every stream, and the timer and the clock run in every case.
`Interesting` (views): at most four writes, and nothing follows an assembly that
selected nothing. `Apart` (workspace): beside two sends there is one trouble until
the first of them has returned; clicks on the deletion controls come without a send,
or beside one whose stream is neither cut nor stopped and with three clicks and
troubles at most.

In `TurnContext` and `Workspace`, which check liveness, what a constraint cuts off
is a step that is not fair (a call made, a change, a click, a part), or one of
several ways for a fair step to end of which another is kept (a provider that throws
or opens a stream; a call that fails or answers). A behaviour in which something is
owed and can happen is therefore never cut down to one in which nothing can, and
a call or a request that hangs would be seen: in `TurnContext` with joins,
overlapping and stopped turns and the fault of a port among them.

**Fairness.** Weak fairness of the steps a request takes when its awaits answer:
the event loop runs ready continuations, and SQLite and VICT's in-process ports
settle. Weak fairness of the boot: a crashed process is started again. On the
server, neither turns, users nor crashes are fair: `NothingIsStuck` and
`DeletionsEnd` hold though a reply may go on for ever, and the second excludes
only behaviours in which the boot itself fails. In `ModelCall` the
ports of a call and its provider settle (`Runs`; a port that throws is an answer,
and the ports are SQLite statements), and the clock and the timer run (`Time`).
The provider's parts are not fair: `EveryCallEnds` holds of a stream that stays
open and silent. That the provider's call settles is an assumption about a
library, without which the property is false (section 5). The page has one weak
fairness, over everything that is owed to it (`OwedStep`): a turn ends (its deadline sees to that), an HTTP request is
answered or lost, a connection delivers or drops. It does not say which, so
`EveryRequestReturns` does not rest on the server being reachable.

## 5. What the code does not keep

Three are runs with `expect: violation` and a finding that quotes the sentence.

- `RecordCorrection`: no active commitment and no open loop can be corrected.
  The successor is inserted while its predecessor still holds the unique key;
  a loop is superseded without the exit attribution its CHECK demands. Tests
  correct claims only.
- `DeletionRetry`: a turn on a tombstoned thread gets a new conversation, and a
  retry of the deletion drives that one and completes the row, with the
  original intent open.
- `WrongChooser`: the deletion chooser opened on one thread stays open under the
  next one, with the counts of the first, and its Confirm deletes the second.

The others were met while modelling. The models have them as the code does, and
the properties are stated around them; no run is spent on each.

*Server.* A turn starts while a deletion runs, since the section excludes only
its admission (`composition.ts:701`, against `conversation-lifecycle.ts:17`). A
deleted thread accepts turns (`sqlite.ts:639`, against
`d2-contract.ts:266`), and a turn that waits in the section runs on a thread
archived meanwhile. `recoverOnBoot` records no intent
(`conversation-lifecycle.ts:312`), so that a second interruption between the
coordinator's steps is completed with the transcript still there. This is why
the truth of a completion is stated without turns beside it and without
interrupted boots. A retried deletion under a fresh key is refused with
`QLT_DELETION_SCOPE_CONFLICT` (`deletion-store.ts:326`). A purge removes links
and judgments in the conversation-only mode too (`deletion-store.ts:786`, against
the comment at `:821`), links of purged corrections dangle, and a
conversation-only purge can be repeated. A thread re-created under a purged
identity meets the old deletion row. Two model calls that start together both
evaluate (`context-assembler.ts:810`, against the comment at `:634`). A provider
that never produces a stream is not bounded (`model-seam.ts:92` sets the timer
after it, against "The timer starts when the model call begins" at `:73`), and the
memory is resolved within the deadline, not before its clock (against
`composition.ts:838`). A refused
confirmation has moved its proposal and may have recorded a challenge
(`ceremony-actions.ts:637`, against "Nothing was changed by it" on the page).
Usage `none` is labelled "No eligible memory existed for this reply" though a
scan limit may have cut what was eligible. A retry of a refused mutation is told
`ok` and replayed (`application-server.ts:531`). `setMode` is declared keyed
(`memory-policy-surface.ts:14`) and stores no key. A malformed identity in a
create silently becomes the derived one.
An identical confirmation that overlaps the first attempt may be told a conflict,
even against the record that its own proposal has made; only a retry that sees
the proposal decided is told the same as before. When a turn is stopped under its
model call and the next one opens before that call asks for its memory, the call is
attributed to the next turn, brings the policy of its own, and the evidence of the
next turn is that policy (`composition.ts:830`, `context-assembler.ts:789`).

*Page.* A stream that is lost while stopping leaves the view "stopping" for
ever, its composer disabled (`ConversationWorkspace.svelte:343`, against "every
state is truthful" at `:19`). A stop clicked while connecting names the previous
turn (`:425`). Every click on Confirm makes a new key (`:880`), so that "you can
retry" (`:1831`) always ends in the scope conflict above; `:914` is never called,
so that a planned deletion cannot be cancelled from the page; the branch at `:888`
for a row that is not completed is unreachable, since the server throws. The
words of a notice are chosen by the mode the radios have when the answer comes
(`:892`), and they stay enabled meanwhile: a deletion with its meaning can be
announced as "your saved meaning ... is untouched", and the other way round, against
`:19` again. `NoticesAreTrue` speaks of the mode only where it was left alone; without
that condition the run refutes it. The list of threads is refreshed inside the `try`
of a send (`:398`), so that a rejection there shows a reply that is complete as
failed, "the turn did not start". A notice stays under another thread; a purge
word typed for one thread serves another; messages of a deleted thread stay
shown until it is opened again; a rename commits to the thread selected by then;
late answers of `openThread`, `refreshMemory`, `refreshAssembly` and
`refreshChallenges` are applied whatever is selected.

## 6. Proofs

Every theorem holds for all sets and bounds that satisfy the named
assumptions of its module, which say only that constants have their types, that
`Null` and `None` are no values, that derived identities differ, and that the
families of records are disjoint.

**TurnAdmissionProofs.** `IInv` is inductive. `OneOpenTurn` alone is not: an
admitted request could meet a turn opened since it listed the open turns. The
strengthening says that only the head of a chain is inside its section, that
the conversation of a request between its admission and its turn is free, that
what was read of the receipt still holds enough when it is used (only the same
section could have reserved this payload), and that the creator of a turn
holds its key alone. From it: `AtMostOneOpenTurn`, `AtMostOneTurnPerKey`,
`ClientsAreToldTheTruth`, `RetriesPassThrough` (an action property), and
`ImplementsPromise`, the refinement of `ExclusiveTurns`. The safety half of
"never queued behind a reply" is proved as well: a second invariant,
`ChainsHoldWaiting`, says that the chain of a conversation holds its waiting
requests and nobody else, each once. Hence `NoChainIsPoisoned` (the head in front of
every waiting request waits too, so it may take a step, whatever was refused or
rejected before it) and `FirstComeFirstServed` (a request that goes on waiting
never falls behind its place). What is left to TLC of `NothingIsStuck` is the
conclusion from these and from fairness.

**SharedWorldProofs**, threads. The answer a client gets is decided a crash or two
before it is told. `Inv` accounts for it: a claim under way is held by a request
that asked for it (`ClaimsHeld`, `ClaimsMade`), an idempotency row and a thread
go back to a claim (`KeysMade`, `ThreadsMade`), an outcome not yet told still
holds of the tables (`OutcomesHold`, `RefusalsHold`), and an answer belongs to
where its request is (`AnswersPlaced`). `ClientsAreToldTheTruth` and
`DeletedThreadsStayDeleted` (an action property) follow.

**SharedWorldProofs**, purge. `PurgeIsWhole` is not inductive: it says nothing of
who stands on a proposal or where a link starts. `PurgeInv` adds that an
identity is given once (`IdsAreGivenOnce`), that a successor stands on the
proposal of what it supersedes or on none and a first record is of the thread of
its proposal (`LineageStands`), where links of records lead (`LinksLead`) and that
a thread is gone on purpose (`GoneOnPurpose`). Every ceremony is reduced to one
shape, rows decided on and rows made that refer to what is there (`Grown`). The
nine statements are reduced to one fact: they take whole tables' worth of the
thread's rows in an order in which nothing goes before what refers to it
(`InGoodOrder`), and along such an order foreign keys break only over a foreign
successor. That a record on a proposal of the thread is of the thread (`MeaningStaysHome`) is
shown on a least record, by well-founded induction over identities.
`PurgesAreWhole`, `OnlyForeignersRefuse` and `OthersKeepTheirMeaning` (an action
property) follow.

**ConversationDeletionProofs.** `DeletionInv`: drivers are where the row allows
them (`DriversPlaced`), what they drive was linked (`TargetsLinked`), the
tombstone is written before VICT is asked (`TombstoneFirst`), nothing outside
the mode is listed or removed (`ScopeKept`), a deleted conversation is fenced
(`Fenced`), and, while it is `Quiet` (no turn ran beside, no boot was
interrupted), what is still there is on a driver's list (`NothingOverlooked`).
`CompletionIsTruthful`, `ScopeStays`, `DeletedTranscriptsStayDeleted` and
`TerminalStatusIsFinal` follow for any number of requests, conversations, items,
turns, crashes and failures, and so does `ImplementsPromise`, the refinement of
`GovernedDeletion`: each step of a driver is one step of a single deletion or
none. A driver that completes a row without a conversation writes the tombstone
and the status at once, which is why the promise lets a tombstone come with
completion.

**MeaningRecordsProofs.** Each verb is first shown to have one of three shapes:
a creation, a succession (an old record leaves, its successor takes its key) or
an edit in place. `IInv` (types, storage constraints, linear lineages, fresh
identities, keys of commitments) is preserved by each shape, and the seven
properties of the records follow from the invariant and the shapes. The storage
constraints are part of the invariant because the guards assert them of the
state after each statement.

**ProposalCeremonyProofs.** The ceremony changes records by the verbs of
`MeaningRecords` only (the lemma `CeremonyKeepsRecords`), so that the results above
hold beside it. `ConfirmationsMakeOneRecord` needs, besides, that requests under
way have a proposal and that records never lose their family or predecessor.
The rest stands on three facts about every step, of requests and of records alike
(`Forward`): decided proposals and closed challenges stay as they are, a proposal
keeps its key and its turn, and a new idempotency row is written with the decision
it names. `JudgmentInv` says of each request that what it has read, found and been
told is still so (`RequestHolds`), and of each challenge that it is about the key
of its proposal, held, released, amended or removed since (`ChallengeHolds`).
`AmendmentsStay`, `AnswersStayTrue`, `ChallengesStayTruthful` and
`JudgmentsStayFinal` follow; the first needs that `Null` is no proposal.

**MemoryViewsProofs.** `ListsShowEverything`: whatever the tables, buckets
partition the rows, and a page read through windows of `offset + limit` rows per
source is the page of the whole list; the lemma behind it is that a row among
the first *n* of a union is among the first *n* of its part. `ReadersAgree`
needs the invariant of the records. `ReplaysAreCurrent` needs `Frozen`: a record
at the version that was selected is as it was selected, because every change
bumps the version. `SelectionsAreSound` (an action property) is about a step of
any state that satisfies the invariant. Its byte budget is a sum over a set: the
library defines it by a function on the subsets, and `SumsExist`, `WeightOfOne`
and `WeightGrows` show on a smallest counterexample that there is one such
function, that the order of summing does not matter, and that more records weigh
no less. The order of the selection is strict and total (`AheadIsAnOrder`), so that
what is selected ends in a last record (`LastRecord`), and what fits up to it is
all of it.

**TurnContextProofs.** `AwaitedAreAtWork` holds whatever is cancelled, opened beside
another turn, or throws: a call that awaits the promise of another one awaits a call
that is at work on it or has answered, never one that waits itself. It rests
on the type invariant, whose last part (`PromisesStand`) says of a promise that stands
for a turn whose it is; no step condition of a call at work remains, so a circle of
waits is excluded. `ContextInv` follows a selection from the scan over what
a call carries, the saved outcome and the rendered block to the answer: it is
*good* for its turn everywhere, that is, under the evidence of the turn, which
exists, and fresh as of its admission. `Attributions` says which turn that is: a call
is attributed to its own turn, or to one that is astray, and `Strays` that a turn
goes astray only by a call of another one that had ended, stopped, before. Nothing is
assumed of stops, overlapping turns or ports that throw. `MemoryUnderPolicy`
(evidence is bound to the admission, and what is saved or injected keeps to it, except
in a turn that is astray), `InjectedOwnAndFresh` and `SavedStands` (what is saved of a
turn stands) follow; `Bypass` is free, so that the first two do not rest on the
admission. A lemma, `CallsKeepContext`, carries them to `CallSpec`. `StreamsStayHonest`
needs `StreamInv`: while a stream is open all parts were passed on, and none since the
time was up.

**WorkspaceDeletionProofs.** What a notice says was true when the server
answered; `Forward` says that the server takes nothing back, so that it is still
true when the answer is shown, whatever thread is open then (`AnswersHold`,
`NoticeHolds`). That the notice names the mode that was asked for takes `KeptMode`: as
long as the chooser's mode is left alone it is the one of the requests under way. From
them `NoticesStayTrue`, for any number of threads, sends and clicks and beside every
step of the conversation.

The conversation itself stands on `CInv`. What a send knows of its turn lags
behind the turn (`SendsFollow`); the live text was applied from frames up to the
last acknowledged one (`Acknowledged`), which is what keeps a frame delivered
again out; "cancelled" is shown of a cancelled turn whose terminal frame was
applied, also while the send of that turn has still to reconcile
(`AuthorityStands`); and of a send that was alone nothing else is under way that
could change the page before or after it reconciles (`AloneIsAlone`, with
`Alone` and `Healed`). It takes the deletion into account, which
shares the server with it: erasing the turns of a thread counts as an
interruption of every send, as opening a thread does. The
transcript is flattened with the library's `FlattenSeq`; that its values are
sequences is shown by a least counterexample. `FramesInOrder`,
`OnlyTerminalsCancel` and `ReconcileHeals` follow.

## 7. What is only model-checked

- *Liveness*: `NothingIsStuck`, `DeletionsEnd`, `EveryCallEnds` and
  `EveryRequestReturns` rest on fairness, whose enabling conditions the prover
  cannot reason about. They hold on the instances of section 4 only. Proved for
  all constants is what two of them rest on: no chain is poisoned and nobody
  overtakes in it (`NoChainIsPoisoned`, `FirstComeFirstServed`), and no call awaits
  one that waits itself (`AwaitedAreAtWork`).
- *What the code does not keep*: the counterexamples of section 5 are TLC's;
  `CurrentIsCorrectable` is stated with `ENABLED`.
- *The constraints on the instances* (`FewAtOnce` and the like) restrict the
  runs, never the theorems.

Every invariant and every action property of a passing run is also a theorem. The
library's induction theorems take an operator and cannot be instantiated here.
Where a fact needs induction (a chain of successors, a flattened transcript, a
sum over a set) the proof takes a least counterexample from `WFMin` and
`NatLessThanWellFounded`, which are first-order. The modules under proof have no
recursive operators.

## 8. What is not modelled

- *Memory tray of the page*: it shows what `MemoryViews` answers and sends one
  verb of `ProposalCeremony` per click. Its own state is what was last fetched,
  and late answers are applied to whatever thread is open (section 5).
- *Export*: reads every table in one synchronous pass and writes nothing.
- *Validation, contracts, projections, HTTP mapping*: functions of one value
  without state. Transition tables and field sets are used where the verbs are
  modelled. The adapter's list of threads is capped at 100 without an offset.
- *Migrations*: run once, before anything else; the schema they produce is in
  the models as storage constraints.
- *Scripts, tests and reports*: read for what they say of the program.
- *VICT and Mastra*: external. Their receipts, turns, coordinator and streams
  are modelled as this code and its tests rely on them. Whether a stopped reply
  may call its model again is not known here, so the model lets it.
- *Creation of a thread from the page*, and what a rename or an archival changes
  of the thread: a thread that comes into the list is not in `Workspace`, whose
  actions on a thread are there for the list they fetch and the thread they open.
  The rows are those of `SharedWorldThreads`.

*Abstractions*: content is not modelled, only identity, version and the columns
that guards read; one thread in `ConversationDeletion`, `ProposalCeremony` and
`TurnContext`, since their tables are keyed by thread; transactions do not fail
for want of disk.

## 9. What is left

In order of what it would add: the memory tray beside `WorkspaceDeletion` (a
decision is sent for the record and version it was shown with); proposals of loops and corrections in
the ceremony; source links and the rows of corrections in `MeaningRecords`. Where a finding of section 5
is resolved in the code, its run turns into a property of the passing run beside
it.
