------------------------ MODULE ConversationDeletion -------------------------
(***************************************************************************)
(* The governed deletion of one thread                                     *)
(* (src/src/lib/server/conversation-lifecycle.ts and the deletion row of   *)
(* src/src/lib/sharedworld/deletion-store.ts), with the turn requests, the *)
(* user and the crashes it runs beside.                                    *)
(*                                                                         *)
(* SQLite calls are synchronous: what the code does between two awaits is  *)
(* one step here.  Two kinds of driver execute a deletion: the POST        *)
(* requests and, while the server boots, "boot" (recoverOnBoot).  VICT's   *)
(* deletion coordinator is a library; its receipts are modelled from how   *)
(* this code relies on them.                                               *)
(***************************************************************************)
EXTENDS Naturals, FiniteSets

CONSTANTS
  Conversations,  \* VICT conversation ids a link may be given
  None,           \* no conversation
  Items,          \* proposals of the thread, and the records they become
  Deletes,        \* POST /api/threads/:id/deletion
  ModeOf, KeyOf,  \* the mode and the key a deletion request carries
  Turns,          \* POST /api/threads/:id/turns
  MaxCrashes,     \* bound on crashes while the server is up
  MaxFaults,      \* bound on coordinator failures of the requests
  MaxBootFaults   \* bound on crashes and coordinator failures during boot

WithMeaning == "conversation-and-originating-meaning"
Modes == {"conversation-only", WithMeaning}

ASSUME NoneIsNoConversation == None \notin Conversations
ASSUME BootIsNoRequest == "boot" \notin Deletes
ASSUME ModeOfType == ModeOf \in [Deletes -> Modes]
ASSUME BoundsType == {MaxCrashes, MaxFaults, MaxBootFaults} \subseteq Nat

VARIABLES
  server,   \* "up", "down", or "recovering"
  thread,   \* the retention state of the thread
  link,     \* its conversation link, or None
  linked,   \* every conversation it was ever linked to
  row,      \* the durable deletion row
  meaning,  \* per item: proposal, then record originating in the thread
  vict,     \* per conversation, the receipts of VICT's deletion intent
  memory,   \* conversations whose transcript exists
  fenced,   \* conversations that refuse turns (in memory only)
  open,     \* conversations with an open turn
  pc,       \* where each driver is
  target,   \* the conversation a driver resolved, or None
  todo,     \* the records a driver still has to remove
  answer,   \* what a deletion request was told
  turnPc, turnConv,  \* where a turn request is, the link it resolved
  crashes, faults, bootFaults

stores == <<thread, link, linked, row, meaning, vict, memory>>
drivers == <<pc, target, todo, answer>>
turns == <<open, turnPc, turnConv>>
bounds == <<crashes, faults, bootFaults>>
vars == <<server, stores, fenced, drivers, turns, bounds>>

Drivers == Deletes \cup {"boot"}
Mode(d) == IF d = "boot" THEN row.mode ELSE ModeOf[d]

RowOpen == row.status \in {"planned", "incomplete"}
RowTerminal == row.status \in {"completed", "canceled"}
Pending == {i \in Items : meaning[i] = "pending"}
Relevant == {i \in Items : meaning[i] = "relevant"}
Removed == thread = "user-removed"

TypeOK ==
  /\ server \in {"up", "down", "recovering"}
  /\ thread \in {"currently-relevant", "user-removed"}
  /\ link \in linked \cup {None}
  /\ linked \subseteq Conversations
  /\ row \in [status : {"none", "planned", "incomplete", "completed", "canceled"},
              mode : Modes, key : {"-"} \cup {KeyOf[d] : d \in Deletes},
              intent : Conversations \cup {None}]
  /\ meaning \in [Items -> {"absent", "pending", "withdrawn", "relevant", "removed"}]
  /\ vict \in [Conversations -> {"none", "domain", "completed"}]
  /\ memory \subseteq linked
  /\ fenced \subseteq Conversations
  /\ open \subseteq linked
  /\ pc \in [Drivers -> {"idle", "resolve", "admit", "run", "remove",
                         "coordinate", "listen", "done", "lost"}]
  /\ target \in [Drivers -> Conversations \cup {None}]
  /\ todo \in [Drivers -> SUBSET Items]
  /\ answer \in [Deletes -> {"none", "ok", "busy", "conflict", "incomplete"}]
  /\ turnPc \in [Turns -> {"new", "resolved", "started", "refused", "lost"}]
  /\ turnConv \in [Turns -> Conversations \cup {None}]
  /\ crashes \in 0 .. MaxCrashes
  /\ faults \in 0 .. MaxFaults
  /\ bootFaults \in 0 .. MaxBootFaults

(* A thread with or without a conversation, and some meaning of its own.   *)
Init ==
  /\ server = "up"
  /\ thread = "currently-relevant"
  /\ link \in Conversations \cup {None}
  /\ linked = {link} \ {None}
  /\ row = [status |-> "none", mode |-> "conversation-only", key |-> "-",
            intent |-> None]
  /\ meaning \in [Items -> {"absent", "pending", "relevant"}]
  /\ vict = [c \in Conversations |-> "none"]
  /\ memory = linked
  /\ fenced = {}
  /\ open = {}
  /\ pc = [d \in Drivers |-> "idle"]
  /\ target = [d \in Drivers |-> None]
  /\ todo = [d \in Drivers |-> {}]
  /\ answer = [d \in Deletes |-> "none"]
  /\ turnPc = [t \in Turns |-> "new"]
  /\ turnConv = [t \in Turns |-> None]
  /\ crashes = 0
  /\ faults = 0
  /\ bootFaults = 0
-----------------------------------------------------------------------------
(* The request records its intent, replays the one with the same key and   *)
(* mode whatever its status, or conflicts with it.                         *)
Plan(d) ==
  /\ server = "up"
  /\ pc[d] = "idle"
  /\ \/ /\ row.status = "none"
        /\ row' = [status |-> "planned", mode |-> ModeOf[d],
                   key |-> KeyOf[d], intent |-> None]
        /\ pc' = [pc EXCEPT ![d] = "resolve"]
        /\ UNCHANGED answer
     \/ /\ row.status # "none"
        /\ row.key = KeyOf[d] /\ row.mode = ModeOf[d]
        /\ pc' = [pc EXCEPT ![d] = "resolve"]
        /\ UNCHANGED <<row, answer>>
     \/ /\ row.status # "none"
        /\ ~(row.key = KeyOf[d] /\ row.mode = ModeOf[d])
        /\ pc' = [pc EXCEPT ![d] = "done"]
        /\ answer' = [answer EXCEPT ![d] = "conflict"]
        /\ UNCHANGED row
  /\ UNCHANGED <<server, thread, link, linked, meaning, vict, memory, fenced,
                 target, todo, turns, bounds>>

(* The link is read after an await; without one the run follows at once.   *)
Resolve(d) ==
  /\ pc[d] = "resolve"
  /\ link # None
  /\ target' = [target EXCEPT ![d] = link]
  /\ pc' = [pc EXCEPT ![d] = "admit"]
  /\ UNCHANGED <<server, stores, fenced, todo, answer, turns, bounds>>

(* The admission with an empty dispatch: a passage through the section of  *)
(* the conversation, refused while a turn is open there.                   *)
AdmitTurn(d) ==
  /\ pc[d] = "admit"
  /\ \/ /\ target[d] \in open
        /\ pc' = [pc EXCEPT ![d] = "done"]
        /\ answer' = [answer EXCEPT ![d] = "busy"]
     \/ /\ target[d] \notin open
        /\ pc' = [pc EXCEPT ![d] = "run"]
        /\ UNCHANGED answer
  /\ UNCHANGED <<server, stores, fenced, target, todo, turns, bounds>>

AtRun(d) == pc[d] = "run" \/ (pc[d] = "resolve" /\ link = None)
-----------------------------------------------------------------------------
(* A bug: the scope is not looked at.                                      *)
WithdrawWhateverScope(d) ==
  /\ AtRun(d)
  /\ ~RowTerminal
  /\ meaning' = [i \in Items |->
                   IF i \in Pending THEN "withdrawn" ELSE meaning[i]]
  /\ todo' = [todo EXCEPT ![d] = Relevant]
  /\ pc' = [pc EXCEPT ![d] = "remove"]
  /\ UNCHANGED <<server, thread, link, linked, row, vict, memory, fenced,
                 target, answer, turns, bounds>>

(* executeMeaningRemoval, which asks for the recorded mode once more:      *)
(* pending proposals are withdrawn and the relevant records listed in one  *)
(* go, then removed one await at a time.                                   *)
WithdrawPending(d) ==
  /\ AtRun(d)
  /\ Mode(d) = WithMeaning /\ row.mode = WithMeaning
  /\ ~RowTerminal
  /\ meaning' = [i \in Items |->
                   IF i \in Pending THEN "withdrawn" ELSE meaning[i]]
  /\ todo' = [todo EXCEPT ![d] = Relevant]
  /\ pc' = [pc EXCEPT ![d] = "remove"]
  /\ UNCHANGED <<server, thread, link, linked, row, vict, memory, fenced,
                 target, answer, turns, bounds>>

(* An already removed record converges.                                    *)
RemoveRecord(d) ==
  /\ pc[d] = "remove"
  /\ \E i \in todo[d] :
       /\ meaning' = [meaning EXCEPT ![i] = "removed"]
       /\ todo' = [todo EXCEPT ![d] = @ \ {i}]
  /\ UNCHANGED <<server, thread, link, linked, row, vict, memory, fenced, pc,
                 target, answer, turns, bounds>>

(* The meaning step is over: not asked for, already terminal, or done.     *)
MeaningDone(d) ==
  \/ AtRun(d) /\ (Mode(d) # WithMeaning \/ RowTerminal)
  \/ pc[d] = "remove" /\ todo[d] = {}

(* The content-free tombstone removes the link once and never again.       *)
TombstoneThread ==
  /\ thread' = "user-removed"
  /\ link' = IF Removed THEN link ELSE None

(* A bug: the terminal update does not look at the recorded status.        *)
CompleteUnchecked == row' = [row EXCEPT !.status = "completed"]

(* completeDeletion: what the row becomes, and what the request is told.   *)
CompleteDeletion == row' = IF RowOpen THEN [row EXCEPT !.status = "completed"]
                                      ELSE row
CompletionAnswer == IF row.status = "canceled" THEN "incomplete" ELSE "ok"

Answer(d, a) ==
  IF d = "boot"
    THEN /\ pc' = [pc EXCEPT ![d] = "listen"]
         /\ UNCHANGED answer
    ELSE /\ pc' = [pc EXCEPT ![d] = "done"]
         /\ answer' = [answer EXCEPT ![d] = a]

(* A bug: only the link tells which conversation to delete.                *)
GovernedByLink(d) == target[d]

(* A request drives the conversation it resolved, or the recorded intent.  *)
Governed(d) == IF target[d] # None THEN target[d] ELSE row.intent

Commence(d) ==
  /\ MeaningDone(d)
  /\ Governed(d) # None
  /\ target' = [target EXCEPT ![d] = Governed(d)]
  /\ row' = IF row.intent = None THEN [row EXCEPT !.intent = Governed(d)]
                                 ELSE row
  /\ TombstoneThread
  /\ pc' = [pc EXCEPT ![d] = "coordinate"]
  /\ UNCHANGED <<server, linked, meaning, vict, memory, fenced, todo, answer,
                 turns, bounds>>

(* No conversation was ever linked: the tombstone is the whole effect.     *)
CommenceUnlinked(d) ==
  /\ MeaningDone(d)
  /\ Governed(d) = None
  /\ TombstoneThread
  /\ CompleteDeletion
  /\ Answer(d, CompletionAnswer)
  /\ UNCHANGED <<server, linked, meaning, vict, memory, fenced, target, todo,
                 turns, bounds>>
-----------------------------------------------------------------------------
(* VICT's coordinator drives the first step without a receipt.  Its        *)
(* application-domain step calls the product port of the composition.      *)
CoordinateDomain(d) ==
  /\ pc[d] = "coordinate"
  /\ vict[target[d]] = "none"
  /\ vict' = [vict EXCEPT ![target[d]] = "domain"]
  /\ IF link = target[d] /\ ~Removed THEN TombstoneThread
                                     ELSE UNCHANGED <<thread, link>>
  /\ UNCHANGED <<server, linked, row, meaning, memory, fenced, drivers, turns,
                 bounds>>

(* A bug: the transcript is deleted and its conversation is not fenced.    *)
CoordinateMemoryUnfenced(d) ==
  /\ pc[d] = "coordinate"
  /\ vict[target[d]] = "domain"
  /\ vict' = [vict EXCEPT ![target[d]] = "completed"]
  /\ memory' = memory \ {target[d]}
  /\ UNCHANGED <<server, thread, link, linked, row, meaning, fenced, drivers,
                 turns, bounds>>

(* Its memory-store step deletes the transcript and fences the id.         *)
CoordinateMemory(d) ==
  /\ pc[d] = "coordinate"
  /\ vict[target[d]] = "domain"
  /\ vict' = [vict EXCEPT ![target[d]] = "completed"]
  /\ memory' = memory \ {target[d]}
  /\ fenced' = fenced \cup {target[d]}
  /\ UNCHANGED <<server, thread, link, linked, row, meaning, drivers, turns,
                 bounds>>

(* A bug: the outcome of the coordinator is not looked at.                 *)
CompleteEarly(d) ==
  /\ pc[d] = "coordinate"
  /\ CompleteDeletion
  /\ Answer(d, CompletionAnswer)
  /\ UNCHANGED <<server, thread, link, linked, meaning, vict, memory, fenced,
                 target, todo, turns, bounds>>

Complete(d) ==
  /\ pc[d] = "coordinate"
  /\ vict[target[d]] = "completed"
  /\ CompleteDeletion
  /\ Answer(d, CompletionAnswer)
  /\ UNCHANGED <<server, thread, link, linked, meaning, vict, memory, fenced,
                 target, todo, turns, bounds>>

(* A step of the coordinator fails: the request marks the row, the boot    *)
(* leaves it as it is and goes on.                                         *)
CoordinatorFails(d) ==
  /\ pc[d] = "coordinate"
  /\ vict[target[d]] # "completed"
  /\ IF d = "boot"
       THEN /\ bootFaults < MaxBootFaults
            /\ bootFaults' = bootFaults + 1
            /\ UNCHANGED <<row, faults>>
       ELSE /\ faults < MaxFaults
            /\ faults' = faults + 1
            /\ row' = IF RowOpen THEN [row EXCEPT !.status = "incomplete"]
                                 ELSE row
            /\ UNCHANGED bootFaults
  /\ Answer(d, "incomplete")
  /\ UNCHANGED <<server, thread, link, linked, meaning, vict, memory, fenced,
                 target, todo, turns, crashes>>
-----------------------------------------------------------------------------
(* The user cancels a planned deletion, or decides a pending proposal      *)
(* (refused as stale once the thread is removed).                          *)
Cancel ==
  /\ server = "up"
  /\ row.status = "planned"
  /\ row' = [row EXCEPT !.status = "canceled"]
  /\ UNCHANGED <<server, thread, link, linked, meaning, vict, memory, fenced,
                 drivers, turns, bounds>>

NotStale(i) == meaning[i] = "pending" /\ ~Removed

Confirm(i) ==
  /\ server = "up"
  /\ NotStale(i)
  /\ meaning' = [meaning EXCEPT ![i] = "relevant"]
  /\ UNCHANGED <<server, thread, link, linked, row, vict, memory, fenced,
                 drivers, turns, bounds>>
-----------------------------------------------------------------------------
(* A turn request resolves the link, creating one when there is none,      *)
(* before it reaches the section of that conversation.                     *)
EnsureConversationLink(t) ==
  /\ server = "up"
  /\ turnPc[t] = "new"
  /\ IF link # None
       THEN UNCHANGED <<link, linked>>
       ELSE \E c \in Conversations \ linked :
              link' = c /\ linked' = linked \cup {c}
  /\ turnConv' = [turnConv EXCEPT ![t] = link']
  /\ turnPc' = [turnPc EXCEPT ![t] = "resolved"]
  /\ UNCHANGED <<server, thread, row, meaning, vict, memory, fenced, drivers,
                 open, bounds>>

(* The section of the conversation: refused while a turn is open or the    *)
(* conversation is fenced, else the turn starts.                           *)
StartTurn(t) ==
  /\ turnPc[t] = "resolved"
  /\ \/ /\ turnConv[t] \in open \cup fenced
        /\ turnPc' = [turnPc EXCEPT ![t] = "refused"]
        /\ UNCHANGED <<open, memory>>
     \/ /\ turnConv[t] \notin open \cup fenced
        /\ turnPc' = [turnPc EXCEPT ![t] = "started"]
        /\ open' = open \cup {turnConv[t]}
        /\ memory' = memory \cup {turnConv[t]}
  /\ UNCHANGED <<server, thread, link, linked, row, meaning, vict, fenced,
                 drivers, turnConv, bounds>>

(* A running turn may draft a proposal, attributed through the link.       *)
AgentProposes(c, i) ==
  /\ server = "up"
  /\ c \in open
  /\ link = c
  /\ meaning[i] = "absent"
  /\ meaning' = [meaning EXCEPT ![i] = "pending"]
  /\ UNCHANGED <<server, thread, link, linked, row, vict, memory, fenced,
                 drivers, turns, bounds>>

(* The turn ends and its reply is written, unless the fence refuses it.    *)
TurnEnds(c) ==
  /\ server = "up"
  /\ c \in open
  /\ open' = open \ {c}
  /\ memory' = IF c \in fenced THEN memory ELSE memory \cup {c}
  /\ UNCHANGED <<server, thread, link, linked, row, meaning, vict, fenced,
                 drivers, turnPc, turnConv, bounds>>
-----------------------------------------------------------------------------
(* The process dies with its requests and its fences.                      *)
Die ==
  /\ server' = "down"
  /\ fenced' = {}
  /\ pc' = [d \in Drivers |->
              IF d = "boot" THEN "idle"
              ELSE IF pc[d] \in {"idle", "done"} THEN pc[d] ELSE "lost"]
  /\ target' = [d \in Drivers |-> None]
  /\ todo' = [d \in Drivers |-> {}]
  /\ turnPc' = [t \in Turns |->
                  IF turnPc[t] = "resolved" THEN "lost" ELSE turnPc[t]]
  /\ UNCHANGED <<stores, answer, open, turnConv, faults>>

Crash ==
  /\ server = "up"
  /\ crashes < MaxCrashes
  /\ crashes' = crashes + 1
  /\ Die
  /\ UNCHANGED bootFaults

CrashInBoot ==
  /\ server = "recovering"
  /\ bootFaults < MaxBootFaults
  /\ bootFaults' = bootFaults + 1
  /\ Die
  /\ UNCHANGED crashes

Deleted == {c \in Conversations : vict[c] = "completed"}

(* A bug: boot resumes incomplete rows and forgets the planned ones.       *)
RestartForgetful ==
  /\ server = "down"
  /\ server' = "recovering"
  /\ open' = {}
  /\ fenced' = Deleted
  /\ pc' = [pc EXCEPT !["boot"] =
              IF row.status = "incomplete" THEN "run" ELSE "listen"]
  /\ UNCHANGED <<stores, target, todo, answer, turnPc, turnConv, bounds>>

(* Boot settles the open turns, fences every deleted conversation and      *)
(* resumes the deletion row if it is open.                                 *)
Restart ==
  /\ server = "down"
  /\ server' = "recovering"
  /\ open' = {}
  /\ fenced' = Deleted
  /\ pc' = [pc EXCEPT !["boot"] = IF RowOpen THEN "run" ELSE "listen"]
  /\ UNCHANGED <<stores, target, todo, answer, turnPc, turnConv, bounds>>

(* Boot re-reads the link first, and records no intent.                    *)
Recoverable == IF link # None THEN link ELSE row.intent

BootCommence ==
  /\ MeaningDone("boot")
  /\ Recoverable # None
  /\ target' = [target EXCEPT !["boot"] = Recoverable]
  /\ pc' = [pc EXCEPT !["boot"] = "coordinate"]
  /\ UNCHANGED <<server, stores, fenced, todo, answer, turns, bounds>>

BootUnlinked ==
  /\ MeaningDone("boot")
  /\ Recoverable = None
  /\ TombstoneThread
  /\ CompleteDeletion
  /\ Answer("boot", CompletionAnswer)
  /\ UNCHANGED <<server, linked, meaning, vict, memory, fenced, target, todo,
                 turns, bounds>>

Listen ==
  /\ server = "recovering"
  /\ pc["boot"] = "listen"
  /\ server' = "up"
  /\ fenced' = Deleted
  /\ pc' = [pc EXCEPT !["boot"] = "idle"]
  /\ UNCHANGED <<stores, target, todo, answer, turns, bounds>>
-----------------------------------------------------------------------------
(* The steps a driver takes when its awaits answer.                        *)
RunMeaning(d) == WithdrawPending(d) \/ RemoveRecord(d)
RunCoordinator(d) == \/ CoordinateDomain(d)
                     \/ CoordinateMemory(d)
                     \/ Complete(d)
                     \/ CoordinatorFails(d)
Drive(d) == \/ Resolve(d)
            \/ AdmitTurn(d)
            \/ RunMeaning(d)
            \/ Commence(d)
            \/ CommenceUnlinked(d)
            \/ RunCoordinator(d)
Boot == \/ Restart
        \/ RunMeaning("boot")
        \/ BootCommence
        \/ BootUnlinked
        \/ RunCoordinator("boot")
        \/ Listen

Next ==
  \/ \E d \in Deletes : Plan(d) \/ Drive(d)
  \/ Boot
  \/ Cancel
  \/ \E i \in Items : Confirm(i)
  \/ \E t \in Turns : EnsureConversationLink(t) \/ StartTurn(t)
  \/ \E c \in Conversations : TurnEnds(c) \/ \E i \in Items : AgentProposes(c, i)
  \/ Crash
  \/ CrashInBoot

(* Ready continuations run and a crashed process is restarted.             *)
Fairness == WF_vars(Boot) /\ \A d \in Deletes : WF_vars(Drive(d))

Spec == Init /\ [][Next]_vars
FairSpec == Spec /\ Fairness
-----------------------------------------------------------------------------
(* No transcript of any conversation the thread ever had is left, VICT     *)
(* holds every receipt, and in the plus-meaning mode nothing that          *)
(* originated in the thread is left.                                       *)
NothingLeft ==
  /\ \A c \in linked : vict[c] = "completed" /\ c \notin memory
  /\ row.mode = WithMeaning => Pending = {} /\ Relevant = {}

NoTurnBeside == \A t \in Turns : turnPc[t] = "new"

(* Terminal truthfulness: when a deletion is reported complete the thread  *)
(* is a tombstone, and nothing is left as long as no turn request came     *)
(* beside it, which may get a new conversation or draft a proposal, and no *)
(* recovery was interrupted.                                               *)
CompletedIsTruthful ==
  row.status = "completed" =>
    Removed /\ (NoTurnBeside /\ bootFaults = 0 => NothingLeft)

(* Neither retries, recovery nor a second request broaden the scope that   *)
(* was recorded: a conversation-only deletion costs no meaning.            *)
ScopeNeverBroadened ==
  row.status # "none" /\ row.mode = "conversation-only" =>
    \A i \in Items : meaning[i] \notin {"withdrawn", "removed"}

(* A finished or canceled deletion stays what it is, whatever the drivers  *)
(* still in flight report about it.                                        *)
TerminalIsFinal ==
  [][RowTerminal => row'.status = row.status]_vars

(* The drivers together implement the promise of one governed deletion,    *)
(* whatever overlaps, is repeated, fails, is canceled or dies: the status  *)
(* and the scope on record, the tombstone, the transcripts of every        *)
(* conversation, and what was taken of the meaning.                        *)
Taken == {i \in Items : meaning[i] \in {"withdrawn", "removed"}}
Promise == INSTANCE GovernedDeletion
             WITH status <- row.status, mode <- row.mode, tombstoned <- Removed,
                  transcripts <- memory, deleted <- Deleted, taken <- Taken
PromiseKept == Promise!Spec

(* What VICT has deleted stays deleted: neither a turn that was running    *)
(* nor one that starts later, before or after a restart, writes to it.     *)
TranscriptStaysDeleted ==
  \A c \in Conversations : vict[c] = "completed" => c \notin memory

(* Every deletion request is answered or lost with the process, also while *)
(* a reply goes on for ever in its conversation.                           *)
DeleteAnswered ==
  \A d \in Deletes : pc[d] = "resolve" ~> pc[d] \in {"done", "lost"}

(* A deletion that a crash interrupts is completed by the recovery, if     *)
(* nothing fails during the boot.                                          *)
RecoveryCompletes ==
  RowOpen /\ server = "down" ~> row.status = "completed" \/ bootFaults > 0

(* Both: the request and the deletion it asked for come to their end.       *)
DeletionsEnd == DeleteAnswered /\ RecoveryCompletes
-----------------------------------------------------------------------------
(* What the documents say of the deletion and the code does not keep.      *)

(* "A resumed (partial) deletion MUST keep driving the ORIGINAL intent":   *)
(* a deletion completes only when VICT has completed what it recorded.     *)
OriginalIntentDriven ==
  [][row.status # "completed" /\ row'.status = "completed" /\ row.intent # None =>
       vict[row.intent] = "completed"]_vars
==============================================================================
