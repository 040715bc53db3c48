------------------------- MODULE WorkspaceDeletion -------------------------
(***************************************************************************)
(* The rest of a conversation's header in the browser workspace: the       *)
(* deletion chooser and the deep purge, beside the sends and the streams   *)
(* of ConversationWorkspace.                                               *)
(*   src/lib/islands/ConversationWorkspace.svelte   the controls           *)
(*   src/routes/api/threads/[id]/{deletion,purge}   what they call         *)
(* The component is one for all threads: what a click opened stays open    *)
(* when another thread is selected, and a handler reads selectedThreadId   *)
(* when it runs.  A request is a record that waits for its answer.  How    *)
(* the server executes a deletion is ConversationDeletion's and            *)
(* DeepPurge's; here it is one step with the answers they can give.        *)
(***************************************************************************)
EXTENDS ConversationWorkspace

CONSTANT MaxClicks   \* bound: choosers opened and confirmations clicked

ASSUME ClicksAssumption == MaxClicks \in Nat \ {0}

WithMeaning == "conversation-and-originating-meaning"
Modes == {"conversation-only", WithMeaning}

VARIABLES
  row,       \* server: per thread, the deletion row: status, mode, key
  stored,    \* server: per thread, "live", "removed" (the tombstone), "purged"
  listed,    \* threads, as last fetched
  deleting,  \* deleting: the thread whose Delete was clicked, or NoThread
  preview,   \* deletionPreview: the thread it describes, or NoThread
  mode,      \* deletionMode
  purging,   \* purgeOpen: the thread whose purge was opened, or NoThread
  word,      \* purgeWord = 'purge'
  busy,      \* deletionBusy and purgeBusy: the kinds with a request under way
  notice,    \* deletionNotice: what it says, of which thread and in which mode
  error,     \* deletionError # ''
  requests,  \* requests of these controls
  clicks     \* choosers opened and confirmations clicked

server == <<row, stored>>
chooser == <<deleting, preview, mode>>
purge == <<purging, word>>
shown == <<notice, error>>
controls == <<server, listed, chooser, purge, busy, shown, requests, clicks>>
conversation == vars
all == <<conversation, controls>>

Kinds == {"delete", "purge"}
Silent == [said |-> "", thread |-> NoThread, mode |-> "conversation-only", kept |-> TRUE]

(* One request: what was asked, its answer ("none" yet, "ok", "refused", or *)
(* "listing" once the page has taken it and fetches the list), whether the *)
(* page still waits and, for the properties, whether the mode of the       *)
(* chooser was left alone since the click.                                 *)
Request(kind, th, m, key) ==
  [kind |-> kind, thread |-> th, mode |-> m, key |-> key, answer |-> "none",
   page |-> TRUE, kept |-> TRUE]

ControlsInit ==
  /\ row = [th \in Threads |-> [status |-> "none", mode |-> "conversation-only",
                                key |-> 0]]
  /\ stored = [th \in Threads |-> "live"] /\ listed = stored
  /\ deleting = NoThread /\ preview = NoThread
  /\ mode = "conversation-only"
  /\ purging = NoThread /\ word = FALSE
  /\ busy = {} /\ notice = Silent /\ error = FALSE
  /\ requests = {} /\ clicks = 0

Click == clicks < MaxClicks /\ clicks' = clicks + 1

(* The list still has the selected thread; else nothing of it is rendered. *)
Rendered == listed[selected] # "purged"
DeletedConversation == listed[selected] = "removed"

---------------------------------------------------------------------------
(* The list.  Every send ends with a refresh of it, and so does an action  *)
(* on the thread: rename, archive or reopen, after which the thread that   *)
(* is selected by then is opened again.                                    *)

SendRefreshes(t, ok) ==
  /\ SendReturns(t, ok)
  /\ listed' = IF ok THEN stored ELSE listed
  /\ UNCHANGED <<server, chooser, purge, busy, shown, requests, clicks>>

ThreadAction ==
  /\ Rendered
  /\ Trouble
  /\ requests' = requests \cup {Request("act", selected, "conversation-only", troubles)}
  /\ UNCHANGED <<vict, selected, connection, messages, cursorSeq, activeTurn, stopping,
                 send, reads, server, listed, chooser, purge, busy, shown, clicks>>

(* What the action itself answered is not looked at; a call that rejects   *)
(* leaves the rest of it undone.                                           *)
ActionReturns(r) ==
  /\ r \in requests /\ r.kind = "act"
  /\ requests' = requests \ {r}
  /\ \/ listed' = stored /\ Opened(selected, r.key) /\ UNCHANGED troubles
     \/ UNCHANGED <<conversation, listed>>
  /\ UNCHANGED <<server, chooser, purge, busy, shown, clicks>>

---------------------------------------------------------------------------
(* The chooser.                                                            *)

(* The mode is set anew while deletions are under way.                     *)
Remoded == {[r EXCEPT !.kept = r.kept /\ r.kind # "delete"] : r \in requests}

(* Delete, on a thread that is not known to be deleted: the chooser opens  *)
(* when the preview arrives, or with the preview that is still there.      *)
OpenChooser ==
  /\ Rendered /\ ~DeletedConversation
  /\ Click
  /\ deleting' = selected
  /\ mode' = "conversation-only"
  /\ error' = FALSE /\ notice' = Silent
  /\ purging' = NoThread /\ word' = FALSE
  /\ requests' = Remoded \cup {Request("preview", selected, "conversation-only", clicks')}
  /\ UNCHANGED <<conversation, server, listed, preview, busy>>

PreviewReturns(r) ==
  /\ r \in requests /\ r.kind = "preview"
  /\ requests' = requests \ {r}
  /\ preview' = r.thread
  /\ UNCHANGED <<conversation, server, listed, deleting, mode, purge, busy,
                 shown, clicks>>

ChooserShown == Rendered /\ deleting # NoThread /\ preview # NoThread

PickMode(m) ==
  /\ ChooserShown /\ m # mode
  /\ mode' = m /\ requests' = Remoded
  /\ UNCHANGED <<conversation, server, listed, deleting, preview, purge, busy, shown,
                 clicks>>

CloseDeletionChooser ==
  /\ deleting' = NoThread /\ preview' = NoThread
  /\ purging' = NoThread /\ word' = FALSE
  /\ UNCHANGED mode

CancelChooser ==
  /\ ChooserShown
  /\ CloseDeletionChooser
  /\ UNCHANGED <<conversation, server, listed, busy, shown, requests, clicks>>

(* Confirm delete: of the thread selected now, in the mode chosen now,     *)
(* under a key of its own.                                                 *)
ConfirmDeletion ==
  /\ ChooserShown /\ "delete" \notin busy
  /\ Click
  /\ busy' = busy \cup {"delete"} /\ error' = FALSE
  /\ requests' = requests \cup {Request("delete", selected, mode, clicks')}
  /\ UNCHANGED <<conversation, server, listed, chooser, purge, notice>>

---------------------------------------------------------------------------
(* The deep purge.                                                         *)

OpenPurge ==
  /\ DeletedConversation /\ purging = NoThread
  /\ purging' = selected
  /\ UNCHANGED <<conversation, server, listed, chooser, word, busy, shown, requests,
                 clicks>>

TypeWord ==
  /\ DeletedConversation /\ purging # NoThread
  /\ word' = TRUE
  /\ UNCHANGED <<conversation, server, listed, chooser, purging, busy, shown, requests,
                 clicks>>

CancelPurge ==
  /\ DeletedConversation /\ purging # NoThread
  /\ purging' = NoThread /\ word' = FALSE
  /\ UNCHANGED <<conversation, server, listed, chooser, busy, shown, requests, clicks>>

ConfirmPurge ==
  /\ DeletedConversation /\ purging # NoThread /\ word /\ "purge" \notin busy
  /\ Click
  /\ busy' = busy \cup {"purge"} /\ error' = FALSE
  /\ requests' = requests \cup {Request("purge", selected, "conversation-only", clicks')}
  /\ UNCHANGED <<conversation, server, listed, chooser, purge, notice>>

---------------------------------------------------------------------------
(* The server.                                                             *)

(* An answer for the page, if it still waits for one.                      *)
Answered(r, a) == (requests \ {r}) \cup (IF r.page THEN {[r EXCEPT !.answer = a]} ELSE {})

(* VICT deletes the turns of the conversation; the tombstone of the thread *)
(* is written with it.                                                     *)
Erase(th) ==
  /\ erased' = erased \cup {t \in Turns : turn[t].thread = th}
  /\ stored' = [stored EXCEPT ![th] = "removed"]
  /\ send' = Disturbed
  /\ UNCHANGED <<turn, keyTurn>>

(* A deletion of this thread was recorded under another key.               *)
Conflicts(r) ==
  /\ row[r.thread].status # "none" /\ row[r.thread].key # r.key
  /\ requests' = Answered(r, "refused")
  /\ UNCHANGED <<row, stored, vict, send>>

Planned(r, status) ==
  row' = [row EXCEPT ![r.thread] = [status |-> status, mode |-> r.mode, key |-> r.key]]

(* A reply is open: the row stays planned.                                 *)
FoundBusy(r) ==
  /\ row[r.thread].status = "none" /\ OpenTurnOf(r.thread) # {}
  /\ Planned(r, "planned")
  /\ requests' = Answered(r, "refused")
  /\ UNCHANGED <<stored, vict, send>>

Executed(r) ==
  /\ row[r.thread].status = "none" /\ OpenTurnOf(r.thread) = {}
  /\ Planned(r, "completed")
  /\ Erase(r.thread)
  /\ requests' = Answered(r, "ok")

(* A step fails, before the tombstone is written or after.                 *)
ExecutedPartly(r) ==
  /\ row[r.thread].status = "none" /\ OpenTurnOf(r.thread) = {}
  /\ Planned(r, "incomplete")
  /\ stored' \in {stored, [stored EXCEPT ![r.thread] = "removed"]}
  /\ requests' = Answered(r, "refused")
  /\ UNCHANGED <<vict, send>>

DeletionHandled(r) ==
  /\ r \in requests /\ r.kind = "delete" /\ r.answer = "none"
  /\ \/ /\ Conflicts(r) \/ FoundBusy(r) \/ Executed(r)
        /\ UNCHANGED troubles
     \/ ExecutedPartly(r) /\ Trouble
  /\ UNCHANGED <<selected, connection, messages, cursorSeq, activeTurn, stopping, reads,
                 listed, chooser, purge, busy, shown, clicks>>

(* The next boot drives an open deletion to its end.                       *)
RecoverOnBoot(th) ==
  /\ row[th].status \in {"planned", "incomplete"} /\ OpenTurnOf(th) = {}
  /\ row' = [row EXCEPT ![th].status = "completed"]
  /\ Erase(th)
  /\ UNCHANGED <<selected, connection, messages, cursorSeq, activeTurn, stopping, reads,
                 troubles, listed, chooser, purge, busy, shown, requests, clicks>>

(* A completed deletion is purged, unless rows of other conversations      *)
(* refer to this one; with its meaning the thread itself goes.             *)
PurgeHandled(r) ==
  /\ r \in requests /\ r.kind = "purge" /\ r.answer = "none"
  /\ \/ /\ row[r.thread].status = "completed" /\ stored[r.thread] = "removed"
        /\ stored' = IF row[r.thread].mode = WithMeaning
                     THEN [stored EXCEPT ![r.thread] = "purged"] ELSE stored
        /\ requests' = Answered(r, "ok")
     \/ /\ ~(row[r.thread].status = "completed" /\ stored[r.thread] = "removed"
             /\ row[r.thread].mode = "conversation-only")
        /\ requests' = Answered(r, "refused")
        /\ UNCHANGED stored
  /\ UNCHANGED <<conversation, row, listed, chooser, purge, busy, shown, clicks>>

---------------------------------------------------------------------------
(* The answers.                                                            *)

(* A bug: any answer is shown as done.                                     *)
DoneWhateverAnswered(r) ==
  /\ r.answer \in {"ok", "refused"}
  /\ notice' = [said |-> r.kind, thread |-> r.thread, mode |-> mode, kept |-> r.kept]
  /\ requests' = (requests \ {r}) \cup {[r EXCEPT !.answer = "listing"]}
  /\ UNCHANGED <<listed, chooser, purge, busy, error, troubles>>

(* Done: said at once, of a deletion in the words of the mode the chooser  *)
(* has by now, then the list is fetched again.                             *)
Done(r) ==
  /\ r.answer = "ok"
  /\ notice' = [said |-> r.kind, thread |-> r.thread, mode |-> mode, kept |-> r.kept]
  /\ requests' = (requests \ {r}) \cup {[r EXCEPT !.answer = "listing"]}
  /\ UNCHANGED <<listed, chooser, purge, busy, error, troubles>>

(* With the list the chooser closes, whatever it shows by then.            *)
ListReturns(r) ==
  /\ r.answer = "listing"
  /\ requests' = requests \ {r}
  /\ listed' = stored
  /\ CloseDeletionChooser
  /\ busy' = busy \ {r.kind}
  /\ UNCHANGED <<shown, troubles>>

Refusal(r) ==
  /\ r.answer = "refused"
  /\ requests' = requests \ {r}
  /\ error' = TRUE /\ busy' = busy \ {r.kind}
  /\ UNCHANGED <<listed, chooser, purge, notice, troubles>>

(* A bug: what is reset with an answer stays when there is none.           *)
LostUnreset(r) ==
  /\ r.page /\ r.kind # "act"
  /\ requests' = requests \ {r}
  /\ error' = TRUE
  /\ Trouble
  /\ UNCHANGED <<listed, chooser, purge, busy, notice>>

(* The connection fails: the request may still reach the server, or its    *)
(* answer, or the list, does not come.                                     *)
Lost(r) ==
  /\ r.page /\ r.kind # "act"
  /\ \/ requests' = requests \ {r}
     \/ /\ r.answer = "none" /\ r.kind # "preview"
        /\ requests' = (requests \ {r}) \cup {[r EXCEPT !.page = FALSE]}
  /\ error' = TRUE /\ busy' = busy \ {r.kind}
  /\ Trouble
  /\ UNCHANGED <<listed, chooser, purge, notice>>

Returns(r) ==
  /\ r \in requests
  /\ Done(r) \/ ListReturns(r) \/ Refusal(r) \/ Lost(r)
  /\ UNCHANGED <<turn, keyTurn, erased, selected, connection, messages, cursorSeq,
                 activeTurn, stopping, send, reads, server, clicks>>

---------------------------------------------------------------------------
(* A thread that is gone from the list is not opened, sent to or stopped.  *)
Conversation ==
  /\ UserStep
  /\ Rendered /\ listed[selected'] # "purged"
  /\ UNCHANGED controls

ControlsStep ==
  \/ OpenChooser \/ (\E m \in Modes : PickMode(m)) \/ CancelChooser \/ ConfirmDeletion
  \/ OpenPurge \/ TypeWord \/ CancelPurge \/ ConfirmPurge

AnswerStep ==
  \E r \in requests : \/ ActionReturns(r) \/ PreviewReturns(r)
                      \/ DeletionHandled(r) \/ PurgeHandled(r) \/ Returns(r)

(* What replies to the user, answers a request or loses it.                *)
OwedStep ==
  \/ ReplyStep /\ UNCHANGED controls
  \/ StopStep /\ UNCHANGED controls
  \/ \E t \in Turns, ok \in BOOLEAN : SendRefreshes(t, ok)
  \/ AnswerStep

PageNext ==
  \/ Conversation
  \/ ThreadAction
  \/ ControlsStep
  \/ OwedStep
  \/ \E th \in Threads : RecoverOnBoot(th)

PageInit == Init /\ ControlsInit

(* Turns end (their deadline sees to that), requests are answered or lost, *)
(* connections deliver or drop: as long as something of this is possible,  *)
(* something of it happens.  The user owes nothing.                        *)
PageSpec == PageInit /\ [][PageNext]_all /\ WF_all(OwedStep)

---------------------------------------------------------------------------
(* What the notice says was done was done, to the thread it was asked for: *)
(* also when answers are lost, the chooser is closed or another thread is  *)
(* open by the time the answer comes.  Of a deletion it also says whether  *)
(* meaning was deleted: true, unless the radios, which stay enabled, were  *)
(* set while the request was under way.                                    *)
NoticesAreTrue ==
  notice.said # "" =>
    /\ row[notice.thread].status = "completed"
    /\ stored[notice.thread] # "live"
    /\ notice.said = "purge" /\ row[notice.thread].mode = WithMeaning =>
         stored[notice.thread] = "purged"
    /\ notice.said = "delete" /\ notice.kept =>
         notice.mode = row[notice.thread].mode

(* Every send and every deletion or purge comes to its end, whatever       *)
(* becomes of the connection: again and again none is under way.           *)
EveryRequestReturns ==
  []<>(busy = {} /\ \A t \in Turns : send[t].pc \in {"idle", "done"})

(* "Every destructive confirmation is shown only after an intentional      *)
(* click": a chooser that is shown was opened on the thread it is shown on.*)
ConfirmationAfterClick == ChooserShown => deleting = selected
=============================================================================
