---------------------- MODULE WorkspaceDeletionProofs ----------------------
(***************************************************************************)
(* The browser workspace, for any number of threads, sends and clicks.     *)
(* The deletion controls: what the page says was done was done, in the     *)
(* mode it names unless the chooser was set anew meanwhile.  The           *)
(* conversation: frames are applied in order, "cancelled" is never claimed *)
(* early, and a reconciled send leaves the durable transcript.             *)
(***************************************************************************)
EXTENDS WorkspaceDeletion, FiniteSetTheorems, WellFoundedInduction, TLAPS

Requests ==
  [kind : Kinds \cup {"preview", "act"}, thread : Threads, mode : Modes, key : Nat,
   answer : {"none", "ok", "refused", "listing"}, page : BOOLEAN, kept : BOOLEAN]

ControlsOK ==
  /\ selected \in Threads
  /\ row \in [Threads -> [status : {"none", "planned", "incomplete", "completed"},
                          mode : Modes, key : Nat]]
  /\ stored \in [Threads -> {"live", "removed", "purged"}]
  /\ listed \in [Threads -> {"live", "removed", "purged"}]
  /\ mode \in Modes
  /\ notice \in [said : {""} \cup Kinds, thread : Threads \cup {NoThread}, mode : Modes,
                 kept : BOOLEAN]
  /\ notice.said # "" => notice.thread \in Threads
  /\ requests \subseteq Requests
  /\ clicks \in Nat /\ troubles \in Nat

(* The tombstone and the deletion row of a thread agree.                   *)
RowsAgree ==
  \A th \in Threads :
    /\ row[th].status = "completed" => stored[th] # "live"
    /\ row[th].status = "none" => stored[th] = "live"
    /\ stored[th] = "purged" => row[th].status = "completed"

(* What an answer or a notice about a deletion or a purge of the thread th *)
(* claims.                                                                 *)
Holds(kind, th) ==
  /\ row[th].status = "completed"
  /\ kind = "purge" /\ row[th].mode = WithMeaning => stored[th] = "purged"

(* What is answered was done, a deletion in the mode that was asked for.   *)
AnswersHold ==
  \A r \in requests :
    r.answer \in {"ok", "listing"} =>
      /\ r.kind \in Kinds /\ Holds(r.kind, r.thread)
      /\ r.kind = "delete" => row[r.thread].mode = r.mode
NoticeHolds ==
  notice.said # "" =>
    /\ Holds(notice.said, notice.thread)
    /\ notice.said = "delete" /\ notice.kept => notice.mode = row[notice.thread].mode

(* As long as the chooser's mode is left alone it is the one asked for.    *)
KeptMode == \A r \in requests : r.kind = "delete" /\ r.kept => r.mode = mode

IInv ==
  /\ ControlsOK
  /\ RowsAgree
  /\ AnswersHold /\ NoticeHolds
  /\ KeptMode

(***************************************************************************)
(* The server never takes anything back.                                   *)
(***************************************************************************)
Forward ==
  \A th \in Threads :
    /\ stored[th] # "live" => stored'[th] # "live"
    /\ stored[th] = "purged" => stored'[th] = "purged"
    /\ row[th].status = "completed" => row'[th] = row[th]

(* What holds of a thread goes on holding.                                 *)
LEMMA HoldsOn ==
  ASSUME Forward, NEW th \in Threads, NEW kind, Holds(kind, th)
  PROVE  Holds(kind, th)'
  BY DEF Forward, Holds

(* Only opening a thread changes the selection, and troubles are counted.  *)
LEMMA Selection ==
  ASSUME selected \in Threads, troubles \in Nat, UserStep \/ ReplyStep \/ StopStep
  PROVE  selected' \in Threads /\ troubles' \in Nat
<1>1. CASE UserStep
  BY <1>1 DEF UserStep, Stop, OpenThread, Opened, Send, Trouble
<1>2. CASE ReplyStep
  <2>1. CASE \E t \in Turns, s \in Outcomes : Finish(t, s)
    BY <2>1 DEF Finish
  <2>2. CASE \E t \in Turns : SendAccepted(t) \/ SendRefused(t) \/ SendFails(t)
    BY <2>2 DEF SendAccepted, SendRefused, SendFails, Trouble
  <2>3. CASE \E t \in Turns : Pump(t)
    <3>1. selected' = selected /\ troubles' \in {troubles, troubles + 1}
      BY <2>3 DEF Pump, Dropped, Refused, PumpFails, Frame, Trouble
    <3> QED
      BY <3>1
  <2>4. CASE \E r \in reads, ok \in BOOLEAN : ReadReturns(r, ok)
    BY <2>4 DEF ReadReturns, Trouble
  <2> QED
    BY <1>2, <2>1, <2>2, <2>3, <2>4 DEF ReplyStep
<1>3. CASE StopStep
  BY <1>3 DEF StopStep, StopHandled, StopReturns, StopFails
<1> QED
  BY <1>1, <1>2, <1>3

(***************************************************************************)
(* What a step of the server does to a request.                            *)
(***************************************************************************)
LEMMA Answering ==
  ASSUME requests \subseteq Requests, NEW r \in requests,
         NEW a \in {"none", "ok", "refused", "listing"}
  PROVE  /\ Answered(r, a) \subseteq Requests
         /\ \A q \in Answered(r, a) :
              \/ q \in requests
              \/ /\ q.kind = r.kind /\ q.thread = r.thread /\ q.mode = r.mode
                 /\ q.kept = r.kept /\ q.answer = a
<1>1. r \in Requests
  OBVIOUS
<1>2. /\ [r EXCEPT !.answer = a] \in Requests
      /\ [r EXCEPT !.answer = a].kind = r.kind
      /\ [r EXCEPT !.answer = a].thread = r.thread
      /\ [r EXCEPT !.answer = a].mode = r.mode
      /\ [r EXCEPT !.answer = a].kept = r.kept
      /\ [r EXCEPT !.answer = a].answer = a
  BY <1>1 DEF Requests
<1> QED
  BY <1>2 DEF Answered

(* A step that moves the server forward, leaves what the page shows alone, *)
(* and answers truthfully, keeps the invariant.                            *)
LEMMA ServerStep ==
  ASSUME IInv, Forward, ControlsOK', RowsAgree',
         UNCHANGED <<chooser, shown>>,
         \A q \in requests' :
           \/ q \in requests
           \/ /\ \E r \in requests : /\ q.kind = r.kind /\ q.thread = r.thread
                                     /\ q.mode = r.mode /\ q.kept = r.kept
              /\ q.answer = "ok" => /\ q.kind \in Kinds /\ Holds(q.kind, q.thread)'
                                    /\ q.kind = "delete" => row'[q.thread].mode = q.mode
              /\ q.answer # "listing"
  PROVE  IInv'
<1> USE DEF IInv
<1>1. \A q \in requests' : q.thread \in Threads
  BY DEF ControlsOK, Requests
<1>2. AnswersHold'
  <2> SUFFICES ASSUME NEW q \in requests', q.answer \in {"ok", "listing"}
               PROVE  /\ q.kind \in Kinds /\ Holds(q.kind, q.thread)'
                      /\ q.kind = "delete" => row'[q.thread].mode = q.mode
    BY DEF AnswersHold
  <2>1. CASE q \in requests
    <3>1. /\ q.kind \in Kinds /\ Holds(q.kind, q.thread)
          /\ q.kind = "delete" => row[q.thread].mode = q.mode
      BY <2>1 DEF AnswersHold
    <3>2. row'[q.thread] = row[q.thread]
      BY <1>1, <3>1 DEF Forward, Holds
    <3> QED
      BY <1>1, <3>1, <3>2, HoldsOn
  <2>2. CASE q \notin requests
    BY <2>2
  <2> QED
    BY <2>1, <2>2
<1>3. NoticeHolds'
  <2>1. notice' = notice
    BY DEF shown
  <2>2. CASE notice.said # ""
    <3>1. notice.thread \in Threads /\ Holds(notice.said, notice.thread)
      BY <2>2 DEF NoticeHolds, ControlsOK
    <3>2. row'[notice.thread] = row[notice.thread]
          /\ (stored[notice.thread] = "purged" => stored'[notice.thread] = "purged")
      BY <3>1 DEF Forward, Holds
    <3> QED
      BY <2>1, <3>1, <3>2 DEF NoticeHolds, Holds
  <2>3. CASE notice.said = ""
    BY <2>1, <2>3 DEF NoticeHolds
  <2> QED
    BY <2>2, <2>3
<1>4. KeptMode'
  BY DEF KeptMode, chooser
<1> QED
  BY <1>2, <1>3, <1>4

(***************************************************************************)
(* The server's steps.                                                     *)
(***************************************************************************)

(* A deletion request is refused as it comes too late or too early, or is  *)
(* executed, or begun.                                                     *)
LEMMA DeletionStep ==
  ASSUME IInv, NEW r \in requests, DeletionHandled(r)
  PROVE  IInv'
<1> USE DEF IInv
<1>1. /\ r.thread \in Threads /\ r.mode \in Modes /\ r.key \in Nat
      /\ r.kind = "delete" /\ requests \subseteq Requests
      /\ selected' = selected
      /\ UNCHANGED <<listed, chooser, purge, busy, shown, clicks>>
      /\ troubles' \in Nat
  <2>1. troubles' \in {troubles, troubles + 1}
    BY DEF DeletionHandled, Trouble
  <2>2. troubles \in Nat
    BY DEF ControlsOK
  <2>3. troubles' \in Nat
    BY <2>1, <2>2
  <2> QED
    BY <2>3 DEF DeletionHandled, ControlsOK, Requests
<1>2. CASE Conflicts(r)
  <2>1. requests' = Answered(r, "refused") /\ UNCHANGED server
    BY <1>2 DEF Conflicts, server
  <2>2. ControlsOK' /\ RowsAgree' /\ Forward
    BY <1>1, <2>1, Answering DEF ControlsOK, RowsAgree, Forward, server, chooser, shown
  <2> QED
    BY <1>1, <2>1, <2>2, Answering, ServerStep
<1>3. CASE FoundBusy(r)
  <2>1. /\ requests' = Answered(r, "refused") /\ stored' = stored
        /\ row[r.thread].status = "none"
        /\ row' = [row EXCEPT ![r.thread] =
                     [status |-> "planned", mode |-> r.mode, key |-> r.key]]
    BY <1>3 DEF FoundBusy, Planned
  <2>2. ControlsOK'
    BY <1>1, <2>1, Answering DEF ControlsOK, chooser, shown
  <2>3. RowsAgree' /\ Forward
    BY <1>1, <2>1 DEF ControlsOK, RowsAgree, Forward
  <2> QED
    BY <1>1, <2>1, <2>2, <2>3, Answering, ServerStep
<1>4. CASE Executed(r)
  <2>1. /\ requests' = Answered(r, "ok")
        /\ stored' = [stored EXCEPT ![r.thread] = "removed"]
        /\ row[r.thread].status = "none"
        /\ row' = [row EXCEPT ![r.thread] =
                     [status |-> "completed", mode |-> r.mode, key |-> r.key]]
    BY <1>4 DEF Executed, Planned, Erase
  <2>2. ControlsOK'
    BY <1>1, <2>1, Answering DEF ControlsOK, chooser, shown
  <2>3. RowsAgree' /\ Forward
    BY <1>1, <2>1 DEF ControlsOK, RowsAgree, Forward
  <2>4. Holds("delete", r.thread)' /\ row'[r.thread].mode = r.mode
    BY <1>1, <2>1 DEF ControlsOK, Holds
  <2> QED
    BY <1>1, <2>1, <2>2, <2>3, <2>4, Answering, ServerStep DEF Kinds
<1>5. CASE ExecutedPartly(r)
  <2>1. /\ requests' = Answered(r, "refused")
        /\ stored' \in {stored, [stored EXCEPT ![r.thread] = "removed"]}
        /\ row[r.thread].status = "none"
        /\ row' = [row EXCEPT ![r.thread] =
                     [status |-> "incomplete", mode |-> r.mode, key |-> r.key]]
    BY <1>5 DEF ExecutedPartly, Planned
  <2>2. ControlsOK'
    BY <1>1, <2>1, Answering DEF ControlsOK, chooser, shown
  <2>3. CASE stored' = stored
    <3>1. RowsAgree' /\ Forward
      BY <1>1, <2>1, <2>3 DEF ControlsOK, RowsAgree, Forward
    <3> QED
      BY <1>1, <2>1, <2>2, <3>1, Answering, ServerStep
  <2>4. CASE stored' = [stored EXCEPT ![r.thread] = "removed"]
    <3>1. RowsAgree' /\ Forward
      BY <1>1, <2>1, <2>4 DEF ControlsOK, RowsAgree, Forward
    <3> QED
      BY <1>1, <2>1, <2>2, <3>1, Answering, ServerStep
  <2> QED
    BY <2>1, <2>3, <2>4
<1> QED
  BY <1>2, <1>3, <1>4, <1>5 DEF DeletionHandled

(* The next boot completes an open deletion.                               *)
LEMMA RecoveryStep ==
  ASSUME IInv, NEW th \in Threads, RecoverOnBoot(th)
  PROVE  IInv'
<1> USE DEF IInv
<1>1. /\ row[th].status \in {"planned", "incomplete"}
      /\ row' = [row EXCEPT ![th].status = "completed"]
      /\ stored' = [stored EXCEPT ![th] = "removed"]
      /\ selected' = selected /\ requests' = requests /\ troubles' = troubles
      /\ UNCHANGED <<listed, chooser, purge, busy, shown, clicks>>
  BY DEF RecoverOnBoot, Erase
<1>2. /\ row' \in [Threads -> [status : {"none", "planned", "incomplete", "completed"},
                              mode : Modes, key : Nat]]
      /\ \A x \in Threads : row'[x] = IF x = th THEN [row[th] EXCEPT !.status = "completed"]
                                      ELSE row[x]
      /\ row'[th].status = "completed"
  <2>1. row[th] \in [status : {"none", "planned", "incomplete", "completed"},
                     mode : Modes, key : Nat]
    BY DEF ControlsOK
  <2>2. [row[th] EXCEPT !.status = "completed"] \in
            [status : {"none", "planned", "incomplete", "completed"},
             mode : Modes, key : Nat]
    BY <2>1
  <2> QED
    BY <1>1, <2>1, <2>2 DEF ControlsOK
<1>3. ControlsOK'
  <2>1. stored' \in [Threads -> {"live", "removed", "purged"}]
    BY <1>1 DEF ControlsOK
  <2> QED
    BY <1>1, <1>2, <2>1 DEF ControlsOK, chooser, shown
<1>4. RowsAgree' /\ Forward
  BY <1>1, <1>2 DEF ControlsOK, RowsAgree, Forward
<1> QED
  BY <1>1, <1>3, <1>4, ServerStep

(* A purge is executed or refused.                                         *)
LEMMA PurgeStep ==
  ASSUME IInv, NEW r \in requests, PurgeHandled(r)
  PROVE  IInv'
<1> USE DEF IInv
<1>1. /\ r.thread \in Threads /\ r.kind = "purge" /\ requests \subseteq Requests
      /\ selected' = selected /\ row' = row /\ troubles' = troubles
      /\ UNCHANGED <<listed, chooser, purge, busy, shown, clicks>>
  BY DEF PurgeHandled, ControlsOK, Requests, conversation, vars
<1>2. CASE /\ row[r.thread].status = "completed" /\ stored[r.thread] = "removed"
           /\ stored' = IF row[r.thread].mode = WithMeaning
                        THEN [stored EXCEPT ![r.thread] = "purged"] ELSE stored
           /\ requests' = Answered(r, "ok")
  <2>1. ControlsOK'
    BY <1>1, <1>2, Answering DEF ControlsOK, chooser, shown
  <2>2. RowsAgree' /\ Forward
    BY <1>1, <1>2 DEF ControlsOK, RowsAgree, Forward
  <2>3. Holds("purge", r.thread)'
    BY <1>1, <1>2 DEF ControlsOK, Holds
  <2> QED
    BY <1>1, <1>2, <2>1, <2>2, <2>3, Answering, ServerStep DEF Kinds
<1>3. CASE requests' = Answered(r, "refused") /\ UNCHANGED stored
  <2>1. ControlsOK' /\ RowsAgree' /\ Forward
    BY <1>1, <1>3, Answering DEF ControlsOK, RowsAgree, Forward, chooser, shown
  <2> QED
    BY <1>1, <1>3, <2>1, Answering, ServerStep
<1> QED
  BY <1>2, <1>3 DEF PurgeHandled

(***************************************************************************)
(* The page's steps.                                                       *)
(***************************************************************************)

(* The conversation's own steps leave the controls alone.                  *)
LEMMA ConversationStep ==
  ASSUME IInv, UserStep \/ ReplyStep \/ StopStep, UNCHANGED controls
  PROVE  IInv'
<1>1. selected' \in Threads /\ troubles' \in Nat
  BY Selection DEF IInv, ControlsOK
<1>2. UNCHANGED <<row, stored, listed, deleting, preview, mode, purging, word,
                  busy, notice, error, requests, clicks>>
  BY DEF controls, server, chooser, purge, shown
<1> QED
  BY <1>1, <1>2 DEF IInv, ControlsOK, RowsAgree, AnswersHold, NoticeHolds, Holds, KeptMode

(* A refresh of the list changes nothing else of the controls.             *)
LEMMA ListStep ==
  ASSUME IInv, NEW t \in Turns, NEW ok \in BOOLEAN, SendRefreshes(t, ok)
  PROVE  IInv'
<1>1. /\ selected' = selected /\ troubles' \in {troubles, troubles + 1}
      /\ listed' = IF ok THEN stored ELSE listed
      /\ UNCHANGED <<row, stored, mode, notice, requests, clicks>>
  BY DEF SendRefreshes, SendReturns, Trouble, server, chooser, shown
<1>2. troubles' \in Nat
  <2>1. troubles \in Nat
    BY DEF IInv, ControlsOK
  <2> QED
    BY <1>1, <2>1
<1> QED
  BY <1>1, <1>2 DEF IInv, ControlsOK, RowsAgree, AnswersHold, NoticeHolds, Holds, KeptMode

(* The requests after the mode was set anew: the same, but none of a       *)
(* deletion counts as kept.                                                *)
LEMMA Remoding ==
  ASSUME IInv
  PROVE  /\ Remoded \subseteq Requests
         /\ \A q \in Remoded :
              /\ q.kind = "delete" => ~q.kept
              /\ \E r \in requests : /\ q.kind = r.kind /\ q.thread = r.thread
                                     /\ q.mode = r.mode /\ q.answer = r.answer
<1> SUFFICES ASSUME NEW r \in requests
             PROVE  LET q == [r EXCEPT !.kept = r.kept /\ r.kind # "delete"] IN
                      /\ q \in Requests
                      /\ q.kind = "delete" => ~q.kept
                      /\ q.kind = r.kind /\ q.thread = r.thread
                      /\ q.mode = r.mode /\ q.answer = r.answer
  BY DEF Remoded
<1>1. r \in Requests
  BY DEF IInv, ControlsOK
<1>2. (r.kept /\ r.kind # "delete") \in BOOLEAN
  OBVIOUS
<1> QED
  BY <1>1, <1>2 DEF Requests

(* A request that has not been answered may be added, a deletion in the    *)
(* mode of the chooser.                                                    *)
LEMMA Requested ==
  ASSUME IInv, NEW kind \in Kinds \cup {"preview", "act"}, NEW m \in Modes,
         kind = "delete" => m = mode,
         NEW key \in Nat, requests' = requests \cup {Request(kind, selected, m, key)},
         UNCHANGED <<row, stored, mode>>
  PROVE  requests' \subseteq Requests /\ AnswersHold' /\ KeptMode'
<1>1. /\ Request(kind, selected, m, key) \in Requests
      /\ Request(kind, selected, m, key).answer = "none"
      /\ Request(kind, selected, m, key).kind = kind
      /\ Request(kind, selected, m, key).mode = m
  BY DEF Request, Requests, IInv, ControlsOK
<1> QED
  BY <1>1 DEF IInv, ControlsOK, AnswersHold, Holds, KeptMode

(* A click on one of the controls, or an action on the thread.             *)
LEMMA ControlStep ==
  ASSUME IInv, ControlsStep \/ ThreadAction
  PROVE  IInv'
<1> USE DEF IInv
<1>0. /\ row' = row /\ stored' = stored /\ listed' = listed /\ selected' = selected
      /\ clicks' \in Nat /\ troubles' \in Nat
  <2>1. /\ UNCHANGED <<selected, row, stored, listed>>
        /\ clicks' \in {clicks, clicks + 1} /\ troubles' \in {troubles, troubles + 1}
    BY DEF ControlsStep, OpenChooser, PickMode, CancelChooser, CloseDeletionChooser,
           ConfirmDeletion, OpenPurge, TypeWord, CancelPurge, ConfirmPurge, Click,
           ThreadAction, Trouble, conversation, vars, server
  <2>2. clicks \in Nat /\ troubles \in Nat
    BY DEF ControlsOK
  <2> QED
    BY <2>1, <2>2
<1>1. RowsAgree'
  BY <1>0 DEF RowsAgree
<1>2. CASE OpenChooser
  <2> DEFINE new == Request("preview", selected, "conversation-only", clicks')
  <2>1. /\ requests' = Remoded \cup {new}
        /\ mode' = "conversation-only" /\ notice' = Silent
    BY <1>2 DEF OpenChooser
  <2>2. new \in Requests /\ new.kind = "preview" /\ new.answer = "none"
    BY <1>0 DEF Request, Requests, ControlsOK, Modes
  <2> HIDE DEF new
  <2>3. requests' \subseteq Requests
    BY <2>1, <2>2, Remoding
  <2>4. AnswersHold' /\ KeptMode'
    BY <1>0, <2>1, <2>2, Remoding DEF AnswersHold, Holds, KeptMode
  <2>5. ControlsOK' /\ NoticeHolds'
    BY <1>0, <2>1, <2>3 DEF ControlsOK, NoticeHolds, Silent, Modes
  <2> QED
    BY <1>1, <2>4, <2>5
<1>3. CASE \E m \in Modes : PickMode(m)
  <2>1. requests' = Remoded /\ mode' \in Modes /\ notice' = notice
    BY <1>3 DEF PickMode, shown
  <2>2. requests' \subseteq Requests /\ AnswersHold' /\ KeptMode'
    BY <1>0, <2>1, Remoding DEF AnswersHold, Holds, KeptMode
  <2>3. ControlsOK' /\ NoticeHolds'
    BY <1>0, <2>1, <2>2 DEF ControlsOK, NoticeHolds, Holds
  <2> QED
    BY <1>1, <2>2, <2>3
<1>4. CASE CancelChooser \/ OpenPurge \/ TypeWord \/ CancelPurge
  <2>1. requests' = requests /\ notice' = notice /\ mode' = mode
    BY <1>4 DEF CancelChooser, CloseDeletionChooser, OpenPurge, TypeWord, CancelPurge,
                chooser, shown
  <2> QED
    BY <1>0, <1>1, <2>1 DEF ControlsOK, NoticeHolds, Holds, AnswersHold, KeptMode
<1>5. CASE ConfirmDeletion \/ ConfirmPurge \/ ThreadAction
  <2>1. \E kind \in Kinds \cup {"preview", "act"}, m \in Modes, key \in Nat :
          /\ kind = "delete" => m = mode
          /\ requests' = requests \cup {Request(kind, selected, m, key)}
    <3>1. mode \in Modes /\ "conversation-only" \in Modes /\ {"delete", "purge"} = Kinds
      BY DEF ControlsOK, Modes, Kinds
    <3>2. CASE ConfirmDeletion
      <4>1. requests' = requests \cup {Request("delete", selected, mode, clicks')}
        BY <3>2 DEF ConfirmDeletion
      <4> QED
        BY <1>0, <3>1, <4>1
    <3>3. CASE ConfirmPurge
      <4>1. requests' = requests
                          \cup {Request("purge", selected, "conversation-only", clicks')}
        BY <3>3 DEF ConfirmPurge
      <4> QED
        BY <1>0, <3>1, <4>1
    <3>4. CASE ThreadAction
      <4>1. requests' = requests
                          \cup {Request("act", selected, "conversation-only", troubles)}
        BY <3>4 DEF ThreadAction
      <4>2. troubles \in Nat
        BY DEF ControlsOK
      <4> QED
        BY <3>1, <4>1, <4>2
    <3> QED
      BY <1>5, <3>2, <3>3, <3>4
  <2>2. mode' = mode /\ notice' = notice
    BY <1>5 DEF ConfirmDeletion, ConfirmPurge, ThreadAction, chooser, shown
  <2>3. requests' \subseteq Requests /\ AnswersHold' /\ KeptMode'
    BY <1>0, <2>1, <2>2, Requested
  <2>4. ControlsOK' /\ NoticeHolds'
    BY <1>0, <2>2, <2>3 DEF ControlsOK, NoticeHolds, Holds
  <2> QED
    BY <1>1, <2>3, <2>4
<1> QED
  BY <1>2, <1>3, <1>4, <1>5 DEF ControlsStep

(* The page takes an answer or learns that none will come: at most what    *)
(* was true of an answer becomes a notice.                                 *)
LEMMA PageStep ==
  ASSUME IInv, NEW r \in requests, ActionReturns(r) \/ PreviewReturns(r) \/ Returns(r)
  PROVE  IInv'
<1> USE DEF IInv
<1>0. /\ row' = row /\ stored' = stored /\ selected' = selected /\ clicks' = clicks
      /\ mode' = mode
      /\ troubles' \in Nat
      /\ r \in Requests
  <2>1. /\ row' = row /\ stored' = stored /\ selected' = selected /\ clicks' = clicks
        /\ mode' = mode
        /\ troubles' \in {troubles, troubles + 1}
    BY DEF ActionReturns, Opened, PreviewReturns, Returns, Done, ListReturns, Refusal, Lost,
           CloseDeletionChooser, server, conversation, vars, chooser, Trouble
  <2>2. r \in Requests /\ troubles \in Nat
    BY DEF ControlsOK
  <2> QED
    BY <2>1, <2>2
<1>1. RowsAgree'
  BY <1>0 DEF RowsAgree
<1>2. CASE Done(r) /\ Returns(r)
  <2>1. /\ r.answer = "ok"
        /\ notice' = [said |-> r.kind, thread |-> r.thread, mode |-> mode, kept |-> r.kept]
        /\ requests' = (requests \ {r}) \cup {[r EXCEPT !.answer = "listing"]}
        /\ listed' = listed
    BY <1>2 DEF Done
  <2>2. /\ r.kind \in Kinds /\ Holds(r.kind, r.thread)
        /\ r.kind = "delete" => row[r.thread].mode = r.mode
        /\ r.kind = "delete" /\ r.kept => r.mode = mode
    BY <2>1 DEF AnswersHold, KeptMode
  <2>3. /\ [r EXCEPT !.answer = "listing"] \in Requests
        /\ [r EXCEPT !.answer = "listing"].kind = r.kind
        /\ [r EXCEPT !.answer = "listing"].thread = r.thread
        /\ [r EXCEPT !.answer = "listing"].mode = r.mode
        /\ [r EXCEPT !.answer = "listing"].kept = r.kept
    BY <1>0 DEF Requests
  <2>4. ControlsOK'
    BY <1>0, <2>1, <2>2, <2>3 DEF ControlsOK, Requests, Kinds
  <2>5. NoticeHolds'
    BY <1>0, <2>1, <2>2 DEF NoticeHolds, Holds
  <2>6. \A q \in requests' :
          \/ q \in requests
          \/ /\ q.kind = r.kind /\ q.thread = r.thread
             /\ q.mode = r.mode /\ q.kept = r.kept
    BY <2>1, <2>3
  <2>7. AnswersHold' /\ KeptMode'
    BY <1>0, <2>2, <2>6 DEF AnswersHold, Holds, KeptMode
  <2> QED
    BY <1>1, <2>4, <2>5, <2>7
<1>3. CASE ActionReturns(r) \/ PreviewReturns(r) \/ (ListReturns(r) /\ Returns(r))
  <2>1. /\ requests' \subseteq requests /\ listed' \in {listed, stored} /\ notice' = notice
    BY <1>3 DEF ActionReturns, PreviewReturns, ListReturns, shown
  <2> QED
    BY <1>0, <1>1, <2>1 DEF ControlsOK, AnswersHold, NoticeHolds, Holds, KeptMode
<1>4. CASE (Refusal(r) \/ Lost(r)) /\ Returns(r)
  <2>1. /\ listed' = listed /\ notice' = notice
        /\ \/ requests' = requests \ {r}
           \/ /\ r.answer = "none"
              /\ requests' = (requests \ {r}) \cup {[r EXCEPT !.page = FALSE]}
    BY <1>4 DEF Refusal, Lost
  <2>2. /\ [r EXCEPT !.page = FALSE] \in Requests
        /\ [r EXCEPT !.page = FALSE].kind = r.kind
        /\ [r EXCEPT !.page = FALSE].mode = r.mode
        /\ [r EXCEPT !.page = FALSE].kept = r.kept
        /\ [r EXCEPT !.page = FALSE].answer = r.answer
    BY <1>0 DEF Requests
  <2>3. ControlsOK'
    BY <1>0, <2>1, <2>2 DEF ControlsOK
  <2>4. AnswersHold' /\ KeptMode'
    BY <1>0, <2>1, <2>2 DEF AnswersHold, Holds, KeptMode
  <2> QED
    BY <1>0, <1>1, <2>1, <2>3, <2>4 DEF NoticeHolds, Holds
<1> QED
  BY <1>2, <1>3, <1>4 DEF Returns

(***************************************************************************)
(* The invariant.                                                          *)
(***************************************************************************)

(* It holds when the page is opened.                                       *)
LEMMA InitIInv == PageInit => IInv
<1> SUFFICES ASSUME Init, ControlsInit
             PROVE  IInv
  BY DEF PageInit
<1>1. selected \in Threads /\ troubles \in Nat
  BY WorkspaceAssumption DEF Init
<1>2. ControlsOK
  BY <1>1 DEF ControlsInit, ControlsOK, Silent, Modes
<1> QED
  BY <1>2 DEF ControlsInit, IInv, RowsAgree, AnswersHold, NoticeHolds, Silent, KeptMode

(* Every step of the page, the server or the next boot keeps it.           *)
LEMMA NextIInv == IInv /\ [PageNext]_all => IInv'
<1> SUFFICES ASSUME IInv, [PageNext]_all
             PROVE  IInv'
  OBVIOUS
<1>1. CASE Conversation
  BY <1>1, ConversationStep DEF Conversation
<1>2. CASE ControlsStep \/ ThreadAction
  BY <1>2, ControlStep
<1>3. CASE OwedStep
  BY <1>3, ConversationStep, ListStep, PageStep, DeletionStep, PurgeStep
  DEF OwedStep, AnswerStep
<1>4. CASE \E th \in Threads : RecoverOnBoot(th)
  BY <1>4, RecoveryStep
<1>5. CASE UNCHANGED all
  BY <1>5 DEF all, conversation, vars, controls, server, chooser, purge, shown, IInv,
              ControlsOK, RowsAgree, AnswersHold, NoticeHolds, Holds, KeptMode
<1> QED
  BY <1>1, <1>2, <1>3, <1>4, <1>5 DEF PageNext

(* The invariant holds of every page and server.                           *)
THEOREM ControlsInvariant == PageSpec => []IInv
<1> QED
  BY InitIInv, NextIInv, PTL DEF PageSpec

(* A notice that says a conversation was deleted or purged is true of the  *)
(* thread it was asked for (confirmDeletion, confirmPurge), and stays so:  *)
(* also in what it says of meaning, unless the mode of the chooser was set *)
(* while the request was under way.                                        *)
THEOREM NoticesStayTrue == PageSpec => []NoticesAreTrue
<1>1. IInv => NoticesAreTrue
  BY DEF IInv, NoticeHolds, Holds, NoticesAreTrue, RowsAgree, ControlsOK
<1> QED
  BY <1>1, ControlsInvariant, PTL

(***************************************************************************)
(* The conversation: any number of threads, sends, frames and failures.    *)
(***************************************************************************)

(* The values of the header's connection state and of the record of a      *)
(* send.                                                                   *)
Connections == Busy \cup {"idle", "disconnected", "failed", "completed", "cancelled"}

Sends ==
  [pc : {"idle", "posting", "pumping", "reconciling", "refreshing", "done"},
   thread : Threads \cup {NoThread}, resting : Connections, last : Nat, attempt : Nat,
   alone : BOOLEAN, healed : BOOLEAN]

(* A text in which the frames of a turn stand in their order.              *)
InOrder(text) ==
  \A a, b \in DOMAIN text : a < b /\ text[a][1] = text[b][1] => text[a][2] < text[b][2]

(* The lines of the transcript that is shown.                              *)
Lines ==
  {l \in [role : {"user", "assistant"}, kind : {"live", "restored"}, thread : Threads \cup {NoThread},
          turn : Turns, text : Seq(Turns \X Nat)] : InOrder(l.text)}

(* The types of the conversation, with the order of the frames in each     *)
(* line.                                                                   *)
ConversationOK ==
  /\ turn \in [Turns -> [thread : Threads \cup {NoThread},
                         status : {"none", "running"} \cup Outcomes, emitted : Nat]]
  /\ erased \subseteq Turns
  /\ selected \in Threads
  /\ connection \in Connections
  /\ messages \in Seq(Lines)
  /\ cursorSeq \in Nat
  /\ send \in [Turns -> Sends]
  /\ \A r \in reads : r.thread \in Threads /\ r.by \in 0 .. MaxTurns

(* A send whose pump has not returned.                                     *)
UnderWay(t) == send[t].pc \in {"posting", "pumping", "reconciling"}

(* What a send knows of its turn.                                          *)
SendsFollow ==
  \A t \in Turns :
    /\ send[t].pc \in {"idle", "posting"} => turn[t].status = "none"
    /\ send[t].pc \in {"pumping", "reconciling"} => turn[t].thread = send[t].thread
    /\ send[t].pc = "reconciling" => turn[t].status \in Outcomes

(* The live text was applied from frames up to the last acknowledged.      *)
Acknowledged(line) ==
  line.kind = "live" =>
    \A a \in DOMAIN line.text :
      LET t == line.text[a][1] IN
        send[t].pc \notin {"idle", "posting"} /\ line.text[a][2] <= send[t].last

LiveIsAcknowledged == \A i \in DOMAIN messages : Acknowledged(messages[i])

(* Some turn was cancelled, and its terminal frame was applied.            *)
CancelledTurn(t) == turn[t].status = "cancelled" /\ send[t].last = turn[t].emitted

AuthorityStands ==
  connection = "cancelled" \/ (\E t \in Turns : send[t].resting = "cancelled")
    => \E t \in Turns : CancelledTurn(t)

ReadsFollow ==
  /\ \A r \in reads : r.by # 0 => send[r.by].pc = "reconciling"
  /\ \A r, s \in reads : r.by = s.by /\ r.by # 0 => r = s

(* Of a send that was alone: nothing else is under way, and its thread is  *)
(* the one selected.                                                       *)
Alone(t) ==
  /\ \A u \in Turns : u # t => ~UnderWay(u)
  /\ \A r \in reads : r.by = t /\ r.thread = turn[t].thread
  /\ send[t].thread = selected
  /\ send[t].pc # "posting" => OpenTurnOf(turn[t].thread) \subseteq {t}

(* Of a send that was alone and has reconciled: the page shows the durable *)
(* transcript, and nothing is left that could change it.                   *)
Healed(t) ==
  /\ \A u \in Turns : ~UnderWay(u)
  /\ send[t].pc \in {"refreshing", "done"}
  /\ reads = {}
  /\ OpenTurnOf(turn[t].thread) = {}
  /\ messages = Transcript(turn[t].thread)

AloneIsAlone ==
  \A t \in Turns : /\ send[t].alone /\ UnderWay(t) => Alone(t)
                   /\ send[t].healed => Healed(t)

(* The inductive invariant of the conversation.                            *)
CInv ==
  /\ ConversationOK
  /\ SendsFollow
  /\ LiveIsAcknowledged
  /\ AuthorityStands
  /\ ReadsFollow
  /\ AloneIsAlone

(* FlattenSeq is defined by a function that is defined by its own values:  *)
(* there is one, and all its values are sequences of what is flattened.    *)
Flattens(f, seqs, n) ==
  f = [i \in 1 .. n |-> IF i = 1 THEN seqs[i] ELSE f[i - 1] \o seqs[i]]

(* The function exists for every length: a least length without one is     *)
(* neither 0 nor the successor of a length with one.                       *)
LEMMA FlattenExists ==
  ASSUME NEW seqs, NEW n \in Nat
  PROVE  \E f : Flattens(f, seqs, n)
<1> DEFINE bad == {k \in Nat : ~ \E f : Flattens(f, seqs, k)}
<1>1. SUFFICES ASSUME bad # {}
               PROVE  FALSE
  OBVIOUS
<1>2. PICK m \in bad : \A k \in bad : ~(<<k, m>> \in OpToRel(<, Nat))
  BY <1>1, WFMin, NatLessThanWellFounded
<1>3. m \in Nat /\ ~ \E f : Flattens(f, seqs, m)
  OBVIOUS
<1>4. CASE m = 0
  <2>1. Flattens([i \in 1 .. 0 |-> 0], seqs, 0)
    BY DEF Flattens
  <2> QED
    BY <1>3, <1>4, <2>1
<1>5. CASE m # 0
  <2>1. m - 1 \in Nat /\ m - 1 < m
    BY <1>3, <1>5
  <2>2. m - 1 \notin bad
    BY <1>2, <1>3, <2>1 DEF OpToRel
  <2>3. PICK f : Flattens(f, seqs, m - 1)
    BY <2>1, <2>2
  <2> DEFINE g == [i \in 1 .. m |-> IF i = m THEN IF m = 1 THEN seqs[m]
                                                          ELSE f[m - 1] \o seqs[m]
                                             ELSE f[i]]
  <2>4. ASSUME NEW i \in 1 .. m
        PROVE  g[i] = IF i = 1 THEN seqs[i] ELSE g[i - 1] \o seqs[i]
    <3>1. CASE i = m
      BY <1>3, <3>1
    <3>2. CASE i # m
      <4>1. i \in 1 .. m - 1
        BY <1>3, <3>2
      <4>2. f[i] = IF i = 1 THEN seqs[i] ELSE f[i - 1] \o seqs[i]
        BY <2>3, <4>1 DEF Flattens
      <4>3. g[i] = f[i] /\ (i # 1 => g[i - 1] = f[i - 1])
        BY <1>3, <3>2, <4>1
      <4> QED
        BY <4>2, <4>3
    <3> QED
      BY <3>1, <3>2
  <2>5. g = [i \in 1 .. m |-> g[i]]
    OBVIOUS
  <2> HIDE DEF g
  <2>6. Flattens(g, seqs, m)
    BY <2>4, <2>5 DEF Flattens
  <2> QED
    BY <1>3, <2>6
<1> QED
  BY <1>4, <1>5

(* Flattening sequences of elements of S makes a sequence of elements of   *)
(* S.                                                                      *)
LEMMA FlattenRange ==
  ASSUME NEW S, NEW seqs, Len(seqs) \in Nat \ {0},
         \A i \in 1 .. Len(seqs) : seqs[i] \in Seq(S)
  PROVE  FlattenSeq(seqs) \in Seq(S)
<1> DEFINE n == Len(seqs)
           f == CHOOSE g : Flattens(g, seqs, n)
           bad == {k \in 1 .. n : f[k] \notin Seq(S)}
<1>1. FlattenSeq(seqs) = f[n]
  BY DEF FlattenSeq, Flattens
<1>2. Flattens(f, seqs, n)
  BY FlattenExists
<1> HIDE DEF f
<1>3. \A i \in 1 .. n : f[i] = IF i = 1 THEN seqs[i] ELSE f[i - 1] \o seqs[i]
  BY <1>2 DEF Flattens
<1>4. bad = {}
  <2>1. SUFFICES ASSUME bad # {}
                 PROVE  FALSE
    OBVIOUS
  <2>2. bad \subseteq Nat
    OBVIOUS
  <2>3. PICK m \in bad : \A k \in bad : ~(<<k, m>> \in OpToRel(<, Nat))
    BY <2>1, <2>2, WFMin, NatLessThanWellFounded
  <2>4. m \in 1 .. n /\ f[m] \notin Seq(S)
    OBVIOUS
  <2>5. m # 1
    BY <1>3, <2>4
  <2>6. m - 1 \in 1 .. n /\ m - 1 \in Nat /\ m \in Nat /\ m - 1 < m
    BY <2>4, <2>5
  <2>7. m - 1 \notin bad
    BY <2>3, <2>6 DEF OpToRel
  <2>8. f[m - 1] \in Seq(S) /\ seqs[m] \in Seq(S)
    BY <2>4, <2>6, <2>7
  <2>9. f[m - 1] \o seqs[m] \in Seq(S)
    BY <2>8
  <2> QED
    BY <1>3, <2>4, <2>5, <2>9
<1> QED
  BY <1>1, <1>4

USE WorkspaceAssumption

(* What is assumed of the constants, part by part.                         *)
LEMMA Constants ==
  /\ MaxTurns \in Nat \ {0} /\ MaxSeq \in Nat \ {0}
  /\ Outcomes \subseteq {"completed", "failed", "cancelled"}
  /\ First \in Threads /\ NoThread \notin Threads
  OBVIOUS

(* What a step that leaves the conversation alone leaves.                  *)
view == <<turn, erased, selected, connection, messages, cursorSeq, send, reads>>

(* The transcript of a thread depends on the turns of that thread only.    *)
LEMMA TranscriptSame ==
  ASSUME NEW th, erased' = erased,
         \A t \in Turns : turn[t].thread = th \/ turn'[t].thread = th => turn'[t] = turn[t]
  PROVE  Transcript(th)' = Transcript(th)
<1> DEFINE Of(t) == IF turn[t].thread # th \/ t \in erased THEN << >>
                    ELSE <<Line("user", "restored", th, t, << >>)>>
                         \o IF turn[t].status \in Outcomes /\ Deltas(t) # {}
                            THEN <<Line("assistant", "restored", th, t,
                                        [n \in 1 .. Cardinality(Deltas(t)) |-> <<t, n + 1>>])>>
                            ELSE << >>
<1>1. ASSUME NEW t \in Turns
      PROVE  Of(t)' = Of(t)
  <2>1. CASE turn[t].thread = th \/ turn'[t].thread = th
    <3>1. turn'[t] = turn[t]
      BY <2>1
    <3>2. Deltas(t)' = Deltas(t)
      BY <3>1 DEF Deltas, IsDelta, IsTerminalFrame
    <3> QED
      BY <3>1, <3>2
  <2>2. CASE ~(turn[t].thread = th \/ turn'[t].thread = th)
    BY <2>2
  <2> QED
    BY <2>1, <2>2
<1>2. /\ Transcript(th) = FlattenSeq([t \in Turns |-> Of(t)])
      /\ Transcript(th)' = FlattenSeq([t \in Turns |-> Of(t)'])
  BY DEF Transcript
<1>3. [t \in Turns |-> Of(t)'] = [t \in Turns |-> Of(t)]
  BY <1>1
<1> QED
  BY <1>2, <1>3

(* The lines a transcript read installs.                                   *)
Restored == {l \in Lines : l.kind = "restored"}

(* A transcript is made of restored lines, each with its frames in order.  *)
LEMMA TranscriptOK ==
  ASSUME ConversationOK, NEW th \in Threads
  PROVE  Transcript(th) \in Seq(Restored)
<1> DEFINE text(t) == [n \in 1 .. Cardinality(Deltas(t)) |-> <<t, n + 1>>]
           Of(t) == IF turn[t].thread # th \/ t \in erased THEN << >>
                    ELSE <<Line("user", "restored", th, t, << >>)>>
                         \o IF turn[t].status \in Outcomes /\ Deltas(t) # {}
                            THEN <<Line("assistant", "restored", th, t, text(t))>>
                            ELSE << >>
           seqs == [t \in Turns |-> Of(t)]
<1>1. ASSUME NEW t \in Turns
      PROVE  Of(t) \in Seq(Restored)
  <2>1. Cardinality(Deltas(t)) \in Nat
    <3>1. turn[t].emitted \in Nat
      BY DEF ConversationOK
    <3>2. IsFiniteSet(1 .. turn[t].emitted)
      <4> DEFINE e == turn[t].emitted
      <4>1. e \in Int
        BY <3>1
      <4> HIDE DEF e
      <4>2. IsFiniteSet(1 .. e)
        BY <4>1, FS_Interval
      <4> QED
        BY <4>2 DEF e
    <3>3. Deltas(t) \subseteq 1 .. turn[t].emitted
      BY DEF Deltas
    <3> QED
      BY <3>2, <3>3, FS_Subset, FS_CardinalityType
  <2>2. text(t) \in Seq(Turns \X Nat) /\ InOrder(text(t))
    <3> DEFINE k == Cardinality(Deltas(t))
    <3> HIDE DEF k
    <3>1. [n \in 1 .. k |-> <<t, n + 1>>] \in Seq(Turns \X Nat)
      BY <2>1 DEF k
    <3>2. InOrder([n \in 1 .. k |-> <<t, n + 1>>])
      BY <2>1 DEF InOrder, k
    <3> QED
      BY <3>1, <3>2 DEF k
  <2> HIDE DEF text
  <2>3. Line("assistant", "restored", th, t, text(t)) \in Restored
    BY <2>2 DEF Line, Restored, Lines
  <2>4. Line("user", "restored", th, t, << >>) \in Restored
    BY DEF Line, Restored, Lines, InOrder
  <2> QED
    BY <2>3, <2>4
<1> HIDE DEF Of
<1>2. Len(seqs) = MaxTurns /\ MaxTurns \in Nat \ {0}
  BY Constants DEF Turns
<1>3. \A i \in 1 .. Len(seqs) : seqs[i] \in Seq(Restored)
  BY <1>1, <1>2 DEF Turns
<1>4. Transcript(th) = FlattenSeq(seqs)
  BY DEF Transcript, Of
<1> HIDE DEF seqs
<1> QED
  BY <1>2, <1>3, <1>4, FlattenRange

(* What the two updates of a send leave of it.                             *)
LEMMA DisturbedSends ==
  ASSUME ConversationOK
  PROVE  /\ Disturbed \in [Turns -> Sends]
         /\ \A u \in Turns : /\ Disturbed[u].pc = send[u].pc
                             /\ Disturbed[u].thread = send[u].thread
                             /\ Disturbed[u].resting = send[u].resting
                             /\ Disturbed[u].last = send[u].last
                             /\ ~Disturbed[u].alone /\ ~Disturbed[u].healed
<1>1. ASSUME NEW u \in Turns
      PROVE  /\ Disturbed[u] \in Sends
             /\ Disturbed[u].pc = send[u].pc
             /\ Disturbed[u].thread = send[u].thread
             /\ Disturbed[u].resting = send[u].resting
             /\ Disturbed[u].last = send[u].last
             /\ ~Disturbed[u].alone /\ ~Disturbed[u].healed
  <2>1. Disturbed[u] = [send[u] EXCEPT !.alone = FALSE, !.healed = FALSE]
    BY DEF Disturbed
  <2>2. send[u] \in Sends
    BY DEF ConversationOK
  <2> QED
    BY <2>1, <2>2 DEF Sends
<1>2. Disturbed = [u \in Turns |-> Disturbed[u]]
  BY DEF Disturbed
<1> QED
  BY <1>1, <1>2

(* What the end of a send, or of its pump, leaves.                         *)
LEMMA LeftSends ==
  ASSUME ConversationOK, NEW t \in Turns, NEW pc \in {"refreshing", "done"}
  PROVE  /\ Left(t, pc) \in [Turns -> Sends]
         /\ \A u \in Turns : /\ u # t => Left(t, pc)[u] = send[u]
                             /\ Left(t, pc)[u].last = send[u].last
                             /\ Left(t, pc)[u].alone = send[u].alone
                             /\ Left(t, pc)[u].healed = send[u].healed
         /\ Left(t, pc)[t].pc = pc /\ Left(t, pc)[t].resting = "idle"
<1>1. Left(t, pc) = [send EXCEPT ![t] = [send[t] EXCEPT !.pc = pc, !.attempt = 0,
                                          !.resting = "idle", !.thread = NoThread]]
  BY DEF Left, ConversationOK, Sends
<1> DEFINE s == [send[t] EXCEPT !.pc = pc, !.attempt = 0, !.resting = "idle",
                                !.thread = NoThread]
<1>2. send[t] \in Sends
  BY DEF ConversationOK
<1>4. "idle" \in Connections \ Busy
  BY DEF Connections, Busy, InFlight
<1>5. /\ s.last = send[t].last /\ s.alone = send[t].alone
      /\ s.healed = send[t].healed /\ s.pc = pc /\ s.resting = "idle"
  BY <1>2 DEF Sends
<1>6. s \in Sends
  BY <1>2, <1>4 DEF Sends
<1> HIDE DEF s
<1>3. Left(t, pc) = [send EXCEPT ![t] = s]
  BY <1>1 DEF s
<1> QED
  BY <1>3, <1>5, <1>6 DEF ConversationOK

(* When a send is under way no other one is alone, and none has healed the *)
(* page.                                                                   *)
LEMMA OnlyOne ==
  ASSUME CInv, NEW t \in Turns, UnderWay(t)
  PROVE  /\ \A u \in Turns : ~send[u].healed
         /\ \A u \in Turns : send[u].alone /\ UnderWay(u) => u = t
  BY DEF CInv, AloneIsAlone, Alone, Healed

(* No send is taken back.                                                  *)
Advance ==
  \A t \in Turns :
    send[t].pc \notin {"idle", "posting"} =>
      send'[t].pc \notin {"idle", "posting"} /\ send[t].last <= send'[t].last

(* A live line that is kept stays acknowledged.                            *)
LEMMA LinesKept ==
  ASSUME CInv, Advance, messages' \in Seq(Lines), ConversationOK',
         \A i \in DOMAIN messages' :
           messages'[i].kind = "live" /\ DOMAIN messages'[i].text # {}
             => \E j \in DOMAIN messages : messages'[i] = messages[j]
  PROVE  LiveIsAcknowledged'
<1> SUFFICES ASSUME NEW i \in DOMAIN messages', messages'[i].kind = "live",
                    NEW a \in DOMAIN messages'[i].text
             PROVE  LET t == messages'[i].text[a][1] IN
                      /\ send'[t].pc \notin {"idle", "posting"}
                      /\ messages'[i].text[a][2] <= send'[t].last
  BY DEF LiveIsAcknowledged, Acknowledged
<1>1. PICK j \in DOMAIN messages : messages'[i] = messages[j]
  OBVIOUS
<1> DEFINE t == messages[j].text[a][1]
           n == messages[j].text[a][2]
<1>2. messages[j] \in Lines
  BY DEF CInv, ConversationOK
<1>3. a \in DOMAIN messages[j].text /\ messages[j].text \in Seq(Turns \X Nat)
  BY <1>1, <1>2 DEF Lines
<1>4. t \in Turns /\ n \in Nat
  BY <1>3
<1>5. send[t].pc \notin {"idle", "posting"} /\ n <= send[t].last
  BY <1>1, <1>3 DEF CInv, LiveIsAcknowledged, Acknowledged
<1>6. send'[t].pc \notin {"idle", "posting"} /\ send[t].last <= send'[t].last
  BY <1>4, <1>5 DEF Advance
<1>7. send[t].last \in Nat /\ send'[t].last \in Nat
  BY <1>4 DEF CInv, ConversationOK, Sends
<1>8. n <= send'[t].last
  BY <1>4, <1>5, <1>6, <1>7
<1> QED
  BY <1>1, <1>6, <1>8

(* A cancellation that was applied is not forgotten.                       *)
LEMMA AuthorityKept ==
  ASSUME CInv, \A t \in Turns : CancelledTurn(t) => CancelledTurn(t)',
         connection' = "cancelled" =>
           \/ connection = "cancelled" \/ \E u \in Turns : send[u].resting = "cancelled"
           \/ \E u \in Turns : CancelledTurn(u)',
         \A t \in Turns : send'[t].resting = "cancelled" =>
           connection = "cancelled" \/ \E u \in Turns : send[u].resting = "cancelled"
  PROVE  AuthorityStands'
  BY DEF CInv, AuthorityStands

(* What the conversation knows survives what does not touch it.            *)
LEMMA ViewSame ==
  ASSUME CInv, UNCHANGED view
  PROVE  CInv'
<1> USE DEF view
<1>1. ConversationOK' /\ SendsFollow' /\ ReadsFollow'
  BY DEF CInv, ConversationOK, SendsFollow, ReadsFollow
<1>2. LiveIsAcknowledged'
  BY DEF CInv, LiveIsAcknowledged, Acknowledged
<1>3. AuthorityStands'
  BY DEF CInv, AuthorityStands, CancelledTurn
<1>4. AloneIsAlone'
  <2>1. \A t \in Turns : Alone(t)' = Alone(t)
    BY DEF Alone, UnderWay, OpenTurnOf
  <2>2. ASSUME NEW t \in Turns, Healed(t)
        PROVE  Healed(t)'
    <3>1. PICK th : th = turn[t].thread
      OBVIOUS
    <3>2. Transcript(th)' = Transcript(th)
      BY TranscriptSame
    <3> QED
      BY <2>2, <3>1, <3>2 DEF Healed, UnderWay, OpenTurnOf
  <2> QED
    BY <2>1, <2>2 DEF CInv, AloneIsAlone, UnderWay
<1> QED
  BY <1>1, <1>2, <1>3, <1>4 DEF CInv

(* Only the connection changes, and it does not become cancelled.          *)
LEMMA ConnectionChanges ==
  ASSUME CInv, UNCHANGED <<turn, erased, selected, messages, cursorSeq, send, reads>>,
         connection' \in Connections, connection' = "cancelled" => connection = "cancelled"
  PROVE  CInv'
<1>1. ConversationOK' /\ SendsFollow' /\ ReadsFollow'
  BY DEF CInv, ConversationOK, SendsFollow, ReadsFollow
<1>2. LiveIsAcknowledged'
  BY DEF CInv, LiveIsAcknowledged, Acknowledged
<1>3. AuthorityStands'
  BY DEF CInv, AuthorityStands, CancelledTurn
<1>4. AloneIsAlone'
  <2>1. \A t \in Turns : Alone(t)' = Alone(t)
    BY DEF Alone, UnderWay, OpenTurnOf
  <2>2. ASSUME NEW t \in Turns, Healed(t)
        PROVE  Healed(t)'
    <3>1. PICK th : th = turn[t].thread
      OBVIOUS
    <3>2. Transcript(th)' = Transcript(th)
      BY TranscriptSame
    <3> QED
      BY <2>2, <3>1, <3>2 DEF Healed, UnderWay, OpenTurnOf
  <2> QED
    BY <2>1, <2>2 DEF CInv, AloneIsAlone, UnderWay
<1> QED
  BY <1>1, <1>2, <1>3, <1>4 DEF CInv

(* Taking back the last line keeps the others.                             *)
LEMMA FrontLines ==
  ASSUME messages \in Seq(Lines), messages # << >>
  PROVE  /\ Front(messages) \in Seq(Lines)
         /\ \A i \in DOMAIN Front(messages) : i \in DOMAIN messages
                                              /\ Front(messages)[i] = messages[i]
  BY DEF Front

(* The turn of an accepted send.                                           *)
LEMMA Admission ==
  ASSUME ConversationOK, NEW t \in Turns
  PROVE  /\ Admitted(t) \in [Turns -> [thread : Threads \cup {NoThread},
                                        status : {"none", "running"} \cup Outcomes,
                                        emitted : Nat]]
         /\ \A u \in Turns : u # t => Admitted(t)[u] = turn[u]
         /\ Admitted(t)[t].thread = send[t].thread
         /\ Admitted(t)[t].status = "running"
<1> DEFINE r == [turn[t] EXCEPT !.thread = send[t].thread, !.status = "running",
                                !.emitted = MaxSeq - 1]
<1>1. MaxSeq - 1 \in Nat /\ send[t].thread \in Threads \cup {NoThread}
  BY Constants DEF ConversationOK, Sends
<1>2. /\ r \in [thread : Threads \cup {NoThread}, status : {"none", "running"} \cup Outcomes,
                 emitted : Nat]
      /\ r.thread = send[t].thread /\ r.status = "running"
  BY <1>1 DEF ConversationOK
<1>3. Admitted(t) = [turn EXCEPT ![t] = r]
  BY DEF Admitted, ConversationOK
<1> HIDE DEF r
<1> QED
  BY <1>2, <1>3 DEF ConversationOK

(* Every way a send or its pump can end short of the terminal frame:       *)
(* refused, failed, or given up.                                           *)
LEMMA Ending ==
  ASSUME CInv, NEW t \in Turns, send[t].pc \in {"posting", "pumping"},
         send' \in {Refreshing(t), Ended(t)}, connection' \in Connections,
         connection' = "cancelled" => connection = "cancelled" \/ send[t].resting = "cancelled",
         messages' = messages \/ (messages # << >> /\ messages' = Front(messages)),
         turn' = turn \/ (send[t].pc = "posting" /\ turn' = Admitted(t)),
         erased' = erased, selected' = selected, cursorSeq' = cursorSeq, reads' = reads
  PROVE  CInv'
<1>1. /\ send' \in [Turns -> Sends]
      /\ \A u \in Turns : /\ u # t => send'[u] = send[u]
                          /\ send'[u].last = send[u].last
                          /\ send'[u].alone = send[u].alone
                          /\ send'[u].healed = send[u].healed
      /\ send'[t].pc \in {"refreshing", "done"} /\ send'[t].resting = "idle"
  BY LeftSends DEF CInv, Refreshing, Ended
<1>2. messages' \in Seq(Lines)
      /\ \A i \in DOMAIN messages' : i \in DOMAIN messages /\ messages'[i] = messages[i]
  BY FrontLines DEF CInv, ConversationOK
<1>3. \A u \in Turns : u # t => turn'[u] = turn[u]
  BY Admission DEF CInv
<1>4. turn' \in [Turns -> [thread : Threads \cup {NoThread},
                           status : {"none", "running"} \cup Outcomes, emitted : Nat]]
  BY Admission DEF CInv, ConversationOK
<1>5. ConversationOK'
  BY <1>1, <1>2, <1>4 DEF CInv, ConversationOK
<1>6. SendsFollow'
  BY <1>1, <1>3 DEF CInv, SendsFollow
<1>7. LiveIsAcknowledged'
  <2>1. Advance
    <3>1. \A u \in Turns : send[u].last \in Nat
      BY DEF CInv, ConversationOK, Sends
    <3> QED
      BY <1>1, <3>1 DEF Advance
  <2> QED
    BY <1>2, <1>5, <2>1, LinesKept
<1>8. AuthorityStands'
  <2>1. \A u \in Turns : CancelledTurn(u) => CancelledTurn(u)'
    <3>1. turn[t].status = "cancelled" => turn' = turn
      BY DEF CInv, SendsFollow
    <3> QED
      BY <1>1, <1>3, <3>1 DEF CancelledTurn
  <2>2. \A u \in Turns : send'[u].resting = "cancelled" => send[u].resting = "cancelled"
    BY <1>1
  <2> QED
    BY <2>1, <2>2, AuthorityKept
<1>9. ReadsFollow'
  <2>1. \A r \in reads : r.by # t
    BY Constants DEF CInv, ReadsFollow, Turns
  <2>2. \A r \in reads : r.by # 0 => r.by \in Turns
    BY Constants DEF CInv, ConversationOK, Turns
  <2> QED
    BY <1>1, <2>1, <2>2 DEF CInv, ReadsFollow
<1>10. AloneIsAlone'
  <2>1. UnderWay(t)
    BY DEF UnderWay
  <2> QED
    BY <1>1, <2>1, OnlyOne DEF AloneIsAlone, UnderWay
<1> QED
  BY <1>5, <1>6, <1>7, <1>8, <1>9, <1>10 DEF CInv

(* The stream drops: another attempt, or the end of the send.              *)
LEMMA DropKeeps ==
  ASSUME CInv, NEW t \in Turns, Dropped(t)
  PROVE  CInv'
<1> USE DEF CInv
<1>0. connection' \in Connections /\ (connection' = "cancelled" => connection = "cancelled")
  BY DEF Dropped, Gone, ConversationOK, Connections, Busy
<1>1. CASE Gone(t)
  <2>1. UNCHANGED <<turn, erased, selected, messages, cursorSeq, reads>>
    BY DEF Dropped, vict
  <2>2. send' = Refreshing(t) /\ send[t].pc = "pumping"
    BY <1>1 DEF Gone, Dropped
  <2> QED
    BY <1>0, <2>1, <2>2, Ending
<1>2. CASE ~Gone(t)
  <2>1. /\ send' = [send EXCEPT ![t].attempt = @ + 1]
        /\ UNCHANGED <<turn, erased, selected, messages, cursorSeq, reads>>
    BY <1>2 DEF Dropped, vict
  <2> DEFINE s == [send[t] EXCEPT !.attempt = @ + 1]
  <2>0. send[t] \in Sends /\ send[t].attempt + 1 \in Nat
    BY DEF ConversationOK, Sends
  <2>2. /\ s \in Sends /\ s.pc = send[t].pc /\ s.thread = send[t].thread
        /\ s.resting = send[t].resting /\ s.last = send[t].last
        /\ s.alone = send[t].alone /\ s.healed = send[t].healed
    BY <2>0 DEF Sends
  <2>3. send' = [send EXCEPT ![t] = s]
    BY <2>1 DEF ConversationOK
  <2> HIDE DEF s
  <2>4. /\ send' \in [Turns -> Sends]
        /\ \A u \in Turns : /\ send'[u].pc = send[u].pc
                            /\ send'[u].thread = send[u].thread
                            /\ send'[u].resting = send[u].resting
                            /\ send'[u].last = send[u].last
                            /\ send'[u].alone = send[u].alone
                            /\ send'[u].healed = send[u].healed
    BY <2>2, <2>3 DEF ConversationOK
  <2>5. ConversationOK'
    BY <1>0, <2>1, <2>4 DEF ConversationOK
  <2>6. SendsFollow'
    BY <2>1, <2>4 DEF SendsFollow
  <2>7. ReadsFollow'
    <3>1. \A r \in reads : r.by # 0 => r.by \in Turns
      BY DEF ConversationOK, Turns
    <3> QED
      BY <2>1, <2>4, <3>1 DEF ReadsFollow
  <2>8. LiveIsAcknowledged'
    <3>1. \A u \in Turns : send[u].last \in Nat
      BY DEF ConversationOK, Sends
    <3>2. Advance
      BY <2>4, <3>1 DEF Advance
    <3> QED
      BY <2>1, <2>5, <3>2, LinesKept DEF ConversationOK
  <2>9. AuthorityStands'
    BY <1>0, <2>1, <2>4 DEF AuthorityStands, CancelledTurn
  <2>10. AloneIsAlone'
    <3>1. \A u \in Turns : Alone(u) => Alone(u)'
      BY <2>1, <2>4 DEF Alone, UnderWay, OpenTurnOf
    <3>2. UnderWay(t)
      BY DEF Dropped, UnderWay
    <3>3. \A u \in Turns : ~send[u].healed
      BY <3>2, OnlyOne
    <3> QED
      BY <2>4, <3>1, <3>3 DEF AloneIsAlone, UnderWay
  <2> QED
    BY <2>5, <2>6, <2>7, <2>8, <2>9, <2>10
<1> QED
  BY <1>1, <1>2

(* The server refuses the stream.                                          *)
LEMMA RefusalKeeps ==
  ASSUME CInv, NEW t \in Turns, Refused(t)
  PROVE  CInv'
<1>1. /\ send' = Refreshing(t) /\ send[t].pc = "pumping"
      /\ UNCHANGED <<turn, erased, selected, messages, cursorSeq, reads>>
  BY DEF Refused, Gone, vict
<1>2. connection' \in Connections /\ (connection' = "cancelled" => connection = "cancelled")
  BY DEF Refused, Gone, CInv, ConversationOK, Connections, Busy
<1> QED
  BY <1>1, <1>2, Ending

(* A frame is malformed or the reader fails.                               *)
LEMMA FailedPumpKeeps ==
  ASSUME CInv, NEW t \in Turns, PumpFails(t)
  PROVE  CInv'
<1>1. /\ send' \in {Refreshing(t), Ended(t)} /\ send[t].pc = "pumping"
      /\ connection' = "failed"
      /\ UNCHANGED <<turn, erased, selected, messages, cursorSeq, reads>>
  BY DEF PumpFails, vict
<1> QED
  BY <1>1, Ending DEF Connections

(* The thread has an open turn: the line of the message is taken back.     *)
LEMMA RefusedSendKeeps ==
  ASSUME CInv, NEW t \in Turns, SendRefused(t)
  PROVE  CInv'
<1>1. /\ send' = Ended(t) /\ send[t].pc = "posting"
      /\ connection' = send[t].resting
      /\ messages' = messages \/ (messages # << >> /\ messages' = Front(messages))
      /\ UNCHANGED <<turn, erased, selected, cursorSeq, reads>>
  BY DEF SendRefused, vict
<1>2. send[t].resting \in Connections
  BY DEF CInv, ConversationOK, Sends
<1> QED
  BY <1>1, <1>2, Ending

(* The request fails, with its turn admitted or not.                       *)
LEMMA FailedSendKeeps ==
  ASSUME CInv, NEW t \in Turns, SendFails(t)
  PROVE  CInv'
<1>1. /\ send' = Ended(t) /\ send[t].pc = "posting"
      /\ connection' = "failed"
      /\ turn' = turn \/ turn' = Admitted(t)
      /\ UNCHANGED <<erased, selected, messages, cursorSeq, reads>>
  BY DEF SendFails
<1> QED
  BY <1>1, Ending DEF Connections

(* A turn ends: a healed page shows another thread, or there was none to   *)
(* end.                                                                    *)
LEMMA FinishKeeps ==
  ASSUME CInv, NEW t \in Turns, NEW o \in Outcomes, Finish(t, o)
  PROVE  CInv'
<1> USE DEF CInv
<1>1. /\ turn[t].status = "running"
      /\ UNCHANGED <<erased, selected, connection, messages, cursorSeq, send, reads>>
  BY DEF Finish
<1> DEFINE r == [turn[t] EXCEPT !.status = o, !.emitted = MaxSeq]
<1>2. /\ r \in [thread : Threads \cup {NoThread}, status : {"none", "running"} \cup Outcomes,
                emitted : Nat]
      /\ r.thread = turn[t].thread /\ r.status = o
  BY Constants DEF ConversationOK
<1>3. turn' = [turn EXCEPT ![t] = r]
  BY DEF Finish, ConversationOK
<1> HIDE DEF r
<1>4. /\ turn' \in [Turns -> [thread : Threads \cup {NoThread},
                              status : {"none", "running"} \cup Outcomes, emitted : Nat]]
      /\ \A u \in Turns : u # t => turn'[u] = turn[u]
      /\ turn'[t].thread = turn[t].thread /\ turn'[t].status = o
  BY <1>2, <1>3 DEF ConversationOK
<1>5. o # "running" /\ o # "none" /\ "running" \notin Outcomes
  BY Constants
<1>6. ConversationOK'
  BY <1>1, <1>4 DEF ConversationOK
<1>7. SendsFollow'
  BY <1>1, <1>4, <1>5 DEF SendsFollow
<1>8. ReadsFollow' /\ LiveIsAcknowledged'
  BY <1>1 DEF ReadsFollow, LiveIsAcknowledged, Acknowledged
<1>9. AuthorityStands'
  <2>1. \A u \in Turns : CancelledTurn(u) => CancelledTurn(u)'
    BY <1>1, <1>4 DEF CancelledTurn
  <2> QED
    BY <1>1, <2>1, AuthorityKept
<1>10. AloneIsAlone'
  <2>1. \A u \in Turns : turn'[u].thread = turn[u].thread
    BY <1>4
  <2>2. \A th : OpenTurnOf(th)' \subseteq OpenTurnOf(th)
    BY <1>1, <1>4, <1>5 DEF OpenTurnOf
  <2>3. \A u \in Turns : Alone(u) => Alone(u)'
    <3> SUFFICES ASSUME NEW u \in Turns, Alone(u)
                 PROVE  Alone(u)'
      OBVIOUS
    <3>1. PICK th : th = turn[u].thread
      OBVIOUS
    <3>2. OpenTurnOf(th)' \subseteq OpenTurnOf(th)
      BY <2>2
    <3> QED
      BY <1>1, <2>1, <3>1, <3>2 DEF Alone, UnderWay, OpenTurnOf
  <2>4. \A u \in Turns : Healed(u) => Healed(u)'
    <3> SUFFICES ASSUME NEW u \in Turns, Healed(u)
                 PROVE  Healed(u)'
      OBVIOUS
    <3>1. PICK th : th = turn[u].thread
      OBVIOUS
    <3>2. turn[t].thread # th
      BY <1>1, <3>1 DEF Healed, OpenTurnOf
    <3>3. Transcript(th)' = Transcript(th)
      BY <1>1, <1>4, <2>1, <3>2, TranscriptSame
    <3>4. OpenTurnOf(th)' = {}
      BY <2>2, <3>1 DEF Healed
    <3>5. turn'[u].thread = th
      BY <2>1, <3>1
    <3> QED
      BY <1>1, <3>1, <3>3, <3>4, <3>5 DEF Healed, UnderWay, OpenTurnOf
  <2> QED
    BY <1>1, <2>3, <2>4 DEF AloneIsAlone, UnderWay
<1> QED
  BY <1>6, <1>7, <1>8, <1>9, <1>10

(* Opening a thread clears what is shown and disturbs every send.          *)
LEMMA OpeningKeeps ==
  ASSUME CInv, NEW th \in Threads, NEW id, Opened(th, id)
  PROVE  CInv'
<1> USE DEF CInv
<1> DEFINE new == [thread |-> th, by |-> 0, id |-> id]
<1>1. /\ selected' = th /\ messages' = << >> /\ connection' = "idle"
      /\ send' = Disturbed /\ UNCHANGED <<turn, erased, cursorSeq>>
      /\ reads' = reads \cup {new}
  BY DEF Opened, vict
<1>2. /\ send' \in [Turns -> Sends]
      /\ \A u \in Turns : /\ send'[u].pc = send[u].pc
                          /\ send'[u].thread = send[u].thread
                          /\ send'[u].resting = send[u].resting
                          /\ send'[u].last = send[u].last
                          /\ ~send'[u].alone /\ ~send'[u].healed
  BY <1>1, DisturbedSends
<1>3. messages' \in Seq(Lines) /\ DOMAIN messages' = {}
  BY <1>1
<1>4. new.thread \in Threads /\ new.by = 0 /\ 0 \in 0 .. MaxTurns
  BY Constants
<1> HIDE DEF new
<1>5. ConversationOK'
  BY <1>1, <1>2, <1>3, <1>4 DEF ConversationOK, Connections
<1>6. SendsFollow'
  BY <1>1, <1>2 DEF SendsFollow
<1>7. ReadsFollow'
  <2>1. \A r \in reads : r.by # 0 => r.by \in Turns
    BY DEF ConversationOK, Turns
  <2> QED
    BY <1>1, <1>2, <1>4, <2>1 DEF ReadsFollow
<1>8. LiveIsAcknowledged'
  BY <1>3 DEF LiveIsAcknowledged
<1>9. AuthorityStands'
  BY <1>1, <1>2 DEF AuthorityStands, CancelledTurn
<1>10. AloneIsAlone'
  BY <1>2 DEF AloneIsAlone
<1> QED
  BY <1>5, <1>6, <1>7, <1>8, <1>9, <1>10

(* The lines of a transcript are not live.                                 *)
LEMMA Installed ==
  ASSUME CInv, NEW th \in Threads, Advance, ConversationOK',
         messages' = messages \/ messages' = Transcript(th)
  PROVE  LiveIsAcknowledged'
<1>1. \A i \in DOMAIN Transcript(th) : Transcript(th)[i].kind = "restored"
  <2>1. Transcript(th) \in Seq(Restored)
    BY TranscriptOK DEF CInv
  <2>2. \A i \in DOMAIN Transcript(th) : Transcript(th)[i] \in Restored
    BY <2>1
  <2> QED
    BY <2>2 DEF Restored
<1>2. messages' \in Seq(Lines)
  BY DEF ConversationOK
<1>3. \A i \in DOMAIN messages' : messages'[i].kind = "live" => messages' = messages
  BY <1>1
<1> QED
  BY <1>2, <1>3, LinesKept

(* A transcript arrives, for an open or for the reconcile of a send; a     *)
(* send that was alone has healed the page.                                *)
LEMMA ReadKeeps ==
  ASSUME CInv, NEW r \in reads, NEW ok \in BOOLEAN, ReadReturns(r, ok)
  PROVE  CInv'
<1> USE DEF CInv
<1>1. /\ reads' = reads \ {r}
      /\ messages' = IF ok THEN Transcript(r.thread) ELSE messages
      /\ UNCHANGED <<turn, erased, selected, connection, cursorSeq>>
  BY DEF ReadReturns, vict
<1>2. r.thread \in Threads /\ r.by \in 0 .. MaxTurns
  BY DEF ConversationOK
<1>3. messages' \in Seq(Lines)
  <2>1. Transcript(r.thread) \in Seq(Lines)
    <3>1. Transcript(r.thread) \in Seq(Restored) /\ Restored \subseteq Lines
      BY <1>2, TranscriptOK DEF Restored
    <3> QED
      BY <3>1
  <2> QED
    BY <1>1, <2>1 DEF ConversationOK
<1>4. messages' = messages \/ messages' = Transcript(r.thread)
  BY <1>1
<1>5. \A u \in Turns : CancelledTurn(u) <=> turn[u].status = "cancelled" /\ send[u].last = turn[u].emitted
  BY DEF CancelledTurn
<1>6. \A u \in Turns : send[u].last \in Nat
  BY DEF ConversationOK, Sends
<1>7. CASE r.by = 0
  <2>1. send' = send
    BY <1>7 DEF ReadReturns
  <2>2. ConversationOK' /\ SendsFollow' /\ ReadsFollow'
    BY <1>1, <1>3, <2>1 DEF ConversationOK, SendsFollow, ReadsFollow
  <2>3. LiveIsAcknowledged'
    <3>1. Advance
      BY <1>6, <2>1 DEF Advance
    <3> QED
      BY <1>2, <1>4, <2>2, <3>1, Installed
  <2>4. AuthorityStands'
    BY <1>1, <2>1 DEF AuthorityStands, CancelledTurn
  <2>5. AloneIsAlone'
    <3>1. \A u \in Turns : u # 0
      BY DEF Turns
    <3>2. \A u \in Turns : ~Alone(u) /\ ~Healed(u)
      BY <1>7, <3>1 DEF Alone, Healed
    <3> QED
      BY <2>1, <3>2 DEF AloneIsAlone, UnderWay
  <2> QED
    BY <2>2, <2>3, <2>4, <2>5
<1>8. CASE r.by # 0
  <2> DEFINE b == r.by
             h == ok /\ send[b].alone
  <2>1. b \in Turns /\ send[b].pc = "reconciling"
    BY <1>2, <1>8 DEF Turns, ReadsFollow
  <2>2. UnderWay(b)
    BY <2>1 DEF UnderWay
  <2>3. send' = [Refreshing(b) EXCEPT ![b].healed = h]
    BY <1>8 DEF ReadReturns
  <2>4. /\ Refreshing(b) \in [Turns -> Sends]
        /\ \A u \in Turns : /\ u # b => Refreshing(b)[u] = send[u]
                            /\ Refreshing(b)[u].last = send[u].last
                            /\ Refreshing(b)[u].alone = send[u].alone
                            /\ Refreshing(b)[u].healed = send[u].healed
        /\ Refreshing(b)[b].pc = "refreshing" /\ Refreshing(b)[b].resting = "idle"
    BY <2>1, LeftSends DEF Refreshing
  <2> HIDE DEF b
  <2>5. h \in BOOLEAN
    BY <2>1 DEF ConversationOK, Sends
  <2> HIDE DEF h
  <2> DEFINE s == [Refreshing(b)[b] EXCEPT !.healed = h]
  <2>6. /\ s \in Sends /\ s.pc = "refreshing" /\ s.resting = "idle" /\ s.last = send[b].last
        /\ s.alone = send[b].alone /\ s.healed = h
    <3>1. Refreshing(b)[b] \in Sends
      BY <2>1, <2>4
    <3> QED
      BY <2>1, <2>4, <2>5, <3>1 DEF Sends
  <2>7. send' = [Refreshing(b) EXCEPT ![b] = s]
    BY <2>3
  <2> HIDE DEF s
  <2>8. /\ send' \in [Turns -> Sends]
        /\ \A u \in Turns : u # b => send'[u] = send[u]
        /\ send'[b].pc = "refreshing" /\ send'[b].resting = "idle"
        /\ send'[b].last = send[b].last /\ send'[b].healed = h
    BY <2>1, <2>4, <2>6, <2>7
  <2>9. ConversationOK'
    BY <1>1, <1>3, <2>8 DEF ConversationOK
  <2>10. SendsFollow'
    BY <1>1, <2>8 DEF SendsFollow
  <2>11. ReadsFollow'
    <3>1. \A q \in reads' : q.by # b
      BY <1>1, <1>8 DEF ReadsFollow, b
    <3>2. \A q \in reads : q.by # 0 => q.by \in Turns
      BY DEF ConversationOK, Turns
    <3> QED
      BY <1>1, <2>8, <3>1, <3>2 DEF ReadsFollow
  <2>12. LiveIsAcknowledged'
    <3>1. Advance
      BY <1>6, <2>8 DEF Advance
    <3> QED
      BY <1>2, <1>4, <2>9, <3>1, Installed
  <2>13. AuthorityStands'
    <3>1. \A u \in Turns : send'[u].last = send[u].last
      BY <2>8
    <3>2. \A u \in Turns : CancelledTurn(u) => CancelledTurn(u)'
      BY <1>1, <3>1 DEF CancelledTurn
    <3>3. \A u \in Turns : send'[u].resting = "cancelled" => send[u].resting = "cancelled"
      BY <2>8
    <3> QED
      BY <1>1, <3>2, <3>3, AuthorityKept
  <2>14. AloneIsAlone'
    <3>1. /\ \A u \in Turns : ~send[u].healed
          /\ \A u \in Turns : send[u].alone /\ UnderWay(u) => u = b
      BY <2>1, <2>2, OnlyOne
    <3>2. \A u \in Turns : ~(send'[u].alone /\ UnderWay(u)')
      BY <2>8, <3>1 DEF UnderWay
    <3>3. \A u \in Turns : u # b => ~send'[u].healed
      BY <2>8, <3>1
    <3>4. ASSUME h
          PROVE  Healed(b)'
      <4>1. ok /\ send[b].alone /\ Alone(b)
        BY <2>1, <2>2, <3>4 DEF AloneIsAlone, h
      <4>2. \A u \in Turns : ~UnderWay(u)'
        BY <2>8, <4>1 DEF Alone, UnderWay
      <4>3. reads' = {}
        <5>1. \A q \in reads : q = r
          BY <1>8, <4>1 DEF Alone, ReadsFollow, b
        <5> QED
          BY <1>1, <5>1
      <4>4. turn[b].status \in Outcomes /\ "running" \notin Outcomes
        BY <2>1, Constants DEF SendsFollow
      <4>5. OpenTurnOf(turn[b].thread) = {}
        BY <2>1, <4>1, <4>4 DEF Alone, OpenTurnOf
      <4>6. PICK th : th = turn[b].thread
        OBVIOUS
      <4>7. r.thread = th
        BY <4>1, <4>6 DEF Alone
      <4>8. Transcript(th)' = Transcript(th)
        BY <1>1, TranscriptSame
      <4>9. messages' = Transcript(th)'
        BY <1>1, <4>1, <4>7, <4>8
      <4>10. turn' = turn /\ b' = b
        BY <1>1
      <4> QED
        BY <2>8, <4>2, <4>3, <4>5, <4>6, <4>9, <4>10 DEF Healed, OpenTurnOf
    <3> QED
      BY <2>1, <2>8, <3>2, <3>3, <3>4 DEF AloneIsAlone
  <2> QED
    BY <2>9, <2>10, <2>11, <2>12, <2>13, <2>14
<1> QED
  BY <1>7, <1>8

(* A send starts, alone if nothing else was under way.                     *)
LEMMA SendKeeps ==
  ASSUME CInv, NEW t \in Turns, Send(t)
  PROVE  CInv'
<1> USE DEF CInv
<1> DEFINE line == Line("user", "live", selected, t, << >>)
           s == [NewSend EXCEPT !.pc = "posting", !.thread = selected,
                                !.resting = connection, !.alone = Quiet]
<1>1. /\ send[t].pc = "idle"
      /\ cursorSeq' = 0 /\ connection' = "connecting"
      /\ messages' = Append(messages, line)
      /\ send' = [Disturbed EXCEPT ![t] = s]
      /\ UNCHANGED <<turn, erased, selected, reads>>
  BY DEF Send, vict
<1>2. line \in Lines /\ line.text = << >>
  BY DEF Line, Lines, InOrder, ConversationOK
<1>3. s \in Sends /\ s.pc = "posting" /\ s.thread = selected /\ s.resting = connection
      /\ (s.alone => Quiet) /\ ~s.healed
  <2>1. Quiet \in BOOLEAN
    BY DEF Quiet
  <2> HIDE DEF Quiet
  <2>2. selected \in Threads /\ connection \in Connections
    BY DEF ConversationOK
  <2> QED
    BY <2>1, <2>2 DEF NewSend, Sends
<1> HIDE DEF line, s
<1>4. /\ send' \in [Turns -> Sends] /\ send'[t] = s
      /\ \A u \in Turns : u # t => /\ send'[u].pc = send[u].pc
                                   /\ send'[u].thread = send[u].thread
                                   /\ send'[u].resting = send[u].resting
                                   /\ send'[u].last = send[u].last
                                   /\ ~send'[u].alone /\ ~send'[u].healed
  BY <1>1, <1>3, DisturbedSends
<1>5. /\ messages' \in Seq(Lines)
      /\ \A i \in DOMAIN messages' : \/ messages'[i] = line
                                     \/ i \in DOMAIN messages /\ messages'[i] = messages[i]
  BY <1>1, <1>2 DEF ConversationOK
<1>6. ConversationOK'
  BY <1>1, <1>4, <1>5 DEF ConversationOK, Connections, Busy, InFlight
<1>7. SendsFollow'
  BY <1>1, <1>3, <1>4 DEF SendsFollow
<1>8. LiveIsAcknowledged'
  <2>1. Advance
    <3>1. \A u \in Turns : send[u].last \in Nat
      BY DEF ConversationOK, Sends
    <3> QED
      BY <1>1, <1>4, <3>1 DEF Advance
  <2>2. DOMAIN line.text = {}
    BY <1>2
  <2> QED
    BY <1>5, <1>6, <2>1, <2>2, LinesKept
<1>9. AuthorityStands'
  <2>1. \A u \in Turns : CancelledTurn(u) => CancelledTurn(u)'
    <3>1. turn[t].status = "none"
      BY <1>1 DEF SendsFollow
    <3> QED
      BY <1>1, <1>4, <3>1 DEF CancelledTurn
  <2>2. \A u \in Turns : send'[u].resting = "cancelled" =>
          connection = "cancelled" \/ send[u].resting = "cancelled"
    BY <1>3, <1>4
  <2> QED
    BY <1>1, <2>1, <2>2, AuthorityKept
<1>10. ReadsFollow'
  <2>1. \A r \in reads : r.by # t
    BY <1>1 DEF ReadsFollow, Turns
  <2>2. \A r \in reads : r.by # 0 => r.by \in Turns
    BY DEF ConversationOK, Turns
  <2> QED
    BY <1>1, <1>4, <2>1, <2>2 DEF ReadsFollow
<1>11. AloneIsAlone'
  <2>1. ASSUME s.alone
        PROVE  Alone(t)'
    <3>1. Quiet
      BY <1>3, <2>1
    <3>2. \A u \in Turns : u # t => ~UnderWay(u)'
      BY <1>4, <3>1 DEF Quiet, UnderWay
    <3> QED
      BY <1>1, <1>3, <1>4, <3>1, <3>2 DEF Quiet, Alone
  <2> QED
    BY <1>3, <1>4, <2>1 DEF AloneIsAlone
<1> QED
  BY <1>6, <1>7, <1>8, <1>9, <1>10, <1>11

(* A turn is admitted: it is the only open one of its thread.              *)
LEMMA AcceptedKeeps ==
  ASSUME CInv, NEW t \in Turns, SendAccepted(t)
  PROVE  CInv'
<1> USE DEF CInv
<1> DEFINE s == [send[t] EXCEPT !.pc = "pumping", !.last = cursorSeq]
<1>1. /\ send[t].pc = "posting" /\ OpenTurnOf(send[t].thread) = {}
      /\ turn' = Admitted(t)
      /\ UNCHANGED <<erased, selected, connection, messages, cursorSeq, reads>>
  BY DEF SendAccepted
<1>2. send' = [send EXCEPT ![t] = s]
  BY DEF SendAccepted, ConversationOK
<1>3. /\ s \in Sends /\ s.pc = "pumping" /\ s.last = cursorSeq
      /\ s.thread = send[t].thread /\ s.resting = send[t].resting
      /\ s.alone = send[t].alone /\ s.healed = send[t].healed
  <2>1. send[t] \in Sends /\ cursorSeq \in Nat
    BY DEF ConversationOK
  <2> QED
    BY <2>1 DEF Sends
<1> HIDE DEF s
<1>4. /\ send' \in [Turns -> Sends] /\ send'[t] = s
      /\ \A u \in Turns : u # t => send'[u] = send[u]
  BY <1>2, <1>3 DEF ConversationOK
<1>5. /\ turn' \in [Turns -> [thread : Threads \cup {NoThread},
                              status : {"none", "running"} \cup Outcomes, emitted : Nat]]
      /\ \A u \in Turns : u # t => turn'[u] = turn[u]
      /\ turn'[t].thread = send[t].thread /\ turn'[t].status = "running"
  BY <1>1, Admission
<1>6. ConversationOK'
  BY <1>1, <1>4, <1>5 DEF ConversationOK
<1>7. SendsFollow'
  BY <1>3, <1>4, <1>5 DEF SendsFollow
<1>8. LiveIsAcknowledged'
  <2>1. Advance
    <3>1. \A u \in Turns : send[u].last \in Nat
      BY DEF ConversationOK, Sends
    <3> QED
      BY <1>1, <1>4, <3>1 DEF Advance
  <2> QED
    BY <1>1, <1>6, <2>1, LinesKept DEF ConversationOK
<1>9. AuthorityStands'
  <2>1. \A u \in Turns : CancelledTurn(u) => CancelledTurn(u)'
    <3>1. turn[t].status = "none"
      BY <1>1 DEF SendsFollow
    <3> QED
      BY <1>1, <1>4, <1>5, <3>1 DEF CancelledTurn
  <2>2. \A u \in Turns : send'[u].resting = "cancelled" => send[u].resting = "cancelled"
    BY <1>3, <1>4
  <2> QED
    BY <1>1, <2>1, <2>2, AuthorityKept
<1>10. \A r \in reads : r.by # t
  BY <1>1 DEF ReadsFollow, Turns
<1>11. ReadsFollow'
  <2>1. \A r \in reads : r.by # 0 => r.by \in Turns
    BY DEF ConversationOK, Turns
  <2> QED
    BY <1>1, <1>4, <1>10, <2>1 DEF ReadsFollow
<1>12. AloneIsAlone'
  <2>1. UnderWay(t)
    BY <1>1 DEF UnderWay
  <2>2. /\ \A u \in Turns : ~send[u].healed
        /\ \A u \in Turns : send[u].alone /\ UnderWay(u) => u = t
    BY <2>1, OnlyOne
  <2>3. ASSUME s.alone
        PROVE  Alone(t)'
    <3>1. Alone(t)
      BY <1>3, <2>1, <2>3 DEF AloneIsAlone
    <3>2. reads' = {}
      BY <1>1, <1>10, <3>1 DEF Alone
    <3>3. \A u \in Turns : u # t => ~UnderWay(u)'
      BY <1>4, <3>1 DEF Alone, UnderWay
    <3>4. \A u \in Turns : turn'[u].thread = send[t].thread /\ turn'[u].status = "running" => u = t
      BY <1>1, <1>5 DEF OpenTurnOf
    <3>5. send'[t].thread = selected'
      BY <1>1, <1>3, <1>4, <3>1 DEF Alone
    <3> QED
      BY <1>5, <3>2, <3>3, <3>4, <3>5 DEF Alone, OpenTurnOf
  <2> QED
    BY <1>3, <1>4, <2>2, <2>3 DEF AloneIsAlone, UnderWay
<1> QED
  BY <1>6, <1>7, <1>8, <1>9, <1>11, <1>12

(* What a deletion of a conversation does to it.                           *)
LEMMA EraseKeeps ==
  ASSUME CInv, send' = Disturbed, erased' \subseteq Turns,
         turn' = turn, selected' = selected, connection' = connection,
         messages' = messages, cursorSeq' = cursorSeq, reads' = reads
  PROVE  CInv'
<1> USE DEF CInv
<1>1. /\ send' \in [Turns -> Sends]
      /\ \A u \in Turns : /\ send'[u].pc = send[u].pc
                          /\ send'[u].thread = send[u].thread
                          /\ send'[u].resting = send[u].resting
                          /\ send'[u].last = send[u].last
                          /\ ~send'[u].alone /\ ~send'[u].healed
  BY DisturbedSends
<1>2. ConversationOK'
  BY <1>1 DEF ConversationOK
<1>3. SendsFollow'
  BY <1>1 DEF SendsFollow
<1>4. LiveIsAcknowledged'
  <2>1. Advance
    <3>1. \A u \in Turns : send[u].last \in Nat
      BY DEF ConversationOK, Sends
    <3> QED
      BY <1>1, <3>1 DEF Advance
  <2> QED
    BY <1>2, <2>1, LinesKept DEF ConversationOK
<1>5. AuthorityStands'
  BY <1>1 DEF AuthorityStands, CancelledTurn
<1>6. ReadsFollow'
  <2>1. \A r \in reads : r.by # 0 => r.by \in Turns
    BY DEF ConversationOK, Turns
  <2> QED
    BY <1>1, <2>1 DEF ReadsFollow
<1>7. AloneIsAlone'
  BY <1>1 DEF AloneIsAlone
<1> QED
  BY <1>2, <1>3, <1>4, <1>5, <1>6, <1>7

(* Adding a frame that is later than those of its turn keeps the order.    *)
LEMMA LaterInOrder ==
  ASSUME NEW text \in Seq(Turns \X Nat), InOrder(text), NEW t \in Turns, NEW n \in Nat,
         \A a \in DOMAIN text : text[a][1] = t => text[a][2] < n
  PROVE  InOrder(Append(text, <<t, n>>))
<1> DEFINE more == Append(text, <<t, n>>)
           l == Len(text)
<1>1. l \in Nat /\ DOMAIN text = 1 .. l
  OBVIOUS
<1>2. /\ DOMAIN more = 1 .. l + 1 /\ more[l + 1] = <<t, n>>
      /\ \A a \in 1 .. l : more[a] = text[a]
  BY <1>1
<1> HIDE DEF l, more
<1>3. SUFFICES ASSUME NEW a \in 1 .. l + 1, NEW b \in 1 .. l + 1, a < b,
                      more[a][1] = more[b][1]
               PROVE  more[a][2] < more[b][2]
  BY <1>2 DEF InOrder, more
<1>4. a \in 1 .. l /\ (b = l + 1 \/ b \in 1 .. l)
  BY <1>1, <1>3
<1>5. CASE b = l + 1
  <2>1. a \in DOMAIN text /\ more[a] = text[a] /\ more[b] = <<t, n>>
    BY <1>1, <1>2, <1>4, <1>5
  <2>2. text[a][1] = t
    BY <1>3, <2>1
  <2> QED
    BY <2>1, <2>2
<1>6. CASE b \in 1 .. l
  BY <1>1, <1>2, <1>3, <1>4, <1>6 DEF InOrder
<1> QED
  BY <1>4, <1>5, <1>6

(* Applying the text of a frame: a new line, or more of the last one.      *)
LEMMA SayingLines ==
  ASSUME CInv, NEW t \in Turns, NEW n \in Nat, send[t].pc = "pumping", n > send[t].last
  PROVE  /\ Saying(t, n) \in Seq(Lines)
         /\ \A i \in DOMAIN Saying(t, n) :
              \A a \in DOMAIN Saying(t, n)[i].text :
                \/ Saying(t, n)[i].text[a] = <<t, n>>
                \/ /\ Saying(t, n)[i].kind = "live" /\ i \in DOMAIN messages
                   /\ messages[i].kind = "live" /\ a \in DOMAIN messages[i].text
                   /\ Saying(t, n)[i].text[a] = messages[i].text[a]
                \/ Saying(t, n)[i].kind # "live"
<1> USE DEF CInv
<1> DEFINE k == Len(messages)
           line == messages[k]
           more == Append(line.text, <<t, n>>)
           new == [line EXCEPT !.text = more]
           first == Line("assistant", "live", turn[t].thread, t, <<<<t, n>>>>)
<1>1. messages \in Seq(Lines) /\ \A i \in DOMAIN messages : messages[i] \in Lines
  BY DEF ConversationOK
<1>2. CASE messages # << >> /\ Last(messages).role = "assistant" /\ Last(messages).kind = "live"
  <2>1. k \in DOMAIN messages /\ Last(messages) = line
    BY <1>1, <1>2 DEF Last
  <2>2. line \in Lines /\ line.kind = "live"
    BY <1>1, <1>2, <2>1
  <2>3. Saying(t, n) = [messages EXCEPT ![k] = new]
    BY <1>2, <1>1, <2>1 DEF Saying
  <2>4. /\ line.text \in Seq(Turns \X Nat) /\ InOrder(line.text)
        /\ line.thread \in Threads \cup {NoThread} /\ line.turn \in Turns
        /\ line.role \in {"user", "assistant"}
    BY <2>2 DEF Lines
  <2>5. \A a \in DOMAIN line.text : line.text[a][1] = t => line.text[a][2] < n
    <3> SUFFICES ASSUME NEW a \in DOMAIN line.text, line.text[a][1] = t
                 PROVE  line.text[a][2] < n
      OBVIOUS
    <3>1. line.text[a][2] <= send[t].last
      BY <2>1, <2>2 DEF LiveIsAcknowledged, Acknowledged
    <3>2. line.text[a][2] \in Nat /\ send[t].last \in Nat
      <4>1. line.text[a] \in Turns \X Nat
        BY <2>4
      <4> QED
        BY <4>1 DEF ConversationOK, Sends
    <3> QED
      BY <3>1, <3>2
  <2> DEFINE l == Len(line.text)
  <2>6. l \in Nat /\ DOMAIN line.text = 1 .. l
    BY <2>4
  <2>7. /\ more \in Seq(Turns \X Nat) /\ DOMAIN more = 1 .. l + 1
        /\ more[l + 1] = <<t, n>> /\ \A a \in 1 .. l : more[a] = line.text[a]
    BY <2>4, <2>6
  <2>8. InOrder(more)
    BY <2>4, <2>5, LaterInOrder
  <2> HIDE DEF l, more
  <2>9. new \in Lines /\ new.text = more /\ new.kind = "live"
    BY <2>2, <2>4, <2>7, <2>8 DEF Lines
  <2> HIDE DEF new
  <2>10. Saying(t, n) \in Seq(Lines)
    BY <1>1, <2>1, <2>3, <2>9
  <2>11. /\ DOMAIN Saying(t, n) = DOMAIN messages /\ Saying(t, n)[k] = new
         /\ \A i \in DOMAIN messages : i # k => Saying(t, n)[i] = messages[i]
    BY <1>1, <2>1, <2>3
  <2>12. ASSUME NEW i \in DOMAIN messages, NEW a \in DOMAIN Saying(t, n)[i].text
         PROVE  \/ Saying(t, n)[i].text[a] = <<t, n>>
                \/ /\ Saying(t, n)[i].kind = "live" /\ i \in DOMAIN messages
                   /\ messages[i].kind = "live" /\ a \in DOMAIN messages[i].text
                   /\ Saying(t, n)[i].text[a] = messages[i].text[a]
                \/ Saying(t, n)[i].kind # "live"
    <3>1. CASE i # k
      BY <2>11, <2>12, <3>1
    <3>2. CASE i = k
      <4>1. a \in 1 .. l + 1
        BY <2>7, <2>9, <2>11, <2>12, <3>2
      <4>2. CASE a = l + 1
        BY <2>7, <2>9, <2>11, <3>2, <4>2
      <4>3. CASE a # l + 1
        <5>1. a \in 1 .. l
          BY <2>6, <4>1, <4>3
        <5> QED
          BY <2>2, <2>6, <2>7, <2>9, <2>11, <3>2, <5>1
      <4> QED
        BY <4>2, <4>3
    <3> QED
      BY <3>1, <3>2
  <2> QED
    BY <2>10, <2>11, <2>12
<1>3. CASE ~(messages # << >> /\ Last(messages).role = "assistant" /\ Last(messages).kind = "live")
  <2>1. Saying(t, n) = Append(messages, first)
    BY <1>3 DEF Saying
  <2>2. turn[t].thread \in Threads \cup {NoThread}
    BY DEF ConversationOK
  <2>3. <<<<t, n>>>> \in Seq(Turns \X Nat) /\ InOrder(<<<<t, n>>>>)
    BY DEF InOrder
  <2>4. first \in Lines /\ first.text = <<<<t, n>>>>
    BY <2>2, <2>3 DEF Line, Lines
  <2> HIDE DEF first
  <2>5. /\ Saying(t, n) \in Seq(Lines)
        /\ \A i \in DOMAIN Saying(t, n) :
             \/ Saying(t, n)[i] = first
             \/ i \in DOMAIN messages /\ Saying(t, n)[i] = messages[i]
    BY <1>1, <2>1, <2>4
  <2> QED
    BY <2>4, <2>5
<1> QED
  BY <1>2, <1>3

(* A frame is applied. It is later than all that were, and a terminal      *)
(* starts the reconcile of the thread it belongs to if the send was alone. *)
LEMMA FrameKeeps ==
  ASSUME CInv, NEW t \in Turns, NEW n \in 1 .. MaxSeq, Frame(t, n)
  PROVE  CInv'
<1> USE DEF CInv
<1> DEFINE end == IsTerminalFrame(t, n)
           s == [send[t] EXCEPT !.last = n, !.pc = IF end THEN "reconciling" ELSE @,
                                !.attempt = IF end THEN 0 ELSE @]
           new == [thread |-> selected, by |-> t, id |-> 0]
<1>1. /\ send[t].pc = "pumping" /\ n \in 1 .. turn[t].emitted /\ n > send[t].last
      /\ n \in Nat /\ send[t].last \in Nat /\ turn[t].emitted \in Nat
      /\ cursorSeq' = n
      /\ messages' = IF IsDelta(t, n) THEN Saying(t, n) ELSE messages
      /\ connection' = IF end THEN turn[t].status ELSE IF n = 1 THEN "streaming" ELSE connection
      /\ reads' = IF end THEN reads \cup {new} ELSE reads
      /\ turn' = turn /\ erased' = erased /\ selected' = selected
  BY Constants DEF Frame, Deliverable, IsFresh, vict, ConversationOK, Sends
<1>2. send' = [send EXCEPT ![t] = s]
  BY DEF Frame, ConversationOK
<1>3. /\ s \in Sends /\ s.last = n /\ s.thread = send[t].thread
      /\ s.pc = IF end THEN "reconciling" ELSE "pumping"
      /\ s.resting = send[t].resting /\ s.alone = send[t].alone /\ s.healed = send[t].healed
  <2>1. send[t] \in Sends
    BY DEF ConversationOK
  <2> HIDE DEF end
  <2> QED
    BY <1>1, <2>1 DEF Sends
<1>4. end => turn[t].status \in Outcomes /\ n = turn[t].emitted
  BY DEF IsTerminalFrame
<1> HIDE DEF s, end
<1>5. /\ send' \in [Turns -> Sends] /\ send'[t] = s
      /\ \A u \in Turns : u # t => send'[u] = send[u]
  BY <1>2, <1>3 DEF ConversationOK
<1>6. messages' \in Seq(Lines)
  BY <1>1, SayingLines DEF ConversationOK
<1>7. ConversationOK'
  <2>1. connection' \in Connections
    BY <1>1, <1>4, Constants DEF ConversationOK, Connections, Busy, InFlight
  <2>2. \A r \in reads' : r.thread \in Threads /\ r.by \in 0 .. MaxTurns
    BY <1>1 DEF ConversationOK, Turns
  <2> QED
    BY <1>1, <1>5, <1>6, <2>1, <2>2 DEF ConversationOK
<1>8. SendsFollow'
  BY <1>1, <1>3, <1>4, <1>5 DEF SendsFollow
<1>9. LiveIsAcknowledged'
  <2> SUFFICES ASSUME NEW i \in DOMAIN messages', messages'[i].kind = "live",
                      NEW a \in DOMAIN messages'[i].text
               PROVE  LET u == messages'[i].text[a][1] IN
                        /\ send'[u].pc \notin {"idle", "posting"}
                        /\ messages'[i].text[a][2] <= send'[u].last
    BY DEF LiveIsAcknowledged, Acknowledged
  <2>1. CASE messages'[i].text[a] = <<t, n>>
    BY <1>1, <1>3, <1>5, <2>1
  <2>2. CASE messages'[i].text[a] # <<t, n>>
    <3>1. /\ i \in DOMAIN messages /\ messages[i].kind = "live"
          /\ a \in DOMAIN messages[i].text
          /\ messages'[i].text[a] = messages[i].text[a]
      BY <1>1, <2>2, SayingLines
    <3> DEFINE u == messages[i].text[a][1]
               m == messages[i].text[a][2]
    <3>2. messages[i] \in Lines
      BY <3>1 DEF ConversationOK
    <3>3. u \in Turns /\ m \in Nat
      <4>1. messages[i].text \in Seq(Turns \X Nat)
        BY <3>2 DEF Lines
      <4>2. messages[i].text[a] \in Turns \X Nat
        BY <3>1, <4>1
      <4> QED
        BY <4>2
    <3>4. send[u].pc \notin {"idle", "posting"} /\ m <= send[u].last
      BY <3>1 DEF LiveIsAcknowledged, Acknowledged
    <3> HIDE DEF u, m
    <3>5. send'[u].pc \notin {"idle", "posting"} /\ m <= send'[u].last
      BY <1>1, <1>3, <1>5, <3>3, <3>4
    <3> QED
      BY <3>1, <3>5 DEF u, m
  <2> QED
    BY <2>1, <2>2
<1>10. AuthorityStands'
  <2>1. \A u \in Turns : CancelledTurn(u) => CancelledTurn(u)'
    <3>1. send[t].last # turn[t].emitted
      BY <1>1
    <3> QED
      BY <1>1, <1>5, <3>1 DEF CancelledTurn
  <2>2. ASSUME connection' = "cancelled"
        PROVE  connection = "cancelled" \/ \E u \in Turns : CancelledTurn(u)'
    BY <1>1, <1>3, <1>4, <1>5, <2>2 DEF CancelledTurn
  <2>3. \A u \in Turns : send'[u].resting = send[u].resting
    BY <1>3, <1>5
  <2> QED
    BY <2>1, <2>2, <2>3, AuthorityKept
<1>11. /\ \A r \in reads : r.by # t
       /\ \A r \in reads : r.by # 0 => r.by \in Turns
  BY <1>1 DEF ReadsFollow, ConversationOK, Turns
<1>12. new.by = t /\ new.thread = selected
  OBVIOUS
<1> HIDE DEF new
<1>13. ReadsFollow'
  BY <1>1, <1>3, <1>5, <1>11, <1>12 DEF ReadsFollow
<1>14. AloneIsAlone'
  <2>1. UnderWay(t)
    BY <1>1 DEF UnderWay
  <2>2. /\ \A u \in Turns : ~send[u].healed
        /\ \A u \in Turns : send[u].alone /\ UnderWay(u) => u = t
    BY <2>1, OnlyOne
  <2>3. ASSUME s.alone
        PROVE  Alone(t)'
    <3>1. Alone(t)
      BY <1>3, <2>1, <2>3 DEF AloneIsAlone
    <3>2. reads = {}
      BY <1>11, <3>1 DEF Alone
    <3>3. \A u \in Turns : u # t => ~UnderWay(u)'
      BY <1>5, <3>1 DEF Alone, UnderWay
    <3>4. selected = turn[t].thread /\ send[t].thread = selected
      BY <1>1, <3>1 DEF Alone, SendsFollow
    <3>5. OpenTurnOf(turn[t].thread) \subseteq {t}
      BY <1>1, <3>1 DEF Alone
    <3>6. \A r \in reads' : r.by = t /\ r.thread = turn'[t].thread
      BY <1>1, <1>12, <3>2, <3>4
    <3> QED
      BY <1>1, <1>3, <1>5, <3>3, <3>4, <3>5, <3>6 DEF Alone, OpenTurnOf
  <2> QED
    BY <1>3, <1>5, <2>2, <2>3 DEF AloneIsAlone, UnderWay
<1> QED
  BY <1>7, <1>8, <1>9, <1>10, <1>13, <1>14

(* No click on Stop and no answer to it shows "cancelled".                 *)
LEMMA StopsKeep ==
  ASSUME CInv, Stop \/ StopStep
  PROVE  CInv'
<1>1. /\ turn' = turn /\ erased' = erased /\ selected' = selected
      /\ messages' = messages /\ cursorSeq' = cursorSeq /\ send' = send /\ reads' = reads
  BY DEF Stop, StopStep, StopHandled, StopReturns, StopFails, vict
<1>2. connection' \in Connections /\ (connection' = "cancelled" => connection = "cancelled")
  BY DEF Stop, StopStep, StopHandled, StopReturns, StopFails, CInv, ConversationOK,
         Connections, Busy, InFlight
<1> QED
  BY <1>1, <1>2, ConnectionChanges

(* The list arrives, or does not: the send returns.                        *)
LEMMA ReturnKeeps ==
  ASSUME CInv, NEW t \in Turns, NEW ok \in BOOLEAN, SendReturns(t, ok)
  PROVE  CInv'
<1> USE DEF CInv
<1>1. /\ send[t].pc = "refreshing" /\ send' = Ended(t)
      /\ connection' = connection \/ connection' = "failed"
      /\ UNCHANGED <<turn, erased, selected, messages, cursorSeq, reads>>
  BY DEF SendReturns, vict
<1>2. /\ send' \in [Turns -> Sends]
      /\ \A u \in Turns : /\ u # t => send'[u] = send[u]
                          /\ send'[u].last = send[u].last
                          /\ send'[u].alone = send[u].alone
                          /\ send'[u].healed = send[u].healed
      /\ send'[t].pc = "done" /\ send'[t].resting = "idle"
  BY <1>1, LeftSends DEF Ended
<1>3. ConversationOK'
  BY <1>1, <1>2 DEF ConversationOK, Connections
<1>4. SendsFollow'
  BY <1>1, <1>2 DEF SendsFollow
<1>5. LiveIsAcknowledged'
  <2>1. \A u \in Turns : send[u].last \in Nat
    BY DEF ConversationOK, Sends
  <2>2. Advance
    BY <1>1, <1>2, <2>1 DEF Advance
  <2> QED
    BY <1>1, <1>3, <2>2, LinesKept DEF ConversationOK
<1>6. AuthorityStands'
  <2>1. \A u \in Turns : CancelledTurn(u) => CancelledTurn(u)'
    BY <1>1, <1>2 DEF CancelledTurn
  <2>2. \A u \in Turns : send'[u].resting = "cancelled" => send[u].resting = "cancelled"
    BY <1>2
  <2> QED
    BY <1>1, <2>1, <2>2, AuthorityKept
<1>7. ReadsFollow'
  <2>1. \A r \in reads : r.by # t
    BY <1>1 DEF ReadsFollow, Turns
  <2>2. \A r \in reads : r.by # 0 => r.by \in Turns
    BY DEF ConversationOK, Turns
  <2> QED
    BY <1>1, <1>2, <2>1, <2>2 DEF ReadsFollow
<1>8. AloneIsAlone'
  <2>1. \A u \in Turns : UnderWay(u)' <=> UnderWay(u)
    BY <1>1, <1>2 DEF UnderWay
  <2>2. ASSUME NEW u \in Turns, UnderWay(u), Alone(u)
        PROVE  Alone(u)'
    <3>1. u # t
      BY <1>1, <2>2 DEF UnderWay
    <3> QED
      BY <1>1, <1>2, <2>1, <2>2, <3>1 DEF Alone, OpenTurnOf
  <2>3. ASSUME NEW u \in Turns, Healed(u)
        PROVE  Healed(u)'
    <3>1. PICK th : th = turn[u].thread
      OBVIOUS
    <3>2. Transcript(th)' = Transcript(th)
      BY <1>1, TranscriptSame
    <3>3. send'[u].pc \in {"refreshing", "done"}
      BY <1>2, <2>3 DEF Healed
    <3> QED
      BY <1>1, <2>1, <2>3, <3>1, <3>2, <3>3 DEF Healed, OpenTurnOf
  <2> QED
    BY <1>2, <2>1, <2>2, <2>3 DEF AloneIsAlone
<1> QED
  BY <1>3, <1>4, <1>5, <1>6, <1>7, <1>8

(* What the deletion controls and the server do to the conversation: at    *)
(* most open a thread anew or erase turns, which disturbs every send.      *)
LEMMA DeletionsKeep ==
  ASSUME CInv, AnswerStep \/ ControlsStep \/ ThreadAction \/ \E th \in Threads : RecoverOnBoot(th)
  PROVE  CInv'
<1>1. CASE UNCHANGED view
  BY <1>1, ViewSame
<1>2. CASE \E th \in Threads : Erase(th) /\ UNCHANGED <<selected, connection, messages, cursorSeq, reads>>
  <2>1. /\ send' = Disturbed
        /\ turn' = turn /\ selected' = selected /\ connection' = connection
        /\ messages' = messages /\ cursorSeq' = cursorSeq /\ reads' = reads
    BY <1>2 DEF Erase
  <2>2. erased' \subseteq Turns
    BY <1>2 DEF Erase, CInv, ConversationOK
  <2> QED
    BY <2>1, <2>2, EraseKeeps
<1>3. CASE ControlsStep \/ ThreadAction
  <2>1. UNCHANGED view
    BY <1>3 DEF ControlsStep, OpenChooser, PickMode, CancelChooser, ConfirmDeletion,
                OpenPurge, TypeWord, CancelPurge, ConfirmPurge, ThreadAction, conversation,
                vars, vict, view
  <2> QED
    BY <1>1, <2>1
<1>4. CASE AnswerStep
  <2>1. PICK r \in requests : \/ ActionReturns(r) \/ PreviewReturns(r)
                              \/ DeletionHandled(r) \/ PurgeHandled(r) \/ Returns(r)
    BY <1>4 DEF AnswerStep
  <2>2. CASE PreviewReturns(r) \/ PurgeHandled(r)
    <3>1. UNCHANGED view
      BY <2>2 DEF PreviewReturns, PurgeHandled, conversation, vars, vict, view
    <3> QED
      BY <1>1, <3>1
  <2>3. CASE Returns(r)
    <3>1. UNCHANGED view
      BY <2>3 DEF Returns, view
    <3> QED
      BY <1>1, <3>1
  <2>4. CASE DeletionHandled(r)
    <3>1. UNCHANGED <<selected, connection, messages, cursorSeq, reads>>
      BY <2>4 DEF DeletionHandled
    <3>2. CASE Executed(r)
      <4>1. Erase(r.thread)
        BY <3>2 DEF Executed
      <4>2. /\ send' = Disturbed
            /\ turn' = turn /\ selected' = selected /\ connection' = connection
            /\ messages' = messages /\ cursorSeq' = cursorSeq /\ reads' = reads
        BY <3>1, <4>1 DEF Erase
      <4>3. erased' \subseteq Turns
        BY <4>1 DEF Erase, CInv, ConversationOK
      <4> QED
        BY <4>2, <4>3, EraseKeeps
    <3>3. CASE Conflicts(r) \/ FoundBusy(r) \/ ExecutedPartly(r)
      <4>1. UNCHANGED view
        BY <3>1, <3>3 DEF Conflicts, FoundBusy, ExecutedPartly, vict, view
      <4> QED
        BY <1>1, <4>1
    <3> QED
      BY <2>4, <3>2, <3>3 DEF DeletionHandled
  <2>5. CASE ActionReturns(r)
    <3>1. CASE Opened(selected, r.key)
      BY <3>1, OpeningKeeps DEF CInv, ConversationOK
    <3>2. CASE ~Opened(selected, r.key)
      <4>1. UNCHANGED view
        BY <2>5, <3>2 DEF ActionReturns, conversation, vars, vict, view
      <4> QED
        BY <1>1, <4>1
    <3> QED
      BY <3>1, <3>2
  <2> QED
    BY <2>1, <2>2, <2>3, <2>4, <2>5
<1>5. CASE \E th \in Threads : RecoverOnBoot(th)
  BY <1>2, <1>5 DEF RecoverOnBoot
<1> QED
  BY <1>3, <1>4, <1>5

(* Every step of the conversation keeps the invariant.                     *)
LEMMA ConversationKeeps ==
  ASSUME CInv, UserStep \/ ReplyStep \/ StopStep
  PROVE  CInv'
<1>1. CASE UserStep
  BY <1>1, StopsKeep, OpeningKeeps, SendKeeps DEF UserStep, OpenThread
<1>2. CASE ReplyStep
  <2>1. CASE \E t \in Turns, o \in Outcomes : Finish(t, o)
    BY <2>1, FinishKeeps
  <2>2. CASE \E t \in Turns : SendAccepted(t) \/ SendRefused(t) \/ SendFails(t)
    BY <2>2, AcceptedKeeps, RefusedSendKeeps, FailedSendKeeps
  <2>3. CASE \E t \in Turns : Pump(t)
    BY <2>3, DropKeeps, RefusalKeeps, FailedPumpKeeps, FrameKeeps DEF Pump
  <2>4. CASE \E r \in reads, ok \in BOOLEAN : ReadReturns(r, ok)
    BY <2>4, ReadKeeps
  <2> QED
    BY <1>2, <2>1, <2>2, <2>3, <2>4 DEF ReplyStep
<1>3. CASE StopStep
  BY <1>3, StopsKeep
<1> QED
  BY <1>1, <1>2, <1>3

(* The conversation keeps its invariant whatever is sent, stopped, opened  *)
(* or deleted, and however connections fail.                               *)
THEOREM ConversationInvariance == PageSpec => []CInv
<1>1. PageInit => CInv
  <2> SUFFICES ASSUME PageInit
               PROVE  CInv
    OBVIOUS
  <2> USE DEF PageInit, Init
  <2>1. NewSend \in Sends
    BY DEF NewSend, Sends, Connections
  <2> DEFINE none == [thread |-> NoThread, status |-> "none", emitted |-> 0]
  <2>2. none \in [thread : Threads \cup {NoThread}, status : {"none", "running"} \cup Outcomes,
                  emitted : Nat] /\ none.status = "none"
    OBVIOUS
  <2>3. \A t \in Turns : turn[t] = none /\ send[t] = NewSend
    OBVIOUS
  <2>4. turn \in [Turns -> [thread : Threads \cup {NoThread},
                            status : {"none", "running"} \cup Outcomes, emitted : Nat]]
    BY <2>2
  <2>5. ConversationOK
    BY <2>1, <2>4, Constants DEF ConversationOK, Connections
  <2>6. SendsFollow
    BY <2>2, <2>3 DEF SendsFollow, NewSend
  <2>7. LiveIsAcknowledged /\ ReadsFollow
    BY DEF LiveIsAcknowledged, ReadsFollow
  <2>8. AuthorityStands
    BY <2>3 DEF AuthorityStands, NewSend
  <2>9. AloneIsAlone
    BY <2>3 DEF AloneIsAlone, NewSend
  <2> QED
    BY <2>5, <2>6, <2>7, <2>8, <2>9 DEF CInv
<1>2. CInv /\ [PageNext]_all => CInv'
  <2> SUFFICES ASSUME CInv, [PageNext]_all
               PROVE  CInv'
    OBVIOUS
  <2>1. CASE UNCHANGED all
    <3>1. UNCHANGED view
      BY <2>1 DEF all, conversation, vars, vict, view
    <3> QED
      BY <3>1, ViewSame
  <2>2. CASE PageNext
    <3>1. CASE UserStep \/ ReplyStep \/ StopStep
      BY <3>1, ConversationKeeps
    <3>2. CASE \/ AnswerStep \/ ControlsStep \/ ThreadAction
               \/ \E th \in Threads : RecoverOnBoot(th)
      BY <3>2, DeletionsKeep
    <3>3. CASE \E t \in Turns, ok \in BOOLEAN : SendRefreshes(t, ok)
      BY <3>3, ReturnKeeps DEF SendRefreshes
    <3> QED
      BY <2>2, <3>1, <3>2, <3>3 DEF PageNext, Conversation, OwedStep
  <2> QED
    BY <2>1, <2>2
<1> QED
  BY <1>1, <1>2, PTL DEF PageSpec

(* No line of the page repeats or swaps the frames of a turn, whatever is  *)
(* delivered again after a reconnect.                                      *)
THEOREM FramesInOrder == PageSpec => []AppliedInOrder
<1>1. CInv => AppliedInOrder
  <2> SUFFICES ASSUME CInv, NEW i \in DOMAIN messages
               PROVE  InOrder(messages[i].text)
    BY DEF AppliedInOrder, InOrder
  <2>1. messages[i] \in Lines
    BY DEF CInv, ConversationOK
  <2> QED
    BY <2>1 DEF Lines
<1> QED
  BY <1>1, ConversationInvariance, PTL

(* The page shows "cancelled" only when the terminal frame of a turn that  *)
(* VICT did cancel was applied.                                            *)
THEOREM OnlyTerminalsCancel == PageSpec => []CancelledIsAuthoritative
<1>1. CInv => CancelledIsAuthoritative
  BY DEF CInv, AuthorityStands, CancelledTurn, CancelledIsAuthoritative
<1> QED
  BY <1>1, ConversationInvariance, PTL

(* A send that began with nothing else under way and was not interrupted   *)
(* leaves the durable transcript on the page once it has reconciled.       *)
THEOREM ReconcileHeals == PageSpec => []ReconciledShowsAll
<1>1. CInv => ReconciledShowsAll
  BY DEF CInv, AloneIsAlone, Healed, ReconciledShowsAll
<1> QED
  BY <1>1, ConversationInvariance, PTL
=============================================================================
