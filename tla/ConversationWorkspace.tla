----------------------- MODULE ConversationWorkspace -----------------------
(***************************************************************************)
(* The conversation half of the browser workspace: opening a thread,       *)
(* sending a message, pumping its stream, stopping it and reconciling with *)
(* the durable transcript.                                                 *)
(*   src/lib/islands/ConversationWorkspace.svelte   the component's state  *)
(*   src/lib/islands/stream-client.ts               connectAgentStream     *)
(* Every await is a point where any other handler may run: a send is one   *)
(* process, its place kept in send[t].pc, and an open, a reconcile or a    *)
(* stop request is a record that waits for its answer.  VICT, which admits *)
(* turns, emits frames and settles cancellations, is external.             *)
(* WorkspaceDeletion adds the rest of the header and the specification.    *)
(***************************************************************************)
EXTENDS Integers, Sequences, FiniteSets, SequencesExt

CONSTANTS Threads,      \* conversations in the list
          First,        \* the one opened first
          NoThread,     \* no thread
          MaxTurns,     \* bound: sends
          MaxSeq,       \* bound: frames of a reply, the terminal included
          MaxAttempts,  \* maxAttempts of connectAgentStream
          Outcomes,     \* bound: the ways a turn may end
          MaxTroubles   \* bound: opened threads, stop intents and failures, together

ASSUME WorkspaceAssumption ==
    /\ First \in Threads /\ NoThread \notin Threads
    /\ {MaxTurns, MaxSeq, MaxAttempts, MaxTroubles} \subseteq Nat \ {0}
    /\ MaxSeq > 1 /\ Outcomes \subseteq {"completed", "failed", "cancelled"}

Turns == 1 .. MaxTurns
Keys == 1 .. MaxTroubles

InFlight == {"connecting", "streaming", "stopping"}
Busy == InFlight \cup {"reconnecting"}

VARIABLES turn,       \* VICT: turn[t] = [thread, status, emitted]
          keyTurn,    \* VICT: the turn a cancellation key was first used for
          erased,     \* VICT: the turns deleted with their conversation
          selected,   \* selectedThreadId
          connection, \* connection
          messages,   \* messages
          cursorSeq,  \* cursorSeq
          activeTurn, \* activeTurnId, 0 when undefined
          stopKey,    \* stopIntentKey, 0 when undefined
          keyCount,   \* keys created so far
          send,       \* send[t]: the t-th call of send and the pump it runs
          reads,      \* transcript reads in flight
          stops,      \* stop requests in flight
          troubles    \* stop intents and failures so far

vict == <<turn, keyTurn, erased>>
stopping == <<stopKey, keyCount, stops>>
vars == <<vict, selected, connection, messages, cursorSeq, activeTurn,
          stopping, send, reads, troubles>>

Trouble == troubles < MaxTroubles /\ troubles' = troubles + 1

---------------------------------------------------------------------------
(* The frames of a turn: the first one starts the response, the last one   *)
(* of an ended turn is its terminal, the others carry text.                *)
IsTerminalFrame(t, n) == turn[t].status \in Outcomes /\ n = turn[t].emitted
IsDelta(t, n) == n > 1 /\ ~IsTerminalFrame(t, n)

Deltas(t) == {n \in 1 .. turn[t].emitted : IsDelta(t, n)}

Line(role, kind, th, t, text) ==
    [role |-> role, kind |-> kind, thread |-> th, turn |-> t, text |-> text]

(* What GET /api/threads/:id/messages answers: the input of every admitted *)
(* turn of the thread and the text of those that have ended.               *)
Transcript(th) ==
    LET Of(t) == IF turn[t].thread # th \/ t \in erased THEN << >>
                 ELSE <<Line("user", "restored", th, t, << >>)>>
                      \o IF turn[t].status \in Outcomes /\ Deltas(t) # {}
                         THEN <<Line("assistant", "restored", th, t,
                                     [n \in 1 .. Cardinality(Deltas(t)) |-> <<t, n + 1>>])>>
                         ELSE << >>
    IN  FlattenSeq([t \in Turns |-> Of(t)])

OpenTurnOf(th) == {t \in Turns : turn[t].thread = th /\ turn[t].status = "running"}

NewSend == [pc |-> "idle", thread |-> NoThread, resting |-> "idle", last |-> 0,
            attempt |-> 0, alone |-> FALSE, healed |-> FALSE]

Init ==
    /\ turn = [t \in Turns |-> [thread |-> NoThread, status |-> "none",
                                emitted |-> 0]]
    /\ keyTurn = [k \in Keys |-> 0] /\ erased = {}
    /\ selected = First /\ connection = "idle" /\ messages = << >>
    /\ cursorSeq = 0 /\ activeTurn = 0
    /\ stopKey = 0 /\ keyCount = 0 /\ stops = {}
    /\ send = [t \in Turns |-> NewSend]
    /\ reads = {} /\ troubles = 0

---------------------------------------------------------------------------
(* VICT ends a turn with a terminal frame, cancelled only if it was asked  *)
(* to.  The frames before the terminal are delivered at any later time, so *)
(* they are there from the admission on.                                   *)

Finish(t, status) ==
    /\ turn[t].status = "running"
    /\ status = "cancelled" => \E k \in Keys : keyTurn[k] = t
    /\ turn' = [turn EXCEPT ![t].status = status, ![t].emitted = MaxSeq]
    /\ UNCHANGED <<keyTurn, erased, selected, connection, messages, cursorSeq, activeTurn,
                   stopping, send, reads, troubles>>

(* A send that has returned, and one whose pump has: it refreshes the list *)
(* of threads before it returns.                                           *)
Left(t, pc) == [send EXCEPT ![t].pc = pc, ![t].attempt = 0, ![t].resting = "idle",
                            ![t].thread = NoThread]
Ended(t) == Left(t, "done")
Refreshing(t) == Left(t, "refreshing")

(* An open or another send: what is shown is no longer this send's alone.  *)
Disturbed == [u \in Turns |-> [send[u] EXCEPT !.alone = FALSE, !.healed = FALSE]]

---------------------------------------------------------------------------
(* Opening a thread: what is shown is cleared at once, the transcript is   *)
(* installed when it arrives.  The stream of a turn in flight goes on.     *)

Opened(th, id) ==
    /\ selected' = th
    /\ messages' = << >> /\ connection' = "idle"
    /\ stopKey' = 0
    /\ send' = Disturbed
    /\ reads' = reads \cup {[thread |-> th, by |-> 0, id |-> id]}
    /\ UNCHANGED <<vict, cursorSeq, activeTurn, keyCount, stops>>

OpenThread(th) == Trouble /\ Opened(th, troubles)

(* A bug: the transcript is added to what the stream delivered.           *)
ReadReturnsAppended(r, ok) ==
    /\ r \in reads
    /\ IF ok THEN UNCHANGED troubles ELSE Trouble
    /\ reads' = reads \ {r}
    /\ messages' = IF ok THEN messages \o Transcript(r.thread) ELSE messages
    /\ send' = IF r.by = 0 THEN send
               ELSE [Refreshing(r.by) EXCEPT ![r.by].healed = ok /\ send[r.by].alone]
    /\ UNCHANGED <<vict, selected, connection, cursorSeq, activeTurn, stopping>>

(* The answer to an open (by = 0) or to the reconcile of the send `by`.    *)
ReadReturns(r, ok) ==
    /\ r \in reads
    /\ IF ok THEN UNCHANGED troubles ELSE Trouble
    /\ reads' = reads \ {r}
    /\ messages' = IF ok THEN Transcript(r.thread) ELSE messages
    /\ send' = IF r.by = 0 THEN send
               ELSE [Refreshing(r.by) EXCEPT ![r.by].healed = ok /\ send[r.by].alone]
    /\ UNCHANGED <<vict, selected, connection, cursorSeq, activeTurn, stopping>>

(* Nothing of an earlier open or send can still change what is shown.      *)
Quiet == reads = {} /\ \A u \in Turns : send[u].pc \in {"idle", "refreshing", "done"}

---------------------------------------------------------------------------
(* Sending.                                                                *)

(* The composer takes a message: nothing is in flight for this view.       *)
CanSend == connection \notin Busy

Send(t) ==
    /\ send[t].pc = "idle" /\ \A u \in 1 .. t - 1 : send[u].pc # "idle"
    /\ CanSend
    /\ send' = [Disturbed EXCEPT ![t] = [NewSend EXCEPT !.pc = "posting", !.thread = selected,
                                                   !.resting = connection,
                                                   !.alone = Quiet]]
    /\ stopKey' = 0
    /\ cursorSeq' = 0 /\ connection' = "connecting"
    /\ messages' = Append(messages, Line("user", "live", selected, t, << >>))
    /\ UNCHANGED <<vict, selected, activeTurn, keyCount, stops, reads, troubles>>

Admitted(t) == [turn EXCEPT ![t].thread = send[t].thread, ![t].status = "running",
                            ![t].emitted = MaxSeq - 1]

(* The turn is admitted; the pump starts from the cursor as it is now.     *)
SendAccepted(t) ==
    /\ send[t].pc = "posting" /\ OpenTurnOf(send[t].thread) = {}
    /\ turn' = Admitted(t)
    /\ activeTurn' = t
    /\ send' = [send EXCEPT ![t].pc = "pumping", ![t].last = cursorSeq]
    /\ UNCHANGED <<keyTurn, erased, selected, connection, messages, cursorSeq, stopping,
                   reads, troubles>>

(* QLT_TURN_ALREADY_OPEN: the last message shown is taken back.            *)
SendRefused(t) ==
    /\ send[t].pc = "posting" /\ OpenTurnOf(send[t].thread) # {}
    /\ send' = Ended(t)
    /\ messages' = IF messages = << >> THEN messages ELSE Front(messages)
    /\ connection' = send[t].resting
    /\ UNCHANGED <<vict, selected, cursorSeq, activeTurn, stopping, reads, troubles>>

(* Any other refusal, or a request or an answer that is lost: the turn may *)
(* have been admitted.                                                     *)
SendFails(t) ==
    /\ Trouble
    /\ send[t].pc = "posting"
    /\ turn' \in {turn} \cup IF OpenTurnOf(send[t].thread) = {} THEN {Admitted(t)} ELSE {}
    /\ send' = Ended(t)
    /\ connection' = "failed"
    /\ UNCHANGED <<keyTurn, erased, selected, messages, cursorSeq, activeTurn, stopping, reads>>

---------------------------------------------------------------------------
(* connectAgentStream: a bounded number of connections, each read until it *)
(* ends, from the last frame acknowledged.                                 *)

Gone(t) == /\ send' = Refreshing(t)
           /\ connection' = IF connection \in {"stopping", "cancelled"} THEN connection
                            ELSE "disconnected"

(* fetch rejects, or the body ends without a terminal: the next attempt.   *)
Dropped(t) ==
    /\ send[t].pc = "pumping"
    /\ \/ /\ send[t].attempt + 1 < MaxAttempts
          /\ send' = [send EXCEPT ![t].attempt = @ + 1]
          /\ connection' = IF connection = "stopping" THEN connection ELSE "reconnecting"
       \/ send[t].attempt + 1 = MaxAttempts /\ Gone(t)
    /\ UNCHANGED <<vict, selected, messages, cursorSeq, activeTurn, stopping,
                   reads, troubles>>

(* The server answers with an error: final for this consumer.              *)
Refused(t) ==
    /\ Trouble
    /\ send[t].pc = "pumping"
    /\ Gone(t)
    /\ UNCHANGED <<vict, selected, messages, cursorSeq, activeTurn, stopping,
                   reads>>

(* A frame fails wire validation, which ends the pump, or reader.read()    *)
(* rejects, which connectAgentStream does not catch but send does: in both *)
(* cases the turn is shown as failed.                                      *)
PumpFails(t) ==
    /\ Trouble
    /\ send[t].pc = "pumping"
    /\ send' \in {Refreshing(t), Ended(t)}
    /\ connection' = "failed"
    /\ UNCHANGED <<vict, selected, messages, cursorSeq, activeTurn, stopping, reads>>

(* A bug: what was delivered before is applied again.                     *)
AnyIsFresh(t, n) == TRUE

(* The client skips a frame it has applied.                                *)
IsFresh(t, n) == n > send[t].last

Saying(t, n) ==
    IF messages # << >> /\ Last(messages).role = "assistant" /\ Last(messages).kind = "live"
    THEN [messages EXCEPT ![Len(messages)].text = Append(@, <<t, n>>)]
    ELSE Append(messages, Line("assistant", "live", turn[t].thread, t, <<<<t, n>>>>))

(* Delivery is at least once and keeps the order; text frames may be lost. *)
Deliverable(t, n) ==
    /\ n \in 1 .. turn[t].emitted
    /\ \A m \in send[t].last + 1 .. n - 1 : IsDelta(t, m)

(* One frame: skipped when it was applied before, else applied and, if it  *)
(* is a terminal, followed by the reconcile of the thread selected by then.*)
Frame(t, n) ==
    /\ send[t].pc = "pumping" /\ Deliverable(t, n) /\ IsFresh(t, n)
    /\ cursorSeq' = n
    /\ messages' = IF IsDelta(t, n) THEN Saying(t, n) ELSE messages
    /\ connection' = IF IsTerminalFrame(t, n) THEN turn[t].status
                     ELSE IF n = 1 THEN "streaming" ELSE connection
    /\ send' = [send EXCEPT ![t].last = n,
                            ![t].pc = IF IsTerminalFrame(t, n) THEN "reconciling" ELSE @,
                            ![t].attempt = IF IsTerminalFrame(t, n) THEN 0 ELSE @]
    /\ reads' = IF IsTerminalFrame(t, n)
                THEN reads \cup {[thread |-> selected, by |-> t, id |-> 0]}
                ELSE reads
    /\ UNCHANGED <<vict, selected, activeTurn, stopKey, keyCount, stops, troubles>>

Pump(t) == \/ Dropped(t) \/ Refused(t) \/ PumpFails(t)
           \/ \E n \in 1 .. MaxSeq : Frame(t, n)

(* The send is over with the list of threads; a rejection on the way there *)
(* is caught like one of the turn: a complete reply is shown as failed.    *)
SendReturns(t, ok) ==
    /\ send[t].pc = "refreshing"
    /\ send' = Ended(t)
    /\ \/ ok /\ UNCHANGED <<connection, troubles>>
       \/ ~ok /\ connection' = "failed" /\ Trouble
    /\ UNCHANGED <<vict, selected, messages, cursorSeq, activeTurn, stopping, reads>>

---------------------------------------------------------------------------
(* Stopping.                                                               *)

(* The control is there while a reply is connecting, streaming or being    *)
(* stopped, and not while the stream is reconnecting.                      *)
StopShown == connection \in InFlight

(* A click: the key of the intent is made once, the request names the turn *)
(* that was active at the click.  An earlier request may be under way.     *)
Stop ==
    /\ StopShown /\ activeTurn # 0
    /\ Trouble
    /\ stopKey' = IF stopKey = 0 THEN keyCount + 1 ELSE stopKey
    /\ keyCount' = IF stopKey = 0 THEN keyCount + 1 ELSE keyCount
    /\ connection' = "stopping"
    /\ stops' = stops \cup {[key |-> stopKey', turn |-> activeTurn, id |-> troubles,
                              answer |-> "none"]}
    /\ UNCHANGED <<vict, selected, messages, cursorSeq, activeTurn, send, reads>>

StopAnswered(r, a) == stops' = (stops \ {r}) \cup {[r EXCEPT !.answer = a]}

(* The released boundary: a key that was used for another turn is refused, *)
(* a running turn is asked to stop, an ended one may be refused; while a   *)
(* request with the key is processed another one is told so.               *)
StopHandled(r) ==
    /\ r \in stops /\ r.answer = "none"
    /\ \/ /\ keyTurn[r.key] \notin {0, r.turn}
          /\ StopAnswered(r, "rejected")
          /\ UNCHANGED vict
       \/ /\ keyTurn[r.key] \in {0, r.turn}
          /\ keyTurn' = [keyTurn EXCEPT ![r.key] = r.turn]
          /\ UNCHANGED <<turn, erased>>
          /\ \E a \in {"accepted"} \cup IF turn[r.turn].status = "running" THEN {} ELSE {"rejected"} :
                StopAnswered(r, a)
       \/ /\ \E q \in stops : q # r /\ q.key = r.key /\ q.answer = "none"
          /\ StopAnswered(r, "processing")
          /\ UNCHANGED vict
    /\ UNCHANGED <<selected, connection, messages, cursorSeq, activeTurn, stopKey,
                   keyCount, send, reads, troubles>>

(* A bug: an accepted stop request is shown as the end of the reply.      *)
StopReturnsCancelled(r) ==
    /\ r \in stops /\ r.answer \in {"accepted", "processing"}
    /\ stops' = stops \ {r}
    /\ connection' = IF connection \in InFlight THEN "cancelled" ELSE connection
    /\ UNCHANGED <<vict, selected, messages, cursorSeq, activeTurn, stopKey, keyCount,
                   send, reads, troubles>>

(* Accepted, or a duplicate of the same intent, or still being processed:  *)
(* the intermediate state stays until the terminal.                        *)
StopReturns(r) ==
    /\ r \in stops /\ r.answer \in {"accepted", "processing"}
    /\ stops' = stops \ {r}
    /\ connection' = IF connection \in InFlight THEN "stopping" ELSE connection
    /\ UNCHANGED <<vict, selected, messages, cursorSeq, activeTurn, stopKey, keyCount,
                   send, reads, troubles>>

(* Rejected, or never delivered: shown unless the stream has settled.      *)
StopFails(r) ==
    /\ r \in stops /\ r.answer \in {"none", "rejected"}
    /\ stops' = stops \ {r}
    /\ connection' = IF connection = "stopping" THEN "streaming" ELSE connection
    /\ UNCHANGED <<vict, selected, messages, cursorSeq, activeTurn, stopKey, keyCount,
                   send, reads, troubles>>

---------------------------------------------------------------------------
(* What the user does, what brings a reply, what answers a stop request.   *)
UserStep == Stop \/ (\E th \in Threads : OpenThread(th)) \/ (\E t \in Turns : Send(t))

ReplyStep ==
    \/ \E t \in Turns : \/ \E s \in Outcomes : Finish(t, s)
                        \/ SendAccepted(t) \/ SendRefused(t) \/ SendFails(t)
                        \/ Pump(t)
    \/ \E r \in reads, ok \in BOOLEAN : ReadReturns(r, ok)

StopStep == \E r \in stops : StopHandled(r) \/ StopReturns(r) \/ StopFails(r)

---------------------------------------------------------------------------
(* A frame is applied once and in the order of the stream, whatever is     *)
(* delivered again after a reconnect: no text is repeated or swapped.      *)
AppliedInOrder ==
    \A i \in DOMAIN messages :
        \A a, b \in DOMAIN messages[i].text :
            a < b /\ messages[i].text[a][1] = messages[i].text[b][1]
                => messages[i].text[a][2] < messages[i].text[b][2]

(* "Cancelled" is never shown on the strength of an accepted stop request: *)
(* only after the terminal of a turn that VICT did cancel was applied.     *)
CancelledIsAuthoritative ==
    connection = "cancelled" =>
        \E t \in Turns : turn[t].status = "cancelled" /\ send[t].last = turn[t].emitted

(* A send that began with nothing else under way and was not interrupted,  *)
(* once reconciled, shows the durable transcript: no live line is left, no *)
(* lost text is missing.                                                   *)
ReconciledShowsAll ==
    \A t \in Turns : send[t].healed => messages = Transcript(turn[t].thread)
=============================================================================
