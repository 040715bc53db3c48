------------------------------- MODULE ModelCall ------------------------------
(***************************************************************************)
(* A model call from its memory to the end of its stream: the deadline     *)
(* seam around the context seam (withTurnDeadline, server/model-seam.ts;   *)
(* modelFactory, server/composition.ts).                                   *)
(*                                                                         *)
(* The clock of a call starts with it, its timer only when the provider,   *)
(* which is called as soon as the memory is resolved, has produced a       *)
(* stream.  From then on the timer, the read that is pending and the       *)
(* consumer race: each callback is a step.  The consumer is the framework, *)
(* which stops reading when the turn is cancelled; the provider is a       *)
(* library.                                                                *)
(***************************************************************************)
EXTENDS TurnContext

CONSTANT MaxParts   \* bound: parts of a provider's stream

ASSUME PartsAssumption == MaxParts \in Nat /\ Null \notin 0 .. MaxParts

VARIABLES
  seam,      \* where the call is: "idle", "reading" or "over"
  due,       \* the parts passed on when deadlineMs had gone by, or Null
  hit,       \* deadlineHit
  source,    \* the provider's stream: "none", "open", "done", "failed", "cancelled"
  produced,  \* parts it has produced
  passed,    \* parts the consumer can read
  ending     \* how the consumer's stream ended: "open", "closed", "deadline",
             \* "failed", or "left" when the consumer went first

stream == <<hit, source, produced, passed, ending>>
seams == <<vars, seam, due, stream>>

SeamInit ==
  /\ seam = [c \in Calls |-> "idle"]
  /\ due = [c \in Calls |-> Null]
  /\ hit = [c \in Calls |-> FALSE]
  /\ source = [c \in Calls |-> "none"]
  /\ produced = [c \in Calls |-> 0]
  /\ passed = [c \in Calls |-> 0]
  /\ ending = [c \in Calls |-> "open"]

TimeIsUp(c) == due[c] # Null

---------------------------------------------------------------------------
(* The clock of the call, which began with it; that it ran out before      *)
(* there was a stream is seen when there is one (StreamOpens).             *)
Elapse(c) ==
  /\ seam[c] = "reading" /\ ~TimeIsUp(c)
  /\ due' = [due EXCEPT ![c] = passed[c]]
  /\ UNCHANGED <<vars, seam, stream>>

(* The consumer's stream has ended, unless it had before.                  *)
Ends(c, how) == ending' = [ending EXCEPT ![c] = IF @ = "open" THEN how ELSE @]

Over(c, how) == seam' = [seam EXCEPT ![c] = "over"] /\ Ends(c, how)

(* The memory is resolved, and with that the provider called.              *)
Called(c) == pc[c] = "done" /\ seam[c] = "idle"

ProviderThrows(c) ==
  /\ Called(c)
  /\ Over(c, "failed")
  /\ UNCHANGED <<vars, due, hit, source, produced, passed>>

(* A stream in time is bounded and read from; one that is late is left.    *)
StreamOpens(c) ==
  /\ Called(c)
  /\ source' = [source EXCEPT ![c] = "open"]
  /\ \/ seam' = [seam EXCEPT ![c] = "reading"] /\ UNCHANGED <<due, ending>>
     \/ due' = [due EXCEPT ![c] = 0] /\ Over(c, "deadline")
  /\ UNCHANGED <<vars, hit, produced, passed>>

---------------------------------------------------------------------------
(* The loop, which waits for a part.                                       *)
Reading(c) == seam[c] = "reading" /\ source[c] = "open"

(* A part comes when the timer was first, or to nobody: the loop ends.     *)
PartDropped(c) ==
  /\ Reading(c) /\ produced[c] < MaxParts
  /\ hit[c] \/ ending[c] # "open"
  /\ produced' = [produced EXCEPT ![c] = @ + 1]
  /\ Over(c, "failed")
  /\ UNCHANGED <<vars, due, hit, source, passed>>

(* A bug: the clock is the timer's affair.                                 *)
PartPassedOnly(c) ==
  /\ Reading(c) /\ produced[c] < MaxParts
  /\ ~hit[c] /\ ending[c] = "open"
  /\ produced' = [produced EXCEPT ![c] = @ + 1]
  /\ passed' = [passed EXCEPT ![c] = @ + 1]
  /\ UNCHANGED <<vars, due, seam, hit, source, ending>>

(* A part is passed on; then the clock is looked at.                       *)
PartPassed(c) ==
  /\ Reading(c) /\ produced[c] < MaxParts
  /\ ~hit[c] /\ ending[c] = "open"
  /\ produced' = [produced EXCEPT ![c] = @ + 1]
  /\ passed' = [passed EXCEPT ![c] = @ + 1]
  /\ IF TimeIsUp(c)
     THEN /\ hit' = [hit EXCEPT ![c] = TRUE]
          /\ source' = [source EXCEPT ![c] = "cancelled"]
          /\ Over(c, "deadline")
     ELSE UNCHANGED <<hit, source, seam, ending>>
  /\ UNCHANGED <<vars, due>>

(* The provider's stream is done, or fails, and with it the consumer's.    *)
SourceEnds(c) ==
  /\ Reading(c)
  /\ \/ source' = [source EXCEPT ![c] = "done"] /\ Over(c, "closed")
     \/ source' = [source EXCEPT ![c] = "failed"] /\ Over(c, "failed")
  /\ UNCHANGED <<vars, due, hit, produced, passed>>

(* A bug: there is no timer, the clock is looked at between parts.         *)
TimerUnset(c) ==
  /\ seam[c] = "reading" /\ TimeIsUp(c) /\ hit[c]
  /\ UNCHANGED seams

(* The timer: one error part and the end, while a read is pending.         *)
TimerFires(c) ==
  /\ seam[c] = "reading" /\ TimeIsUp(c) /\ ~hit[c]
  /\ hit' = [hit EXCEPT ![c] = TRUE]
  /\ Ends(c, "deadline")
  /\ UNCHANGED <<vars, due, seam, source, produced, passed>>

(* The consumer cancels its stream, which the loop is not told of.         *)
ConsumerLeaves(c) ==
  /\ seam[c] = "reading" /\ ending[c] = "open"
  /\ Ends(c, "left")
  /\ UNCHANGED <<vars, due, seam, hit, source, produced, passed>>

---------------------------------------------------------------------------
(* What leads to the memory; a turn may be stopped while streams go on.    *)
Context == Next /\ UNCHANGED <<seam, due, stream>>

(* What comes of itself: the memory's ports, what the provider makes of    *)
(* its call, the clock and its timer; but not the parts.                   *)
Runs(c) ==
  \/ Ports(c) /\ UNCHANGED <<seam, due, stream>>
  \/ ProviderThrows(c) \/ StreamOpens(c)
Time(c) == Elapse(c) \/ TimerFires(c)

CallNext ==
  \/ Context
  \/ \E c \in Calls : \/ Time(c)
                      \/ ProviderThrows(c) \/ StreamOpens(c)
                      \/ PartDropped(c) \/ PartPassed(c) \/ SourceEnds(c)
                      \/ ConsumerLeaves(c)

CallInit == Init /\ SeamInit

CallSpec ==
  /\ CallInit /\ [][CallNext]_seams
  /\ \A c \in Calls : WF_seams(Runs(c)) /\ WF_seams(Time(c))

---------------------------------------------------------------------------
(* A reply that ends as complete has every part the provider produced, and *)
(* a deadline that has gone by lets one more through at most, whichever of *)
(* the timer, the clock and the read is first ("It never fabricates or     *)
(* retries content", docs/system-reference.md:705).                        *)
StreamsAreHonest ==
  \A c \in Calls :
    /\ ending[c] = "closed" => source[c] = "done" /\ passed[c] = produced[c]
    /\ TimeIsUp(c) => passed[c] <= due[c] + 1

(* Every model call comes to an end for the framework once it has asked    *)
(* for its memory, also when the provider's stream stays open and silent.  *)
EveryCallEnds == \A c \in Calls : pc[c] = "list" ~> ending[c] # "open"
=============================================================================
