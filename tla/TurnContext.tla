----------------------------- MODULE TurnContext -----------------------------
(***************************************************************************)
(* What of the Shared World a reply is given, and under which memory mode  *)
(* (sharedworld/context-assembler.ts, memory-policy.ts, the model seam and *)
(* the admission of composition.ts).                                       *)
(*                                                                         *)
(* The turn is admitted with the mode of that moment.  Each model call of  *)
(* the turn asks resolveForStream for the block to inject: the first one   *)
(* evaluates the records, saves what was selected and renders it; the      *)
(* others share the evaluation, or replay what it saved.  A call is a      *)
(* sequence of awaited ports, and a step here is one port with the code    *)
(* that leads to it: other calls, changes of the mode and of the records   *)
(* come in between.                                                        *)
(*                                                                         *)
(* One conversation, and no more records than the budget of a block: all   *)
(* that are eligible are selected.  Crashes are left out: no turn survives *)
(* one (TurnAdmission), and what is saved here is read again only by the   *)
(* turn it was saved for.                                                  *)
(***************************************************************************)
EXTENDS Naturals, FiniteSets

CONSTANTS
  Turns,          \* turns of the conversation
  Calls,          \* model calls
  Records,        \* confirmed records
  Here,           \* those that come from this conversation
  Null,
  MaxRevision,    \* bound on changes of the mode
  MaxVersion,     \* bound on changes of a record
  MaxFaults,      \* bound on ports that throw
  Bypass          \* whether a turn may be opened beside an open one

ASSUME HereAssumption == Here \subseteq Records
ASSUME BoundsAssumption ==
  /\ MaxRevision \in Nat \ {0} /\ MaxVersion \in Nat \ {0} /\ MaxFaults \in Nat
  /\ Bypass \in BOOLEAN
Modes == {"across", "per", "off"}
Policies == [mode : Modes, revision : 1 .. MaxRevision]
Rows == [Records -> [version : 0 .. MaxVersion, current : BOOLEAN]]

ASSUME NullAssumption == Null \notin Turns \cup Calls \cup Policies

(* A selection names records in the versions they had.                     *)
Selections == SUBSET (Records \X (0 .. MaxVersion))

VARIABLES
  policy,     \* qlt_memory_policy
  row,        \* the records: version, and whether it is a candidate
  open,       \* the open turns
  bound,      \* the policy in the scope of a turn
  admitted,   \* the records when a turn was admitted (history)
  evidence,   \* qlt_turn_memory_policy
  assembly,   \* qlt_context_assembly
  cache,      \* renderCache
  inFlight,   \* the call whose promise stands for a turn
  of,         \* the turn in whose scope a call runs
  pc,         \* where it is
  turn,       \* the turn it was attributed to
  owner,      \* the call whose promise it awaits
  found,      \* the record it has read or is to save
  answer,     \* what it injects: the turn and the block, or nothing
  astray,     \* the turns a call of another turn was attributed to (history)
  faults

records == <<evidence, assembly>>
scopes == <<policy, row, open, bound, admitted>>
call == <<pc, turn, owner, found, answer>>
vars == <<scopes, records, cache, inFlight, of, call, astray, faults>>

NoAssembly == [outcome |-> "none", selected |-> {}]
Pass == [turn |-> Null, block |-> {}]

(* An outcome is complete exactly if it selects something.                 *)
Outcomes ==
  {a \in [outcome : {"none", "empty", "failed", "complete"}, selected : Selections] :
     (a.outcome = "complete") <=> (a.selected # {})}

Labels == {"idle", "list", "get", "wait", "again", "policy", "scan", "save",
           "render", "reread", "done"}

(* A promise that stands for a turn is that of a call on its way there.    *)
PromisesStand ==
  \A t \in Turns : inFlight[t] # Null =>
    LET c == inFlight[t] IN
    /\ turn[c] = t
    /\ owner[c] = c
    /\ pc[c] \in {"again", "policy", "scan", "save", "render", "reread"}

TypeOK ==
  /\ policy \in Policies
  /\ row \in Rows
  /\ open \subseteq Turns
  /\ bound \in [Turns -> Policies \cup {Null}]
  /\ admitted \in [Turns -> Rows]
  /\ evidence \in [Turns -> Policies \cup {Null}]
  /\ assembly \in [Turns -> Outcomes]
  /\ cache \in [Turns -> Selections]
  /\ inFlight \in [Turns -> Calls \cup {Null}]
  /\ of \in [Calls -> Turns \cup {Null}]
  /\ pc \in [Calls -> Labels]
  /\ turn \in [Calls -> Turns \cup {Null}]
  /\ owner \in [Calls -> Calls \cup {Null}]
  /\ found \in [Calls -> Outcomes]
  /\ answer \in [Calls -> [turn : Turns \cup {Null}, block : Selections]]
  /\ astray \subseteq Turns
  /\ faults \in 0 .. MaxFaults
  /\ PromisesStand

Init ==
  /\ policy = [mode |-> "across", revision |-> 1]
  /\ row \in [Records -> {[version |-> 0, current |-> FALSE],
                          [version |-> 1, current |-> TRUE]}]
  /\ open = {}
  /\ bound = [t \in Turns |-> Null]
  /\ admitted = [t \in Turns |-> row]
  /\ evidence = [t \in Turns |-> Null]
  /\ assembly = [t \in Turns |-> NoAssembly]
  /\ cache = [t \in Turns |-> {}]
  /\ inFlight = [t \in Turns |-> Null]
  /\ of = [c \in Calls |-> Null]
  /\ pc = [c \in Calls |-> "idle"]
  /\ turn = [c \in Calls |-> Null]
  /\ owner = [c \in Calls |-> Null]
  /\ found = [c \in Calls |-> NoAssembly]
  /\ answer = [c \in Calls |-> Pass]
  /\ astray = {}
  /\ faults = 0
-----------------------------------------------------------------------------
(* admitTurn: inside the section of the conversation, the scope takes the  *)
(* current policy and the turn opens.                                      *)
Admit(t) ==
  /\ bound[t] = Null
  /\ open = {} \/ Bypass
  /\ bound' = [bound EXCEPT ![t] = policy]
  /\ admitted' = [admitted EXCEPT ![t] = row]
  /\ open' = open \cup {t}
  /\ UNCHANGED <<policy, row, records, cache, inFlight, of, call, astray, faults>>

(* The turn settles, in the tables of the framework; when the user stops   *)
(* it, with calls of it under way.                                         *)
EndTurn(t) ==
  /\ t \in open
  /\ open' = open \ {t}
  /\ UNCHANGED <<policy, row, bound, admitted, records, cache, inFlight, of,
                 call, astray, faults>>

SetMode(mode) ==
  /\ policy.mode # mode
  /\ policy.revision < MaxRevision
  /\ policy' = [mode |-> mode, revision |-> policy.revision + 1]
  /\ UNCHANGED <<row, open, bound, admitted, records, cache, inFlight, of,
                 call, astray, faults>>

(* A record is made, changed, or leaves for good: it is superseded, ended, *)
(* expired or removed (NothingComesBack of MeaningRecords).                *)
ChangeRecord(r, current) ==
  /\ row[r].version < MaxVersion
  /\ IF row[r].version = 0 THEN current ELSE row[r].current
  /\ row' = [row EXCEPT ![r] = [version |-> @.version + 1, current |-> current]]
  /\ UNCHANGED <<policy, open, bound, admitted, records, cache, inFlight, of,
                 call, astray, faults>>

(* The agent of turn t calls its model.                                    *)
Call(c, t) ==
  /\ pc[c] = "idle"
  /\ t \in open
  /\ of' = [of EXCEPT ![c] = t]
  /\ pc' = [pc EXCEPT ![c] = "list"]
  /\ UNCHANGED <<scopes, records, cache, inFlight, turn, owner, found, answer,
                 astray, faults>>
-----------------------------------------------------------------------------
At(c, where) == pc[c] = where

Go(c, where) ==
  /\ pc' = [pc EXCEPT ![c] = where]
  /\ UNCHANGED <<scopes, of, turn, owner, answer, astray, faults>>

(* resolveForStream answers; a promise that stood for the turn is dropped, *)
(* whichever it is.                                                        *)
Resolve(c, what) ==
  /\ pc' = [pc EXCEPT ![c] = "done"]
  /\ answer' = [answer EXCEPT ![c] = what]
  /\ inFlight' = IF owner[c] = c THEN [inFlight EXCEPT ![turn[c]] = Null]
                 ELSE inFlight
  /\ turn' = [turn EXCEPT ![c] = Null]
  /\ owner' = [owner EXCEPT ![c] = Null]
  /\ found' = [found EXCEPT ![c] = NoAssembly]
  /\ UNCHANGED <<scopes, of, astray>>

(* Exactly one open turn of the conversation.                              *)
Attributable(t) == open = {t}

(* listOpenTurns, and the promise of another call, if there is one.        *)
Attribute(c) ==
  /\ At(c, "list")
  /\ \E t \in Turns :
       /\ Attributable(t)
       /\ turn' = [turn EXCEPT ![c] = t]
       /\ owner' = [owner EXCEPT ![c] = inFlight[t]]
       /\ pc' = [pc EXCEPT ![c] = IF inFlight[t] = Null THEN "get" ELSE "wait"]
       /\ astray' = IF t = of[c] THEN astray ELSE astray \cup {t}
  /\ UNCHANGED <<scopes, records, cache, inFlight, of, found, answer, faults>>

PassThrough(c) ==
  /\ At(c, "list")
  /\ \A t \in Turns : ~ Attributable(t)
  /\ Resolve(c, Pass)
  /\ UNCHANGED <<records, cache, faults>>

Shared(c) == pc[owner[c]] = "done"

Join(c) ==
  /\ At(c, "wait")
  /\ Shared(c)
  /\ Resolve(c, answer[owner[c]])
  /\ UNCHANGED <<records, cache, faults>>

(* getAssemblyByTurn finds nothing: the call's own promise is to stand for *)
(* the turn.                                                               *)
Start(c) ==
  /\ At(c, "get")
  /\ assembly[turn[c]] = NoAssembly
  /\ inFlight' = [inFlight EXCEPT ![turn[c]] = c]
  /\ owner' = [owner EXCEPT ![c] = c]
  /\ pc' = [pc EXCEPT ![c] = "again"]
  /\ UNCHANGED <<scopes, records, cache, of, turn, found, answer, astray, faults>>

(* assembleForTurn looks once more.                                        *)
StillNothing(c) ==
  /\ At(c, "again")
  /\ assembly[turn[c]] = NoAssembly
  /\ Go(c, "policy")
  /\ UNCHANGED <<records, cache, inFlight, found>>

(* replayRecord, from either look.                                         *)
Replay(c) ==
  LET t == turn[c] IN
  /\ At(c, "get") \/ At(c, "again")
  /\ assembly[t] # NoAssembly
  /\ \/ /\ assembly[t].outcome # "complete"
        /\ Resolve(c, Pass)
        /\ UNCHANGED faults
     \/ /\ assembly[t].outcome = "complete"
        /\ cache[t] # {}
        /\ Resolve(c, [turn |-> t, block |-> cache[t]])
        /\ UNCHANGED faults
     \/ /\ assembly[t].outcome = "complete"
        /\ cache[t] = {}
        /\ Go(c, "reread")
        /\ found' = [found EXCEPT ![c] = assembly[t]]
        /\ UNCHANGED inFlight
  /\ UNCHANGED <<records, cache>>

(* A bug: the policy that is current when the reply gets to its memory.    *)
PolicyNow(c) == policy

PolicyOf(c) == bound[of[c]]

(* recordTurnPolicy, insert or converge; with the mode off an empty        *)
(* outcome is next, without a scan.                                        *)
RecordPolicy(c) ==
  /\ At(c, "policy")
  /\ evidence' = IF evidence[turn[c]] # Null THEN evidence
                 ELSE [evidence EXCEPT ![turn[c]] = PolicyOf(c)]
  /\ Go(c, IF PolicyOf(c).mode = "off" THEN "save" ELSE "scan")
  /\ found' = [found EXCEPT ![c] = [outcome |-> "empty", selected |-> {}]]
  /\ UNCHANGED <<assembly, cache, inFlight>>

(* A bug: a record is a candidate while its row is there.                  *)
CandidatesOfAnyState == {r \in Records : row[r].version > 0}

(* listContextCandidates, and what evaluateRow lets through.               *)
Candidates == {r \in Records : row[r].current}

InScope(mode) == IF mode = "per" THEN Here ELSE Records

Scan(c) ==
  /\ At(c, "scan")
  /\ LET S == Candidates \cap InScope(PolicyOf(c).mode) IN
       found' = [found EXCEPT ![c] =
         [outcome |-> IF S = {} THEN "empty" ELSE "complete",
          selected |-> {<<r, row[r].version>> : r \in S}]]
  /\ Go(c, "save")
  /\ UNCHANGED <<records, cache, inFlight>>

(* A bug: the last record of a turn stands.                                *)
SavedLast(t, a) == [assembly EXCEPT ![t] = a]

(* recordContextAssembly: the first record of a turn stands.               *)
Saved(t, a) == IF assembly[t] # NoAssembly THEN assembly ELSE [assembly EXCEPT ![t] = a]

Save(c) ==
  /\ At(c, "save")
  /\ assembly' = Saved(turn[c], found[c])
  /\ IF found[c].outcome = "complete"
     THEN Go(c, "render") /\ UNCHANGED <<inFlight, found>>
     ELSE Resolve(c, Pass) /\ UNCHANGED faults
  /\ UNCHANGED <<evidence, cache>>

(* The block of the call's own evaluation.                                 *)
Render(c) ==
  /\ At(c, "render")
  /\ cache' = [cache EXCEPT ![turn[c]] = found[c].selected]
  /\ Resolve(c, [turn |-> turn[c], block |-> found[c].selected])
  /\ UNCHANGED <<records, faults>>

Reread(c) == {e \in found[c].selected : row[e[1]].version = e[2]}

(* getContextRowsByIds, for a replay that finds no rendered block.         *)
Rerender(c) ==
  LET t == turn[c]
      whole == Reread(c) = found[c].selected
  IN
  /\ At(c, "reread")
  /\ Resolve(c, IF whole THEN [turn |-> t, block |-> found[c].selected] ELSE Pass)
  /\ cache' = IF whole THEN [cache EXCEPT ![t] = found[c].selected] ELSE cache
  /\ UNCHANGED <<records, faults>>

(* The port a call awaits throws.  After a scan that fails the failed      *)
(* outcome is saved; every other failure lets the reply pass.              *)
Fault(c) ==
  /\ faults < MaxFaults
  /\ faults' = faults + 1
  /\ \/ /\ At(c, "scan")
        /\ pc' = [pc EXCEPT ![c] = "save"]
        /\ found' = [found EXCEPT ![c] = [outcome |-> "failed", selected |-> {}]]
        /\ UNCHANGED <<scopes, inFlight, of, turn, owner, answer, astray>>
     \/ /\ pc[c] \in {"list", "get", "again", "policy", "save", "reread"}
        /\ Resolve(c, Pass)
  /\ UNCHANGED <<records, cache>>

Ports(c) ==
  \/ Attribute(c) \/ PassThrough(c) \/ Join(c) \/ Start(c) \/ StillNothing(c)
  \/ Replay(c) \/ RecordPolicy(c) \/ Scan(c) \/ Save(c) \/ Render(c)
  \/ Rerender(c)

Next ==
  \/ \E t \in Turns : Admit(t) \/ EndTurn(t)
  \/ \E mode \in Modes : SetMode(mode)
  \/ \E r \in Records, current \in BOOLEAN : ChangeRecord(r, current)
  \/ \E c \in Calls : Ports(c) \/ Fault(c) \/ \E t \in Turns : Call(c, t)

Spec == Init /\ [][Next]_vars

-----------------------------------------------------------------------------
Injects(c) == answer[c] # Pass

(* A selection keeps to a policy: nothing with the mode off, nothing from  *)
(* elsewhere within the conversation only.                                 *)
UnderPolicy(p, S) ==
  /\ p.mode = "off" => S = {}
  /\ p.mode = "per" => \A e \in S : e[1] \in Here

(* The evidence is there, and the selection under it.                      *)
Evident(t, S) ==
  /\ evidence[t] # Null
  /\ t \notin astray => UnderPolicy(evidence[t], S)

(* The evidence of a turn is the policy it was admitted with, however the  *)
(* mode changes meanwhile (composition.ts:1424, policy-contract.ts:211);   *)
(* no outcome is saved, and nothing is injected, before that evidence is,  *)
(* and both keep to it (context-assembler.ts:652).  Only a turn that met a *)
(* call of another one may have the policy of that one.                    *)
MemoryKeepsToAdmission ==
  /\ \A t \in Turns : evidence[t] # Null => evidence[t] = bound[t] \/ t \in astray
  /\ \A t \in Turns : assembly[t] # NoAssembly => Evident(t, assembly[t].selected)
  /\ \A c \in Calls : Injects(c) => Evident(answer[c].turn, answer[c].block)

(* A call injects the memory of its own turn, even when a second turn was  *)
(* opened beside it (context-assembler.ts:796), unless its own had ended,  *)
(* stopped under it, and the other was open by then.                       *)
InjectedIsOwn ==
  /\ \A c \in Calls : Injects(c) => answer[c].turn = of[c] \/ answer[c].turn \in astray
  /\ \A t \in astray : \E c \in Calls : of[c] \in Turns \ (open \cup {t})

(* No record in a state it had left by then.                               *)
Fresh(then, S) ==
  \A e \in S : /\ e[2] >= then[e[1]].version
              /\ e[2] = then[e[1]].version => then[e[1]].current

(* A reply is given no record in a state it had left before the turn it is *)
(* attributed to was admitted: what was superseded or removed stays so,    *)
(* whatever is cached or replayed.                                         *)
InjectedIsFresh ==
  \A c \in Calls : Injects(c) => Fresh(admitted[answer[c].turn], answer[c].block)

InjectedIsRight == InjectedIsOwn /\ InjectedIsFresh

(* What is saved of a turn stands, whoever evaluates it again or comes     *)
(* late: one assembly per turn (sqlite.ts:1443).                           *)
FirstRecordStands ==
  [][\A t \in Turns :
       /\ assembly[t] # NoAssembly => assembly'[t] = assembly[t]
       /\ evidence[t] # Null => evidence'[t] = evidence[t]]_records
=============================================================================
