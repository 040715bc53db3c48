-------------------------- MODULE TurnContextProofs --------------------------
(***************************************************************************)
(* TurnContext for any turns, calls, records and bounds: that no call      *)
(* waits for nobody, and what a reply is given, however turns are stopped  *)
(* or overlap and whatever throws.                                         *)
(*                                                                         *)
(* The inductive invariant follows a selection on its way: from the scan,  *)
(* through what a call has found, the saved outcome and the rendered       *)
(* block, to the answer.  Everywhere it is good for the turn it was made   *)
(* for, which is the turn the call was attributed to: the evidence of that *)
(* turn is there, the selection keeps to it unless the turn met a call of  *)
(* another one, and it names no record in a state it had left before the   *)
(* turn was admitted.                                                      *)
(***************************************************************************)
EXTENDS ModelCall, TLAPS

Good(t, p, strays, then, S) ==
  p # Null /\ (t \notin strays => UnderPolicy(p, S)) /\ Fresh(then, S)

GoodFor(t, S) == Good(t, evidence[t], astray, admitted[t], S)

(* A turn is bound before it has evidence, which is of that policy unless  *)
(* the turn met a call of another one; and the records have only moved on  *)
(* since.                                                                  *)
Bindings ==
  \A t \in Turns :
    /\ t \in open => bound[t] # Null
    /\ evidence[t] # Null => bound[t] # Null /\ (evidence[t] = bound[t] \/ t \in astray)
    /\ bound[t] # Null => \A r \in Records :
         /\ row[r].version >= admitted[t][r].version
         /\ row[r].version = admitted[t][r].version => row[r] = admitted[t][r]

Under == {"list", "get", "wait", "again", "policy", "scan", "save", "render",
          "reread"}

(* A call under way runs in the scope of a turn and past its list it is    *)
(* attributed to one; the call whose promise it awaits is at work on that  *)
(* promise, or has answered.                                               *)
AtWork == {"again", "policy", "scan", "save", "render", "reread"}
Underway ==
  \A c \in Calls :
    /\ pc[c] \in Under => of[c] \in Turns
    /\ pc[c] \in Under \ {"list"} => turn[c] \in Turns
    /\ pc[c] = "wait" => owner[c] \in Calls /\ pc[owner[c]] \in AtWork \cup {"done"}

(* A call under way is one of a turn that was admitted, and so is the turn *)
(* it is attributed to; what it waits for is of that turn too.             *)
Attributions ==
  \A c \in Calls :
    /\ pc[c] = "idle" => answer[c] = Pass
    /\ pc[c] \in Under => bound[of[c]] # Null
    /\ pc[c] \in Under \ {"list"} =>
         bound[turn[c]] # Null /\ (turn[c] = of[c] \/ turn[c] \in astray)
    /\ pc[c] = "wait" => LET d == owner[c] IN
         /\ pc[d] \in AtWork => turn[d] = turn[c]
         /\ pc[d] = "done" => answer[d] = Pass \/ answer[d].turn = turn[c]

(* A turn meets a call of another one only when that one has ended.        *)
Strays ==
  \A t \in astray : \E c \in Calls :
    pc[c] # "idle" /\ of[c] \in Turns \ (open \cup {t}) /\ bound[of[c]] # Null

(* What a call is about to save, render or answer with is good.            *)
Carried ==
  \A c \in Calls :
    /\ pc[c] = "scan" => evidence[turn[c]] # Null /\ bound[of[c]].mode # "off"
    /\ pc[c] \in {"save", "render", "reread"} => GoodFor(turn[c], found[c].selected)

(* What is saved, cached and injected is good.                             *)
Stored ==
  /\ \A t \in Turns : assembly[t] # NoAssembly => GoodFor(t, assembly[t].selected)
  /\ \A t \in Turns : cache[t] # {} => GoodFor(t, cache[t])

Injected ==
  \A c \in Calls : Injects(c) =>
    /\ answer[c].turn \in Turns
    /\ answer[c].turn = of[c] \/ answer[c].turn \in astray
    /\ GoodFor(answer[c].turn, answer[c].block)

ContextInv ==
  TypeOK /\ Underway /\ Bindings /\ Attributions /\ Strays /\ Carried /\ Stored
  /\ Injected
-----------------------------------------------------------------------------
USE NullAssumption, HereAssumption, BoundsAssumption

(* Outcomes and blocks that the steps write.                               *)
LEMMA OutcomesTyped ==
  /\ NoAssembly \in Outcomes
  /\ [outcome |-> "empty", selected |-> {}] \in Outcomes
  /\ [outcome |-> "failed", selected |-> {}] \in Outcomes
  /\ Pass \in [turn : Turns \cup {Null}, block : Selections]
BY DEF NoAssembly, Outcomes, Pass, Selections

(* What a scan selects is a selection.                                     *)
LEMMA ScanTyped ==
  ASSUME TypeOK, NEW S \in SUBSET Records
  PROVE  [outcome |-> IF S = {} THEN "empty" ELSE "complete",
          selected |-> {<<r, row[r].version>> : r \in S}] \in Outcomes
<1> DEFINE T == {<<r, row[r].version>> : r \in S}
<1>1. \A r \in S : row[r].version \in 0 .. MaxVersion
  BY DEF TypeOK, Rows
<1>2. T \in Selections
  BY <1>1 DEF Selections
<1>3. T = {} <=> S = {}
  OBVIOUS
<1> HIDE DEF T
<1>4. [outcome |-> IF S = {} THEN "empty" ELSE "complete", selected |-> T] \in Outcomes
  BY <1>2, <1>3 DEF Outcomes
<1> QED BY <1>4 DEF T

(* The promises that stand are kept by a step of one call that leaves them *)
(* and goes on, or answers.                                                *)
LEMMA PromisesKept ==
  ASSUME TypeOK, NEW c \in Calls,
         \/ /\ inFlight' = inFlight /\ turn' = turn /\ owner' = owner
            /\ \E where \in {"again", "policy", "scan", "save", "render", "reread"} :
                 pc' = [pc EXCEPT ![c] = where]
         \/ \E what : Resolve(c, what)
  PROVE  PromisesStand'
<1>1. CASE \E what : Resolve(c, what)
  BY <1>1 DEF TypeOK, PromisesStand, Resolve
<1>2. CASE ~ \E what : Resolve(c, what)
  BY <1>2 DEF TypeOK, PromisesStand
<1> QED BY <1>1, <1>2

(* An answer keeps the types.                                              *)
LEMMA ResolveTyped ==
  ASSUME TypeOK, NEW c \in Calls,
         NEW what \in [turn : Turns \cup {Null}, block : Selections],
         Resolve(c, what),
         assembly' \in [Turns -> Outcomes], evidence' = evidence,
         cache' \in [Turns -> Selections], faults' \in 0 .. MaxFaults
  PROVE  TypeOK'
<1>1. PromisesStand'
  BY PromisesKept
<1>2. /\ inFlight' \in [Turns -> Calls \cup {Null}]
      /\ pc' \in [Calls -> Labels]
      /\ turn' \in [Calls -> Turns \cup {Null}]
      /\ owner' \in [Calls -> Calls \cup {Null}]
      /\ answer' \in [Calls -> [turn : Turns \cup {Null}, block : Selections]]
  BY DEF TypeOK, Resolve, Labels
<1>3. found' \in [Calls -> Outcomes]
  BY OutcomesTyped DEF TypeOK, Resolve
<1> QED BY <1>1, <1>2, <1>3 DEF TypeOK, Resolve, scopes

(* A call that goes on keeps the types.                                    *)
LEMMA GoTyped ==
  ASSUME TypeOK, NEW c \in Calls,
         NEW where \in {"policy", "scan", "save", "render", "reread"}, Go(c, where),
         assembly' \in [Turns -> Outcomes],
         evidence' \in [Turns -> Policies \cup {Null}],
         found' \in [Calls -> Outcomes], cache' = cache, inFlight' = inFlight
  PROVE  TypeOK'
<1>1. PromisesStand'
  BY PromisesKept DEF Go
<1>2. pc' \in [Calls -> Labels]
  BY DEF TypeOK, Go, Labels
<1> QED BY <1>1, <1>2 DEF TypeOK, Go, scopes
-----------------------------------------------------------------------------
(* The steps outside the calls keep the types.                             *)
LEMMA TypesOutside ==
  ASSUME TypeOK,
         \/ \E t \in Turns : Admit(t) \/ EndTurn(t)
         \/ \E mode \in Modes : SetMode(mode)
         \/ \E r \in Records, current \in BOOLEAN : ChangeRecord(r, current)
         \/ \E c \in Calls, t \in Turns : Call(c, t)
  PROVE  TypeOK'
<1>1. ASSUME NEW t \in Turns, Admit(t) \/ EndTurn(t)
      PROVE  TypeOK'
  <2>1. /\ open' \subseteq Turns
        /\ bound' \in [Turns -> Policies \cup {Null}]
        /\ admitted' \in [Turns -> Rows]
    BY <1>1 DEF TypeOK, Admit, EndTurn
  <2> QED BY <1>1, <2>1 DEF TypeOK, PromisesStand, Admit, EndTurn, records, call
<1>2. ASSUME NEW mode \in Modes, SetMode(mode)
      PROVE  TypeOK'
  <2>1. policy' \in Policies
    BY <1>2 DEF TypeOK, SetMode, Policies
  <2> QED BY <1>2, <2>1 DEF TypeOK, PromisesStand, SetMode, records, call
<1>3. ASSUME NEW r \in Records, NEW current \in BOOLEAN, ChangeRecord(r, current)
      PROVE  TypeOK'
  <2>1. row' \in Rows
    BY <1>3 DEF TypeOK, ChangeRecord, Rows
  <2> QED BY <1>3, <2>1 DEF TypeOK, PromisesStand, ChangeRecord, records, call
<1>4. ASSUME NEW c \in Calls, NEW t \in Turns, Call(c, t)
      PROVE  TypeOK'
  BY <1>4 DEF TypeOK, PromisesStand, Call, scopes, records, Labels
<1> QED BY <1>1, <1>2, <1>3, <1>4

(* The steps of the calls keep the types.                                  *)
LEMMA TypesOfCalls ==
  ASSUME TypeOK, Underway, NEW c \in Calls, Ports(c) \/ Fault(c)
  PROVE  TypeOK'
<1>1. CASE Attribute(c)
  BY <1>1 DEF TypeOK, PromisesStand, Attribute, At, scopes, records, Labels
<1>2. CASE PassThrough(c)
  BY <1>2, ResolveTyped, OutcomesTyped DEF PassThrough, TypeOK, records
<1>3. CASE Join(c)
  <2>1. answer[owner[c]] \in [turn : Turns \cup {Null}, block : Selections]
    BY <1>3 DEF TypeOK, Underway, Join, At
  <2> QED BY <1>3, <2>1, ResolveTyped DEF Join, TypeOK, records
<1>4. CASE Start(c)
  <2>1. /\ inFlight' \in [Turns -> Calls \cup {Null}]
        /\ owner' \in [Calls -> Calls \cup {Null}]
        /\ pc' \in [Calls -> Labels]
    BY <1>4 DEF TypeOK, Start, Labels
  <2>2. PromisesStand'
    BY <1>4 DEF TypeOK, PromisesStand, Start, At
  <2> QED BY <1>4, <2>1, <2>2 DEF TypeOK, Start, scopes, records
<1>5. CASE StillNothing(c)
  BY <1>5, GoTyped DEF StillNothing, TypeOK, records
<1>6. CASE Replay(c)
  <2>1. /\ turn[c] \in Turns
        /\ cache[turn[c]] \in Selections /\ assembly[turn[c]] \in Outcomes
    BY <1>6 DEF Replay, At, TypeOK, Underway, Under
  <2>2. CASE Go(c, "reread")
    BY <1>6, <2>1, <2>2, GoTyped DEF Replay, TypeOK, records, Resolve, Go
  <2>3. CASE ~ Go(c, "reread")
    BY <1>6, <2>1, <2>3, ResolveTyped, OutcomesTyped DEF Replay, TypeOK, records
  <2> QED BY <2>2, <2>3
<1>7. CASE RecordPolicy(c)
  <2>1. bound[of[c]] \in Policies \cup {Null}
    BY <1>7 DEF RecordPolicy, At, TypeOK, Underway, Under
  <2>2. /\ evidence' \in [Turns -> Policies \cup {Null}]
        /\ found' \in [Calls -> Outcomes]
    BY <1>7, <2>1, OutcomesTyped DEF RecordPolicy, PolicyOf, TypeOK
  <2> QED BY <1>7, <2>2, GoTyped DEF RecordPolicy, PolicyOf, TypeOK
<1>8. CASE Scan(c)
  BY <1>8, GoTyped, ScanTyped DEF Scan, Candidates, TypeOK, records
<1>9. CASE Save(c)
  BY <1>9, ResolveTyped, GoTyped, OutcomesTyped DEF Save, Saved, TypeOK, records
<1>10. CASE Render(c)
  BY <1>10, ResolveTyped DEF Render, TypeOK, records, Outcomes
<1>11. CASE Rerender(c)
  BY <1>11, ResolveTyped, OutcomesTyped DEF Rerender, TypeOK, records, Outcomes
<1>12. CASE Fault(c)
  <2>1. /\ faults' \in 0 .. MaxFaults
        /\ assembly' = assembly /\ evidence' = evidence /\ cache' = cache
    BY <1>12 DEF Fault, TypeOK, records
  <2>2. CASE Resolve(c, Pass)
    BY <2>1, <2>2, ResolveTyped, OutcomesTyped DEF TypeOK
  <2>3. CASE ~ Resolve(c, Pass)
    <3>1. PromisesStand'
      BY <1>12, <2>3, PromisesKept DEF Fault
    <3>2. pc' \in [Calls -> Labels] /\ found' \in [Calls -> Outcomes]
      <4>1. /\ pc' = [pc EXCEPT ![c] = "save"]
            /\ found' = [found EXCEPT ![c] = [outcome |-> "failed", selected |-> {}]]
        BY <1>12, <2>3 DEF Fault
      <4> QED BY <4>1, OutcomesTyped DEF TypeOK, Labels
    <3> QED BY <1>12, <2>1, <2>3, <3>1, <3>2 DEF Fault, TypeOK, scopes
  <2> QED BY <2>2, <2>3
<1> QED BY <1>1, <1>2, <1>3, <1>4, <1>5, <1>6, <1>7, <1>8, <1>9, <1>10, <1>11, <1>12 DEF Ports
-----------------------------------------------------------------------------
(* A step of a call changes nothing of the turns, evidence only where      *)
(* there was none, and strays when it is attributed.                       *)
LEMMA CallFrame ==
  ASSUME TypeOK, NEW c \in Calls, Ports(c) \/ Fault(c)
  PROVE  /\ scopes' = scopes
         /\ of' = of
         /\ evidence' = evidence \/ RecordPolicy(c)
         /\ astray' = astray \/ Attribute(c)
         /\ astray \subseteq astray'
BY DEF Ports, Attribute, PassThrough, Join, Start, StillNothing, Replay, RecordPolicy, Scan,
       Save, Render, Rerender, Fault, Resolve, Go, records

(* Evidence and what was there at the admission stay, once there is        *)
(* evidence; and a turn that was met stays so.                             *)
LEMMA Steady ==
  ASSUME ContextInv, Next
  PROVE  /\ astray \subseteq astray'
         /\ \A t \in Turns : evidence[t] # Null =>
              evidence'[t] = evidence[t] /\ admitted'[t] = admitted[t]
<1> USE DEF ContextInv
<1>1. ASSUME NEW t \in Turns, evidence[t] # Null, NEW u \in Turns, Admit(u)
      PROVE  evidence'[t] = evidence[t] /\ admitted'[t] = admitted[t]
  BY <1>1 DEF Admit, Bindings, TypeOK, records
<1>2. ASSUME NEW t \in Turns, evidence[t] # Null, NEW c \in Calls, Ports(c) \/ Fault(c)
      PROVE  evidence'[t] = evidence[t] /\ admitted'[t] = admitted[t]
  BY <1>2, CallFrame DEF RecordPolicy, TypeOK, scopes
<1>3. ASSUME NEW t \in Turns, evidence[t] # Null
      PROVE  evidence'[t] = evidence[t] /\ admitted'[t] = admitted[t]
  BY <1>1, <1>2, <1>3 DEF Next, EndTurn, SetMode, ChangeRecord, Call, records, scopes
<1>4. astray \subseteq astray'
  BY CallFrame DEF Next, Admit, EndTurn, SetMode, ChangeRecord, Call
<1> QED BY <1>3, <1>4

LEMMA BindingsKept ==
  ASSUME ContextInv, Next
  PROVE  Bindings'
<1> USE DEF ContextInv
<1>1. ASSUME NEW t \in Turns, Admit(t)
      PROVE  Bindings'
  <2>1. policy # Null
    BY DEF TypeOK
  <2>2. \A r \in Records : row[r].version \in Nat
    BY DEF TypeOK, Rows
  <2>3. \A u \in Turns : u # t => bound'[u] = bound[u] /\ admitted'[u] = admitted[u]
    BY <1>1 DEF Admit, TypeOK
  <2>4. bound'[t] = policy /\ admitted'[t] = row /\ evidence[t] = Null
    BY <1>1 DEF Admit, Bindings, TypeOK
  <2> QED BY <1>1, <2>1, <2>2, <2>3, <2>4 DEF Admit, Bindings, records
<1>2. ASSUME NEW t \in Turns, EndTurn(t)
      PROVE  Bindings'
  BY <1>2 DEF EndTurn, Bindings, records
<1>3. ASSUME NEW mode \in Modes, SetMode(mode)
      PROVE  Bindings'
  BY <1>3 DEF SetMode, Bindings, records
<1>4. ASSUME NEW r \in Records, NEW current \in BOOLEAN, ChangeRecord(r, current)
      PROVE  Bindings'
  <2>1. \A i \in Records : row[i].version \in Nat
    BY DEF TypeOK, Rows
  <2>2. \A t \in Turns, i \in Records : admitted[t][i].version \in Nat
    BY DEF TypeOK, Rows
  <2>3. row'[r].version = row[r].version + 1 /\ \A i \in Records \ {r} : row'[i] = row[i]
    BY <1>4 DEF ChangeRecord, TypeOK, Rows
  <2> QED BY <1>4, <2>1, <2>2, <2>3 DEF ChangeRecord, Bindings, records
<1>5. ASSUME NEW c \in Calls, NEW t \in Turns, Call(c, t)
      PROVE  Bindings'
  BY <1>5 DEF Call, Bindings, records, scopes
<1>6. ASSUME NEW c \in Calls, Ports(c) \/ Fault(c)
      PROVE  Bindings'
  <2>1. CASE RecordPolicy(c)
    <3>1. turn[c] = of[c] \/ turn[c] \in astray
      BY <2>1 DEF RecordPolicy, At, Attributions, Under
    <3>2. turn[c] \in Turns /\ bound[turn[c]] # Null
      BY <2>1 DEF RecordPolicy, At, Attributions, Underway, Under
    <3>3. \A t \in Turns : evidence'[t] = evidence[t] \/ (t = turn[c] /\ evidence'[t] = bound[of[c]])
      BY <2>1, <3>2 DEF RecordPolicy, PolicyOf, TypeOK
    <3>4. row' = row /\ open' = open /\ bound' = bound /\ admitted' = admitted
      BY <1>6, CallFrame DEF scopes
    <3> QED BY <1>6, <3>1, <3>2, <3>3, <3>4, CallFrame DEF Bindings
  <2>2. CASE evidence' = evidence
    BY <1>6, <2>2, CallFrame DEF Bindings, scopes
  <2> QED BY <1>6, <2>1, <2>2, CallFrame
<1> QED BY <1>1, <1>2, <1>3, <1>4, <1>5, <1>6 DEF Next
-----------------------------------------------------------------------------
(* No call goes back to where it has not been called.                      *)
LEMMA CalledStays ==
  ASSUME TypeOK, NEW c \in Calls, Ports(c) \/ Fault(c)
  PROVE  /\ pc[c] \in Under
         /\ \E where \in Labels \ {"idle", "list"} : pc' = [pc EXCEPT ![c] = where]
BY DEF Ports, Attribute, PassThrough, Join, Start, StillNothing, Replay, RecordPolicy, Scan,
       Save, Render, Rerender, Fault, Resolve, Go, At, Under, Labels

(* Whoever awaits a promise awaits a call that goes on or answers: at the  *)
(* moment it joins, the promise stands, and a call at work neither returns *)
(* to its list nor waits itself.                                           *)
LEMMA UnderwayKept ==
  ASSUME TypeOK, Underway, Next
  PROVE  Underway'
<1>1. CASE \/ \E t \in Turns : Admit(t) \/ EndTurn(t)
           \/ \E mode \in Modes : SetMode(mode)
           \/ \E r \in Records, current \in BOOLEAN : ChangeRecord(r, current)
  <2>1. UNCHANGED <<of, call>>
    BY <1>1 DEF Admit, EndTurn, SetMode, ChangeRecord
  <2> QED BY <2>1 DEF Underway, call
<1>2. ASSUME NEW c \in Calls, NEW t \in Turns, Call(c, t)
      PROVE  Underway'
  <2>1. /\ pc[c] = "idle"
        /\ pc' = [pc EXCEPT ![c] = "list"] /\ of' = [of EXCEPT ![c] = t]
        /\ turn' = turn /\ owner' = owner
    BY <1>2 DEF Call
  <2> QED BY <2>1 DEF Underway, TypeOK, Under, AtWork
<1>3. ASSUME NEW c \in Calls, Ports(c) \/ Fault(c)
      PROVE  Underway'
  <2>1. of' = of
    BY <1>3, CallFrame
  <2>2. PICK where \in Labels \ {"idle", "list"} : pc' = [pc EXCEPT ![c] = where]
    BY <1>3, CalledStays
  <2>3. pc[c] \in Under
    BY <1>3, CalledStays
  <2>4. /\ pc[c] \in AtWork => where \in AtWork \cup {"done"}
        /\ \A d \in Calls \ {c} : turn'[d] = turn[d] /\ owner'[d] = owner[d]
        /\ where # "done" =>
             (turn'[c] = turn[c] /\ pc[c] # "list") \/ turn'[c] \in Turns
        /\ where = "wait" =>
             owner'[c] \in Calls /\ owner'[c] # c /\ pc[owner'[c]] \in AtWork
    <3>1. CASE Attribute(c)
      <4>1. PICK t \in Turns :
              /\ turn' = [turn EXCEPT ![c] = t]
              /\ owner' = [owner EXCEPT ![c] = inFlight[t]]
              /\ pc' = [pc EXCEPT ![c] = IF inFlight[t] = Null THEN "get" ELSE "wait"]
        BY <3>1 DEF Attribute
      <4>2. where = IF inFlight[t] = Null THEN "get" ELSE "wait"
        BY <2>2, <4>1 DEF TypeOK
      <4>3. inFlight[t] # Null => inFlight[t] \in Calls /\ pc[inFlight[t]] \in AtWork
        BY DEF TypeOK, PromisesStand, AtWork
      <4> QED BY <3>1, <4>1, <4>2, <4>3 DEF Attribute, At, AtWork, TypeOK
    <3>2. CASE \E what : Resolve(c, what)
      <4>1. where = "done"
        BY <2>2, <3>2 DEF Resolve, TypeOK
      <4> QED BY <3>2, <4>1 DEF Resolve, TypeOK
    <3>3. CASE ~ Attribute(c) /\ ~ \E what : Resolve(c, what)
      <4>1. /\ turn' = turn
            /\ \A d \in Calls \ {c} : owner'[d] = owner[d]
            /\ pc[c] # "list"
            /\ \E w \in AtWork : pc' = [pc EXCEPT ![c] = w]
        BY <1>3, <3>3 DEF Ports, PassThrough, Join, Start, StillNothing, Replay, RecordPolicy,
           Scan, Save, Render, Rerender, Fault, Go, At, AtWork, TypeOK
      <4>2. where \in AtWork
        BY <2>2, <4>1 DEF TypeOK
      <4> QED BY <4>1, <4>2 DEF AtWork
    <3> QED BY <3>1, <3>2, <3>3
  <2>5. pc'[c] = where /\ \A d \in Calls \ {c} : pc'[d] = pc[d]
    BY <2>2 DEF TypeOK
  <2>6. pc[c] # "done" /\ where \in Under \cup {"done"}
    BY <2>2, <2>3 DEF Under, Labels
  <2>7. ASSUME NEW d \in Calls
        PROVE  /\ pc'[d] \in Under => of'[d] \in Turns
               /\ pc'[d] \in Under \ {"list"} => turn'[d] \in Turns
    BY <2>1, <2>3, <2>4, <2>5 DEF Underway, Under
  <2>8. ASSUME NEW d \in Calls, pc'[d] = "wait"
        PROVE  owner'[d] \in Calls /\ pc'[owner'[d]] \in AtWork \cup {"done"}
    <3>1. CASE d = c
      BY <2>4, <2>5, <2>8, <3>1
    <3>2. CASE d # c
      <4>1. owner'[d] = owner[d] /\ owner[d] \in Calls /\ pc[owner[d]] \in AtWork \cup {"done"}
        BY <2>4, <2>5, <2>8, <3>2 DEF Underway
      <4> QED BY <2>4, <2>5, <2>6, <4>1
    <3> QED BY <3>1, <3>2
  <2> QED BY <2>7, <2>8 DEF Underway
<1> QED BY <1>1, <1>2, <1>3 DEF Next

(* The steps outside the calls leave what is under way.                    *)
LEMMA OutsideFrame ==
  ASSUME TypeOK,
         \/ \E t \in Turns : Admit(t) \/ EndTurn(t)
         \/ \E mode \in Modes : SetMode(mode)
         \/ \E r \in Records, current \in BOOLEAN : ChangeRecord(r, current)
         \/ \E c \in Calls, t \in Turns : Call(c, t)
  PROVE  /\ assembly' = assembly /\ cache' = cache /\ answer' = answer /\ found' = found
         /\ turn' = turn /\ owner' = owner /\ astray' = astray
         /\ \A c \in Calls : pc'[c] \in Labels \ {"idle", "list"} => pc'[c] = pc[c]
         /\ \A c \in Calls : pc[c] # "idle" => of'[c] = of[c] /\ pc'[c] = pc[c]
         /\ \A t \in Turns : bound[t] # Null => bound'[t] = bound[t]
BY DEF Admit, EndTurn, SetMode, ChangeRecord, Call, records, call, TypeOK, scopes, Labels

(* What a call at work answers with is of the turn it is attributed to.    *)
LEMMA AnswersOfWork ==
  ASSUME ContextInv, NEW c \in Calls, Ports(c) \/ Fault(c), pc[c] \in AtWork
  PROVE  /\ pc'[c] # "done" => turn'[c] = turn[c] /\ pc'[c] \in AtWork
         /\ pc'[c] = "done" => answer'[c] = Pass \/ answer'[c].turn = turn[c]
<1> USE DEF ContextInv
<1>1. CASE \E what : Resolve(c, what)
  <2>1. pc'[c] = "done"
    BY <1>1 DEF Resolve, TypeOK
  <2>2. \/ Resolve(c, Pass)
        \/ \E block : Resolve(c, [turn |-> turn[c], block |-> block])
    <3>1. ~ Attribute(c) /\ ~ PassThrough(c) /\ ~ Join(c)
      BY DEF Attribute, PassThrough, Join, At, AtWork
    <3>2. CASE Render(c) \/ Rerender(c) \/ Replay(c)
      BY <1>1, <2>1, <3>2 DEF Render, Rerender, Replay, Go, TypeOK
    <3>3. CASE Save(c) \/ Fault(c)
      BY <1>1, <2>1, <3>3 DEF Save, Fault, Go, TypeOK
    <3>4. CASE Start(c) \/ StillNothing(c) \/ RecordPolicy(c) \/ Scan(c)
      BY <2>1, <3>4 DEF Start, StillNothing, RecordPolicy, Scan, Go, TypeOK
    <3> QED BY <3>1, <3>2, <3>3, <3>4 DEF Ports
  <2>3. answer'[c] = Pass \/ answer'[c].turn = turn[c]
    BY <2>2 DEF Resolve, TypeOK
  <2> QED BY <2>1, <2>3
<1>2. CASE ~ \E what : Resolve(c, what)
  BY <1>2 DEF Ports, Attribute, PassThrough, Join, Start, StillNothing, Replay, RecordPolicy,
              Scan, Save, Render, Rerender, Fault, Go, At, AtWork, TypeOK
<1> QED BY <1>1, <1>2

LEMMA AttributionsKept ==
  ASSUME ContextInv, Next
  PROVE  Attributions'
<1> USE DEF ContextInv
<1>1. Pass' = Pass
  BY DEF Pass
<1>2. ASSUME NEW c \in Calls, NEW t \in Turns, Call(c, t)
      PROVE  Attributions'
  <2>1. /\ of'[c] = t /\ pc'[c] = "list" /\ pc[c] = "idle" /\ bound[t] # Null
        /\ \A d \in Calls \ {c} : of'[d] = of[d] /\ pc'[d] = pc[d]
    BY <1>2 DEF Call, TypeOK, Bindings
  <2>2. /\ answer' = answer /\ owner' = owner /\ turn' = turn /\ bound' = bound
        /\ astray' = astray
    BY <1>2 DEF Call, scopes
  <2>3. \A d \in Calls : pc[d] = "wait" => owner[d] \in Calls /\ owner[d] # c
    BY <2>1 DEF Underway, AtWork
  <2> QED BY <1>1, <2>1, <2>2, <2>3 DEF Attributions, Under, AtWork
<1>3. CASE \/ \E t \in Turns : Admit(t) \/ EndTurn(t)
           \/ \E mode \in Modes : SetMode(mode)
           \/ \E r \in Records, current \in BOOLEAN : ChangeRecord(r, current)
  <2>1. UNCHANGED <<of, call>> /\ astray' = astray
    BY <1>3 DEF Admit, EndTurn, SetMode, ChangeRecord
  <2>2. \A t \in Turns : bound[t] # Null => bound'[t] # Null
    BY <1>3, OutsideFrame
  <2> QED BY <1>1, <2>1, <2>2 DEF Attributions, Underway, call
<1>4. ASSUME NEW c \in Calls, Ports(c) \/ Fault(c)
      PROVE  Attributions'
  <2>1. bound' = bound /\ of' = of /\ astray \subseteq astray' /\ open' = open
    BY <1>4, CallFrame DEF scopes
  <2>2. /\ pc[c] \in Under /\ pc'[c] \in Labels \ {"idle", "list"}
        /\ \A d \in Calls \ {c} : pc'[d] = pc[d]
    BY <1>4, CalledStays DEF TypeOK
  <2>3. \A d \in Calls \ {c} : turn'[d] = turn[d] /\ owner'[d] = owner[d] /\ answer'[d] = answer[d]
    BY <1>4 DEF Ports, Attribute, PassThrough, Join, Start, StillNothing, Replay, RecordPolicy,
                Scan, Save, Render, Rerender, Fault, Resolve, Go, TypeOK
  <2>4. /\ pc'[c] \in Under \ {"list"} =>
             bound[turn'[c]] # Null /\ (turn'[c] = of[c] \/ turn'[c] \in astray')
        /\ pc'[c] = "wait" =>
             owner'[c] \in Calls \ {c} /\ pc[owner'[c]] \in AtWork /\ turn[owner'[c]] = turn'[c]
    <3>1. CASE Attribute(c)
      <4>1. PICK t \in Turns : /\ open = {t} /\ turn'[c] = t /\ owner'[c] = inFlight[t]
                               /\ pc'[c] = IF inFlight[t] = Null THEN "get" ELSE "wait"
                               /\ t # of[c] => t \in astray'
        BY <3>1 DEF Attribute, Attributable, TypeOK
      <4>2. bound[t] # Null
        BY <4>1 DEF Bindings
      <4>3. pc[c] = "list"
        BY <3>1 DEF Attribute, At
      <4>4. inFlight[t] # Null =>
              inFlight[t] \in Calls /\ pc[inFlight[t]] \in AtWork /\ turn[inFlight[t]] = t
        BY DEF TypeOK, PromisesStand, AtWork
      <4> QED BY <4>1, <4>2, <4>3, <4>4 DEF AtWork
    <3>2. CASE pc'[c] \in Under /\ ~ Attribute(c)
      <4>1. turn'[c] = turn[c] /\ pc[c] # "list" /\ pc'[c] # "wait"
        BY <1>4, <3>2 DEF Ports, PassThrough, Join, Start, StillNothing, Replay, RecordPolicy,
                Scan, Save, Render, Rerender, Fault, Resolve, Go, At, Under, TypeOK
      <4> QED BY <2>1, <2>2, <4>1 DEF Attributions
    <3> QED BY <3>1, <3>2 DEF Under
  <2>5. ASSUME NEW d \in Calls \ {c}, pc'[d] = "wait"
        PROVE  /\ pc'[owner'[d]] \in AtWork => turn'[owner'[d]] = turn'[d]
               /\ pc'[owner'[d]] = "done" =>
                    answer'[owner'[d]] = Pass \/ answer'[owner'[d]].turn = turn'[d]
    <3>1. /\ owner'[d] = owner[d] /\ turn'[d] = turn[d] /\ pc[d] = "wait"
          /\ owner[d] \in Calls /\ pc[owner[d]] \in AtWork \cup {"done"}
      BY <2>2, <2>3, <2>5 DEF Underway
    <3>2. CASE owner[d] # c
      BY <2>2, <2>3, <3>1, <3>2 DEF Attributions
    <3>3. CASE owner[d] = c
      <4>1. pc[c] \in AtWork /\ turn[c] = turn[d]
        BY <2>2, <3>1, <3>3 DEF Attributions, Under
      <4> QED BY <1>4, <3>1, <3>3, <4>1, AnswersOfWork DEF AtWork
    <3> QED BY <3>2, <3>3
  <2>6. pc'[c] = "wait" =>
          pc'[owner'[c]] \in AtWork /\ turn'[owner'[c]] = turn'[c]
    BY <2>2, <2>3, <2>4
  <2>7. ASSUME NEW d \in Calls
        PROVE  /\ pc'[d] = "idle" => answer'[d] = Pass
               /\ pc'[d] \in Under => bound'[of'[d]] # Null
               /\ pc'[d] \in Under \ {"list"} =>
                    bound'[turn'[d]] # Null /\ (turn'[d] = of'[d] \/ turn'[d] \in astray')
    BY <2>1, <2>2, <2>3, <2>4 DEF Attributions
  <2> QED BY <1>1, <2>5, <2>6, <2>7 DEF Attributions, AtWork
<1> QED BY <1>2, <1>3, <1>4 DEF Next

LEMMA StraysKept ==
  ASSUME ContextInv, Next
  PROVE  Strays'
<1> USE DEF ContextInv
<1>1. ASSUME NEW t \in Turns, bound[t] # Null, t \notin open
      PROVE  t \notin open' /\ bound'[t] # Null
  <2>1. CASE \E c \in Calls : Ports(c) \/ Fault(c)
    BY <1>1, <2>1, CallFrame DEF scopes
  <2>2. CASE ~ \E c \in Calls : Ports(c) \/ Fault(c)
    BY <1>1, <2>2 DEF Next, Admit, EndTurn, SetMode, ChangeRecord, Call, scopes, TypeOK
  <2> QED BY <2>1, <2>2
<1>2. ASSUME NEW c \in Calls, pc[c] # "idle"
      PROVE  of'[c] = of[c] /\ pc'[c] # "idle"
  <2>1. CASE \E d \in Calls : Ports(d) \/ Fault(d)
    BY <1>2, <2>1, CallFrame, CalledStays DEF TypeOK
  <2>2. CASE ~ \E d \in Calls : Ports(d) \/ Fault(d)
    BY <1>2, <2>2, OutsideFrame DEF Next
  <2> QED BY <2>1, <2>2
<1>3. ASSUME NEW t \in astray'
      PROVE  \E c \in Calls : pc[c] # "idle" /\ of[c] \in Turns \ (open \cup {t})
                               /\ bound[of[c]] # Null
  <2>1. CASE t \in astray
    BY <2>1 DEF Strays
  <2>2. CASE t \notin astray
    <3>1. PICK c \in Calls : Attribute(c)
      BY <1>3, <2>2, CallFrame, OutsideFrame DEF Next
    <3>2. open = {t} /\ of[c] # t /\ pc[c] = "list"
      BY <1>3, <2>2, <3>1 DEF Attribute, Attributable, At
    <3> QED BY <3>2 DEF Attributions, Underway, Under
  <2> QED BY <2>1, <2>2
<1> QED BY <1>1, <1>2, <1>3 DEF Strays
-----------------------------------------------------------------------------
(* What is good for a turn stays good for it.                              *)
LEMMA GoodStays ==
  ASSUME ContextInv, Next, NEW t \in Turns, NEW S, GoodFor(t, S)
  PROVE  Good(t, evidence'[t], astray', admitted'[t], S)
BY Steady DEF GoodFor, Good

(* To select nothing is good under any policy.                             *)
LEMMA NothingIsGood ==
  \A t, p, strays, then : p # Null => Good(t, p, strays, then, {})
BY DEF Good, UnderPolicy, Fresh

(* What a scan selects is good.                                            *)
LEMMA ScanIsGood ==
  ASSUME ContextInv, NEW c \in Calls, At(c, "scan")
  PROVE  GoodFor(turn[c], {<<r, row[r].version>> :
                             r \in Candidates \cap InScope(PolicyOf(c).mode)})
<1> USE DEF ContextInv
<1> DEFINE t == turn[c]
           S == Candidates \cap InScope(PolicyOf(c).mode)
           T == {<<r, row[r].version>> : r \in S}
<1>1. /\ t \in Turns /\ bound[t] # Null /\ evidence[t] # Null
      /\ t \notin astray => evidence[t] = PolicyOf(c) /\ evidence[t].mode # "off"
  BY DEF At, Attributions, Underway, Under, Carried, Bindings, PolicyOf
<1>2. \A r \in S : /\ row[r].current /\ row[r].version >= admitted[t][r].version
                   /\ row[r].version = admitted[t][r].version => row[r] = admitted[t][r]
  BY <1>1 DEF Candidates, Bindings
<1>3. t \notin astray /\ evidence[t].mode = "per" => S \subseteq Here
  BY <1>1 DEF InScope
<1>4. \A e \in T : \E r \in S : e[1] = r /\ e[2] = row[r].version
  OBVIOUS
<1>5. Fresh(admitted[t], T)
  BY <1>2, <1>4 DEF Fresh
<1>6. t \notin astray => UnderPolicy(evidence[t], T)
  BY <1>1, <1>3, <1>4 DEF UnderPolicy
<1> QED BY <1>1, <1>5, <1>6 DEF GoodFor, Good

LEMMA CarriedKept ==
  ASSUME ContextInv, Next
  PROVE  Carried'
<1> USE DEF ContextInv
<1> DEFINE Late == {"save", "render", "reread"}
<1> DEFINE Carries(d) ==
      /\ pc'[d] = "scan" => evidence'[turn'[d]] # Null /\ bound'[of'[d]].mode # "off"
      /\ pc'[d] \in Late =>
           Good(turn'[d], evidence'[turn'[d]], astray', admitted'[turn'[d]], found'[d].selected)
<1>1. ASSUME NEW d \in Calls,
             of'[d] = of[d], pc'[d] = pc[d], found'[d] = found[d], turn'[d] = turn[d]
      PROVE  Carries(d)
  <2>1. /\ pc[d] \in Under => of[d] \in Turns /\ bound[of[d]] # Null
        /\ pc[d] \in Under \ {"list"} => turn[d] \in Turns
    BY DEF Attributions, Underway
  <2>2. \A t \in Turns : bound[t] # Null => bound'[t] = bound[t]
    BY CallFrame, OutsideFrame DEF Next, scopes
  <2>3. CASE pc[d] = "scan"
    BY <1>1, <2>1, <2>2, <2>3, Steady DEF Carried, Under
  <2>4. CASE pc[d] \in Late
    BY <1>1, <2>1, <2>4, GoodStays DEF Carried, Under
  <2> QED BY <1>1, <2>3, <2>4
<1>2. ASSUME NEW c \in Calls, Ports(c) \/ Fault(c)
      PROVE  Carries(c)
  <2>1. of' = of /\ admitted' = admitted /\ bound' = bound
    BY <1>2, CallFrame DEF scopes
  <2>2. /\ of[c] \in Turns /\ bound[of[c]] # Null
        /\ pc[c] # "list" => turn[c] \in Turns /\ bound[turn[c]] # Null
    BY <1>2, CalledStays DEF Attributions, Underway, Under
  <2>3. CASE Replay(c)
    <3>1. pc[c] \in {"get", "again"} /\ assembly[turn[c]] # NoAssembly
      BY <2>3 DEF Replay, At
    <3>2. \/ pc'[c] = "done"
          \/ pc'[c] = "reread" /\ turn'[c] = turn[c] /\ found'[c] = assembly[turn[c]]
      BY <2>3 DEF Replay, Resolve, Go, TypeOK
    <3>3. GoodFor(turn[c], assembly[turn[c]].selected)
      BY <2>2, <3>1 DEF Stored
    <3>4. Good(turn[c], evidence'[turn[c]], astray', admitted'[turn[c]], assembly[turn[c]].selected)
      BY <2>2, <3>1, <3>3, GoodStays
    <3> QED BY <3>2, <3>4
  <2>4. CASE RecordPolicy(c)
    <3>1. evidence'[turn[c]] # Null
      BY <2>2, <2>4 DEF RecordPolicy, PolicyOf, At, TypeOK
    <3>2. /\ pc'[c] = IF bound[of[c]].mode = "off" THEN "save" ELSE "scan"
          /\ found'[c].selected = {} /\ turn'[c] = turn[c]
      BY <2>4 DEF RecordPolicy, PolicyOf, Go, TypeOK
    <3> QED BY <2>1, <2>2, <3>1, <3>2, NothingIsGood
  <2>5. CASE Scan(c)
    <3>1. /\ pc'[c] = "save" /\ evidence' = evidence /\ turn' = turn /\ astray' = astray
          /\ found'[c].selected = {<<r, row[r].version>> :
                                     r \in Candidates \cap InScope(PolicyOf(c).mode)}
      BY <2>5 DEF Scan, Go, records, TypeOK
    <3> QED BY <2>1, <2>5, <3>1, ScanIsGood DEF Scan, GoodFor
  <2>6. CASE Save(c)
    <3>1. pc[c] = "save" /\ evidence' = evidence /\ astray' = astray
      BY <2>6 DEF Save, At, Go, Resolve
    <3>2. \/ pc'[c] = "done"
          \/ pc'[c] = "render" /\ found' = found /\ turn' = turn
      <4>1. pc \in [Calls -> Labels]
        BY DEF TypeOK
      <4>2. CASE found[c].outcome = "complete"
        BY <2>6, <4>1, <4>2 DEF Save, Go
      <4>3. CASE found[c].outcome # "complete"
        BY <2>6, <4>1, <4>3 DEF Save, Resolve
      <4> QED BY <4>2, <4>3
    <3> QED BY <2>1, <3>1, <3>2 DEF Carried, GoodFor
  <2>7. CASE Fault(c)
    <3>1. \/ pc'[c] = "done"
          \/ pc[c] = "scan" /\ pc'[c] = "save" /\ found'[c].selected = {} /\ turn' = turn
      <4>1. pc \in [Calls -> Labels] /\ found \in [Calls -> Outcomes]
        BY DEF TypeOK
      <4>2. CASE Resolve(c, Pass)
        BY <4>1, <4>2 DEF Resolve
      <4>3. CASE ~ Resolve(c, Pass)
        BY <2>7, <4>1, <4>3 DEF Fault, At
      <4> QED BY <4>2, <4>3
    <3>2. evidence' = evidence
      BY <2>7 DEF Fault, records
    <3> QED BY <2>1, <3>1, <3>2, NothingIsGood DEF Carried
  <2>8. CASE ~ (Replay(c) \/ RecordPolicy(c) \/ Scan(c) \/ Save(c) \/ Fault(c))
    BY <1>2, <2>8 DEF Ports, Attribute, PassThrough, Join, Start, StillNothing, Render,
                      Rerender, Resolve, Go, TypeOK
  <2> QED BY <2>3, <2>4, <2>5, <2>6, <2>7, <2>8
<1>3. ASSUME NEW c \in Calls, Ports(c) \/ Fault(c)
      PROVE  Carried'
  <2>1. \A d \in Calls \ {c} :
          of'[d] = of[d] /\ pc'[d] = pc[d] /\ found'[d] = found[d] /\ turn'[d] = turn[d]
    <3>1. of' = of /\ \A d \in Calls \ {c} : pc'[d] = pc[d]
      BY <1>3, CallFrame, CalledStays DEF TypeOK
    <3>2. \A d \in Calls \ {c} : found'[d] = found[d]
      BY <1>3 DEF Ports, Attribute, PassThrough, Join, Start, StillNothing, Replay,
                  RecordPolicy, Scan, Save, Render, Rerender, Fault, Resolve, TypeOK
    <3>3. \A d \in Calls \ {c} : turn'[d] = turn[d]
      BY <1>3 DEF Ports, Attribute, PassThrough, Join, Start, StillNothing, Replay,
                  RecordPolicy, Scan, Save, Render, Rerender, Fault, Resolve, Go, TypeOK
    <3> QED BY <3>1, <3>2, <3>3
  <2> QED BY <1>1, <1>2, <1>3, <2>1 DEF Carried, GoodFor
<1>4. CASE ~ \E c \in Calls : Ports(c) \/ Fault(c)
  <2>1. /\ found' = found /\ turn' = turn
        /\ \A c \in Calls : pc'[c] \in {"scan"} \cup Late => pc'[c] = pc[c]
        /\ \A c \in Calls : pc[c] # "idle" => of'[c] = of[c] /\ pc'[c] = pc[c]
    BY <1>4, OutsideFrame DEF Next, Labels
  <2>2. \A d \in Calls : pc'[d] \in {"scan"} \cup Late =>
          of'[d] = of[d] /\ pc'[d] = pc[d] /\ found'[d] = found[d] /\ turn'[d] = turn[d]
    BY <2>1
  <2> QED BY <1>1, <2>2 DEF Carried, GoodFor
<1> QED BY <1>3, <1>4
-----------------------------------------------------------------------------
LEMMA StoredKept ==
  ASSUME ContextInv, Next
  PROVE  Stored'
<1> USE DEF ContextInv
<1>1. ASSUME NEW t \in Turns
      PROVE  /\ assembly[t] # NoAssembly =>
                  Good(t, evidence'[t], astray', admitted'[t], assembly[t].selected)
             /\ cache[t] # {} => Good(t, evidence'[t], astray', admitted'[t], cache[t])
  BY <1>1, GoodStays DEF Stored
<1>2. ASSUME NEW c \in Calls, pc[c] \in {"save", "render", "reread"}
      PROVE  Good(turn[c], evidence'[turn[c]], astray', admitted'[turn[c]], found[c].selected)
  <2>1. turn[c] \in Turns
    BY <1>2 DEF Underway, Under
  <2> QED BY <1>2, <2>1, GoodStays DEF Carried
<1>3. ASSUME NEW c \in Calls, Ports(c) \/ Fault(c), NEW t \in Turns
      PROVE  /\ \/ assembly'[t] = assembly[t]
                \/ t = turn[c] /\ pc[c] = "save" /\ assembly'[t] = found[c]
             /\ \/ cache'[t] = cache[t]
                \/ /\ t = turn[c] /\ pc[c] \in {"render", "reread"}
                   /\ cache'[t] = found[c].selected
  BY <1>3 DEF Ports, Attribute, PassThrough, Join, Start, StillNothing, Replay, RecordPolicy,
              Scan, Save, Saved, Render, Rerender, Fault, At, TypeOK, records
<1>4. CASE \E c \in Calls : Ports(c) \/ Fault(c)
  BY <1>1, <1>2, <1>3, <1>4 DEF Stored, GoodFor
<1>5. CASE ~ \E c \in Calls : Ports(c) \/ Fault(c)
  <2>1. assembly' = assembly /\ cache' = cache
    BY <1>5, OutsideFrame DEF Next
  <2> QED BY <1>1, <2>1 DEF Stored, GoodFor
<1> QED BY <1>4, <1>5

LEMMA InjectedKept ==
  ASSUME ContextInv, Next
  PROVE  Injected'
<1> USE DEF ContextInv
<1> DEFINE Right(d, what) ==
      /\ what.turn \in Turns
      /\ what.turn = of[d] \/ what.turn \in astray'
      /\ Good(what.turn, evidence'[what.turn], astray', admitted'[what.turn], what.block)
<1>1. ASSUME NEW d \in Calls, answer[d] # Pass
      PROVE  Right(d, answer[d])
  BY <1>1, GoodStays, Steady DEF Injected, Injects
<1>2. ASSUME NEW c \in Calls, Ports(c) \/ Fault(c)
      PROVE  \/ answer' = answer
             \/ \E what : /\ answer' = [answer EXCEPT ![c] = what]
                          /\ what = Pass \/ Right(c, what)
  <2>1. pc[c] # "list" =>
          turn[c] \in Turns /\ (turn[c] = of[c] \/ turn[c] \in astray')
    BY <1>2, CalledStays, Steady DEF Attributions, Underway, Under
  <2>2. CASE Join(c)
    <3>1. /\ pc[c] = "wait" /\ owner[c] \in Calls /\ pc[owner[c]] = "done"
          /\ answer' = [answer EXCEPT ![c] = answer[owner[c]]]
      BY <2>2 DEF Join, Shared, Resolve, At, Underway
    <3>2. answer[owner[c]] = Pass \/ answer[owner[c]].turn = turn[c]
      BY <3>1 DEF Attributions
    <3>3. answer[owner[c]] # Pass => Right(c, answer[owner[c]])
      BY <1>1, <2>1, <3>1, <3>2
    <3> QED BY <3>1, <3>3
  <2>3. CASE Replay(c)
    <3> DEFINE old == [turn |-> turn[c], block |-> cache[turn[c]]]
    <3>1. \/ answer' = answer
          \/ answer' = [answer EXCEPT ![c] = Pass]
          \/ cache[turn[c]] # {} /\ answer' = [answer EXCEPT ![c] = old]
      BY <2>3 DEF Replay, Resolve, Go
    <3>2. pc[c] # "list"
      BY <2>3 DEF Replay, At
    <3>3. cache[turn[c]] # {} => Right(c, old)
      BY <2>1, <3>2, GoodStays DEF Stored
    <3> QED BY <3>1, <3>3
  <2> DEFINE own == [turn |-> turn[c], block |-> found[c].selected]
  <2>4. pc[c] \in {"render", "reread"} => Right(c, own)
    BY <2>1, GoodStays DEF Carried
  <2>5. CASE Render(c)
    BY <2>4, <2>5 DEF Render, Resolve, At
  <2>6. CASE Rerender(c)
    <3>1. /\ pc[c] = "reread"
          /\ \/ answer' = [answer EXCEPT ![c] = own]
             \/ answer' = [answer EXCEPT ![c] = Pass]
      BY <2>6 DEF Rerender, Resolve, At
    <3> QED BY <2>4, <3>1
  <2>7. CASE ~ (Join(c) \/ Replay(c) \/ Render(c) \/ Rerender(c))
    BY <1>2, <2>7 DEF Ports, Attribute, PassThrough, Start, StillNothing, RecordPolicy, Scan,
                      Save, Fault, Resolve, Go
  <2> QED BY <2>2, <2>3, <2>5, <2>6, <2>7
<1>3. Pass' = Pass
  BY DEF Pass
<1>4. ASSUME NEW c \in Calls, Ports(c) \/ Fault(c)
      PROVE  Injected'
  <2>1. of' = of
    BY <1>4, CallFrame
  <2>2. \A d \in Calls :
          answer'[d] = answer[d] \/ answer'[d] = Pass \/ Right(d, answer'[d])
    <3>1. CASE answer' = answer
      BY <3>1
    <3>2. CASE answer' # answer
      <4>1. PICK what : /\ answer' = [answer EXCEPT ![c] = what]
                        /\ what = Pass \/ Right(c, what)
        BY <1>2, <1>4, <3>2
      <4>2. answer'[c] = what /\ \A d \in Calls \ {c} : answer'[d] = answer[d]
        BY <4>1 DEF TypeOK
      <4> QED BY <4>1, <4>2
    <3> QED BY <3>1, <3>2
  <2>3. ASSUME NEW d \in Calls, answer'[d] # Pass
        PROVE  Right(d, answer'[d])
    BY <1>1, <2>2, <2>3
  <2> QED BY <1>3, <2>1, <2>3 DEF Injected, Injects, GoodFor
<1>5. CASE ~ \E c \in Calls : Ports(c) \/ Fault(c)
  <2>1. answer' = answer /\ \A c \in Calls : pc[c] # "idle" => of'[c] = of[c]
    BY <1>5, OutsideFrame DEF Next
  <2>2. \A d \in Calls : answer[d] # Pass => of'[d] = of[d]
    BY <2>1 DEF Attributions
  <2> QED BY <1>1, <1>3, <2>1, <2>2 DEF Injected, Injects, GoodFor
<1> QED BY <1>4, <1>5
-----------------------------------------------------------------------------
LEMMA InitialContext == Init => ContextInv
<1> SUFFICES ASSUME Init PROVE ContextInv
  OBVIOUS
<1>1. policy \in Policies /\ row \in Rows
  <2> DEFINE RowSet == [version : 0 .. MaxVersion, current : BOOLEAN]
  <2>1. [version |-> 0, current |-> FALSE] \in RowSet /\ [version |-> 1, current |-> TRUE] \in RowSet
    OBVIOUS
  <2>2. row \in Rows
    BY <2>1 DEF Init, Rows
  <2> QED BY <2>2 DEF Init, Policies, Modes
<1>2. TypeOK
  BY <1>1, OutcomesTyped DEF TypeOK, PromisesStand, Init, Labels, Selections
<1>3. Underway /\ Bindings /\ Attributions /\ Strays /\ Carried /\ Stored /\ Injected
  BY DEF Init, Underway, Bindings, Attributions, Strays, Carried, Stored, Injected, Injects, Under
<1> QED BY <1>2, <1>3 DEF ContextInv

LEMMA StepKeepsContext ==
  ASSUME ContextInv, [Next]_vars
  PROVE  ContextInv'
<1>1. CASE Next
  <2>1. TypeOK'
    BY <1>1, TypesOutside, TypesOfCalls DEF Next, ContextInv
  <2> QED BY <1>1, <2>1, UnderwayKept, BindingsKept, AttributionsKept, StraysKept,
             CarriedKept, StoredKept, InjectedKept
          DEF ContextInv
<1>2. CASE UNCHANGED vars
  <2> USE <1>2 DEF vars, scopes, records, call, ContextInv
  <2>1. TypeOK' /\ Underway'
    BY DEF TypeOK, PromisesStand, Underway
  <2>2. Bindings' /\ Attributions' /\ Strays'
    BY DEF Bindings, Attributions, Strays, Pass
  <2>3. Carried' /\ Stored' /\ Injected'
    BY DEF Carried, Stored, Injected, Injects, GoodFor, Pass, NoAssembly
  <2> QED BY <2>1, <2>2, <2>3
<1> QED BY <1>1, <1>2

(* The invariant of the turn context.                                      *)
THEOREM ContextInvariance == Spec => []ContextInv
<1>1. Init => ContextInv
  BY InitialContext
<1>2. ContextInv /\ [Next]_vars => ContextInv'
  BY StepKeepsContext
<1> QED BY <1>1, <1>2, PTL DEF Spec

(* No call awaits a promise that nobody keeps: one that waits can join, or *)
(* awaits a call whose next port is there to be taken.  This also when a   *)
(* turn is stopped under its calls, or opened beside another one, and      *)
(* whatever throws.                                                        *)
THEOREM AwaitedAreAtWork == Spec => [](TypeOK /\ Underway)
<1>1. Init => TypeOK /\ Underway
  BY InitialContext DEF ContextInv
<1>2. TypeOK /\ Underway /\ [Next]_vars => (TypeOK /\ Underway)'
  <2>1. ASSUME TypeOK, Underway, Next
        PROVE  TypeOK' /\ Underway'
    BY <2>1, TypesOutside, TypesOfCalls, UnderwayKept DEF Next
  <2>2. ASSUME TypeOK, Underway, UNCHANGED vars
        PROVE  TypeOK' /\ Underway'
    BY <2>2 DEF vars, scopes, records, call, TypeOK, PromisesStand, Underway
  <2> QED BY <2>1, <2>2
<1> QED BY <1>1, <1>2, PTL DEF Spec

(* The types, and that only calls on their way stand for a turn.           *)
THEOREM ContextTypes == Spec => []TypeOK
  BY AwaitedAreAtWork, PTL

(* What is saved and what is injected keeps to the evidence of the turn,   *)
(* which is the policy the turn was admitted with; only a turn that met a  *)
(* call of another one, which had ended, may have the policy of that one.  *)
THEOREM MemoryUnderPolicy == Spec => []MemoryKeepsToAdmission
<1>1. ContextInv => MemoryKeepsToAdmission
  BY DEF ContextInv, Bindings, Stored, Injected, GoodFor, Good, Evident,
         MemoryKeepsToAdmission
<1> QED BY <1>1, ContextInvariance, PTL

(* A reply is given the memory of its own turn, or of one that a call of a *)
(* turn that had ended met, and none that was gone when that turn was      *)
(* admitted.                                                               *)
THEOREM InjectedOwnAndFresh == Spec => []InjectedIsRight
<1>1. ContextInv => InjectedIsRight
  BY DEF ContextInv, Injected, Strays, GoodFor, Good, InjectedIsRight, InjectedIsOwn,
         InjectedIsFresh
<1> QED BY <1>1, ContextInvariance, PTL
-----------------------------------------------------------------------------
(* What is saved of a turn stands.                                         *)
THEOREM SavedStands == Spec => FirstRecordStands
<1>1. ASSUME ContextInv, [Next]_vars, NEW t \in Turns
      PROVE  /\ assembly[t] # NoAssembly => assembly'[t] = assembly[t]
             /\ evidence[t] # Null => evidence'[t] = evidence[t]
  <2>1. CASE UNCHANGED vars
    BY <2>1 DEF vars, records
  <2>2. CASE \E c \in Calls : Ports(c) \/ Fault(c)
    <3>1. assembly' = assembly \/ \E c \in Calls : assembly' = Saved(turn[c], found[c])
      BY <2>2 DEF Ports, Attribute, PassThrough, Join, Start, StillNothing, Replay,
                  RecordPolicy, Scan, Save, Render, Rerender, Fault, records
    <3>2. evidence[t] # Null => evidence'[t] = evidence[t]
      BY <1>1, <2>2, Steady DEF Next
    <3> QED BY <1>1, <3>1, <3>2 DEF Saved, ContextInv, TypeOK
  <2>3. CASE Next /\ ~ \E c \in Calls : Ports(c) \/ Fault(c)
    BY <2>3 DEF Next, Admit, EndTurn, SetMode, ChangeRecord, Call, records
  <2> QED BY <1>1, <2>1, <2>2, <2>3
<1>2. ContextInv /\ [Next]_vars =>
        [\A t \in Turns :
           /\ assembly[t] # NoAssembly => assembly'[t] = assembly[t]
           /\ evidence[t] # Null => evidence'[t] = evidence[t]]_records
  BY <1>1
<1> QED BY <1>2, ContextInvariance, PTL DEF Spec, FirstRecordStands
-----------------------------------------------------------------------------
(* The calls from their memory to the end of their streams.  Their steps   *)
(* are steps of the turn context or leave it alone, so that all of the     *)
(* above holds of them.                                                    *)
LEMMA CallsKeepContext == CallSpec => Spec
<1>1. CallInit => Init
  BY DEF CallInit
<1>2. [CallNext]_seams => [Next]_vars
  <2> SUFFICES ASSUME [CallNext]_seams
               PROVE  [Next]_vars
    OBVIOUS
  <2>1. CASE Context
    BY <2>1 DEF Context
  <2>2. CASE \E c \in Calls : \/ Time(c)
                              \/ ProviderThrows(c) \/ StreamOpens(c)
                              \/ PartDropped(c) \/ PartPassed(c) \/ SourceEnds(c)
                              \/ ConsumerLeaves(c)
    BY <2>2 DEF Time, Elapse, TimerFires, ProviderThrows, StreamOpens,
                PartDropped, PartPassed, SourceEnds, ConsumerLeaves
  <2>3. CASE UNCHANGED seams
    BY <2>3 DEF seams
  <2> QED
    BY <2>1, <2>2, <2>3 DEF CallNext
<1> QED
  BY <1>1, <1>2, PTL DEF CallSpec, Spec

SeamTypeOK ==
  /\ seam \in [Calls -> {"idle", "reading", "over"}]
  /\ due \in [Calls -> 0 .. MaxParts \cup {Null}]
  /\ source \in [Calls -> {"none", "open", "done", "failed", "cancelled"}]
  /\ produced \in [Calls -> 0 .. MaxParts]
  /\ passed \in [Calls -> 0 .. MaxParts]
  /\ ending \in [Calls -> {"open", "closed", "deadline", "failed", "left"}]

(* While a stream is open, all parts were passed on, and none since the    *)
(* time was up; one that was closed is read no more.                       *)
StreamInv ==
  /\ SeamTypeOK
  /\ \A c \in Calls :
       /\ seam[c] = "idle" => passed[c] = 0
       /\ ending[c] = "open" => passed[c] = produced[c]
       /\ ending[c] = "open" /\ TimeIsUp(c) => passed[c] = due[c]
       /\ ending[c] = "closed" =>
            seam[c] = "over" /\ source[c] = "done" /\ passed[c] = produced[c]
       /\ TimeIsUp(c) => passed[c] <= due[c] + 1

(* A step of the context leaves the streams alone.                         *)
LEMMA StreamsAlone ==
  ASSUME StreamInv, UNCHANGED <<seam, due, stream>>
  PROVE  StreamInv'
BY DEF StreamInv, SeamTypeOK, TimeIsUp, stream

(* A step of one call's clock, provider, timer or reader keeps it.         *)
LEMMA StreamStep ==
  ASSUME StreamInv, NEW c \in Calls,
         \/ Time(c)
         \/ ProviderThrows(c) \/ StreamOpens(c)
         \/ PartDropped(c) \/ PartPassed(c) \/ SourceEnds(c)
         \/ ConsumerLeaves(c)
  PROVE  StreamInv'
<1> USE PartsAssumption DEF StreamInv, SeamTypeOK, TimeIsUp
<1>1. CASE Elapse(c)
  BY <1>1 DEF Elapse, stream
<1>2. CASE TimerFires(c)
  BY <1>2 DEF TimerFires, Ends
<1>4. CASE ProviderThrows(c)
  BY <1>4 DEF ProviderThrows, Over, Ends
<1>5. CASE StreamOpens(c)
  BY <1>5 DEF StreamOpens, Called, Over, Ends
<1>6. CASE PartDropped(c)
  BY <1>6 DEF PartDropped, Reading, Over, Ends
<1>7. CASE PartPassed(c)
  BY <1>7 DEF PartPassed, Reading, Over, Ends
<1>8. CASE SourceEnds(c)
  BY <1>8 DEF SourceEnds, Reading, Over, Ends
<1>9. CASE ConsumerLeaves(c)
  BY <1>9 DEF ConsumerLeaves, Ends
<1> QED
  BY <1>1, <1>2, <1>4, <1>5, <1>6, <1>7, <1>8, <1>9 DEF Time

(* A stream that ends as complete is complete, and a deadline that has     *)
(* gone by lets one more part through at most.                             *)
THEOREM StreamsStayHonest == CallSpec => []StreamsAreHonest
<1>1. CallInit => StreamInv
  BY PartsAssumption DEF CallInit, SeamInit, StreamInv, SeamTypeOK, TimeIsUp
<1>2. StreamInv /\ [CallNext]_seams => StreamInv'
  <2> SUFFICES ASSUME StreamInv, [CallNext]_seams
               PROVE  StreamInv'
    OBVIOUS
  <2>1. CASE Context
    BY <2>1, StreamsAlone DEF Context
  <2>2. CASE UNCHANGED seams
    BY <2>2, StreamsAlone DEF seams
  <2> QED
    BY <2>1, <2>2, StreamStep DEF CallNext
<1>3. StreamInv => StreamsAreHonest
  BY DEF StreamInv, StreamsAreHonest
<1> QED
  BY <1>1, <1>2, <1>3, PTL DEF CallSpec
=============================================================================
