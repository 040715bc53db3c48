-------------------------- MODULE SharedWorldThreads --------------------------
(***************************************************************************)
(* The threads of the Shared World behind the governed ingress: a mutation *)
(* is parsed and bound to a target, claimed under its idempotency key,     *)
(* executed by the thread adapter in one transaction and settled, with a   *)
(* crash between any two of these, while turns link conversations to       *)
(* threads and deletions tombstone and purge them.                         *)
(*                                                                         *)
(* Deletions are reduced to what they do to the thread, in the mode that   *)
(* covers the meaning (the other mode's purge keeps the thread);           *)
(* ConversationDeletion and DeepPurge have the rest.                       *)
(***************************************************************************)

CONSTANTS
  Requests,   \* mutations that reach the ingress, retries included
  Keys,       \* idempotency keys
  Ids,        \* well-formed thread identities
  Titles,     \* titles within the bounds
  StableId,   \* the identity that is derived from a key
  Asks,       \* what a request may ask for
  Null,       \* no value
  Malformed   \* an identity outside the bounded pattern

Ops == {"create", "rename", "archive", "reopen"}

ASSUME KeysTellIdsApart ==
  /\ StableId \in [Keys -> Ids]
  /\ \A k, m \in Keys : StableId[k] = StableId[m] => k = m
ASSUME AsksType ==
  Asks \subseteq [op : Ops, id : Ids \cup {Null, Malformed},
                  title : Titles \cup {Null}, key : Keys]
ASSUME NullIsNoValue ==
  /\ Null \notin Ids \cup Titles \cup Requests \cup Asks
  /\ Null \notin [id : Ids, title : Titles]
  /\ Malformed \notin Ids

VARIABLES
  threads,    \* the rows of qlt_thread
  links,      \* the threads with a conversation
  keys,       \* the adapter's idempotency rows: what was created under a key
  deletion,   \* the status of the thread's deletion row, which outlives it
  claims,     \* the command service's claim of a key: Null, or the envelope
              \* that claimed it, "pending" or "settled", and the holder of
              \* the lease, Null once the lease has expired
  pc,         \* where a request is
  ask,        \* what it asks for
  answer,     \* what it is told, or will be told when it settles
  server      \* "up" or "down"

vars == <<threads, links, keys, deletion, claims, pc, ask, answer, server>>

Row == [title : Titles \cup {Null}, state : {"active", "dormant"},
        retention : {"currently-relevant", "user-removed"}]
NoRow == [title |-> Null, state |-> "none", retention |-> "none"]
Envelopes == [op : Ops, id : Ids, title : Titles \cup {Null}]
NoClaim == [envelope |-> Null, stage |-> "none", holder |-> Null]
Outcomes == {"ok", "taken", "key-conflict", "missing", "archived", "rejected"}

TypeOK ==
  /\ threads \in [Ids -> Row \cup {NoRow}]
  /\ links \subseteq Ids
  /\ keys \in [Keys -> [id : Ids, title : Titles] \cup {Null}]
  /\ deletion \in [Ids -> {"none", "planned", "canceled", "completed"}]
  /\ claims \in [Keys -> [envelope : Envelopes, stage : {"pending", "settled"},
                          holder : Requests \cup {Null}] \cup {NoClaim}]
  /\ pc \in [Requests -> {"new", "execute", "settle", "done", "lost"}]
  /\ ask \in [Requests -> Asks \cup {Null}]
  /\ \A r \in Requests : pc[r] = "new" <=> ask[r] = Null
  /\ answer \in [Requests -> Outcomes \cup {"none", "invalid", "in-progress",
                                            "conflict", "replayed"}]
  /\ server \in {"up", "down"}

Exists(i) == threads[i] # NoRow
Removed(i) == threads[i].retention = "user-removed"

Init ==
  /\ threads = [i \in Ids |-> NoRow]
  /\ links = {}
  /\ keys = [k \in Keys |-> Null]
  /\ deletion = [i \in Ids |-> "none"]
  /\ claims = [k \in Keys |-> NoClaim]
  /\ pc = [r \in Requests |-> "new"]
  /\ ask = [r \in Requests |-> Null]
  /\ answer = [r \in Requests |-> "none"]
  /\ server = "up"
-----------------------------------------------------------------------------
(* The ingress.                                                            *)

(* The closed field set of the action, and its required fields: a title    *)
(* where the action takes one, a well-formed target unless it creates one. *)
WellFormed(a) ==
  /\ a.title # Null <=> a.op \in {"create", "rename"}
  /\ a.op # "create" => a.id \in Ids

(* A create that supplies no identity, or none that is well-formed, gets   *)
(* the one its key determines, so that an identical retry carries an       *)
(* identical payload.                                                      *)
TargetId(a) == IF a.id \in Ids THEN a.id ELSE StableId[a.key]

(* The payload that the command service digests.                           *)
Envelope(a) == [op |-> a.op, id |-> TargetId(a), title |-> a.title]

Arrives(r, a) ==
  /\ server = "up" /\ pc[r] = "new"
  /\ ask' = [ask EXCEPT ![r] = a]
  /\ UNCHANGED <<threads, links, keys, deletion, server>>

Told(r, what) ==
  /\ pc' = [pc EXCEPT ![r] = "done"]
  /\ answer' = [answer EXCEPT ![r] = what]
  /\ UNCHANGED claims

InvalidRequest(r, a) ==
  Arrives(r, a) /\ ~WellFormed(a) /\ Told(r, "invalid")

(* A key is free for its first payload, and for the same payload again     *)
(* when the lease of a pending claim has expired.                          *)
Claim(r, a) ==
  /\ Arrives(r, a) /\ WellFormed(a)
  /\ \/ claims[a.key] = NoClaim
     \/ /\ claims[a.key].envelope = Envelope(a)
        /\ claims[a.key].stage = "pending" /\ claims[a.key].holder = Null
  /\ claims' = [claims EXCEPT ![a.key] =
       [envelope |-> Envelope(a), stage |-> "pending", holder |-> r]]
  /\ pc' = [pc EXCEPT ![r] = "execute"]
  /\ UNCHANGED answer

(* The receipt of a settled claim carries identifiers only.                *)
Replay(r, a) ==
  /\ Arrives(r, a) /\ WellFormed(a)
  /\ claims[a.key].envelope = Envelope(a) /\ claims[a.key].stage = "settled"
  /\ Told(r, "replayed")

InProgress(r, a) ==
  /\ Arrives(r, a) /\ WellFormed(a)
  /\ claims[a.key].envelope = Envelope(a)
  /\ claims[a.key].stage = "pending" /\ claims[a.key].holder # Null
  /\ Told(r, "in-progress")

KeyConflict(r, a) ==
  /\ Arrives(r, a) /\ WellFormed(a)
  /\ claims[a.key] # NoClaim /\ claims[a.key].envelope # Envelope(a)
  /\ Told(r, "conflict")

Dispatch(r, a) ==
  \/ InvalidRequest(r, a) \/ Claim(r, a) \/ Replay(r, a)
  \/ InProgress(r, a) \/ KeyConflict(r, a)
-----------------------------------------------------------------------------
(* The adapter: one transaction per mutation.                              *)

(* The CHECK of qlt_thread.                                                *)
Storable(t) == t.retention = "user-removed" <=> t.title = Null

(* A bug: the key is looked up by nothing but the unique identity.         *)
KeyUsedNever(k) == FALSE

(* A bug: a key whose thread is gone counts as unused.                     *)
KeyUsedIfThere(k) == keys[k] # Null /\ Exists(keys[k].id)

(* The adapter has created a thread under this key, which may be gone.     *)
KeyUsed(k) == keys[k] # Null

Executing(r, ops) ==
  server = "up" /\ pc[r] = "execute" /\ ask[r].op \in ops

Executes(r, what) ==
  /\ pc' = [pc EXCEPT ![r] = "settle"]
  /\ answer' = [answer EXCEPT ![r] = what]
  /\ UNCHANGED <<links, deletion, claims, ask, server>>

Create(r) ==
  LET k == ask[r].key
      i == TargetId(ask[r])
      made == [id |-> i, title |-> ask[r].title]
  IN /\ Executing(r, {"create"})
     /\ \/ /\ KeyUsed(k)
           /\ Executes(r, IF keys[k] = made THEN "ok" ELSE "key-conflict")
           /\ UNCHANGED <<threads, keys>>
        \/ /\ ~KeyUsed(k) /\ ~Exists(i)
           /\ Executes(r, "ok")
           /\ threads' = [threads EXCEPT ![i] =
                [title |-> ask[r].title, state |-> "active",
                 retention |-> "currently-relevant"]]
           /\ keys' = [keys EXCEPT ![k] = made]
        \/ /\ ~KeyUsed(k) /\ Exists(i)
           /\ Executes(r, "taken")
           /\ UNCHANGED <<threads, keys>>

Update(r, i, t) ==
  IF Storable(t)
    THEN Executes(r, "ok") /\ threads' = [threads EXCEPT ![i] = t]
    ELSE Executes(r, "rejected") /\ UNCHANGED threads

Verb(r) ==
  LET i == ask[r].id
      t == threads[i]
  IN /\ Executing(r, Ops \ {"create"}) /\ UNCHANGED keys
     /\ \/ ~Exists(i) /\ Executes(r, "missing") /\ UNCHANGED threads
        \/ /\ ask[r].op = "rename" /\ t.state = "dormant"
           /\ Executes(r, "archived") /\ UNCHANGED threads
        \/ /\ ask[r].op = "rename" /\ t.state = "active"
           /\ Update(r, i, [t EXCEPT !.title = ask[r].title])
        \/ /\ ask[r].op = "archive" /\ Exists(i)
           /\ Update(r, i, [t EXCEPT !.state = "dormant"])
        \/ /\ ask[r].op = "reopen" /\ Exists(i)
           /\ Update(r, i, [t EXCEPT !.state = "active"])

(* The claim settles with the outcome, which is then answered.             *)
Settle(r) ==
  /\ server = "up" /\ pc[r] = "settle"
  /\ pc' = [pc EXCEPT ![r] = "done"]
  /\ claims' = [claims EXCEPT ![ask[r].key].stage = "settled"]
  /\ UNCHANGED <<threads, links, keys, deletion, ask, answer, server>>
-----------------------------------------------------------------------------
(* The process and its claims.                                             *)

Crash ==
  /\ server = "up" /\ server' = "down"
  /\ pc' = [r \in Requests |->
       IF pc[r] \in {"execute", "settle"} THEN "lost" ELSE pc[r]]
  /\ UNCHANGED <<threads, links, keys, deletion, claims, ask, answer>>

Restart ==
  /\ server = "down" /\ server' = "up"
  /\ UNCHANGED <<threads, links, keys, deletion, claims, pc, ask, answer>>

(* A handler is one synchronous transaction: only the lease of a request   *)
(* that died with the process runs out.                                    *)
LeaseExpires(k) ==
  /\ claims[k].stage = "pending" /\ claims[k].holder # Null
  /\ pc[claims[k].holder] = "lost"
  /\ claims' = [claims EXCEPT ![k].holder = Null]
  /\ UNCHANGED <<threads, links, keys, deletion, pc, ask, answer, server>>
-----------------------------------------------------------------------------
(* What turns and deletions do to a thread.                                *)

Beside == server = "up" /\ UNCHANGED <<keys, claims, pc, ask, answer, server>>

EnsureConversationLink(i) ==
  /\ Beside /\ Exists(i) /\ threads[i].state # "dormant"
  /\ links' = links \cup {i}
  /\ UNCHANGED <<threads, deletion>>

PlanDeletion(i) ==
  /\ Beside /\ deletion[i] = "none" /\ Exists(i)
  /\ deletion' = [deletion EXCEPT ![i] = "planned"]
  /\ UNCHANGED <<threads, links>>

CancelDeletion(i) ==
  /\ Beside /\ deletion[i] = "planned"
  /\ deletion' = [deletion EXCEPT ![i] = "canceled"]
  /\ UNCHANGED <<threads, links>>

TombstoneThread(i) ==
  /\ Beside /\ deletion[i] = "planned" /\ Exists(i) /\ ~Removed(i)
  /\ threads' = [threads EXCEPT ![i].title = Null,
                                ![i].retention = "user-removed"]
  /\ links' = links \ {i}
  /\ UNCHANGED deletion

CompleteDeletion(i) ==
  /\ Beside /\ deletion[i] = "planned" /\ Removed(i)
  /\ deletion' = [deletion EXCEPT ![i] = "completed"]
  /\ UNCHANGED <<threads, links>>

(* The purge asks for the completed deletion and for the tombstone, which  *)
(* it takes away: it happens once, also where the identity is used again.  *)
Purge(i) ==
  /\ Beside /\ deletion[i] = "completed" /\ Removed(i)
  /\ threads' = [threads EXCEPT ![i] = NoRow]
  /\ links' = links \ {i}
  /\ UNCHANGED deletion

Next ==
  \/ \E r \in Requests :
       \/ \E a \in Asks : Dispatch(r, a)
       \/ Create(r) \/ Verb(r) \/ Settle(r)
  \/ \E k \in Keys : LeaseExpires(k)
  \/ Crash \/ Restart
  \/ \E i \in Ids :
       \/ EnsureConversationLink(i) \/ PlanDeletion(i) \/ CancelDeletion(i)
       \/ TombstoneThread(i) \/ CompleteDeletion(i) \/ Purge(i)

Spec == Init /\ [][Next]_vars
-----------------------------------------------------------------------------
(* What a client is told is so, however often it retried and whoever       *)
(* crashed in between: a create that succeeded has made the thread it      *)
(* asked for, once, under its key; a create that was refused has made none *)
(* and lost its identity to another key; a key is in conflict only where   *)
(* different requests used it; and a replay repeats an outcome that some   *)
(* identical request was told (application-server.ts, dispatch).           *)
AnswersAreTrue ==
  \A r \in Requests : pc[r] = "done" =>
    LET a == ask[r] IN
    /\ a.op = "create" /\ answer[r] = "ok" =>
         keys[a.key] = [id |-> TargetId(a), title |-> a.title]
    /\ answer[r] # "key-conflict"
    /\ answer[r] = "taken" =>
         /\ keys[a.key] = Null
         /\ \E k \in Keys \ {a.key} :
              keys[k] # Null /\ keys[k].id = TargetId(a)
    /\ answer[r] = "conflict" =>
         \E q \in Requests :
           /\ ask[q] # Null /\ ask[q].key = a.key
           /\ \/ ask[q].op # a.op \/ ask[q].title # a.title
              \/ ask[q].id # a.id /\ {ask[q].id, a.id} \cap Ids # {}
    /\ answer[r] = "replayed" =>
         \E q \in Requests :
           /\ pc[q] = "done" /\ answer[q] \in Outcomes
           /\ ask[q].key = a.key /\ Envelope(ask[q]) = Envelope(a)

(* What the user deleted stays deleted: a tombstone gets no title again,   *)
(* and a purged thread comes back, under any retry and after any crash,    *)
(* only by the first create under another key: no key creates twice        *)
(* (sqlite.ts, adapter.mutate, and the CHECK of qlt_thread).               *)
RemovedStaysRemoved ==
  [][\A i \in Ids :
       /\ Removed(i) =>
            \/ threads'[i] = NoRow
            \/ Removed(i)' /\ threads'[i].title = Null
       /\ ~Exists(i) /\ deletion[i] = "completed" /\ Exists(i)' =>
            \E k \in Keys :
              keys[k] = Null /\ keys'[k] # Null /\ keys'[k].id = i]_vars
=============================================================================
