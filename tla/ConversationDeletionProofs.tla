---------------------- MODULE ConversationDeletionProofs ----------------------
(***************************************************************************)
(* The governed deletion, for any number of requests, conversations, items *)
(* and turns, any keys and modes, any crashes and failures: what is        *)
(* reported complete is complete, the scope that was recorded is kept, and *)
(* what VICT deleted is never written again.                               *)
(***************************************************************************)
EXTENDS ConversationDeletion, TLAPS

USE NoneIsNoConversation, BootIsNoRequest, ModeOfType, BoundsType

(* Where a driver has something left to do.                                *)
Active == {"resolve", "admit", "run", "remove", "coordinate"}

(* Requests run while the server is up and for the scope on record; the    *)
(* boot runs while it recovers, on a row that is open.                     *)
DriversPlaced ==
  /\ \A d \in Deletes : pc[d] \in Active =>
       server = "up" /\ row.status # "none" /\ row.mode = ModeOf[d]
  /\ pc["boot"] \notin {"resolve", "admit"}
  /\ pc["boot"] # "idle" => server = "recovering"
  /\ pc["boot"] \in Active => RowOpen
  /\ \A t \in Turns : turnPc[t] = "resolved" =>
       server = "up" /\ turnConv[t] \in linked

(* Whatever conversation is resolved or recorded was once the thread's.    *)
TargetsLinked ==
  /\ row.intent \in linked \cup {None}
  /\ row.status = "none" => row.intent = None
  /\ \A d \in Drivers : target[d] \in linked \cup {None}
  /\ \A d \in Deletes : pc[d] \in {"admit", "run"} => target[d] # None
  /\ \A d \in Drivers : pc[d] = "coordinate" => target[d] # None

(* The tombstone comes before anything that cannot be taken back.          *)
TombstoneFirst ==
  /\ row.intent # None => Removed
  /\ \A c \in Conversations : vict[c] # "none" => Removed
  /\ \A d \in Deletes : pc[d] = "coordinate" => Removed
  /\ pc["boot"] = "coordinate" => Removed \/ target["boot"] = link
  /\ row.status = "completed" => Removed

(* Meaning is lost only under a row that says so.                          *)
ScopeKept ==
  \/ row.status # "none" /\ row.mode = WithMeaning
  \/ /\ \A i \in Items : meaning[i] \notin {"withdrawn", "removed"}
     /\ \A d \in Drivers : pc[d] # "remove"

(* While the process runs, every deleted conversation is fenced.           *)
Fenced ==
  /\ server # "down" => Deleted \subseteq fenced
  /\ TranscriptStaysDeleted

(* Without turns beside it and with no fault in the boot, the deletion     *)
(* knows the one conversation of the thread and all of its meaning.        *)
Quiet == NoTurnBeside /\ bootFaults = 0
NothingOverlooked ==
  Quiet =>
    /\ open = {}
    /\ \A c, e \in linked : c = e
    /\ link = None /\ linked # {} =>
         \/ row.intent # None
         \/ pc["boot"] = "coordinate"
         \/ row.status = "completed"
    /\ \A d \in Deletes : pc[d] = "remove" /\ target[d] = None => link = None
    /\ row.mode = WithMeaning =>
         \A d \in Drivers :
           /\ pc[d] = "remove" => Pending = {} /\ Relevant \subseteq todo[d]
           /\ pc[d] = "coordinate" =>
                RowTerminal \/ (Pending = {} /\ Relevant = {})
    /\ row.status = "completed" => NothingLeft

DeletionInv ==
  /\ TypeOK
  /\ DriversPlaced
  /\ TargetsLinked
  /\ TombstoneFirst
  /\ ScopeKept
  /\ Fenced
  /\ NothingOverlooked
-----------------------------------------------------------------------------
LEMMA Initially == Init => DeletionInv
  BY DEF Init, DeletionInv, TypeOK, DriversPlaced, TargetsLinked,
         TombstoneFirst, ScopeKept, Fenced, TranscriptStaysDeleted, Deleted,
         NothingOverlooked, Quiet, NoTurnBeside, NothingLeft, Active, Drivers,
         RowOpen, Removed, Modes, WithMeaning

LEMMA TypeStep ==
  ASSUME DeletionInv, [Next]_vars
  PROVE  TypeOK'
<1> USE DEF DeletionInv, TypeOK, DriversPlaced, TargetsLinked, Drivers, Modes,
            WithMeaning
<1>1. ASSUME NEW d \in Deletes, Plan(d)
      PROVE  TypeOK'
  BY <1>1 DEF Plan, stores, drivers, turns, bounds
<1>2. ASSUME NEW d \in Deletes, Resolve(d)
      PROVE  TypeOK'
  BY <1>2 DEF Resolve, stores, drivers, turns, bounds
<1>3. ASSUME NEW d \in Deletes, AdmitTurn(d)
      PROVE  TypeOK'
  BY <1>3 DEF AdmitTurn, stores, drivers, turns, bounds
<1>4. ASSUME NEW d \in Drivers, WithdrawPending(d)
      PROVE  TypeOK'
  BY <1>4
  DEF WithdrawPending, AtRun, Mode, Pending, Relevant, RowTerminal, stores,
      drivers, turns, bounds
<1>5. ASSUME NEW d \in Drivers, RemoveRecord(d)
      PROVE  TypeOK'
  BY <1>5 DEF RemoveRecord, stores, drivers, turns, bounds
<1>6. ASSUME NEW d \in Deletes, Commence(d)
      PROVE  TypeOK'
  BY <1>6
  DEF Commence, MeaningDone, AtRun, Mode, Governed, TombstoneThread, Removed,
      stores, drivers, turns, bounds
<1>7. ASSUME NEW d \in Deletes, CommenceUnlinked(d)
      PROVE  TypeOK'
  BY <1>7
  DEF CommenceUnlinked, MeaningDone, AtRun, Mode, Governed, TombstoneThread,
      Removed, CompleteDeletion, CompletionAnswer, Answer, RowOpen, stores,
      drivers, turns, bounds
<1>8. ASSUME NEW d \in Drivers, CoordinateDomain(d)
      PROVE  TypeOK'
  BY <1>8
  DEF CoordinateDomain, TombstoneThread, Removed, stores, drivers, turns,
      bounds
<1>9. ASSUME NEW d \in Drivers, CoordinateMemory(d)
      PROVE  TypeOK'
  BY <1>9 DEF CoordinateMemory, stores, drivers, turns, bounds
<1>10. ASSUME NEW d \in Drivers, Complete(d)
      PROVE  TypeOK'
  BY <1>10
  DEF Complete, CompleteDeletion, CompletionAnswer, Answer, RowOpen, stores,
      drivers, turns, bounds
<1>11. ASSUME NEW d \in Drivers, CoordinatorFails(d)
      PROVE  TypeOK'
  BY <1>11
  DEF CoordinatorFails, Answer, RowOpen, stores, drivers, turns, bounds
<1>12. ASSUME Restart
      PROVE  TypeOK'
  BY <1>12 DEF Restart, RowOpen, Deleted, stores, drivers, turns, bounds
<1>13. ASSUME BootCommence
      PROVE  TypeOK'
  BY <1>13
  DEF BootCommence, MeaningDone, AtRun, Mode, Recoverable, stores, drivers,
      turns, bounds
<1>14. ASSUME BootUnlinked
      PROVE  TypeOK'
  BY <1>14
  DEF BootUnlinked, MeaningDone, AtRun, Mode, Recoverable, TombstoneThread,
      Removed, CompleteDeletion, CompletionAnswer, Answer, RowOpen, stores,
      drivers, turns, bounds
<1>15. ASSUME Listen
      PROVE  TypeOK'
  BY <1>15 DEF Listen, Deleted, stores, drivers, turns, bounds
<1>16. ASSUME Cancel
      PROVE  TypeOK'
  BY <1>16 DEF Cancel, stores, drivers, turns, bounds
<1>17. ASSUME NEW i \in Items, Confirm(i)
      PROVE  TypeOK'
  BY <1>17 DEF Confirm, NotStale, Removed, stores, drivers, turns, bounds
<1>18. ASSUME NEW t \in Turns, EnsureConversationLink(t)
      PROVE  TypeOK'
  BY <1>18 DEF EnsureConversationLink, stores, drivers, turns, bounds
<1>19. ASSUME NEW t \in Turns, StartTurn(t)
      PROVE  TypeOK'
  BY <1>19 DEF StartTurn, stores, drivers, turns, bounds
<1>20. ASSUME NEW c \in Conversations, TurnEnds(c)
      PROVE  TypeOK'
  BY <1>20 DEF TurnEnds, stores, drivers, turns, bounds
<1>21. ASSUME NEW c \in Conversations, NEW i \in Items, AgentProposes(c, i)
      PROVE  TypeOK'
  BY <1>21 DEF AgentProposes, stores, drivers, turns, bounds
<1>22. ASSUME Crash
      PROVE  TypeOK'
  BY <1>22 DEF Crash, Die, stores, drivers, turns, bounds
<1>23. ASSUME CrashInBoot
      PROVE  TypeOK'
  BY <1>23 DEF CrashInBoot, Die, stores, drivers, turns, bounds
<1>24. CASE UNCHANGED vars
  BY <1>24 DEF vars, stores, drivers, turns, bounds
<1> QED
  BY <1>1, <1>2, <1>3, <1>4, <1>5, <1>6, <1>7, <1>8, <1>9, <1>10, <1>11, <1>12,
     <1>13, <1>14, <1>15, <1>16, <1>17, <1>18, <1>19, <1>20, <1>21, <1>22,
     <1>23, <1>24
  DEF Next, Boot, Drive, RunMeaning, RunCoordinator

LEMMA PlacedStep ==
  ASSUME DeletionInv, [Next]_vars
  PROVE  DriversPlaced'
<1> USE DEF DeletionInv, TypeOK, DriversPlaced, TargetsLinked, Drivers, Active,
            RowOpen
<1>1. ASSUME NEW d \in Deletes, Plan(d)
      PROVE  DriversPlaced'
  BY <1>1 DEF Plan, stores, drivers, turns, bounds
<1>2. ASSUME NEW d \in Deletes, Resolve(d)
      PROVE  DriversPlaced'
  BY <1>2 DEF Resolve, stores, drivers, turns, bounds
<1>3. ASSUME NEW d \in Deletes, AdmitTurn(d)
      PROVE  DriversPlaced'
  BY <1>3 DEF AdmitTurn, stores, drivers, turns, bounds
<1>4. ASSUME NEW d \in Drivers, WithdrawPending(d)
      PROVE  DriversPlaced'
  BY <1>4
  DEF WithdrawPending, AtRun, Mode, Pending, Relevant, RowTerminal, stores,
      drivers, turns, bounds
<1>5. ASSUME NEW d \in Deletes, Commence(d)
      PROVE  DriversPlaced'
  BY <1>5
  DEF Commence, MeaningDone, AtRun, Mode, Governed, TombstoneThread, Removed,
      stores, drivers, turns, bounds
<1>6. ASSUME NEW d \in Deletes, CommenceUnlinked(d)
      PROVE  DriversPlaced'
  BY <1>6
  DEF CommenceUnlinked, MeaningDone, AtRun, Mode, Governed, TombstoneThread,
      Removed, CompleteDeletion, CompletionAnswer, Answer, RowOpen, stores,
      drivers, turns, bounds
<1>7. ASSUME NEW d \in Drivers, Complete(d)
      PROVE  DriversPlaced'
  BY <1>7
  DEF Complete, CompleteDeletion, CompletionAnswer, Answer, RowOpen, stores,
      drivers, turns, bounds
<1>8. ASSUME NEW d \in Drivers, CoordinatorFails(d)
      PROVE  DriversPlaced'
  BY <1>8 DEF CoordinatorFails, Answer, RowOpen, stores, drivers, turns, bounds
<1>9. ASSUME Restart
      PROVE  DriversPlaced'
  BY <1>9 DEF Restart, RowOpen, Deleted, stores, drivers, turns, bounds
<1>10. ASSUME BootCommence
      PROVE  DriversPlaced'
  BY <1>10
  DEF BootCommence, MeaningDone, AtRun, Mode, Recoverable, stores, drivers,
      turns, bounds
<1>11. ASSUME BootUnlinked
      PROVE  DriversPlaced'
  BY <1>11
  DEF BootUnlinked, MeaningDone, AtRun, Mode, Recoverable, TombstoneThread,
      Removed, CompleteDeletion, CompletionAnswer, Answer, RowOpen, stores,
      drivers, turns, bounds
<1>12. ASSUME Listen
      PROVE  DriversPlaced'
  BY <1>12 DEF Listen, Deleted, stores, drivers, turns, bounds
<1>13. ASSUME Cancel
      PROVE  DriversPlaced'
  BY <1>13 DEF Cancel, stores, drivers, turns, bounds
<1>14. ASSUME NEW t \in Turns, EnsureConversationLink(t)
      PROVE  DriversPlaced'
  BY <1>14 DEF EnsureConversationLink, stores, drivers, turns, bounds
<1>15. ASSUME NEW t \in Turns, StartTurn(t)
      PROVE  DriversPlaced'
  BY <1>15 DEF StartTurn, stores, drivers, turns, bounds
<1>16. ASSUME Crash
      PROVE  DriversPlaced'
  BY <1>16 DEF Crash, Die, stores, drivers, turns, bounds
<1>17. ASSUME CrashInBoot
      PROVE  DriversPlaced'
  BY <1>17 DEF CrashInBoot, Die, stores, drivers, turns, bounds
<1>18. CASE UNCHANGED <<server, row, linked, pc, turnPc, turnConv>>
  BY <1>18
<1> QED
  BY <1>1, <1>2, <1>3, <1>4, <1>5, <1>6, <1>7, <1>8, <1>9, <1>10, <1>11, <1>12,
     <1>13, <1>14, <1>15, <1>16, <1>17, <1>18
  DEF Next, Boot, Drive, RunMeaning, RunCoordinator, RemoveRecord,
      CoordinateDomain, TombstoneThread, Removed, CoordinateMemory, Confirm,
      NotStale, TurnEnds, AgentProposes, vars, stores, drivers, turns, bounds

LEMMA TargetsStep ==
  ASSUME DeletionInv, [Next]_vars
  PROVE  TargetsLinked'
<1> USE DEF DeletionInv, TypeOK, DriversPlaced, TargetsLinked, Drivers, Active
<1>1. ASSUME NEW d \in Deletes, Plan(d)
      PROVE  TargetsLinked'
  BY <1>1 DEF Plan, stores, drivers, turns, bounds
<1>2. ASSUME NEW d \in Deletes, Resolve(d)
      PROVE  TargetsLinked'
  BY <1>2 DEF Resolve, stores, drivers, turns, bounds
<1>3. ASSUME NEW d \in Deletes, AdmitTurn(d)
      PROVE  TargetsLinked'
  BY <1>3 DEF AdmitTurn, stores, drivers, turns, bounds
<1>4. ASSUME NEW d \in Drivers, WithdrawPending(d)
      PROVE  TargetsLinked'
  BY <1>4
  DEF WithdrawPending, AtRun, Mode, Pending, Relevant, RowTerminal, stores,
      drivers, turns, bounds
<1>5. ASSUME NEW d \in Deletes, Commence(d)
      PROVE  TargetsLinked'
  BY <1>5
  DEF Commence, MeaningDone, AtRun, Mode, Governed, TombstoneThread, Removed,
      stores, drivers, turns, bounds
<1>6. ASSUME NEW d \in Deletes, CommenceUnlinked(d)
      PROVE  TargetsLinked'
  BY <1>6
  DEF CommenceUnlinked, MeaningDone, AtRun, Mode, Governed, TombstoneThread,
      Removed, CompleteDeletion, CompletionAnswer, Answer, RowOpen, stores,
      drivers, turns, bounds
<1>7. ASSUME NEW d \in Drivers, Complete(d)
      PROVE  TargetsLinked'
  BY <1>7
  DEF Complete, CompleteDeletion, CompletionAnswer, Answer, RowOpen, stores,
      drivers, turns, bounds
<1>8. ASSUME NEW d \in Drivers, CoordinatorFails(d)
      PROVE  TargetsLinked'
  BY <1>8 DEF CoordinatorFails, Answer, RowOpen, stores, drivers, turns, bounds
<1>9. ASSUME Restart
      PROVE  TargetsLinked'
  BY <1>9 DEF Restart, RowOpen, Deleted, stores, drivers, turns, bounds
<1>10. ASSUME BootCommence
      PROVE  TargetsLinked'
  BY <1>10
  DEF BootCommence, MeaningDone, AtRun, Mode, Recoverable, stores, drivers,
      turns, bounds
<1>11. ASSUME BootUnlinked
      PROVE  TargetsLinked'
  BY <1>11
  DEF BootUnlinked, MeaningDone, AtRun, Mode, Recoverable, TombstoneThread,
      Removed, CompleteDeletion, CompletionAnswer, Answer, RowOpen, stores,
      drivers, turns, bounds
<1>12. ASSUME Listen
      PROVE  TargetsLinked'
  BY <1>12 DEF Listen, Deleted, stores, drivers, turns, bounds
<1>13. ASSUME Cancel
      PROVE  TargetsLinked'
  BY <1>13 DEF Cancel, stores, drivers, turns, bounds
<1>14. ASSUME NEW t \in Turns, EnsureConversationLink(t)
      PROVE  TargetsLinked'
  BY <1>14 DEF EnsureConversationLink, stores, drivers, turns, bounds
<1>15. ASSUME Crash
      PROVE  TargetsLinked'
  BY <1>15 DEF Crash, Die, stores, drivers, turns, bounds
<1>16. ASSUME CrashInBoot
      PROVE  TargetsLinked'
  BY <1>16 DEF CrashInBoot, Die, stores, drivers, turns, bounds
<1>17. CASE UNCHANGED <<row, linked, pc, target>>
  BY <1>17
<1> QED
  BY <1>1, <1>2, <1>3, <1>4, <1>5, <1>6, <1>7, <1>8, <1>9, <1>10, <1>11, <1>12,
     <1>13, <1>14, <1>15, <1>16, <1>17
  DEF Next, Boot, Drive, RunMeaning, RunCoordinator, RemoveRecord,
      CoordinateDomain, TombstoneThread, Removed, CoordinateMemory, Confirm,
      NotStale, StartTurn, TurnEnds, AgentProposes, vars, stores, drivers,
      turns, bounds

(* Commence tombstones before the coordinator runs; the boot relies on the  *)
(* product port to do it.                                                  *)
LEMMA TombstoneStep ==
  ASSUME DeletionInv, [Next]_vars
  PROVE  TombstoneFirst'
<1> USE DEF DeletionInv, TypeOK, DriversPlaced, TargetsLinked, TombstoneFirst,
            Drivers, Active, Removed, RowOpen
<1>1. ASSUME NEW d \in Deletes, Plan(d)
      PROVE  TombstoneFirst'
  BY <1>1 DEF Plan, stores, drivers, turns, bounds
<1>2. ASSUME NEW d \in Deletes, Resolve(d)
      PROVE  TombstoneFirst'
  BY <1>2 DEF Resolve, stores, drivers, turns, bounds
<1>3. ASSUME NEW d \in Deletes, AdmitTurn(d)
      PROVE  TombstoneFirst'
  BY <1>3 DEF AdmitTurn, stores, drivers, turns, bounds
<1>4. ASSUME NEW d \in Drivers, WithdrawPending(d)
      PROVE  TombstoneFirst'
  BY <1>4
  DEF WithdrawPending, AtRun, Mode, Pending, Relevant, RowTerminal, stores,
      drivers, turns, bounds
<1>5. ASSUME NEW d \in Deletes, Commence(d)
      PROVE  TombstoneFirst'
  BY <1>5
  DEF Commence, MeaningDone, AtRun, Mode, Governed, TombstoneThread, Removed,
      stores, drivers, turns, bounds
<1>6. ASSUME NEW d \in Deletes, CommenceUnlinked(d)
      PROVE  TombstoneFirst'
  BY <1>6
  DEF CommenceUnlinked, MeaningDone, AtRun, Mode, Governed, TombstoneThread,
      Removed, CompleteDeletion, CompletionAnswer, Answer, RowOpen, stores,
      drivers, turns, bounds
<1>7. ASSUME NEW d \in Drivers, CoordinateDomain(d)
      PROVE  TombstoneFirst'
  BY <1>7
  DEF CoordinateDomain, TombstoneThread, Removed, stores, drivers, turns,
      bounds
<1>8. ASSUME NEW d \in Drivers, CoordinateMemory(d)
      PROVE  TombstoneFirst'
  BY <1>8 DEF CoordinateMemory, stores, drivers, turns, bounds
<1>9. ASSUME NEW d \in Drivers, Complete(d)
      PROVE  TombstoneFirst'
  BY <1>9
  DEF Complete, CompleteDeletion, CompletionAnswer, Answer, RowOpen, stores,
      drivers, turns, bounds
<1>10. ASSUME NEW d \in Drivers, CoordinatorFails(d)
      PROVE  TombstoneFirst'
  BY <1>10
  DEF CoordinatorFails, Answer, RowOpen, stores, drivers, turns, bounds
<1>11. ASSUME Restart
      PROVE  TombstoneFirst'
  BY <1>11 DEF Restart, RowOpen, Deleted, stores, drivers, turns, bounds
<1>12. ASSUME BootCommence
      PROVE  TombstoneFirst'
  BY <1>12
  DEF BootCommence, MeaningDone, AtRun, Mode, Recoverable, stores, drivers,
      turns, bounds
<1>13. ASSUME BootUnlinked
      PROVE  TombstoneFirst'
  BY <1>13
  DEF BootUnlinked, MeaningDone, AtRun, Mode, Recoverable, TombstoneThread,
      Removed, CompleteDeletion, CompletionAnswer, Answer, RowOpen, stores,
      drivers, turns, bounds
<1>14. ASSUME Listen
      PROVE  TombstoneFirst'
  BY <1>14 DEF Listen, Deleted, stores, drivers, turns, bounds
<1>15. ASSUME Cancel
      PROVE  TombstoneFirst'
  BY <1>15 DEF Cancel, stores, drivers, turns, bounds
<1>16. ASSUME NEW t \in Turns, EnsureConversationLink(t)
      PROVE  TombstoneFirst'
  BY <1>16 DEF EnsureConversationLink, stores, drivers, turns, bounds
<1>17. ASSUME Crash
      PROVE  TombstoneFirst'
  BY <1>17 DEF Crash, Die, stores, drivers, turns, bounds
<1>18. ASSUME CrashInBoot
      PROVE  TombstoneFirst'
  BY <1>18 DEF CrashInBoot, Die, stores, drivers, turns, bounds
<1>19. CASE UNCHANGED <<thread, link, row, vict, pc, target>>
  BY <1>19
<1> QED
  BY <1>1, <1>2, <1>3, <1>4, <1>5, <1>6, <1>7, <1>8, <1>9, <1>10, <1>11, <1>12,
     <1>13, <1>14, <1>15, <1>16, <1>17, <1>18, <1>19
  DEF Next, Boot, Drive, RunMeaning, RunCoordinator, RemoveRecord, Confirm,
      NotStale, Removed, StartTurn, TurnEnds, AgentProposes, vars, stores,
      drivers, turns, bounds

(* Who is in the meaning step asked for it.                                *)
LEMMA ScopeStep ==
  ASSUME DeletionInv, [Next]_vars
  PROVE  ScopeKept'
<1> USE DEF DeletionInv, TypeOK, DriversPlaced, ScopeKept, Drivers, Active,
            RowOpen, WithMeaning, Mode
<1>1. ASSUME NEW d \in Deletes, Plan(d)
      PROVE  ScopeKept'
  BY <1>1 DEF Plan, stores, drivers, turns, bounds
<1>2. ASSUME NEW d \in Deletes, Resolve(d)
      PROVE  ScopeKept'
  BY <1>2 DEF Resolve, stores, drivers, turns, bounds
<1>3. ASSUME NEW d \in Deletes, AdmitTurn(d)
      PROVE  ScopeKept'
  BY <1>3 DEF AdmitTurn, stores, drivers, turns, bounds
<1>4. ASSUME NEW d \in Drivers, WithdrawPending(d)
      PROVE  ScopeKept'
  BY <1>4
  DEF WithdrawPending, AtRun, Mode, Pending, Relevant, RowTerminal, stores,
      drivers, turns, bounds
<1>5. ASSUME NEW d \in Drivers, RemoveRecord(d)
      PROVE  ScopeKept'
  BY <1>5 DEF RemoveRecord, stores, drivers, turns, bounds
<1>6. ASSUME NEW d \in Deletes, Commence(d)
      PROVE  ScopeKept'
  BY <1>6
  DEF Commence, MeaningDone, AtRun, Mode, Governed, TombstoneThread, Removed,
      stores, drivers, turns, bounds
<1>7. ASSUME NEW d \in Deletes, CommenceUnlinked(d)
      PROVE  ScopeKept'
  BY <1>7
  DEF CommenceUnlinked, MeaningDone, AtRun, Mode, Governed, TombstoneThread,
      Removed, CompleteDeletion, CompletionAnswer, Answer, RowOpen, stores,
      drivers, turns, bounds
<1>8. ASSUME NEW d \in Drivers, Complete(d)
      PROVE  ScopeKept'
  BY <1>8
  DEF Complete, CompleteDeletion, CompletionAnswer, Answer, RowOpen, stores,
      drivers, turns, bounds
<1>9. ASSUME NEW d \in Drivers, CoordinatorFails(d)
      PROVE  ScopeKept'
  BY <1>9 DEF CoordinatorFails, Answer, RowOpen, stores, drivers, turns, bounds
<1>10. ASSUME Restart
      PROVE  ScopeKept'
  BY <1>10 DEF Restart, RowOpen, Deleted, stores, drivers, turns, bounds
<1>11. ASSUME BootCommence
      PROVE  ScopeKept'
  BY <1>11
  DEF BootCommence, MeaningDone, AtRun, Mode, Recoverable, stores, drivers,
      turns, bounds
<1>12. ASSUME BootUnlinked
      PROVE  ScopeKept'
  BY <1>12
  DEF BootUnlinked, MeaningDone, AtRun, Mode, Recoverable, TombstoneThread,
      Removed, CompleteDeletion, CompletionAnswer, Answer, RowOpen, stores,
      drivers, turns, bounds
<1>13. ASSUME Listen
      PROVE  ScopeKept'
  BY <1>13 DEF Listen, Deleted, stores, drivers, turns, bounds
<1>14. ASSUME Cancel
      PROVE  ScopeKept'
  BY <1>14 DEF Cancel, stores, drivers, turns, bounds
<1>15. ASSUME NEW i \in Items, Confirm(i)
      PROVE  ScopeKept'
  BY <1>15 DEF Confirm, NotStale, Removed, stores, drivers, turns, bounds
<1>16. ASSUME NEW c \in Conversations, NEW i \in Items, AgentProposes(c, i)
      PROVE  ScopeKept'
  BY <1>16 DEF AgentProposes, stores, drivers, turns, bounds
<1>17. ASSUME Crash
      PROVE  ScopeKept'
  BY <1>17 DEF Crash, Die, stores, drivers, turns, bounds
<1>18. ASSUME CrashInBoot
      PROVE  ScopeKept'
  BY <1>18 DEF CrashInBoot, Die, stores, drivers, turns, bounds
<1>19. CASE UNCHANGED <<row, meaning, pc>>
  BY <1>19
<1> QED
  BY <1>1, <1>2, <1>3, <1>4, <1>5, <1>6, <1>7, <1>8, <1>9, <1>10, <1>11, <1>12,
     <1>13, <1>14, <1>15, <1>16, <1>17, <1>18, <1>19
  DEF Next, Boot, Drive, RunMeaning, RunCoordinator, CoordinateDomain,
      TombstoneThread, Removed, CoordinateMemory, EnsureConversationLink,
      StartTurn, TurnEnds, vars, stores, drivers, turns, bounds

(* Deleting and fencing is one step, and a boot fences before it listens.  *)
LEMMA FenceStep ==
  ASSUME DeletionInv, [Next]_vars
  PROVE  Fenced'
<1> USE DEF DeletionInv, TypeOK, DriversPlaced, TargetsLinked, Fenced,
            TranscriptStaysDeleted, Deleted, Drivers
<1>1. ASSUME NEW d \in Drivers, CoordinateDomain(d)
      PROVE  Fenced'
  BY <1>1
  DEF CoordinateDomain, TombstoneThread, Removed, stores, drivers, turns,
      bounds
<1>2. ASSUME NEW d \in Drivers, CoordinateMemory(d)
      PROVE  Fenced'
  BY <1>2 DEF CoordinateMemory, stores, drivers, turns, bounds
<1>3. ASSUME Restart
      PROVE  Fenced'
  BY <1>3 DEF Restart, RowOpen, Deleted, stores, drivers, turns, bounds
<1>4. ASSUME Listen
      PROVE  Fenced'
  BY <1>4 DEF Listen, Deleted, stores, drivers, turns, bounds
<1>5. ASSUME NEW t \in Turns, StartTurn(t)
      PROVE  Fenced'
  BY <1>5 DEF StartTurn, stores, drivers, turns, bounds
<1>6. ASSUME NEW c \in Conversations, TurnEnds(c)
      PROVE  Fenced'
  BY <1>6 DEF TurnEnds, stores, drivers, turns, bounds
<1>7. ASSUME Crash
      PROVE  Fenced'
  BY <1>7 DEF Crash, Die, stores, drivers, turns, bounds
<1>8. ASSUME CrashInBoot
      PROVE  Fenced'
  BY <1>8 DEF CrashInBoot, Die, stores, drivers, turns, bounds
<1>9. CASE UNCHANGED <<server, vict, memory, fenced>>
  BY <1>9
<1> QED
  BY <1>1, <1>2, <1>3, <1>4, <1>5, <1>6, <1>7, <1>8, <1>9
  DEF Next, Boot, Drive, RunMeaning, RunCoordinator, Plan, Resolve, AdmitTurn,
      WithdrawPending, AtRun, Mode, Pending, Relevant, RowTerminal,
      RemoveRecord, Commence, MeaningDone, Governed, TombstoneThread, Removed,
      CommenceUnlinked, CompleteDeletion, CompletionAnswer, Answer, RowOpen,
      Complete, CoordinatorFails, BootCommence, Recoverable, BootUnlinked,
      Cancel, Confirm, NotStale, EnsureConversationLink, AgentProposes, vars,
      stores, drivers, turns, bounds

(* The withdrawal leaves nothing pending and lists everything relevant;    *)
(* without turns nothing is added, and the conversation stays the same.    *)
LEMMA QuietStep ==
  ASSUME DeletionInv, [Next]_vars
  PROVE  NothingOverlooked'
<1> USE DEF DeletionInv, TypeOK, DriversPlaced, TargetsLinked, TombstoneFirst,
            Fenced, TranscriptStaysDeleted, NothingOverlooked, Quiet,
            NoTurnBeside, NothingLeft, Drivers, Active, RowOpen, RowTerminal,
            Pending, Relevant, WithMeaning, Mode
<1>1. ASSUME NEW d \in Deletes, Plan(d)
      PROVE  NothingOverlooked'
  <2>1. CASE row' = row
    BY <1>1, <2>1 DEF Plan, turns, bounds
  <2>2. CASE row.status = "none"
    <3>1. \A e \in Drivers : pc[e] \notin Active
      BY <2>2
    <3>2. row'.status = "planned" /\ row'.intent = None /\ row.intent = None
      BY <1>1, <2>2 DEF Plan
    <3> QED
      BY <1>1, <3>1, <3>2 DEF Plan, turns, bounds
  <2> QED
    BY <1>1, <2>1, <2>2 DEF Plan
<1>2. ASSUME NEW d \in Deletes, Resolve(d)
      PROVE  NothingOverlooked'
  BY <1>2 DEF Resolve, stores, drivers, turns, bounds
<1>3. ASSUME NEW d \in Deletes, AdmitTurn(d)
      PROVE  NothingOverlooked'
  BY <1>3 DEF AdmitTurn, stores, drivers, turns, bounds
<1>4. ASSUME NEW d \in Drivers, WithdrawPending(d)
      PROVE  NothingOverlooked'
  BY <1>4
  DEF WithdrawPending, AtRun, Mode, Pending, Relevant, RowTerminal, stores,
      drivers, turns, bounds
<1>5. ASSUME NEW d \in Drivers, RemoveRecord(d)
      PROVE  NothingOverlooked'
  BY <1>5 DEF RemoveRecord, stores, drivers, turns, bounds
<1>6. ASSUME NEW d \in Deletes, Commence(d)
      PROVE  NothingOverlooked'
  BY <1>6
  DEF Commence, MeaningDone, AtRun, Mode, Governed, TombstoneThread, Removed,
      stores, drivers, turns, bounds
<1>7. ASSUME NEW d \in Deletes, CommenceUnlinked(d)
      PROVE  NothingOverlooked'
  BY <1>7
  DEF CommenceUnlinked, MeaningDone, AtRun, Mode, Governed, TombstoneThread,
      Removed, CompleteDeletion, CompletionAnswer, Answer, RowOpen, stores,
      drivers, turns, bounds
<1>8. ASSUME NEW d \in Drivers, CoordinateDomain(d)
      PROVE  NothingOverlooked'
  BY <1>8
  DEF CoordinateDomain, TombstoneThread, Removed, stores, drivers, turns,
      bounds
<1>9. ASSUME NEW d \in Drivers, CoordinateMemory(d)
      PROVE  NothingOverlooked'
  BY <1>9 DEF CoordinateMemory, stores, drivers, turns, bounds
<1>10. ASSUME NEW d \in Drivers, Complete(d)
      PROVE  NothingOverlooked'
  BY <1>10
  DEF Complete, CompleteDeletion, CompletionAnswer, Answer, RowOpen, stores,
      drivers, turns, bounds
<1>11. ASSUME NEW d \in Drivers, CoordinatorFails(d)
      PROVE  NothingOverlooked'
  BY <1>11
  DEF CoordinatorFails, Answer, RowOpen, stores, drivers, turns, bounds
<1>12. ASSUME Restart
      PROVE  NothingOverlooked'
  BY <1>12 DEF Restart, RowOpen, Deleted, stores, drivers, turns, bounds
<1>13. ASSUME BootCommence
      PROVE  NothingOverlooked'
  BY <1>13
  DEF BootCommence, MeaningDone, AtRun, Mode, Recoverable, stores, drivers,
      turns, bounds
<1>14. ASSUME BootUnlinked
      PROVE  NothingOverlooked'
  BY <1>14
  DEF BootUnlinked, MeaningDone, AtRun, Mode, Recoverable, TombstoneThread,
      Removed, CompleteDeletion, CompletionAnswer, Answer, RowOpen, stores,
      drivers, turns, bounds
<1>15. ASSUME Listen
      PROVE  NothingOverlooked'
  BY <1>15 DEF Listen, Deleted, stores, drivers, turns, bounds
<1>16. ASSUME Cancel
      PROVE  NothingOverlooked'
  BY <1>16 DEF Cancel, stores, drivers, turns, bounds
<1>17. ASSUME NEW i \in Items, Confirm(i)
      PROVE  NothingOverlooked'
  BY <1>17 DEF Confirm, NotStale, Removed, stores, drivers, turns, bounds
<1>18. ASSUME NEW t \in Turns, EnsureConversationLink(t)
      PROVE  NothingOverlooked'
  BY <1>18 DEF EnsureConversationLink, stores, drivers, turns, bounds
<1>19. ASSUME NEW t \in Turns, StartTurn(t)
      PROVE  NothingOverlooked'
  BY <1>19 DEF StartTurn, stores, drivers, turns, bounds
<1>20. ASSUME NEW c \in Conversations, TurnEnds(c)
      PROVE  NothingOverlooked'
  BY <1>20 DEF TurnEnds, stores, drivers, turns, bounds
<1>21. ASSUME NEW c \in Conversations, NEW i \in Items, AgentProposes(c, i)
      PROVE  NothingOverlooked'
  BY <1>21 DEF AgentProposes, stores, drivers, turns, bounds
<1>22. ASSUME Crash
      PROVE  NothingOverlooked'
  BY <1>22 DEF Crash, Die, stores, drivers, turns, bounds
<1>23. ASSUME CrashInBoot
      PROVE  NothingOverlooked'
  BY <1>23 DEF CrashInBoot, Die, stores, drivers, turns, bounds
<1>24. CASE UNCHANGED vars
  BY <1>24 DEF vars, stores, drivers, turns, bounds
<1> QED
  BY <1>1, <1>2, <1>3, <1>4, <1>5, <1>6, <1>7, <1>8, <1>9, <1>10, <1>11, <1>12,
     <1>13, <1>14, <1>15, <1>16, <1>17, <1>18, <1>19, <1>20, <1>21, <1>22,
     <1>23, <1>24
  DEF Next, Boot, Drive, RunMeaning, RunCoordinator
-----------------------------------------------------------------------------
(* The deletion never leaves the states of its inductive invariant.        *)
THEOREM Invariance == Spec => []DeletionInv
<1>1. DeletionInv /\ [Next]_vars => DeletionInv'
  BY TypeStep, PlacedStep, TargetsStep, TombstoneStep, ScopeStep, FenceStep,
     QuietStep
  DEF DeletionInv
<1> QED
  BY Initially, <1>1, PTL DEF Spec

(* A deletion reported complete is complete: a tombstone, and without      *)
(* turns beside it and faults in the boot nothing of the conversation and, *)
(* where it was asked for, of its meaning is left.                         *)
THEOREM CompletionIsTruthful == Spec => []CompletedIsTruthful
<1>1. DeletionInv => CompletedIsTruthful
  BY DEF DeletionInv, TombstoneFirst, NothingOverlooked, Quiet, NoTurnBeside,
         CompletedIsTruthful
<1> QED
  BY <1>1, Invariance, PTL

(* No retry, conflict, recovery or crash turns a deletion of the           *)
(* conversation into one of its meaning.                                   *)
THEOREM ScopeStays == Spec => []ScopeNeverBroadened
<1>1. DeletionInv => ScopeNeverBroadened
  BY DEF DeletionInv, ScopeKept, ScopeNeverBroadened, WithMeaning
<1> QED
  BY <1>1, Invariance, PTL

(* No turn, before or after any number of crashes, writes to a transcript  *)
(* that VICT has deleted.                                                  *)
THEOREM DeletedTranscriptsStayDeleted == Spec => []TranscriptStaysDeleted
<1>1. DeletionInv => TranscriptStaysDeleted
  BY DEF DeletionInv, Fenced
<1> QED
  BY <1>1, Invariance, PTL

(* Whatever drivers are still in flight report, a completed or canceled    *)
(* deletion keeps its status.                                              *)
THEOREM TerminalStatusIsFinal == Spec => TerminalIsFinal
<1>1. DeletionInv /\ [Next]_vars =>
        [RowTerminal => row'.status = row.status]_vars
  <2> SUFFICES ASSUME DeletionInv, [Next]_vars, RowTerminal
               PROVE  row'.status = row.status
    OBVIOUS
  <2> USE DEF RowTerminal
  <2>1. ASSUME NEW d \in Deletes, Plan(d)
        PROVE  row'.status = row.status
    BY <2>1 DEF Plan
  <2>2. ASSUME NEW d \in Deletes, Commence(d)
        PROVE  row'.status = row.status
    BY <2>2 DEF Commence, DeletionInv, TypeOK
  <2>3. ASSUME NEW d \in Deletes, CommenceUnlinked(d)
        PROVE  row'.status = row.status
    BY <2>3 DEF CommenceUnlinked, CompleteDeletion, RowOpen
  <2>4. ASSUME NEW d \in Drivers, Complete(d)
        PROVE  row'.status = row.status
    BY <2>4 DEF Complete, CompleteDeletion, RowOpen
  <2>5. ASSUME NEW d \in Drivers, CoordinatorFails(d)
        PROVE  row'.status = row.status
    BY <2>5 DEF CoordinatorFails, RowOpen
  <2>6. ASSUME BootUnlinked
        PROVE  row'.status = row.status
    BY <2>6 DEF BootUnlinked, CompleteDeletion, RowOpen
  <2>7. ASSUME Cancel
        PROVE  row'.status = row.status
    BY <2>7 DEF Cancel
  <2>8. ASSUME NEW d \in Drivers,
               \/ Resolve(d) \/ AdmitTurn(d) \/ WithdrawPending(d)
               \/ RemoveRecord(d) \/ CoordinateDomain(d) \/ CoordinateMemory(d)
        PROVE  row' = row
    BY <2>8
    DEF Resolve, AdmitTurn, WithdrawPending, RemoveRecord, CoordinateDomain,
        CoordinateMemory, stores
  <2>9. ASSUME Restart \/ BootCommence \/ Listen \/ Crash \/ CrashInBoot
        PROVE  row' = row
    BY <2>9 DEF Restart, BootCommence, Listen, Crash, CrashInBoot, Die, stores
  <2>10. ASSUME NEW i \in Items, Confirm(i)
         PROVE  row' = row
    BY <2>10 DEF Confirm
  <2>11. ASSUME NEW t \in Turns, EnsureConversationLink(t) \/ StartTurn(t)
         PROVE  row' = row
    BY <2>11 DEF EnsureConversationLink, StartTurn
  <2>12. ASSUME NEW c \in Conversations,
                TurnEnds(c) \/ \E i \in Items : AgentProposes(c, i)
         PROVE  row' = row
    BY <2>12 DEF TurnEnds, AgentProposes
  <2>13. CASE UNCHANGED vars
    BY <2>13 DEF vars, stores
  <2> QED
    BY <2>1, <2>2, <2>3, <2>4, <2>5, <2>6, <2>7, <2>8, <2>9, <2>10, <2>11,
       <2>12, <2>13
    DEF Next, Boot, Drive, RunMeaning, RunCoordinator, Drivers
<1> QED
  BY <1>1, Invariance, PTL DEF Spec, TerminalIsFinal

(* The deletion implements the promise: what any driver does to the row,   *)
(* the tombstone, the transcripts and the meaning is one step of a single  *)
(* governed deletion or is not seen in it.                                 *)
THEOREM ImplementsPromise == Spec => PromiseKept
<1> DEFINE mapped == <<row.status, row.mode, Removed, memory, Deleted, Taken>>
<1>1. Init => Promise!Init
  BY DEF Init, Promise!Init, Promise!Modes, Promise!WithMeaning, Removed, Deleted, Taken
<1>2. DeletionInv /\ [Next]_vars => [Promise!Next]_mapped
  <2> SUFFICES ASSUME DeletionInv, [Next]_vars
               PROVE  Promise!Next \/ UNCHANGED mapped
    OBVIOUS
  <2> USE DEF DeletionInv, TypeOK, Drivers
  <2>1. ASSUME UNCHANGED <<row, thread, memory, vict, meaning>>
        PROVE  UNCHANGED mapped
    BY <2>1 DEF Removed, Deleted, Taken
  <2>2. ASSUME NEW d \in Deletes, Plan(d)
        PROVE  Promise!Next \/ UNCHANGED mapped
    <3>1. CASE UNCHANGED row
      BY <2>1, <2>2, <3>1 DEF Plan
    <3>2. CASE ~UNCHANGED row
      <4>1. Promise!Record(ModeOf[d])
        BY <2>2, <3>2 DEF Plan, Promise!Record, Promise!Recorded, Removed, Deleted, Taken
      <4> QED
        BY <4>1 DEF Promise!Next, Promise!Modes, Promise!WithMeaning, Modes, WithMeaning
    <3> QED
      BY <3>1, <3>2
  <2>3. ASSUME NEW d \in Drivers, WithdrawPending(d)
        PROVE  Promise!Next
    <3>1. row.status # "none" /\ row.mode = WithMeaning
      BY <2>3 DEF WithdrawPending, AtRun, Mode, DriversPlaced, Active, RowOpen
    <3>2. Taken' = Taken \cup Pending /\ Pending \in SUBSET Items
      BY <2>3 DEF WithdrawPending, Taken, Pending
    <3>3. Promise!TakeMeaning(Pending)
      BY <2>3, <3>1, <3>2
      DEF WithdrawPending, Promise!TakeMeaning, Promise!Recorded, Promise!WithMeaning,
          WithMeaning, Removed, Deleted
    <3> QED
      BY <3>2, <3>3 DEF Promise!Next
  <2>4. ASSUME NEW d \in Drivers, RemoveRecord(d)
        PROVE  Promise!Next
    <3>1. row.status # "none" /\ row.mode = WithMeaning
      BY <2>4 DEF RemoveRecord, ScopeKept
    <3>2. PICK i \in todo[d] : meaning' = [meaning EXCEPT ![i] = "removed"]
      BY <2>4 DEF RemoveRecord
    <3>3. i \in Items
      BY <3>2
    <3>4. Taken' = Taken \cup {i}
      BY <3>2, <3>3 DEF Taken
    <3>5. Promise!TakeMeaning({i})
      BY <2>4, <3>1, <3>4
      DEF RemoveRecord, Promise!TakeMeaning, Promise!Recorded, Promise!WithMeaning,
          WithMeaning, Removed, Deleted
    <3> QED
      BY <3>3, <3>5 DEF Promise!Next
  <2>5. ASSUME row.status # "none", TombstoneThread, UNCHANGED <<memory, vict, meaning>>,
               row'.status = row.status, row'.mode = row.mode
        PROVE  Promise!Next
    <3>1. Promise!Tombstone
      BY <2>5 DEF TombstoneThread, Promise!Tombstone, Promise!Recorded, Removed, Deleted,
                  Taken
    <3> QED
      BY <3>1 DEF Promise!Next
  <2>6. ASSUME NEW d \in Deletes, Commence(d)
        PROVE  Promise!Next
    <3>1. row.status # "none"
      BY <2>6 DEF Commence, MeaningDone, AtRun, DriversPlaced, Active
    <3>2. row'.status = row.status /\ row'.mode = row.mode
      BY <2>6 DEF Commence
    <3> QED
      BY <2>5, <2>6, <3>1, <3>2 DEF Commence
  <2>7. ASSUME row.status # "none", CompleteDeletion, UNCHANGED <<memory, vict, meaning>>,
               TombstoneThread \/ (Removed /\ UNCHANGED thread)
        PROVE  Promise!Next \/ UNCHANGED mapped
    <3>1. CASE RowOpen
      <4>1. Promise!Complete
        BY <2>7, <3>1
        DEF CompleteDeletion, TombstoneThread, RowOpen, Promise!Complete, Promise!Open,
            Removed, Deleted, Taken
      <4> QED
        BY <4>1 DEF Promise!Next
    <3>2. CASE ~RowOpen
      <4>1. UNCHANGED row
        BY <2>7, <3>2 DEF CompleteDeletion
      <4> QED
        BY <2>1, <2>5, <2>7, <4>1
    <3> QED
      BY <3>1, <3>2
  <2>8. ASSUME NEW d \in Deletes, CommenceUnlinked(d)
        PROVE  Promise!Next \/ UNCHANGED mapped
    <3>1. row.status # "none"
      BY <2>8 DEF CommenceUnlinked, MeaningDone, AtRun, DriversPlaced, Active
    <3> QED
      BY <2>7, <2>8, <3>1 DEF CommenceUnlinked
  <2>9. ASSUME BootUnlinked
        PROVE  Promise!Next \/ UNCHANGED mapped
    <3>1. row.status # "none"
      BY <2>9 DEF BootUnlinked, MeaningDone, AtRun, DriversPlaced, Active, RowOpen
    <3> QED
      BY <2>7, <2>9, <3>1 DEF BootUnlinked
  <2>10. ASSUME NEW d \in Drivers, pc[d] = "coordinate"
         PROVE  /\ row.status # "none" /\ target[d] \in Conversations
                /\ d \in Deletes \/ vict[target[d]] # "none" => Removed
    <3>1. row.status # "none"
      BY <2>10 DEF DriversPlaced, Active, RowOpen
    <3>2. target[d] \in Conversations
      BY <2>10 DEF TargetsLinked
    <3> QED
      BY <2>10, <3>1, <3>2 DEF TombstoneFirst
  <2>11. ASSUME NEW d \in Drivers, CoordinateDomain(d)
         PROVE  Promise!Next \/ UNCHANGED mapped
    <3>1. Deleted' = Deleted
      BY <2>10, <2>11 DEF CoordinateDomain, Deleted
    <3>2. UNCHANGED <<row, memory, meaning>>
      BY <2>11 DEF CoordinateDomain
    <3>3. CASE TombstoneThread
      <4>1. Promise!Tombstone
        BY <2>10, <2>11, <3>1, <3>2, <3>3
        DEF CoordinateDomain, TombstoneThread, Promise!Tombstone, Promise!Recorded, Removed,
            Taken
      <4> QED
        BY <4>1 DEF Promise!Next
    <3>4. CASE UNCHANGED thread
      BY <3>1, <3>2, <3>4 DEF Removed, Taken
    <3> QED
      BY <2>11, <3>3, <3>4 DEF CoordinateDomain
  <2>12. ASSUME NEW d \in Drivers, CoordinateMemory(d)
         PROVE  Promise!Next
    <3>1. /\ row.status # "none" /\ target[d] \in Conversations /\ Removed
      BY <2>10, <2>12 DEF CoordinateMemory
    <3>2. Deleted' = Deleted \cup {target[d]}
      BY <2>12, <3>1 DEF CoordinateMemory, Deleted
    <3>3. Promise!DeleteTranscript(target[d])
      BY <2>12, <3>1, <3>2
      DEF CoordinateMemory, Promise!DeleteTranscript, Promise!Recorded, Removed, Taken
    <3> QED
      BY <3>1, <3>3 DEF Promise!Next
  <2>13. ASSUME NEW d \in Drivers, Complete(d)
         PROVE  Promise!Next \/ UNCHANGED mapped
    <3>1. row.status # "none" /\ Removed
      BY <2>10, <2>13 DEF Complete
    <3> QED
      BY <2>7, <2>13, <3>1 DEF Complete
  <2>14. ASSUME NEW d \in Drivers, CoordinatorFails(d)
         PROVE  Promise!Next \/ UNCHANGED mapped
    <3>1. CASE UNCHANGED row
      BY <2>1, <2>14, <3>1 DEF CoordinatorFails
    <3>2. CASE ~UNCHANGED row
      <4>1. /\ RowOpen /\ row' = [row EXCEPT !.status = "incomplete"] /\ d # "boot"
            /\ UNCHANGED <<thread, memory, vict, meaning>> /\ pc[d] = "coordinate"
        BY <2>14, <3>2 DEF CoordinatorFails
      <4>2. Removed
        BY <2>10, <4>1
      <4>3. Promise!Fail
        BY <4>1, <4>2 DEF RowOpen, Promise!Fail, Promise!Open, Removed, Deleted, Taken
      <4> QED
        BY <4>3 DEF Promise!Next
    <3> QED
      BY <3>1, <3>2
  <2>15. CASE Cancel
    <3>1. Promise!Cancel
      BY <2>15 DEF Cancel, Promise!Cancel, Removed, Deleted, Taken
    <3> QED
      BY <3>1 DEF Promise!Next
  <2>16. ASSUME NEW c \in Conversations, c \notin Deleted, memory' = memory \cup {c},
                UNCHANGED <<row, thread, vict, meaning>>
         PROVE  Promise!Next
    <3>1. Promise!Converse(c)
      BY <2>16 DEF Promise!Converse, Removed, Deleted, Taken
    <3> QED
      BY <3>1 DEF Promise!Next
  <2>17. ASSUME NEW t \in Turns, StartTurn(t)
         PROVE  Promise!Next \/ UNCHANGED mapped
    <3>1. CASE UNCHANGED memory
      BY <2>1, <2>17, <3>1 DEF StartTurn
    <3>2. CASE ~UNCHANGED memory
      <4>1. turnConv[t] \in Conversations /\ turnConv[t] \notin Deleted
        BY <2>17, <3>2 DEF StartTurn, DriversPlaced, Fenced
      <4> QED
        BY <2>16, <2>17, <3>2, <4>1 DEF StartTurn
    <3> QED
      BY <3>1, <3>2
  <2>18. ASSUME NEW c \in Conversations, TurnEnds(c)
         PROVE  Promise!Next \/ UNCHANGED mapped
    <3>1. CASE UNCHANGED memory
      BY <2>1, <2>18, <3>1 DEF TurnEnds
    <3>2. CASE ~UNCHANGED memory
      <4>1. c \notin Deleted
        BY <2>18, <3>2 DEF TurnEnds, Fenced
      <4> QED
        BY <2>16, <2>18, <3>2, <4>1 DEF TurnEnds
    <3> QED
      BY <3>1, <3>2
  <2>19. ASSUME NEW i \in Items,
                Confirm(i) \/ \E c \in Conversations : AgentProposes(c, i)
         PROVE  UNCHANGED mapped
    <3>1. \/ meaning[i] = "pending" /\ meaning' = [meaning EXCEPT ![i] = "relevant"]
          \/ meaning[i] = "absent" /\ meaning' = [meaning EXCEPT ![i] = "pending"]
      BY <2>19 DEF Confirm, NotStale, AgentProposes
    <3>2. Taken' = Taken
      BY <3>1 DEF Taken
    <3>3. UNCHANGED <<row, thread, memory, vict>>
      BY <2>19 DEF Confirm, AgentProposes
    <3> QED
      BY <3>2, <3>3 DEF Removed, Deleted
  <2>20. CASE Crash \/ CrashInBoot \/ Restart \/ BootCommence \/ Listen
    BY <2>1, <2>20 DEF Crash, CrashInBoot, Die, Restart, BootCommence, Listen, stores
  <2>21. ASSUME NEW d \in Deletes, Resolve(d) \/ AdmitTurn(d)
         PROVE  UNCHANGED mapped
    BY <2>1, <2>21 DEF Resolve, AdmitTurn, stores
  <2>22. ASSUME NEW t \in Turns, EnsureConversationLink(t)
         PROVE  UNCHANGED mapped
    BY <2>1, <2>22 DEF EnsureConversationLink
  <2>23. CASE UNCHANGED vars
    BY <2>1, <2>23 DEF vars, stores
  <2>24. CASE Next
    BY <2>2, <2>3, <2>4, <2>6, <2>8, <2>9, <2>11, <2>12, <2>13, <2>14, <2>15, <2>17, <2>18,
       <2>19, <2>20, <2>21, <2>22, <2>24
    DEF Next, Boot, Drive, RunMeaning, RunCoordinator
  <2> QED
    BY <2>23, <2>24
<1> QED
  BY <1>1, <1>2, Invariance, PTL DEF Spec, PromiseKept, Promise!Spec, Promise!promised
=============================================================================
