---------------------------- MODULE RestoreJournal ----------------------------
(***************************************************************************)
(* The offline restore of the storage: files are staged next to their      *)
(* targets, a journal is published, the current files are moved aside, the *)
(* staged ones published, a marker commits the journal, and what was moved *)
(* aside is removed.  Every start of the server, and every restore, first  *)
(* recovers what an earlier restore left: it finishes it if the marker     *)
(* names the journal, and takes it back if not.                            *)
(*                                                                         *)
(* A kill keeps what the file system holds in memory; a power loss keeps,  *)
(* of each directory, some state between the last one that was synced and  *)
(* the current one.                                                        *)
(***************************************************************************)
EXTENDS Integers, FiniteSets

CONSTANTS
    Files,        \* the targets of a restore
    Away,         \* those outside the directory of the database and the journal
    Replaced,     \* those the backup has a file for; the others are removed
    MaxRestores,  \* bound on the restores
    MaxErrors,    \* bound on the file operations and syncs that fail
    MaxCrashes,   \* bound on the processes killed
    MaxLosses     \* bound on the power losses

ASSUME RestoreAssumption ==
    /\ Away \subseteq Files
    /\ Replaced \subseteq Files
    /\ {MaxRestores, MaxErrors, MaxCrashes, MaxLosses} \subseteq Nat

VARIABLES
    \* the file system: the names of each file, the journal and its marker,
    \* and the states of each directory that are newer than the one synced last
    place, journal, marker, behind,
    \* the process that holds the storage lock: where it is, where it goes
    \* after recovery, the files its loop has still to visit, those it moved
    \* aside and published, and what recovery read from the marker
    pc, next, todo, moved, published, committed,
    \* the last restore, and the contents that are right
    restore, agreed,
    \* the bounds
    faults, kills, losses, syncLost

disk == <<place, journal, marker, behind>>
locals == <<todo, moved, published, committed>>
mishaps == <<faults, kills, losses, syncLost>>
restoreVars == <<disk, pc, next, locals, restore, agreed, mishaps>>

\* What a name holds: nothing, a file from before the first restore, one a
\* server has written, or the copy of restore i.
Nothing == 0
First == 1
Live == 2
Copy(i) == 2 + i
Contents == 0..(2 + MaxRestores)

FileNames == [target: Contents, rollback: Contents, staged: Contents]
Journals == [id: 0..MaxRestores, original: SUBSET Files]
NoJournal == [id |-> 0, original |-> {}]
Torn == -1

Dirs == {"home", "away"}
Dir(f) == IF f \in Away THEN "away" ELSE "home"

Targets == [f \in Files |-> place[f].target]

\* What restore i is to make of the targets.
Restored(i) == [f \in Files |-> IF f \in Replaced THEN Copy(i) ELSE Nothing]

Snapshot(d) ==
    [place   |-> [f \in {g \in Files : Dir(g) = d} |-> place[f]],
     journal |-> IF d = "home" THEN journal ELSE NoJournal,
     marker  |-> IF d = "home" THEN marker ELSE 0]

RestoreTypeOK ==
    /\ place \in [Files -> FileNames]
    /\ journal \in Journals
    /\ marker \in -1..MaxRestores
    /\ DOMAIN behind = Dirs
    /\ \A d \in Dirs : \A s \in behind[d] :
          /\ s.place \in [{f \in Files : Dir(f) = d} -> FileNames]
          /\ s.journal \in Journals /\ s.marker \in -1..MaxRestores
    /\ pc \in {"idle", "open", "forget", "recover", "settle", "drop", "dropped", "unmark", "unmarked",
               "stage", "prepare", "prepared", "move", "publish", "undo", "commit", "marked", "clean",
               "exit", "success", "serve"}
    /\ next \in {"stage", "serve", "exit", "success"}
    /\ todo \subseteq Files
    /\ moved \subseteq journal.original
    /\ published \subseteq Replaced
    /\ committed \in BOOLEAN
    /\ restore \in 0..MaxRestores
    /\ agreed \subseteq [Files -> Contents]
    /\ faults \in 0..MaxErrors
    /\ kills \in 0..MaxCrashes
    /\ losses \in 0..MaxLosses
    /\ syncLost \in BOOLEAN

RestoreInit ==
    /\ \E existing \in SUBSET Files :
          place = [f \in Files |->
                      [target   |-> IF f \in existing THEN First ELSE Nothing,
                       rollback |-> Nothing, staged |-> Nothing]]
    /\ journal = NoJournal
    /\ marker = 0
    /\ behind = [d \in Dirs |-> {}]
    /\ pc = "idle"
    /\ next = "serve"
    /\ todo = {} /\ moved = {} /\ published = {}
    /\ committed = FALSE
    /\ restore = 0
    /\ agreed = {Targets}
    /\ faults = 0 /\ kills = 0 /\ losses = 0
    /\ syncLost = FALSE

-----------------------------------------------------------------------------
(* The file system.                                                        *)

Behind(d) == behind' = [behind EXCEPT ![d] = @ \union {Snapshot(d)}]

\* One rename, creation or removal in the directory of f.
Change(f, p) ==
    /\ place' = [place EXCEPT ![f] = p]
    /\ Behind(Dir(f))
    /\ UNCHANGED <<journal, marker>>

\* The database is a target of every restore, so that its directory is synced
\* with those of the targets.
SyncAll == behind' = [d \in Dirs |-> {}] /\ UNCHANGED <<place, journal, marker>>
SyncHome == behind' = [behind EXCEPT !["home"] = {}] /\ UNCHANGED <<place, journal, marker>>

Fault == faults < MaxErrors /\ faults' = faults + 1

NoFault == UNCHANGED mishaps

OperationFails == Fault /\ UNCHANGED <<disk, kills, losses, syncLost>>

SyncFails ==
    /\ Fault /\ syncLost' = TRUE
    /\ UNCHANGED <<disk, kills, losses>>

\* Where an error leads: from applying a restore to its recovery, from that
\* recovery to the end of the command, from any other recovery nowhere.
Err ==
    /\ pc' = CASE next = "success" -> "open"
               [] next = "exit" -> "exit"
               [] OTHER -> "idle"
    /\ next' = IF next = "success" THEN "exit" ELSE next
    /\ todo' = {} /\ moved' = {} /\ published' = {} /\ committed' = FALSE

Goto(p) == pc' = p /\ UNCHANGED next

-----------------------------------------------------------------------------
(* recoverInterruptedStorageRestore                                        *)

\* The storage lock lets one of them in: a server's start, or a restore.
StartServer ==
    /\ pc = "idle"
    /\ pc' = "open" /\ next' = "serve"
    /\ UNCHANGED <<disk, locals, restore, agreed, mishaps>>

StartRestore ==
    /\ pc = "idle" /\ restore < MaxRestores
    /\ pc' = "open" /\ next' = "stage"
    /\ UNCHANGED <<disk, locals, restore, agreed, mishaps>>

\* Nothing to recover: a marker that is left is removed, if possible.
NoJournalFound ==
    /\ pc = "open" /\ journal = NoJournal
    /\ \/ /\ marker = 0
          /\ Goto(next) /\ NoFault /\ UNCHANGED disk
       \/ /\ marker # 0
          /\ marker' = 0 /\ Behind("home")
          /\ Goto("forget") /\ NoFault /\ UNCHANGED <<place, journal>>
       \/ /\ marker # 0
          /\ OperationFails /\ Goto(next)
    /\ UNCHANGED <<locals, restore, agreed>>

MarkerForgotten ==
    /\ pc = "forget"
    /\ \/ SyncHome /\ NoFault
       \/ SyncFails
    /\ Goto(next)
    /\ UNCHANGED <<locals, restore, agreed>>

\* Mutant: any marker commits the journal.
AnyMarker(j) == marker # 0

Commits(j) == marker = j.id

ReadJournal ==
    /\ pc = "open" /\ journal # NoJournal
    /\ \/ /\ committed' = Commits(journal)
          /\ todo' = Files
          /\ Goto("recover")
          /\ NoFault /\ UNCHANGED <<disk, moved, published>>
       \/ OperationFails /\ Err
    /\ UNCHANGED <<restore, agreed>>

\* Mutant: the original has to be in its rollback place.
TakenBackByRollback(f) ==
    f \notin journal.original \/ place[f].rollback # Nothing

\* Whether recovery can take f back.
CanTakeBack(f) ==
    f \in journal.original => place[f].rollback # Nothing \/ place[f].target # Nothing

RemoveTarget(f) ==
    /\ pc = "recover" /\ ~committed /\ f \in todo
    /\ place[f].target # Nothing
    /\ f \in journal.original => place[f].rollback # Nothing
    /\ Change(f, [place[f] EXCEPT !.target = Nothing])
    /\ NoFault
    /\ UNCHANGED <<pc, next, locals, restore, agreed>>

PutBack(f) ==
    /\ pc = "recover" /\ ~committed /\ f \in todo
    /\ f \in journal.original /\ place[f].rollback # Nothing /\ place[f].target = Nothing
    /\ Change(f, [place[f] EXCEPT !.target = place[f].rollback, !.rollback = Nothing])
    /\ NoFault
    /\ UNCHANGED <<pc, next, locals, restore, agreed>>

RemoveRollback(f) ==
    /\ pc = "recover" /\ committed /\ f \in todo
    /\ place[f].rollback # Nothing
    /\ Change(f, [place[f] EXCEPT !.rollback = Nothing])
    /\ NoFault
    /\ UNCHANGED <<pc, next, locals, restore, agreed>>

\* Mutant: a file that is committed counts as recovered as it is.
RemoveStagedFirst(f) ==
    /\ pc = "recover" /\ f \in todo
    /\ committed \/ IF f \in journal.original THEN CanTakeBack(f) /\ place[f].rollback = Nothing
                     ELSE place[f].target = Nothing
    /\ IF place[f].staged = Nothing THEN UNCHANGED disk
       ELSE Change(f, [place[f] EXCEPT !.staged = Nothing])
    /\ todo' = todo \ {f}
    /\ NoFault
    /\ UNCHANGED <<pc, next, moved, published, committed, restore, agreed>>

RemoveStaged(f) ==
    /\ pc = "recover" /\ f \in todo
    /\ IF committed THEN place[f].rollback = Nothing
       ELSE IF f \in journal.original THEN CanTakeBack(f) /\ place[f].rollback = Nothing
       ELSE place[f].target = Nothing
    /\ IF place[f].staged = Nothing THEN UNCHANGED disk
       ELSE Change(f, [place[f] EXCEPT !.staged = Nothing])
    /\ todo' = todo \ {f}
    /\ NoFault
    /\ UNCHANGED <<pc, next, moved, published, committed, restore, agreed>>

RecoverFails ==
    /\ pc = "recover"
    /\ \/ OperationFails
       \/ /\ ~committed /\ \E f \in todo : ~CanTakeBack(f)
          /\ NoFault /\ UNCHANGED disk
    /\ Err
    /\ UNCHANGED <<restore, agreed>>

SyncRecovered ==
    /\ pc = "recover" /\ todo = {}
    /\ \/ SyncAll /\ NoFault /\ Goto("drop") /\ UNCHANGED locals
       \/ SyncFails /\ Err
    /\ UNCHANGED <<restore, agreed>>

-----------------------------------------------------------------------------
(* removeRestoreJournal                                                    *)

RemoveJournal ==
    /\ pc = "drop"
    /\ \/ /\ journal' = NoJournal /\ Behind("home")
          /\ UNCHANGED <<place, marker, locals>>
          /\ NoFault /\ Goto("dropped")
       \/ OperationFails /\ Err
    /\ UNCHANGED <<restore, agreed>>

SyncJournalRemoval ==
    /\ pc = "dropped"
    /\ \/ SyncHome /\ NoFault /\ Goto("unmark") /\ UNCHANGED locals
       \/ SyncFails /\ Err
    /\ UNCHANGED <<restore, agreed>>

RemoveMarker ==
    /\ pc = "unmark"
    /\ \/ /\ marker' = 0
          /\ IF marker = 0 THEN UNCHANGED behind ELSE Behind("home")
          /\ UNCHANGED <<place, journal, locals>>
          /\ NoFault /\ Goto("unmarked")
       \/ OperationFails /\ Err
    /\ UNCHANGED <<restore, agreed>>

SyncMarkerRemoval ==
    /\ pc = "unmarked"
    /\ \/ /\ SyncHome /\ NoFault /\ Goto(next)
          /\ todo' = {} /\ moved' = {} /\ published' = {} /\ committed' = FALSE
       \/ SyncFails /\ Err
    /\ UNCHANGED <<restore, agreed>>

-----------------------------------------------------------------------------
(* executeStorageRestore                                                   *)

\* Copies of the next restore are made and verified; a leftover of another restore
\* has another name, so that nothing depends on it any more.
Stage ==
    /\ pc = "stage"
    /\ restore' = restore + 1
    /\ todo' = Replaced
    /\ Goto("prepare")
    /\ UNCHANGED <<disk, moved, published, committed, agreed, mishaps>>

StageFile(f) ==
    /\ pc = "prepare" /\ f \in todo
    /\ Change(f, [place[f] EXCEPT !.staged = Copy(restore)])
    /\ todo' = todo \ {f}
    /\ NoFault
    /\ UNCHANGED <<pc, next, moved, published, committed, restore, agreed>>

\* The source is no good or changed, or a copy fails: no fault of the disk.
Refuse ==
    /\ pc = "prepare"
    /\ pc' = "exit" /\ next' = "exit" /\ todo' = {}
    /\ UNCHANGED <<disk, moved, published, committed, restore, agreed, mishaps>>

PublishJournal ==
    /\ pc = "prepare" /\ todo = {}
    /\ journal' = [id |-> restore, original |-> {f \in Files : place[f].target # Nothing}]
    /\ Behind("home") /\ UNCHANGED <<place, marker>>
    /\ agreed' = {Targets, Restored(restore)}
    /\ Goto("prepared")
    /\ NoFault /\ UNCHANGED <<locals, restore>>

SyncPrepared ==
    /\ pc = "prepared"
    /\ \/ /\ SyncHome /\ NoFault
          /\ pc' = "move" /\ next' = "success" /\ todo' = Files
       \/ /\ SyncFails
          /\ pc' = "exit" /\ next' = "exit" /\ UNCHANGED todo
    /\ UNCHANGED <<moved, published, committed, restore, agreed>>

-----------------------------------------------------------------------------
(* applyRestoreOperations                                                  *)

Undo == pc' = "undo" /\ todo' = {} /\ UNCHANGED <<next, moved, published, committed>>

MoveAside(f) ==
    /\ pc = "move" /\ f \in todo
    /\ todo' = todo \ {f}
    /\ IF place[f].target = Nothing
          THEN UNCHANGED <<disk, moved>>
          ELSE /\ Change(f, [place[f] EXCEPT !.target = Nothing, !.rollback = place[f].target])
               /\ moved' = moved \union {f}
    /\ NoFault
    /\ UNCHANGED <<pc, next, published, committed, restore, agreed>>

MoveFails ==
    /\ pc = "move" /\ todo # {}
    /\ OperationFails /\ Undo
    /\ UNCHANGED <<restore, agreed>>

SyncMoved ==
    /\ pc = "move" /\ todo = {}
    /\ \/ /\ SyncAll /\ NoFault
          /\ Goto("publish") /\ todo' = Replaced
          /\ UNCHANGED <<moved, published, committed>>
       \/ SyncFails /\ Undo
    /\ UNCHANGED <<restore, agreed>>

Publish(f) ==
    /\ pc = "publish" /\ f \in todo
    /\ Change(f, [place[f] EXCEPT !.target = place[f].staged, !.staged = Nothing])
    /\ todo' = todo \ {f}
    /\ published' = published \union {f}
    /\ NoFault
    /\ UNCHANGED <<pc, next, moved, committed, restore, agreed>>

PublishFails ==
    /\ pc = "publish" /\ todo # {}
    /\ OperationFails /\ Undo
    /\ UNCHANGED <<restore, agreed>>

SyncPublished ==
    /\ pc = "publish" /\ todo = {}
    /\ \/ SyncAll /\ NoFault /\ Goto("commit") /\ UNCHANGED locals
       \/ SyncFails /\ Undo
    /\ UNCHANGED <<restore, agreed>>

\* The published files are removed, then those moved aside put back; an
\* operation that fails is passed over.
UndoFile(f) ==
    /\ pc = "undo"
    /\ \/ /\ f \in published /\ published' = published \ {f} /\ UNCHANGED moved
          /\ \/ Change(f, [place[f] EXCEPT !.target = Nothing]) /\ NoFault
             \/ OperationFails
       \/ /\ published = {} /\ f \in moved
          /\ moved' = moved \ {f} /\ UNCHANGED published
          /\ \/ Change(f, [place[f] EXCEPT !.target = place[f].rollback, !.rollback = Nothing]) /\ NoFault
             \/ OperationFails
    /\ UNCHANGED <<pc, next, todo, committed, restore, agreed>>

SyncUndone ==
    /\ pc = "undo" /\ published = {} /\ moved = {}
    /\ \/ SyncAll /\ NoFault
       \/ SyncFails
    /\ Err
    /\ UNCHANGED <<restore, agreed>>

\* The marker is created, which fails if one is there, written and synced;
\* syncing a new file makes its name durable too.
Commit ==
    /\ pc = "commit"
    /\ \/ /\ marker = 0 /\ marker' = restore
          /\ behind' = [behind EXCEPT !["home"] = {}]
          /\ UNCHANGED <<place, journal, locals>>
          /\ NoFault /\ Goto("marked")
       \/ /\ marker = 0 /\ marker' \in {Torn, restore}
          /\ Behind("home") /\ UNCHANGED <<place, journal>>
          /\ Fault /\ syncLost' = TRUE /\ UNCHANGED <<kills, losses>>
          /\ Err
       \/ /\ marker # 0
          /\ NoFault /\ UNCHANGED disk
          /\ Err
       \/ OperationFails /\ Err
    /\ UNCHANGED <<restore, agreed>>

SyncMarker ==
    /\ pc = "marked"
    /\ \/ SyncHome /\ NoFault /\ Goto("clean") /\ UNCHANGED locals
       \/ SyncFails /\ Err
    /\ UNCHANGED <<restore, agreed>>

\* A removal that fails is passed over, and reported when all were tried.
Clean(f) ==
    /\ pc = "clean" /\ f \in moved
    /\ moved' = moved \ {f}
    /\ \/ Change(f, [place[f] EXCEPT !.rollback = Nothing]) /\ NoFault
       \/ OperationFails
    /\ UNCHANGED <<pc, next, todo, published, committed, restore, agreed>>

Cleaned == \A f \in Files : place[f].rollback = Nothing

SyncCleaned ==
    /\ pc = "clean" /\ moved = {}
    /\ \/ Cleaned /\ SyncAll /\ NoFault /\ Goto("drop") /\ UNCHANGED locals
       \/ Cleaned /\ SyncFails /\ Err
       \/ ~Cleaned /\ NoFault /\ UNCHANGED disk /\ Err
    /\ UNCHANGED <<restore, agreed>>

-----------------------------------------------------------------------------
(* The end of the command, the server, and crashes.                        *)

\* The deferred removal of staged files; success is reported, or the error.
Exit ==
    /\ pc \in {"exit", "success"}
    /\ place' = [f \in Files |-> [place[f] EXCEPT !.staged = Nothing]]
    /\ behind' = [d \in Dirs |-> behind[d] \union {Snapshot(d)}]
    /\ agreed' = IF pc = "success" THEN {Restored(restore)} ELSE agreed
    /\ pc' = "idle" /\ next' = "serve"
    /\ UNCHANGED <<journal, marker, locals, restore, mishaps>>

\* The server writes the files of the database; SQLite syncs the directory in
\* which it creates one.
Serve(f) ==
    LET Written(p) == IF p.target = place[f].target THEN [p EXCEPT !.target = Live] ELSE p
    IN  /\ pc = "serve" /\ f \notin Away /\ place[f].target # Live
        /\ behind' = [behind EXCEPT !["home"] =
                         IF place[f].target = Nothing THEN {}
                         ELSE {[s EXCEPT !.place[f] = Written(s.place[f])] : s \in @}]
        /\ place' = [place EXCEPT ![f].target = Live]
        /\ agreed' = {[Targets EXCEPT ![f] = Live]}
        /\ UNCHANGED <<journal, marker, pc, next, locals, restore, mishaps>>

StopServer ==
    /\ pc = "serve"
    /\ pc' = "idle"
    /\ UNCHANGED <<disk, next, locals, restore, agreed, mishaps>>

Dead ==
    /\ pc' = "idle" /\ next' = "serve"
    /\ todo' = {} /\ moved' = {} /\ published' = {} /\ committed' = FALSE
    /\ UNCHANGED <<restore, agreed, faults, syncLost>>

KillProcess ==
    /\ pc # "idle"
    /\ kills < MaxCrashes /\ kills' = kills + 1
    /\ Dead /\ UNCHANGED <<disk, losses>>

\* A disk that has failed a sync promises nothing, so it keeps its power.
PowerLoss ==
    /\ ~syncLost
    /\ losses < MaxLosses /\ losses' = losses + 1
    /\ \E home \in behind["home"] \union {Snapshot("home")},
          away \in behind["away"] \union {Snapshot("away")} :
          /\ place' = [f \in Files |-> IF f \in Away THEN away.place[f] ELSE home.place[f]]
          /\ journal' = home.journal
          /\ marker' = home.marker
    /\ behind' = [d \in Dirs |-> {}]
    /\ Dead /\ UNCHANGED kills

-----------------------------------------------------------------------------

Recovery ==
    \/ NoJournalFound \/ MarkerForgotten \/ ReadJournal
    \/ \E f \in Files : RemoveTarget(f) \/ PutBack(f) \/ RemoveRollback(f) \/ RemoveStaged(f)
    \/ RecoverFails \/ SyncRecovered
    \/ RemoveJournal \/ SyncJournalRemoval \/ RemoveMarker \/ SyncMarkerRemoval

Restore ==
    \/ Stage \/ Refuse \/ PublishJournal \/ SyncPrepared
    \/ \E f \in Files : StageFile(f) \/ MoveAside(f) \/ Publish(f) \/ UndoFile(f) \/ Clean(f)
    \/ MoveFails \/ SyncMoved \/ PublishFails \/ SyncPublished \/ SyncUndone
    \/ Commit \/ SyncMarker \/ SyncCleaned
    \/ Exit

RestoreNext ==
    \/ StartServer \/ StartRestore
    \/ Recovery
    \/ Restore
    \/ StopServer \/ \E f \in Files : Serve(f)
    \/ KillProcess \/ PowerLoss

RestoreSpec == RestoreInit /\ [][RestoreNext]_restoreVars

\* A process goes on, and the server is started again whenever nothing runs.
RestoreFairness == WF_restoreVars(Recovery \/ Restore) /\ WF_restoreVars(StartServer)

RestoreFairSpec == RestoreSpec /\ RestoreFairness

-----------------------------------------------------------------------------
(* Properties.                                                             *)

\* A server that runs, and a restore past its recovery, find all the files as
\* they were before an interrupted restore or all as the backup has them,
\* and only the latter once the restore has reported success: whatever failed,
\* was killed or lost before.
AllOrNothing == pc \in {"serve", "stage"} => Targets \in agreed

\* No file moved aside, which may hold secrets, outlives the recovery.
NothingLeftBehind ==
    pc \in {"serve", "stage"} => \A f \in Files : place[f].rollback = Nothing

\* Recovery never gets stuck: every published journal is removed in the end.
JournalIsResolved == journal # NoJournal ~> journal = NoJournal
=============================================================================
