---------------------------- MODULE TempCleanup ----------------------------
(***************************************************************************)
(* The files that a job puts into PikPak accounts, and the ledger of what  *)
(* must be deleted there later.                                            *)
(*                                                                         *)
(* A job tries the accounts of a snapshot, one after the other.  Each      *)
(* attempt creates files at PikPak and then records them: in the job       *)
(* (TempAccountID, TempIDs) and in a row of the ledger, in one             *)
(* transaction.  An attempt that fails deletes its files, or detaches them *)
(* and leaves them to the ledger.  The transaction that completes a job    *)
(* moves the row's deadline behind the expiry that its links have then; a  *)
(* download through the server may renew a link later, and leaves the      *)
(* deadline where it is.  A single cleaner deletes what is due.  Creating, *)
(* recording, deleting and reconciling are steps of their own, and a kill  *)
(* may fall between them.                                                  *)
(***************************************************************************)
EXTENDS Integers, SequencesExt

CONSTANTS
    Jobs,
    Pikpaks,        \* PikPak accounts
    NoPikpak,
    BatchLimit,     \* proxyTempCleanupBatchLimit
    MaxMishaps      \* transactions that fail or complete a job without saying so,
                    \* kills of the process, and accounts an administrator deletes

ASSUME CleanupAssumption ==
    /\ NoPikpak \notin Pikpaks
    /\ BatchLimit \in Nat \ {0}
    /\ MaxMishaps \in Nat

VARIABLES
    \* the accounts in the pool
    pooled,
    \* where each job is, the account it is on, those it has yet to try, and
    \* TempAccountID and TempIDs
    at, on, left, tempAccount, tempIDs,
    \* jobs for a share, the others are for a magnet link; those for which a file of
    \* the share has been chosen (ShareState.SelectedIDs)
    shares, selectedIDs,
    \* the files at PikPak, and those that were ever in the ledger
    files, tracked,
    \* proxy_temp_cleanups: rows[<<job, account>>] has the ids of the row and what
    \* its deadline was computed from; dueRows are those whose deadline passed, by it
    ledger, dueRows,
    \* the rows the cleaner has read and not handled, and whether the files of the
    \* first are deleted
    batch, emptied,
    \* the links of a job as its completion stored them: valid until the expiry known
    \* then has passed, or three hours where that is unknown or earlier
    links,
    \* jobs whose link was renewed after that, and the renewed one has not expired
    renewed,
    \* jobs that were still under way when their files were due
    late,
    mishaps

jobVars == <<at, on, left, tempAccount, tempIDs, shares, selectedIDs>>
pikpak == <<files, tracked>>
ledgerVars == <<ledger, dueRows>>
cleaner == <<batch, emptied>>
fileVars == <<pooled, jobVars, pikpak, ledgerVars, cleaner, links, renewed, late, mishaps>>

Rows == Jobs \X Pikpaks
Kinds == {"folder", "item", "chosen"}
Files == Rows \X Kinds
NoRow == [ids |-> {}, deadline |-> "none"]

UnderWay == {"queued", "create", "choosing", "record", "undo", "ready", "found", "selecting",
             "selected", "finalize", "resumed", "cleanup", "detach", "reconcile", "next"}
Over == {"completed", "uncertain", "failed"}

FilesTypeOK ==
    /\ pooled \subseteq Pikpaks
    /\ at \in [Jobs -> UnderWay \union Over]
    /\ on \in [Jobs -> Pikpaks \union {NoPikpak}]
    /\ left \in [Jobs -> SUBSET Pikpaks]
    /\ tempAccount \in [Jobs -> Pikpaks \union {NoPikpak}]
    /\ tempIDs \in [Jobs -> SUBSET Files]
    /\ shares \subseteq Jobs /\ selectedIDs \subseteq shares
    /\ tracked \subseteq Files /\ files \subseteq Files
    /\ ledger \in [Rows -> [ids : SUBSET Files, deadline : {"none", "creation", "completion", "failure"}]]
    /\ \A r \in Rows : ledger[r].ids = {} <=> ledger[r] = NoRow
    /\ dueRows \in Seq(Rows) /\ IsInjective(dueRows)
    /\ \A r \in Range(dueRows) : ledger[r] # NoRow
    /\ batch \in Seq([row : Rows, ids : SUBSET Files]) /\ Len(batch) <= BatchLimit
    /\ emptied \in BOOLEAN
    /\ links \in [Jobs -> {"none", "valid", "expired"}]
    /\ late \subseteq Jobs /\ renewed \subseteq Jobs
    /\ mishaps \in 0 .. MaxMishaps

FilesInit ==
    /\ pooled = Pikpaks
    /\ at = [j \in Jobs |-> "queued"]
    /\ on = [j \in Jobs |-> NoPikpak]
    /\ left = [j \in Jobs |-> {}]
    /\ tempAccount = [j \in Jobs |-> NoPikpak]
    /\ tempIDs = [j \in Jobs |-> {}]
    /\ shares \in SUBSET Jobs /\ selectedIDs = {}
    /\ files = {} /\ tracked = {}
    /\ ledger = [r \in Rows |-> NoRow] /\ dueRows = <<>>
    /\ batch = <<>> /\ emptied = FALSE
    /\ links = [j \in Jobs |-> "none"]
    /\ late = {} /\ renewed = {}
    /\ mishaps = 0

-----------------------------------------------------------------------------
(* PikPak and the ledger.                                                  *)

RowOf(j) == <<j, on[j]>>
Folder(j) == <<RowOf(j), "folder">>

\* The file of the links.  One that is restored after a choice is another than
\* those of the attempts before it.
Item(j) == <<RowOf(j), IF j \in selectedIDs THEN "chosen" ELSE "item">>

\* What an attempt creates and records: a folder for a transfer, or the chosen
\* file of a share.
Created(j) == IF j \in shares THEN Item(j) ELSE Folder(j)

\* DeleteFiles of ids: with a folder goes what is in it.
Without(ids) == {f \in files : f \notin ids /\ <<f[1], "folder">> \notin ids}

Mishap ==
    /\ mishaps < MaxMishaps
    /\ mishaps' = mishaps + 1

\* The rows that are due without r.
NotDue(r) ==
    IF r \in Range(dueRows) THEN RemoveAt(dueRows, CHOOSE i \in 1 .. Len(dueRows) : dueRows[i] = r)
    ELSE dueRows

\* recordTx: the ids join those of the row, and its deadline begins anew.
RecordTx(r, ids, deadline) ==
    /\ ledger' = [ledger EXCEPT ![r] = [ids |-> @.ids \union ids, deadline |-> deadline]]
    /\ dueRows' = NotDue(r)
    /\ tracked' = tracked \union ids

\* removeRecordIDsTx: a row that has no id left goes.
RemoveIDsTx(r, ids) ==
    LET rest == ledger[r].ids \ ids
    IN  /\ ledger' = [ledger EXCEPT ![r] = IF rest = {} THEN NoRow ELSE [@ EXCEPT !.ids = rest]]
        /\ dueRows' = IF rest = {} THEN NotDue(r) ELSE dueRows

\* The deadline of a row passes: of a job that completed, when the links it was
\* completed with have expired (proxyDeferredCleanupAfter), else whenever the clock
\* says so.
DeadlinePasses(r) ==
    /\ ledger[r] # NoRow
    /\ r \notin Range(dueRows)
    /\ ledger[r].deadline = "completion" => links[r[1]] # "valid"
    /\ dueRows' = Append(dueRows, r)
    /\ late' = IF at[r[1]] \in UnderWay THEN late \union {r[1]} ELSE late
    /\ UNCHANGED <<pooled, jobVars, pikpak, ledger, cleaner, links, renewed, mishaps>>

LinksExpire(j) ==
    /\ links[j] = "valid"
    /\ links' = [links EXCEPT ![j] = "expired"]
    /\ UNCHANGED <<pooled, jobVars, pikpak, ledgerVars, cleaner, renewed, late, mishaps>>

OnlyRenewed == UNCHANGED <<pooled, jobVars, pikpak, ledgerVars, cleaner, links, late, mishaps>>

\* refreshProxyDirectLink: a download finds the link near its expiry, or refused
\* early, and the account has the file; the new link is stored in the job alone.
RenewLinks(j) ==
    /\ at[j] = "completed" /\ links[j] # "none"
    /\ on[j] \in pooled /\ Item(j) \in files
    /\ renewed' = renewed \union {j}
    /\ OnlyRenewed

RenewalExpires(j) ==
    /\ j \in renewed /\ renewed' = renewed \ {j}
    /\ OnlyRenewed

-----------------------------------------------------------------------------
(* The attempts of a job: processJob, processMagnet, processShare.         *)

GoesTo(j, where) == at' = [at EXCEPT ![j] = where]

Steps(j, from, to) ==
    /\ at[j] = from
    /\ GoesTo(j, to)

Elsewhere == UNCHANGED <<shares, selectedIDs, pooled, cleaner, renewed, late>>

Begin(j) ==
    /\ Steps(j, "queued", IF pooled = {} THEN "failed" ELSE "next")
    /\ left' = [left EXCEPT ![j] = pooled]
    /\ Elsewhere
    /\ UNCHANGED <<on, tempAccount, tempIDs, pikpak, ledgerVars, links, mishaps>>

\* beginAccountAttempt; or every account of the snapshot has failed.
NextAttempt(j) ==
    /\ at[j] = "next"
    /\ \/ /\ left[j] = {}
          /\ GoesTo(j, "failed")
          /\ UNCHANGED <<on, left>>
       \/ \E a \in left[j] :
             /\ GoesTo(j, "create")
             /\ on' = [on EXCEPT ![j] = a]
             /\ left' = [left EXCEPT ![j] = @ \ {a}]
    /\ Elsewhere
    /\ UNCHANGED <<tempAccount, tempIDs, pikpak, ledgerVars, links, mishaps>>

OnlyFiles(j) == UNCHANGED <<on, left, tempAccount, tempIDs, tracked, ledgerVars, links, mishaps>>

\* ensureJobFolder, with what the transfer will put there; or the attempt fails.
CreateFolder(j) ==
    /\ j \notin shares
    /\ \/ Steps(j, "create", "record") /\ files' = files \union {Folder(j), Item(j)}
       \/ Steps(j, "create", "cleanup") /\ UNCHANGED files
    /\ Elsewhere /\ OnlyFiles(j)

\* processShare: a share of several files waits for a choice first; the file is
\* restored; or the attempt fails.
RestoreShare(j) ==
    /\ j \in shares
    /\ \/ /\ j \notin selectedIDs
          /\ Steps(j, "create", "choosing")
          /\ UNCHANGED files
       \/ Steps(j, "create", "record") /\ files' = files \union {Item(j)}
       \/ Steps(j, "create", "cleanup") /\ UNCHANGED files
    /\ Elsewhere /\ OnlyFiles(j)

\* The choice queues the job again, with all accounts to try; or it expires.
SourceSelection(j) ==
    /\ \/ Steps(j, "choosing", "queued") /\ selectedIDs' = selectedIDs \union {j}
       \/ Steps(j, "choosing", "failed") /\ UNCHANGED selectedIDs
    /\ on' = [on EXCEPT ![j] = NoPikpak]
    /\ UNCHANGED <<left, tempAccount, tempIDs, shares, pikpak, ledgerVars, links, mishaps,
                   pooled, cleaner, renewed, late>>

\* recordTempResource.
RecordTemp(j) ==
    /\ \/ /\ Steps(j, "record", "ready")
          /\ tempAccount[j] \in {NoPikpak, on[j]}
          /\ tempAccount' = [tempAccount EXCEPT ![j] = on[j]]
          /\ tempIDs' = [tempIDs EXCEPT ![j] = @ \union {Created(j)}]
          /\ RecordTx(RowOf(j), {Created(j)}, "creation")
          /\ UNCHANGED mishaps
       \/ /\ Steps(j, "record", "undo")
          /\ IF tempAccount[j] \in {NoPikpak, on[j]} THEN Mishap ELSE UNCHANGED mishaps
          /\ UNCHANGED <<tempAccount, tempIDs, tracked, ledgerVars>>
    /\ Elsewhere
    /\ UNCHANGED <<on, left, files, links>>

\* What could not be recorded is deleted at once, if PikPak does it; the job fails.
UndoCreate(j) ==
    /\ Steps(j, "undo", "failed")
    /\ files' \in {files, Without({Created(j)})}
    /\ Elsewhere
    /\ UNCHANGED <<on, left, tempAccount, tempIDs, tracked, ledgerVars, links, mishaps>>

\* waitForTransferredFiles, waitForRestoredShareItems; or the attempt fails.
FilesFound(j) ==
    /\ Steps(j, "ready", "found") \/ Steps(j, "ready", "cleanup")
    /\ Elsewhere /\ OnlyFiles(j)
    /\ UNCHANGED files

\* finishWithItems: one item is resolved, several wait for the user, who may wait
\* for too many already.
FinishWithItems(j) ==
    /\ \E to \in {"finalize", "selecting", "cleanup"} : Steps(j, "found", to)
    /\ Elsewhere /\ OnlyFiles(j)
    /\ UNCHANGED files

\* The user chooses, or expireSelectionJob ends the job.
Selection(j) ==
    /\ Steps(j, "selecting", "selected") \/ Steps(j, "selecting", "failed")
    /\ Elsewhere
    /\ UNCHANGED <<on, left, tempAccount, tempIDs, pikpak, ledgerVars, links, mishaps>>

\* resolveExistingFile: the account must still be there, and a failure ends the job.
Resume(j) ==
    /\ \/ on[j] \in pooled /\ Steps(j, "selected", "resumed")
       \/ Steps(j, "selected", "failed")
    /\ Elsewhere
    /\ UNCHANGED <<on, left, tempAccount, tempIDs, pikpak, ledgerVars, links, mishaps>>

CompletionWrites(j) ==
    /\ on[j] \in pooled
    /\ tempAccount[j] \in {NoPikpak, on[j]}
    /\ RecordTx(RowOf(j), tempIDs[j] \union {Item(j)}, "completion")
    /\ tempAccount' = [tempAccount EXCEPT ![j] = NoPikpak]
    /\ tempIDs' = [tempIDs EXCEPT ![j] = {}]
    /\ links' = [links EXCEPT ![j] = "valid"]

\* Mutant: an attempt whose commit was not confirmed cleans up as any other.
AfterUncertaintyCleanup == "cleanup"

\* handleJobPersistenceFailure: the job is left for the restart it asks for.
AfterUncertainty == "uncertain"

\* finalizeCompletedJob, of an attempt or after a selection.  The link of the
\* item may not be had: only an attempt cleans up then.  A failure of the
\* transaction ends the job, and its commit may not be confirmed.
Finalize(j) ==
    /\ at[j] \in {"finalize", "resumed"}
    /\ \/ GoesTo(j, "completed") /\ CompletionWrites(j) /\ UNCHANGED mishaps
       \/ GoesTo(j, AfterUncertainty) /\ CompletionWrites(j) /\ Mishap
       \/ /\ GoesTo(j, IF at[j] = "resumed" THEN "failed" ELSE "cleanup")
          /\ UNCHANGED <<tempAccount, tempIDs, tracked, ledgerVars, links, mishaps>>
       \/ /\ GoesTo(j, "failed")
          /\ IF on[j] \in pooled THEN Mishap ELSE UNCHANGED mishaps
          /\ UNCHANGED <<tempAccount, tempIDs, tracked, ledgerVars, links>>
    /\ Elsewhere
    /\ UNCHANGED <<on, left, files>>

\* cleanupJobTempResources: DeleteFiles of what the job has recorded.
Own(j) == IF tempAccount[j] \in {NoPikpak, on[j]} THEN tempIDs[j] ELSE {}

Cleanup(j) ==
    /\ at[j] = "cleanup"
    /\ \/ Own(j) = {} /\ GoesTo(j, "next") /\ UNCHANGED files
       \/ /\ Own(j) # {}
          /\ GoesTo(j, "reconcile")
          /\ files' = Without(Own(j))
       \/ /\ Own(j) # {}
          /\ GoesTo(j, "detach")
          /\ UNCHANGED files
    /\ Elsewhere
    /\ UNCHANGED <<on, left, tempAccount, tempIDs, tracked, ledgerVars, links, mishaps>>

\* completeTempResourceCleanup.
Reconcile(j) ==
    /\ \/ /\ Steps(j, "reconcile", "next")
          /\ RemoveIDsTx(RowOf(j), Own(j))
          /\ tempAccount' = [tempAccount EXCEPT ![j] = NoPikpak]
          /\ tempIDs' = [tempIDs EXCEPT ![j] = {}]
          /\ UNCHANGED mishaps
       \/ /\ Steps(j, "reconcile", "failed")
          /\ Mishap
          /\ UNCHANGED <<tempAccount, tempIDs, ledgerVars>>
    /\ Elsewhere
    /\ UNCHANGED <<on, left, pikpak, links>>

\* Mutant: the files that could not be deleted leave the ledger, too.
DetachedAndRemoved(j) ==
    /\ RemoveIDsTx(RowOf(j), Own(j))
    /\ tempAccount' = [tempAccount EXCEPT ![j] = NoPikpak]
    /\ tempIDs' = [tempIDs EXCEPT ![j] = {}]

Detached(j) ==
    /\ tempAccount' = [tempAccount EXCEPT ![j] = NoPikpak]
    /\ tempIDs' = [tempIDs EXCEPT ![j] = {}]
    /\ UNCHANGED ledgerVars

\* detachTempResources: the files are left to the ledger.
Detach(j) ==
    /\ \/ Steps(j, "detach", "next") /\ Detached(j) /\ UNCHANGED mishaps
       \/ /\ Steps(j, "detach", "failed")
          /\ Mishap
          /\ UNCHANGED <<tempAccount, tempIDs, ledgerVars>>
    /\ Elsewhere
    /\ UNCHANGED <<on, left, pikpak, links>>

\* A refusal that no other account would change ends the job after its clean-up.
Refused(j) ==
    /\ at[j] = "next" /\ on[j] # NoPikpak
    /\ GoesTo(j, "failed")
    /\ Elsewhere
    /\ UNCHANGED <<on, left, tempAccount, tempIDs, pikpak, ledgerVars, links, mishaps>>

-----------------------------------------------------------------------------
(* The cleaner: cleanupProxyTempResources.                                 *)

NotTheCleaner == UNCHANGED <<pooled, jobVars, tracked, links, renewed, late>>

\* due
ReadDue ==
    /\ batch = <<>>
    /\ dueRows # <<>>
    /\ batch' = [i \in 1 .. Min({BatchLimit, Len(dueRows)}) |->
                    [row |-> dueRows[i], ids |-> ledger[dueRows[i]].ids]]
    /\ UNCHANGED <<emptied, files, ledgerVars, mishaps>>
    /\ NotTheCleaner

Handled == batch' = Tail(batch) /\ emptied' = FALSE

\* Mutant: a row whose files cannot be deleted keeps its deadline.
PostponeNot(r) == UNCHANGED ledgerVars

\* markFailure: the next deadline is ten minutes away.
Postpone(r) ==
    /\ ledger' = IF ledger[r] = NoRow THEN ledger ELSE [ledger EXCEPT ![r].deadline = "failure"]
    /\ dueRows' = NotDue(r)

CleanDelete ==
    /\ batch # <<>> /\ ~emptied
    /\ Head(batch).row[2] \in pooled
    /\ files' = Without(Head(batch).ids)
    /\ emptied' = TRUE
    /\ UNCHANGED <<batch, ledgerVars, mishaps>>
    /\ NotTheCleaner

\* The account is gone, or PikPak does not delete.
CleanFails ==
    /\ batch # <<>> /\ ~emptied
    /\ \/ Postpone(Head(batch).row) /\ UNCHANGED mishaps
       \/ Mishap /\ UNCHANGED ledgerVars
    /\ Handled
    /\ UNCHANGED files
    /\ NotTheCleaner

CleanRemove ==
    /\ batch # <<>> /\ emptied
    /\ \/ RemoveIDsTx(Head(batch).row, Head(batch).ids) /\ UNCHANGED mishaps
       \/ Mishap /\ UNCHANGED ledgerVars
    /\ Handled
    /\ UNCHANGED files
    /\ NotTheCleaner

-----------------------------------------------------------------------------
(* Others.                                                                 *)

DeleteAccount(a) ==
    /\ a \in pooled
    /\ Mishap
    /\ pooled' = pooled \ {a}
    /\ UNCHANGED <<jobVars, pikpak, ledgerVars, cleaner, links, renewed, late>>

\* A kill and the start after it, which fails the jobs that had not ended
\* (markNonterminalInterrupted) and keeps the ledger (RotateSecrets).
KillAndStart ==
    /\ Mishap
    /\ at' = [j \in Jobs |-> IF at[j] = "uncertain" \/ links[j] # "none" THEN "completed" ELSE "failed"]
    /\ batch' = <<>> /\ emptied' = FALSE
    /\ UNCHANGED <<pooled, on, left, tempAccount, tempIDs, shares, selectedIDs, pikpak, ledgerVars,
                   links, renewed, late>>

JobStep(j) ==
    \/ Begin(j) \/ NextAttempt(j) \/ Refused(j)
    \/ CreateFolder(j) \/ RestoreShare(j) \/ SourceSelection(j) \/ RecordTemp(j) \/ UndoCreate(j)
    \/ FilesFound(j) \/ FinishWithItems(j) \/ Selection(j) \/ Resume(j)
    \/ Finalize(j) \/ Cleanup(j) \/ Reconcile(j) \/ Detach(j)

FilesNext ==
    \/ \E j \in Jobs : JobStep(j) \/ LinksExpire(j) \/ RenewLinks(j) \/ RenewalExpires(j)
    \/ \E r \in Rows : DeadlinePasses(r)
    \/ ReadDue \/ CleanDelete \/ CleanFails \/ CleanRemove
    \/ \E a \in Pikpaks : DeleteAccount(a)
    \/ KillAndStart

FilesSpec == FilesInit /\ [][FilesNext]_fileVars

\* The clock passes deadlines and expiries, the cleaner runs, and PikPak deletes
\* the files of a row if it is asked again and again.
DeletesRow(r) == batch # <<>> /\ Head(batch).row = r /\ CleanDelete

FilesFairness ==
    /\ \A r \in Rows : WF_fileVars(DeadlinePasses(r)) /\ SF_fileVars(DeletesRow(r))
    /\ \A j \in Jobs : WF_fileVars(LinksExpire(j))
    /\ WF_fileVars(ReadDue) /\ WF_fileVars(CleanRemove) /\ WF_fileVars(CleanDelete \/ CleanFails)

FilesFairSpec == FilesSpec /\ FilesFairness

-----------------------------------------------------------------------------
(* Properties.                                                             *)

\* A file that was recorded and is still at PikPak is in the ledger, or in a
\* folder that is: whatever deletion or transaction fails or is cut short, the
\* ledger forgets only what is gone (completeTempResourceCleanup,
\* detachTempResources, removeRecordIDs).
NothingForgotten ==
    \A f \in files \intersect tracked :
        ledger[f[1]].ids \intersect {f, <<f[1], "folder">>} # {}

\* The files of a job that completed are there until its links expire that the
\* completion stored, also when its commit was not confirmed: neither an attempt's
\* clean-up nor the cleaner takes them (finalizeCompletedJob, recordTx,
\* proxyDeferredCleanupAfter).  Excepted are jobs that were still under way when the
\* deadline set at their beginning, more than three hours later, passed.  Of links
\* that were renewed it says nothing: see RenewedLinksHaveFiles.
FilesOutliveFirstLinks == \A j \in Jobs \ late : links[j] = "valid" => Item(j) \in files

\* The README says that the temporary files are kept so that the server can renew a
\* link near its expiry, and are cleaned up after the window in which the link is
\* valid: a link that was renewed and has not expired has its file.
RenewedLinksHaveFiles == \A j \in renewed \ late : Item(j) \in files

\* What is recorded is deleted in the end, unless its account is: rows that
\* fail for ever do not keep the cleaner, whose batches are limited, from the
\* others (due, markFailure).
RecordedIsDeleted ==
    \A f \in Files : (f \in files \intersect tracked) ~> (f \notin files \/ f[1][2] \notin pooled)

=============================================================================
