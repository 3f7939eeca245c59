----------------------------- MODULE QuotaLedger -----------------------------
(***************************************************************************)
(* The quota ledger of one portal user: the subscriptions that hold the    *)
(* user's bytes, the reservations that jobs take from them, the durable    *)
(* status of the jobs, the workers that reserve, adjust, settle and        *)
(* release, the administrator who rewrites subscriptions underneath them,  *)
(* and the restart that resolves what a crash left behind.                 *)
(*                                                                         *)
(* Every SQL transaction of the code is one action, because a transaction  *)
(* takes SQLite's write lock when it begins (_txlock=immediate); between   *)
(* two transactions of a worker every other actor, and a crash, may act.   *)
(***************************************************************************)
EXTENDS Integers, FiniteSets, Functions

CONSTANTS
    Jobs,           \* the jobs of the user; a batch parent never reserves and is not one
    ProxyJobs,      \* those created with mode "proxy", which need a proxy permission
    Subs,           \* subscription ids; they are compared, so they are numbers
    Sizes,          \* file sizes, as estimated and as resolved; 0 is an unknown size
    Quotas,         \* amounts an administrator or a voucher grants
    MaxBytes,       \* the bound of every sum of bytes
    Horizon,        \* the bound of the clock and of every expiry
    MaxAttempts,    \* accounts a job is tried with
    MaxGeneration,  \* bound on the quota resets of one subscription
    MaxFaults,      \* bound on the transactions that fail
    MaxCrashes      \* bound on the kills of the process

ASSUME QuotaAssumption ==
    /\ IsFiniteSet(Jobs)
    /\ Subs \subseteq Nat
    /\ ProxyJobs \subseteq Jobs
    /\ Sizes \subseteq Nat
    /\ Quotas \subseteq Nat
    /\ MaxBytes \in Nat
    /\ Horizon \in Nat
    /\ MaxAttempts \in Nat \ {0}
    /\ MaxGeneration \in Nat
    /\ MaxFaults \in Nat
    /\ MaxCrashes \in Nat

VARIABLES
    \* user_subscriptions
    remaining, used, generation, allowProxy, expiresAt, createdAt, life,
    \* the subscriptions whose current revision some administrator has read
    adminView,
    \* user_quota_reservations: bytes per job and subscription (0: no row)
    reserved, rowGeneration,
    \* resolve_jobs
    status, charged,
    \* the worker of each job, in memory
    pc, held, size, attempt, next,
    \* the process
    phase, restart, now, faults, crashes

subAttributes == <<generation, allowProxy, expiresAt, createdAt, life>>
rows          == <<reserved, rowGeneration>>
ledger        == <<remaining, used, subAttributes, adminView, rows>>
records       == <<status, charged>>
worker        == <<pc, held, size, attempt, next>>
process       == <<phase, restart, now, faults, crashes>>
vars          == <<ledger, records, worker, process>>

Invalid == -1      \* invalidQuotaReservationGeneration
Keep    == -1      \* an omitted remaining_bytes in an update request

Bytes == 0..MaxBytes
Times == 0..Horizon

Statuses == {"new", "live", "completed", "failed", "lapsed", "deleted"}
Points   == {"idle", "ready", "resolving", "adjusting", "reserving",
             "finalizing", "unwinding", "failing", "releasing"}

LedgerType ==
    /\ remaining \in [Subs -> Nat]
    /\ used \in [Subs -> Nat]
    /\ generation \in [Subs -> Nat]
    /\ allowProxy \in [Subs -> BOOLEAN]
    /\ expiresAt \in [Subs -> Times]
    /\ createdAt \in [Subs -> Times]
    /\ life \in [Subs -> {"absent", "open", "terminated"}]
    /\ adminView \subseteq Subs
    /\ reserved \in [Jobs -> [Subs -> Nat]]
    /\ rowGeneration \in [Jobs -> [Subs -> Nat \union {Invalid}]]

RecordType ==
    /\ status \in [Jobs -> Statuses]
    /\ charged \in [Jobs -> Nat]

WorkerType ==
    /\ pc \in [Jobs -> Points]
    /\ held \in [Jobs -> Nat]
    /\ size \in [Jobs -> Nat]
    /\ attempt \in [Jobs -> 0..MaxAttempts]
    /\ next \in [Jobs -> {"ready", "failing", "idle"}]

ProcessType ==
    /\ phase \in {"up", "down", "marked"}
    /\ restart \in BOOLEAN
    /\ now \in Times
    /\ faults \in 0..MaxFaults
    /\ crashes \in 0..MaxCrashes

\* No balance, reservation or charge is ever negative, and every row, record
\* and worker is in one of its states.
TypeOK == LedgerType /\ RecordType /\ WorkerType /\ ProcessType

Init ==
    /\ remaining = [s \in Subs |-> 0]
    /\ used = [s \in Subs |-> 0]
    /\ generation = [s \in Subs |-> 0]
    /\ allowProxy = [s \in Subs |-> FALSE]
    /\ expiresAt = [s \in Subs |-> 0]
    /\ createdAt = [s \in Subs |-> 0]
    /\ life = [s \in Subs |-> "absent"]
    /\ adminView = {}
    /\ reserved = [j \in Jobs |-> [s \in Subs |-> 0]]
    /\ rowGeneration = [j \in Jobs |-> [s \in Subs |-> 0]]
    /\ status = [j \in Jobs |-> "new"]
    /\ charged = [j \in Jobs |-> 0]
    /\ pc = [j \in Jobs |-> "idle"]
    /\ held = [j \in Jobs |-> 0]
    /\ size = [j \in Jobs |-> 0]
    /\ attempt = [j \in Jobs |-> 0]
    /\ next = [j \in Jobs |-> "idle"]
    /\ phase = "up"
    /\ restart = FALSE
    /\ now = 0
    /\ faults = 0
    /\ crashes = 0

-----------------------------------------------------------------------------
(* What the transactions read.                                             *)

Rows(j)         == {s \in Subs : reserved[j][s] > 0}
ValidRows(j)    == {s \in Rows(j) : rowGeneration[j][s] >= 0}
Invalidated(j)  == ValidRows(j) # Rows(j)
ReservedSum(j)  == SumFunction(reserved[j])
CurrentRow(j, s) == reserved[j][s] > 0 /\ rowGeneration[j][s] = generation[s]

Eligible(j) ==
    {s \in Subs : /\ life[s] = "open"
                  /\ expiresAt[s] > now
                  /\ remaining[s] > 0
                  /\ j \in ProxyJobs => allowProxy[s]}

Available(j) == SumFunctionOnSet(remaining, Eligible(j))

\* ORDER BY expires_at, created_at, id
Earlier(s, t) ==
    \/ expiresAt[s] < expiresAt[t]
    \/ expiresAt[s] = expiresAt[t] /\ createdAt[s] < createdAt[t]
    \/ expiresAt[s] = expiresAt[t] /\ createdAt[s] = createdAt[t] /\ s < t

\* What a loop over the eligible subscriptions in that order takes for b bytes.
Allocations(j, b) ==
    {take \in [Subs -> 0..b] :
        /\ \A s \in Subs : take[s] > 0 => s \in Eligible(j) /\ take[s] <= remaining[s]
        /\ \A s, t \in Eligible(j) :
              Earlier(s, t) /\ take[t] > 0 => take[s] = remaining[s]
        /\ SumFunction(take) = b}

\* A valid row of a terminated subscription can be neither settled nor
\* released: both updates exclude the subscription.
Stuck(j) == \E s \in ValidRows(j) : life[s] = "terminated"
ReleaseStuck(j) == \E s \in ValidRows(j) : CurrentRow(j, s) /\ life[s] = "terminated"

-----------------------------------------------------------------------------
(* What the transactions write.                                            *)

StoreWorks == UNCHANGED faults
StoreFails == faults < MaxFaults /\ faults' = faults + 1

DeleteRows(J) ==
    /\ reserved' = [j \in Jobs |-> [s \in Subs |-> IF j \in J THEN 0 ELSE reserved[j][s]]]
    /\ rowGeneration' = [j \in Jobs |-> [s \in Subs |-> IF j \in J THEN 0 ELSE rowGeneration[j][s]]]

\* Every change of a subscription's row increments its revision: the
\* revision an administrator has read is then no longer the current one.
BumpRevisions(S) == adminView' = adminView \ S

\* Mutant: a row of an older generation leaves the revision as it was.
TouchedByCurrent(J) == UNION {{s \in Subs : CurrentRow(j, s)} : j \in J}

TouchedBy(J) == UNION {ValidRows(j) : j \in J}

\* The bytes a transaction returns to each subscription when it releases the
\* jobs J: those of the rows whose generation is still the current one.
Credits(J) ==
    {credit \in [Subs -> Bytes] :
        \A s \in Subs :
            credit[s] = IF s \in TouchedBy(J) /\ life[s] = "open"
                THEN SumFunctionOnSet(
                        [j \in Jobs |-> IF CurrentRow(j, s) THEN reserved[j][s] ELSE 0], J)
                ELSE 0}

\* The bytes a transaction adds to used_bytes when it settles the jobs J: a
\* row of an older generation counts as use, its debit is in the reset.
Debits(J) ==
    {debit \in [Subs -> Bytes] :
        \A s \in Subs :
            debit[s] = IF s \in TouchedBy(J) /\ life[s] = "open"
                THEN SumFunctionOnSet([j \in Jobs |-> reserved[j][s]], J)
                ELSE 0}

\* Mutant: settling forgets to delete the rows.
SettleKeepingRows(j) ==
    /\ used' = [s \in Subs |-> used[s] + reserved[j][s]]
    /\ BumpRevisions(ValidRows(j))
    /\ UNCHANGED <<remaining, subAttributes, rows>>

SettleTx(j) ==
    /\ used' = [s \in Subs |-> used[s] + reserved[j][s]]
    /\ BumpRevisions(ValidRows(j))
    /\ DeleteRows({j})
    /\ UNCHANGED <<remaining, subAttributes>>

\* The same over several jobs: release some, settle others.
Resolve(release, settle) ==
    \E credit \in Credits(release), debit \in Debits(settle) :
        /\ remaining' = [s \in Subs |-> remaining[s] + credit[s]]
        /\ used' = [s \in Subs |-> used[s] + debit[s]]
        /\ BumpRevisions(TouchedBy(release \union settle))
        /\ DeleteRows(release \union settle)
        /\ UNCHANGED subAttributes

ReleaseTx(j) == ~ReleaseStuck(j) /\ Resolve({j}, {}) /\ StoreWorks
ReleaseTxFails(j) ==
    /\ UNCHANGED ledger
    /\ \/ ReleaseStuck(j) /\ StoreWorks
       \/ StoreFails

\* reserveQuota: the outcomes of one transaction for b > 0 bytes.
TakeBytes(j, b) ==
    \E take \in Allocations(j, b) :
        /\ remaining' = [s \in Subs |-> remaining[s] - take[s]]
        /\ reserved' = [reserved EXCEPT ![j] = take]
        /\ rowGeneration' = [rowGeneration EXCEPT
                ![j] = [s \in Subs |-> IF take[s] > 0 THEN generation[s] ELSE 0]]
        /\ BumpRevisions({s \in Subs : take[s] > 0})
        /\ UNCHANGED <<used, subAttributes>>

ReserveAccepted(j, b) ==
    /\ StoreWorks
    /\ \/ Rows(j) = {} /\ Available(j) >= b /\ TakeBytes(j, b)
       \/ /\ Rows(j) # {} /\ ~Invalidated(j) /\ ReservedSum(j) = b
          /\ UNCHANGED ledger

ReserveRefused(j, b) ==
    /\ \/ Invalidated(j)
       \/ Rows(j) = {} /\ Available(j) < b
    /\ StoreWorks
    /\ UNCHANGED ledger

ReserveErrs(j, b) ==
    /\ \/ /\ Rows(j) # {} /\ ~Invalidated(j) /\ ReservedSum(j) # b
          /\ StoreWorks
       \/ StoreFails
    /\ UNCHANGED ledger

-----------------------------------------------------------------------------
(* The administrator and the user's vouchers.                              *)

Up == phase = "up"

\* createAdminSubscription, and the subscription redeemCDK inserts.
CreateSubscription(s, quota, until, proxy) ==
    /\ Up
    /\ life[s] = "absent" /\ quota > 0 /\ until > now
    /\ life' = [life EXCEPT ![s] = "open"]
    /\ remaining' = [remaining EXCEPT ![s] = quota]
    /\ expiresAt' = [expiresAt EXCEPT ![s] = until]
    /\ createdAt' = [createdAt EXCEPT ![s] = now]
    /\ allowProxy' = [allowProxy EXCEPT ![s] = proxy]
    /\ UNCHANGED <<used, generation, adminView, rows, records, worker, process>>

\* The administrator's page shows the subscription with its revision.
ReadSubscription(s) ==
    /\ Up
    /\ life[s] # "absent"
    /\ adminView' = adminView \union {s}
    /\ UNCHANGED <<remaining, used, subAttributes, rows, records, worker, process>>

\* Mutant: the sum is not restricted to the current generation.
ProxyRefundsAny(s) ==
    {refund \in Bytes :
        refund = SumFunctionOnSet(
            [j \in Jobs |-> IF s \in ValidRows(j) THEN reserved[j][s] ELSE 0], ProxyJobs)}

\* What disabling the proxy permission without a reset gives back: the proxy
\* reservations of the current generation.
ProxyRefunds(s) ==
    {refund \in Bytes :
        refund = SumFunctionOnSet(
            [j \in Jobs |-> IF CurrentRow(j, s) THEN reserved[j][s] ELSE 0], ProxyJobs)}

\* Mutant: only the rows of the current generation are invalidated.
InvalidateCurrentRows(s, J) ==
    rowGeneration' = [j \in Jobs |->
        IF j \in J /\ CurrentRow(j, s)
            THEN [rowGeneration[j] EXCEPT ![s] = Invalid]
            ELSE rowGeneration[j]]

InvalidateRows(s, J) ==
    rowGeneration' = [j \in Jobs |->
        IF j \in J /\ s \in ValidRows(j)
            THEN [rowGeneration[j] EXCEPT ![s] = Invalid]
            ELSE rowGeneration[j]]

\* updateAdminSubscription: until and proxy may restate the current values.
UpdateSubscription(s, quota, until, proxy) ==
    LET disableProxy == allowProxy[s] /\ ~proxy
    IN  /\ Up
        /\ s \in adminView /\ life[s] = "open"
        /\ until > now \/ until = expiresAt[s]
        /\ IF quota # Keep
              THEN /\ generation[s] < MaxGeneration
                   /\ generation' = [generation EXCEPT ![s] = @ + 1]
                   /\ remaining' = [remaining EXCEPT ![s] = quota]
              ELSE /\ UNCHANGED generation
                   /\ \E refund \in IF disableProxy THEN ProxyRefunds(s) ELSE {0} :
                         remaining' = [remaining EXCEPT ![s] = @ + refund]
        /\ expiresAt' = [expiresAt EXCEPT ![s] = until]
        /\ allowProxy' = [allowProxy EXCEPT ![s] = proxy]
        /\ InvalidateRows(s, IF disableProxy THEN ProxyJobs ELSE {})
        /\ BumpRevisions({s})
        /\ UNCHANGED <<used, createdAt, life, reserved, records, worker, process>>

TerminateSubscription(s) ==
    /\ Up
    /\ s \in adminView /\ life[s] = "open"
    /\ life' = [life EXCEPT ![s] = "terminated"]
    /\ remaining' = [remaining EXCEPT ![s] = 0]
    /\ expiresAt' = [expiresAt EXCEPT ![s] = now]
    /\ generation' = [generation EXCEPT ![s] = @ + 1]
    /\ InvalidateRows(s, Jobs)
    /\ BumpRevisions({s})
    /\ UNCHANGED <<used, allowProxy, createdAt, reserved, records, worker, process>>

-----------------------------------------------------------------------------
(* The worker of a job.  Its in-memory reservedBytes is held[j]; the       *)
(* deferred release runs at "unwinding" and then goes on to next[j].       *)

Goto(j, p) == pc' = [pc EXCEPT ![j] = p]
ProcessUnchanged == UNCHANGED <<phase, restart, now, crashes>>

\* Where an error leads: the next account of processJob, or failJob.
AfterError(tries) == {"failing"} \union (IF tries < MaxAttempts THEN {"ready"} ELSE {})

\* completeJob returns.
ForgetLocals(j) ==
    /\ held' = [held EXCEPT ![j] = 0]
    /\ size' = [size EXCEPT ![j] = 0]
    /\ next' = [next EXCEPT ![j] = "idle"]

Unwinding(j, to) ==
    /\ Goto(j, "unwinding")
    /\ next' = [next EXCEPT ![j] = to]

\* The job is created and waits for a worker.
Submit(j) ==
    /\ Up /\ status[j] = "new"
    /\ status' = [status EXCEPT ![j] = "live"]
    /\ Goto(j, "ready")
    /\ UNCHANGED <<ledger, charged, held, size, attempt, next, process>>

\* A worker reaches completeJob (completeJobBatch) for files of an estimated
\* size; the release is deferred only once the reservation is there.
BeginCompletion(j, estimate) ==
    /\ Up /\ pc[j] = "ready" /\ attempt[j] < MaxAttempts
    /\ attempt' = [attempt EXCEPT ![j] = @ + 1]
    /\ \/ /\ estimate = 0
          /\ Goto(j, "resolving") /\ held' = [held EXCEPT ![j] = 0]
          /\ UNCHANGED <<ledger, faults>>
       \/ /\ estimate > 0 /\ ReserveAccepted(j, estimate)
          /\ Goto(j, "resolving") /\ held' = [held EXCEPT ![j] = estimate]
       \/ /\ estimate > 0 /\ ReserveRefused(j, estimate)
          /\ Goto(j, "failing") /\ UNCHANGED held
       \/ /\ estimate > 0 /\ ReserveErrs(j, estimate)
          /\ \E p \in AfterError(attempt[j] + 1) : Goto(j, p)
          /\ UNCHANGED held
    /\ UNCHANGED <<records, size, next>> /\ ProcessUnchanged

\* Everything that ends the job before completeJob: no account, a full or
\* closed queue, an exhausted time budget, a selection that is never made.
GiveUp(j) ==
    /\ Up /\ pc[j] = "ready"
    /\ Goto(j, "failing")
    /\ UNCHANGED <<ledger, records, held, size, attempt, next, process>>

LinkFails(j) ==
    /\ Up /\ pc[j] = "resolving"
    /\ \E p \in AfterError(attempt[j]) : Unwinding(j, p)
    /\ UNCHANGED <<ledger, records, held, size, attempt, process>>

LinkResolved(j, actual) ==
    /\ Up /\ pc[j] = "resolving"
    /\ size' = [size EXCEPT ![j] = actual]
    /\ Goto(j, IF actual = held[j] THEN "finalizing"
               ELSE IF held[j] > 0 THEN "adjusting" ELSE "reserving")
    /\ UNCHANGED <<ledger, records, held, attempt, next, process>>

\* The estimate was wrong: release it, in a transaction of its own.
AdjustRelease(j) ==
    /\ Up /\ pc[j] = "adjusting"
    /\ \/ /\ ReleaseTx(j)
          /\ Goto(j, IF size[j] > 0 THEN "reserving" ELSE "finalizing")
          /\ held' = [held EXCEPT ![j] = 0]
          /\ UNCHANGED next
       \/ /\ ReleaseTxFails(j)
          /\ \E p \in AfterError(attempt[j]) : Unwinding(j, p)
          /\ UNCHANGED held
    /\ UNCHANGED <<records, size, attempt>> /\ ProcessUnchanged

\* ... and reserve the size the link has.
AdjustReserve(j) ==
    /\ Up /\ pc[j] = "reserving"
    /\ \/ /\ ReserveAccepted(j, size[j])
          /\ Goto(j, "finalizing") /\ held' = [held EXCEPT ![j] = size[j]]
          /\ UNCHANGED next
       \/ /\ ReserveRefused(j, size[j])
          /\ Unwinding(j, "failing") /\ UNCHANGED held
       \/ /\ ReserveErrs(j, size[j])
          /\ \E p \in AfterError(attempt[j]) : Unwinding(j, p)
          /\ UNCHANGED held
    /\ UNCHANGED <<records, size, attempt>> /\ ProcessUnchanged

\* Mutant: a row invalidated by the administrator is settled all the same.
CanFinalizeInvalidated(j) == status[j] = "live" /\ ReservedSum(j) = size[j]

\* finalizeCompletedJob: status, charge and settlement in one transaction.
CanFinalize(j) ==
    /\ status[j] = "live"
    /\ ~Invalidated(j) /\ ~Stuck(j)
    /\ \/ ReservedSum(j) = size[j]
       \/ ReservedSum(j) = 0 /\ Available(j) >= size[j]

FinalizeWrites(j) ==
    /\ CanFinalize(j)
    /\ \/ /\ ReservedSum(j) = size[j]
          /\ SettleTx(j)
       \/ \* the backstop for callers that reserved nothing
          /\ ReservedSum(j) = 0 /\ size[j] > 0
          /\ \E take \in Allocations(j, size[j]) :
                /\ remaining' = [s \in Subs |-> remaining[s] - take[s]]
                /\ used' = [s \in Subs |-> used[s] + reserved[j][s] + take[s]]
                /\ BumpRevisions(ValidRows(j) \union {s \in Subs : take[s] > 0})
          /\ DeleteRows({j})
          /\ UNCHANGED subAttributes
    /\ status' = [status EXCEPT ![j] = "completed"]
    /\ charged' = [charged EXCEPT ![j] = size[j]]

Finalize(j) ==
    /\ Up /\ pc[j] = "finalizing"
    /\ FinalizeWrites(j) /\ StoreWorks
    /\ Goto(j, "idle") /\ ForgetLocals(j)
    /\ UNCHANGED attempt /\ ProcessUnchanged

\* A refusal or a storage error: nothing was written and the job is failed.
FinalizeFails(j) ==
    /\ Up /\ pc[j] = "finalizing"
    /\ \/ StoreFails
       \/ StoreWorks /\ ~CanFinalize(j)
    /\ Unwinding(j, "failing")
    /\ UNCHANGED <<ledger, records, held, size, attempt>> /\ ProcessUnchanged

\* Mutant: an uncertain commit is handled like one that failed.
FinalizeUncertainFails(j) ==
    /\ Up /\ pc[j] = "finalizing"
    /\ StoreFails
    /\ FinalizeWrites(j) \/ UNCHANGED <<ledger, records>>
    /\ Unwinding(j, "failing")
    /\ UNCHANGED <<held, size, attempt>> /\ ProcessUnchanged

\* COMMIT reports an error and the read-back fails too: the transaction may
\* or may not have happened, and the worker does not touch the job again.
FinalizeUncertain(j) ==
    /\ Up /\ pc[j] = "finalizing"
    /\ StoreFails
    /\ \/ FinalizeWrites(j)
       \/ UNCHANGED <<ledger, records>>
    /\ Unwinding(j, "idle")
    /\ UNCHANGED <<held, size, attempt>> /\ ProcessUnchanged

\* The deferred release of completeJob, then what its error led to.
Unwind(j) ==
    /\ Up /\ pc[j] = "unwinding"
    /\ Goto(j, next[j])
    /\ \/ /\ held[j] = 0
          /\ restart' = (restart \/ next[j] = "idle")
          /\ UNCHANGED <<ledger, faults>>
       \/ /\ held[j] > 0 /\ ReleaseTx(j)
          /\ restart' = (restart \/ next[j] = "idle")
       \/ /\ held[j] > 0 /\ ReleaseTxFails(j)
          /\ restart' = TRUE
    /\ ForgetLocals(j)
    /\ UNCHANGED <<records, attempt, phase, now, crashes>>

\* failJob and expireSelectionJob: the status first, ...
FailJob(j) ==
    /\ Up /\ pc[j] = "failing"
    /\ \/ /\ StoreWorks
          /\ status' = [status EXCEPT ![j] = "failed"]
          /\ Goto(j, "releasing") /\ UNCHANGED restart
       \/ /\ StoreFails
          /\ UNCHANGED status
          /\ Goto(j, "idle") /\ restart' = TRUE
    /\ UNCHANGED <<ledger, charged, held, size, attempt, next, phase, now, crashes>>

\* ... then, in a transaction of its own, whatever the job still reserves.
ReleaseFailed(j) ==
    /\ Up /\ pc[j] = "releasing"
    /\ \/ ReleaseTx(j) /\ UNCHANGED restart
       \/ ReleaseTxFails(j) /\ restart' = TRUE
    /\ Goto(j, "idle")
    /\ UNCHANGED <<records, held, size, attempt, next, phase, now, crashes>>

Worker(j) ==
    \/ \E estimate \in Sizes : BeginCompletion(j, estimate)
    \/ GiveUp(j)
    \/ LinkFails(j)
    \/ \E actual \in Sizes : LinkResolved(j, actual)
    \/ AdjustRelease(j)
    \/ AdjustReserve(j)
    \/ Finalize(j)
    \/ FinalizeFails(j)
    \/ FinalizeUncertain(j)
    \/ Unwind(j)
    \/ FailJob(j)
    \/ ReleaseFailed(j)

-----------------------------------------------------------------------------
(* The process: the passage of time, the end of a record's retention, a    *)
(* kill, the graceful stop a storage error asks for, and the next start.   *)

Tick ==
    /\ now < Horizon
    /\ now' = now + 1
    /\ UNCHANGED <<ledger, records, worker, phase, restart, faults, crashes>>

\* deleteExpired, thirty days after a job ended.
DeleteRecord(j) ==
    /\ Up /\ pc[j] = "idle"
    /\ status[j] \in {"completed", "failed", "lapsed"}
    /\ status' = [status EXCEPT ![j] = "deleted"]
    /\ UNCHANGED <<ledger, charged, worker, process>>

Stop ==
    /\ phase' = "down"
    /\ restart' = FALSE
    /\ pc' = [j \in Jobs |-> "idle"]
    /\ held' = [j \in Jobs |-> 0]
    /\ size' = [j \in Jobs |-> 0]
    /\ attempt' = [j \in Jobs |-> 0]
    /\ next' = [j \in Jobs |-> "idle"]
    /\ UNCHANGED <<ledger, records, now, faults>>

Crash ==
    /\ phase # "down"
    /\ crashes < MaxCrashes /\ crashes' = crashes + 1
    /\ Stop

\* requestRestart, the shutdown that waits for the workers, and Close.  A job
\* that waits for its user to select a file is not waited for.
Shutdown ==
    /\ Up /\ restart
    /\ \A j \in Jobs : pc[j] \in {"idle", "ready"}
    /\ Stop /\ UNCHANGED crashes

\* Mutant: the start does not fail the jobs it interrupts.
MarkNothing ==
    /\ phase = "down" /\ phase' = "marked"
    /\ UNCHANGED <<ledger, records, worker, restart, now, faults, crashes>>

\* markNonterminalInterrupted: a job whose record lapsed while the process
\* was down is skipped.
MarkInterrupted ==
    /\ phase = "down"
    /\ \E lapsed \in SUBSET {j \in Jobs : status[j] = "live"} :
          status' = [j \in Jobs |->
              IF status[j] # "live" THEN status[j]
              ELSE IF j \in lapsed THEN "lapsed" ELSE "failed"]
    /\ phase' = "marked"
    /\ UNCHANGED <<ledger, charged, worker, restart, now, faults, crashes>>

HasRows(j) == Rows(j) # {}

\* The errors that make reconcileQuotaReservations, and so the start, fail.
ReconcileBlocked ==
    \E j \in Jobs :
        /\ HasRows(j)
        /\ IF status[j] = "completed"
              THEN ReservedSum(j) # charged[j] \/ Invalidated(j) \/ Stuck(j)
              ELSE ReleaseStuck(j)

\* Mutant: the reservations of jobs without a record are left alone.
ReconcileRecorded ==
    /\ phase = "marked"
    /\ ~ReconcileBlocked
    /\ Resolve({j \in Jobs : status[j] = "failed"}, {})
    /\ phase' = "up"
    /\ UNCHANGED <<records, worker, restart, now, faults, crashes>>

\* reconcileQuotaReservations, one transaction over all jobs with rows.
Reconcile ==
    /\ phase = "marked"
    /\ ~ReconcileBlocked
    /\ Resolve({j \in Jobs : HasRows(j) /\ status[j] # "completed"},
               {j \in Jobs : HasRows(j) /\ status[j] = "completed"})
    /\ phase' = "up"
    /\ UNCHANGED <<records, worker, restart, now, faults, crashes>>

Next ==
    \/ \E s \in Subs, quota \in Quotas, until \in Times, proxy \in BOOLEAN :
          CreateSubscription(s, quota, until, proxy)
    \/ \E s \in Subs : ReadSubscription(s)
    \/ \E s \in Subs, quota \in Quotas \union {Keep}, until \in Times, proxy \in BOOLEAN :
          UpdateSubscription(s, quota, until, proxy)
    \/ \E s \in Subs : TerminateSubscription(s)
    \/ \E j \in Jobs : Submit(j)
    \/ \E j \in Jobs : Worker(j)
    \/ \E j \in Jobs : DeleteRecord(j)
    \/ Tick
    \/ Crash
    \/ Shutdown
    \/ MarkInterrupted
    \/ Reconcile

Spec == Init /\ [][Next]_vars

\* A worker keeps working (the time budget of the queue and the selection
\* timeout bound what it waits for), a requested shutdown is carried out, and
\* the service manager starts the process again.
Fairness ==
    /\ \A j \in Jobs : WF_vars(Worker(j))
    /\ WF_vars(Shutdown)
    /\ WF_vars(MarkInterrupted)
    /\ WF_vars(Reconcile)

FairSpec == Spec /\ Fairness

-----------------------------------------------------------------------------
(* Invariants.                                                             *)

\* A reservation never outlives what it was taken from: a terminated
\* subscription holds nothing and nothing valid is held on it, no row is from
\* a generation its subscription has not reached, and a valid reservation of
\* a proxy job sits on a subscription that still grants the permission.
LedgerSound ==
    \A s \in Subs :
        /\ life[s] = "terminated" => remaining[s] = 0
        /\ \A j \in Jobs : s \in ValidRows(j) =>
              /\ life[s] = "open"
              /\ rowGeneration[j][s] <= generation[s]
              /\ j \in ProxyJobs => allowProxy[s]

\* A completed job has no reservation left, whatever failed while it was
\* completed, and no reservation is left where startup could not resolve it:
\* the process can always start again.
StartNeverBlocked ==
    /\ \A j \in Jobs : status[j] \in {"new", "completed"} => ~HasRows(j)
    /\ ~ReconcileBlocked

-----------------------------------------------------------------------------
(* What a step may never do.                                               *)

\* The bytes a subscription can still give plus those held on it for its
\* current generation change only when an administrator sets a new amount,
\* or by exactly what a job held there when that job completes: no release,
\* adjustment, invalidation, crash or restart creates or loses a byte.
CurrentlyHeld(s) ==
    SumFunction([j \in Jobs |-> IF CurrentRow(j, s) THEN reserved[j][s] ELSE 0])

Completes(j) == status[j] # "completed" /\ status'[j] = "completed"

ConsumedNow(s) ==
    SumFunction([j \in Jobs |->
        IF Completes(j) /\ CurrentRow(j, s) THEN reserved[j][s] ELSE 0])

QuotaConserved ==
    [][\A s \in Subs :
        life[s] # "absent" /\ generation'[s] = generation[s] =>
            remaining'[s] + CurrentlyHeld(s)' = remaining[s] + CurrentlyHeld(s) - ConsumedNow(s)]_vars

\* Use is recorded exactly once per job: only the step that completes it adds
\* to used_bytes, on each subscription what the job held there, and the job
\* is charged their sum; a job whose reservation was invalidated is refused.
ChargedExactlyOnce ==
    [][\/ used' = used /\ charged' = charged
       \/ \E j \in Jobs :
             /\ Completes(j) /\ ~Invalidated(j)
             /\ used' = [s \in Subs |-> used[s] + reserved[j][s]]
             /\ charged' = [charged EXCEPT ![j] = ReservedSum(j)]]_vars

\* The revision an administrator has read names what the page showed: as long
\* as it is current, nothing shown of the subscription has changed, so an
\* update is never applied to a state its author did not see.
Shown(s) ==
    <<remaining[s], used[s], expiresAt[s], allowProxy[s], life[s],
      SumFunction([j \in Jobs |-> IF s \in ValidRows(j) THEN reserved[j][s] ELSE 0])>>

RevisionNamesTheView ==
    [][\A s \in adminView : s \in adminView' => Shown(s)' = Shown(s)]_vars

\* A terminal job stays as it ended: a late failure, a restart or an
\* uncertain commit never turns a completed job into a failed one or back,
\* and only a completed job is ever charged.
TerminalIsFinal ==
    [][\A j \in Jobs :
        /\ status[j] = "completed" => status'[j] \in {"completed", "deleted"}
        /\ status[j] = "failed" => status'[j] \in {"failed", "deleted"}
        /\ charged'[j] # charged[j] => status[j] = "live" /\ status'[j] = "completed"]_vars

-----------------------------------------------------------------------------
(* What must happen.                                                       *)

\* Every accepted job ends, through failures, crashes and restarts.
JobsEnd == \A j \in Jobs : status[j] = "live" ~> status[j] # "live"

\* No reservation outlives its job for ever: whatever failed on the way, the
\* bytes of a job that ended are settled or given back.
ReservationsResolved ==
    \A j \in Jobs : (status[j] # "live" /\ HasRows(j)) ~> ~HasRows(j)
=============================================================================
