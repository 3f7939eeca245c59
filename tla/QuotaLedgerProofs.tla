-------------------------- MODULE QuotaLedgerProofs --------------------------
(***************************************************************************)
(* Proofs about the quota ledger, for every set of jobs and subscriptions, *)
(* every size, and every number of faults and crashes.                     *)
(***************************************************************************)
EXTENDS QuotaLedger, DataLemmas, TLAPS

-----------------------------------------------------------------------------
(* Types of what the transactions write.                                   *)

\* A debit never exceeds what its subscription has, and only an open
\* subscription, permitted for the job, is debited.
LEMMA AllocationType ==
    ASSUME LedgerType, NEW j \in Jobs, NEW b \in Nat, NEW take \in Allocations(j, b)
    PROVE  /\ take \in [Subs -> Nat]
           /\ [s \in Subs |-> remaining[s] - take[s]] \in [Subs -> Nat]
           /\ [s \in Subs |-> used[s] + take[s]] \in [Subs -> Nat]
           /\ SumFunction(take) = b
           /\ \A s \in Subs : take[s] > 0 =>
                /\ life[s] = "open"
                /\ j \in ProxyJobs => allowProxy[s]
  <1>1. /\ take \in [Subs -> 0..b]
        /\ \A s \in Subs : take[s] > 0 => s \in Eligible(j) /\ take[s] <= remaining[s]
        /\ SumFunction(take) = b
    BY DEF Allocations
  <1>2. \A s \in Subs : take[s] \in Nat /\ take[s] <= remaining[s]
    BY <1>1 DEF LedgerType
  <1>. QED
    BY <1>1, <1>2 DEF LedgerType, Eligible

\* Deleting rows leaves the rows of the other jobs as they were.
LEMMA DeleteRowsType ==
    ASSUME LedgerType, NEW J \in SUBSET Jobs, DeleteRows(J)
    PROVE  /\ reserved' \in [Jobs -> [Subs -> Nat]]
           /\ rowGeneration' \in [Jobs -> [Subs -> Nat \union {Invalid}]]
           /\ \A j \in Jobs \ J : reserved'[j] = reserved[j] /\ rowGeneration'[j] = rowGeneration[j]
           /\ \A j \in J : Rows(j)' = {}
  BY DEF LedgerType, DeleteRows, Rows

\* A transaction that releases some jobs and settles others keeps the types.
LEMMA ResolveType ==
    ASSUME LedgerType, NEW J \in SUBSET Jobs, NEW K \in SUBSET Jobs, Resolve(J, K)
    PROVE  LedgerType'
  <1>1. PICK credit \in Credits(J), debit \in Debits(K) :
            /\ remaining' = [s \in Subs |-> remaining[s] + credit[s]]
            /\ used' = [s \in Subs |-> used[s] + debit[s]]
            /\ BumpRevisions(TouchedBy(J \union K))
            /\ DeleteRows(J \union K)
            /\ UNCHANGED subAttributes
    BY DEF Resolve
  <1>2. credit \in [Subs -> Nat] /\ debit \in [Subs -> Nat]
    BY QuotaAssumption DEF Credits, Debits, Bytes
  <1>3. remaining' \in [Subs -> Nat] /\ used' \in [Subs -> Nat] /\ adminView' \subseteq Subs
    BY <1>1, <1>2 DEF LedgerType, BumpRevisions
  <1>4. J \union K \in SUBSET Jobs
    OBVIOUS
  <1>5. /\ reserved' \in [Jobs -> [Subs -> Nat]]
        /\ rowGeneration' \in [Jobs -> [Subs -> Nat \union {Invalid}]]
    BY <1>1, <1>4, DeleteRowsType
  <1>. QED
    BY <1>1, <1>3, <1>5 DEF LedgerType, subAttributes

\* So does the settlement of one job.
LEMMA SettleType ==
    ASSUME LedgerType, NEW j \in Jobs, SettleTx(j)
    PROVE  LedgerType'
  <1>1. /\ reserved' \in [Jobs -> [Subs -> Nat]]
        /\ rowGeneration' \in [Jobs -> [Subs -> Nat \union {Invalid}]]
    BY DeleteRowsType, {j} \in SUBSET Jobs DEF SettleTx
  <1>2. used' \in [Subs -> Nat] /\ adminView' \subseteq Subs
    BY DEF SettleTx, LedgerType, BumpRevisions
  <1>. QED
    BY <1>1, <1>2 DEF SettleTx, LedgerType, subAttributes

\* A reservation takes at most what there is and records what it took.
LEMMA TakeType ==
    ASSUME LedgerType, NEW j \in Jobs, NEW b \in Nat, TakeBytes(j, b)
    PROVE  LedgerType'
  <1>1. PICK take \in Allocations(j, b) :
            /\ remaining' = [s \in Subs |-> remaining[s] - take[s]]
            /\ reserved' = [reserved EXCEPT ![j] = take]
            /\ rowGeneration' = [rowGeneration EXCEPT
                    ![j] = [s \in Subs |-> IF take[s] > 0 THEN generation[s] ELSE 0]]
            /\ BumpRevisions({s \in Subs : take[s] > 0})
            /\ UNCHANGED <<used, subAttributes>>
    BY DEF TakeBytes
  <1>2. take \in [Subs -> Nat] /\ remaining' \in [Subs -> Nat]
    BY <1>1, AllocationType
  <1>3. reserved' \in [Jobs -> [Subs -> Nat]]
    BY <1>1, <1>2 DEF LedgerType
  <1>4. [s \in Subs |-> IF take[s] > 0 THEN generation[s] ELSE 0]
            \in [Subs -> Nat \union {Invalid}]
    BY DEF LedgerType
  <1>5. rowGeneration' \in [Jobs -> [Subs -> Nat \union {Invalid}]]
    BY <1>1, <1>4 DEF LedgerType
  <1>6. adminView' \subseteq Subs
    BY <1>1 DEF LedgerType, BumpRevisions
  <1>. QED
    BY <1>1, <1>2, <1>3, <1>5, <1>6 DEF LedgerType, subAttributes

\* The transaction that completes a job keeps the types, by settling what is
\* reserved or by the backstop that charges without a reservation.
LEMMA FinalizeType ==
    ASSUME LedgerType, RecordType, WorkerType, NEW j \in Jobs, FinalizeWrites(j)
    PROVE  LedgerType' /\ RecordType'
  <1>1. RecordType'
    BY DEF FinalizeWrites, RecordType, WorkerType, Statuses
  <1>2. CASE SettleTx(j)
    BY <1>1, <1>2, SettleType
  <1>3. CASE /\ \E take \in Allocations(j, size[j]) :
                    /\ remaining' = [s \in Subs |-> remaining[s] - take[s]]
                    /\ used' = [s \in Subs |-> used[s] + reserved[j][s] + take[s]]
                    /\ BumpRevisions(ValidRows(j) \union {s \in Subs : take[s] > 0})
             /\ DeleteRows({j}) /\ UNCHANGED subAttributes
    <2>1. size[j] \in Nat
      BY DEF WorkerType
    <2>2. PICK take \in Allocations(j, size[j]) :
                /\ remaining' = [s \in Subs |-> remaining[s] - take[s]]
                /\ used' = [s \in Subs |-> used[s] + reserved[j][s] + take[s]]
                /\ BumpRevisions(ValidRows(j) \union {s \in Subs : take[s] > 0})
      BY <1>3
    <2>3. remaining' \in [Subs -> Nat] /\ used' \in [Subs -> Nat]
      <3>1. take \in [Subs -> Nat] /\ remaining' \in [Subs -> Nat]
        BY <2>1, <2>2, AllocationType
      <3>2. \A s \in Subs : used[s] \in Nat /\ reserved[j][s] \in Nat /\ take[s] \in Nat
        BY <3>1 DEF LedgerType
      <3>. QED
        BY <2>2, <3>1, <3>2
    <2>4. adminView' \subseteq Subs
      BY <2>2 DEF LedgerType, BumpRevisions
    <2>5. /\ reserved' \in [Jobs -> [Subs -> Nat]]
          /\ rowGeneration' \in [Jobs -> [Subs -> Nat \union {Invalid}]]
      BY <1>3, DeleteRowsType, {j} \in SUBSET Jobs
    <2>. QED
      BY <1>1, <1>3, <2>3, <2>4, <2>5 DEF LedgerType, subAttributes
  <1>. QED
    BY <1>2, <1>3 DEF FinalizeWrites

\* A step that leaves the ledger alone keeps its types.
LEMMA LedgerStutter ==
    ASSUME LedgerType, UNCHANGED ledger
    PROVE  LedgerType'
  BY DEF LedgerType, ledger, subAttributes, rows

\* The number of faults stays within its bound.
LEMMA StoreType ==
    ASSUME ProcessType, StoreWorks \/ StoreFails
    PROVE  faults' \in 0..MaxFaults
  BY QuotaAssumption DEF ProcessType, StoreWorks, StoreFails

\* Every outcome of reserveQuota keeps the types.
LEMMA ReserveType ==
    ASSUME LedgerType, ProcessType, NEW j \in Jobs, NEW b \in Nat,
           ReserveAccepted(j, b) \/ ReserveRefused(j, b) \/ ReserveErrs(j, b)
    PROVE  LedgerType' /\ faults' \in 0..MaxFaults
  <1>1. StoreWorks \/ StoreFails
    BY DEF ReserveAccepted, ReserveRefused, ReserveErrs
  <1>2. TakeBytes(j, b) \/ UNCHANGED ledger
    BY DEF ReserveAccepted, ReserveRefused, ReserveErrs
  <1>. QED
    BY <1>1, <1>2, StoreType, TakeType, LedgerStutter

\* Every outcome of releaseQuotaReservation keeps the types.
LEMMA ReleaseType ==
    ASSUME LedgerType, ProcessType, NEW j \in Jobs, ReleaseTx(j) \/ ReleaseTxFails(j)
    PROVE  LedgerType' /\ faults' \in 0..MaxFaults
  <1>1. StoreWorks \/ StoreFails
    BY DEF ReleaseTx, ReleaseTxFails
  <1>2. Resolve({j}, {}) \/ UNCHANGED ledger
    BY DEF ReleaseTx, ReleaseTxFails
  <1>. QED
    BY <1>1, <1>2, StoreType, ResolveType, LedgerStutter

\* An invalidated row has a generation, the invalid one.
LEMMA InvalidateType ==
    ASSUME LedgerType, NEW s \in Subs, NEW J, InvalidateRows(s, J)
    PROVE  rowGeneration' \in [Jobs -> [Subs -> Nat \union {Invalid}]]
  <1>1. \A j \in Jobs : rowGeneration'[j] \in [Subs -> Nat \union {Invalid}]
    <2>. TAKE j \in Jobs
    <2>1. rowGeneration'[j] = rowGeneration[j] \/ rowGeneration'[j] = [rowGeneration[j] EXCEPT ![s] = Invalid]
      BY DEF InvalidateRows, ValidRows, Rows
    <2>2. rowGeneration[j] \in [Subs -> Nat \union {Invalid}]
      BY DEF LedgerType
    <2>3. [rowGeneration[j] EXCEPT ![s] = Invalid] \in [Subs -> Nat \union {Invalid}]
      BY <2>2
    <2>. QED
      BY <2>1, <2>2, <2>3
  <1>2. rowGeneration' = [j \in Jobs |-> rowGeneration'[j]]
    BY DEF InvalidateRows, ValidRows, Rows
  <1>. QED
    BY <1>1, <1>2

-----------------------------------------------------------------------------
(* Type correctness.                                                       *)

\* The empty database has the types.
LEMMA InitType == Init => TypeOK
  <1>. SUFFICES ASSUME Init PROVE TypeOK
    OBVIOUS
  <1>1. LedgerType
    <2>1. /\ [s \in Subs |-> 0] \in [Subs -> Nat]
          /\ [s \in Subs |-> 0] \in [Subs -> Nat \union {Invalid}]
          /\ [s \in Subs |-> 0] \in [Subs -> Times]
      BY QuotaAssumption DEF Times
    <2>2. /\ reserved \in [Jobs -> [Subs -> Nat]]
          /\ rowGeneration \in [Jobs -> [Subs -> Nat \union {Invalid}]]
      BY <2>1 DEF Init
    <2>3. /\ allowProxy \in [Subs -> BOOLEAN]
          /\ life \in [Subs -> {"absent", "open", "terminated"}]
          /\ adminView \subseteq Subs
      BY DEF Init
    <2>4. /\ remaining \in [Subs -> Nat] /\ used \in [Subs -> Nat]
          /\ generation \in [Subs -> Nat]
          /\ expiresAt \in [Subs -> Times] /\ createdAt \in [Subs -> Times]
      BY <2>1 DEF Init
    <2>. QED
      BY <2>2, <2>3, <2>4 DEF LedgerType
  <1>2. WorkerType
    BY QuotaAssumption DEF Init, WorkerType, Points
  <1>3. RecordType
    BY DEF Init, RecordType, Statuses
  <1>4. ProcessType
    <2>1. restart \in BOOLEAN /\ phase \in {"up", "down", "marked"}
      BY Zenon DEF Init
    <2>2. now \in Times /\ faults \in 0..MaxFaults /\ crashes \in 0..MaxCrashes
      BY QuotaAssumption DEF Init, Times
    <2>. QED
      BY <2>1, <2>2 DEF ProcessType
  <1>. QED
    BY <1>1, <1>2, <1>3, <1>4 DEF TypeOK

\* The steps of an administrator.
LEMMA AdminType ==
    ASSUME TypeOK, NEW s \in Subs, NEW until \in Times, NEW proxy \in BOOLEAN,
           \/ \E quota \in Quotas : CreateSubscription(s, quota, until, proxy)
           \/ ReadSubscription(s)
           \/ \E quota \in Quotas \union {Keep} : UpdateSubscription(s, quota, until, proxy)
           \/ TerminateSubscription(s)
    PROVE  TypeOK'
  <1>1. ASSUME NEW quota \in Quotas, CreateSubscription(s, quota, until, proxy)
        PROVE  TypeOK'
    <2>1. quota \in Nat
      BY QuotaAssumption
    <2>2. LedgerType'
      BY <1>1, <2>1 DEF CreateSubscription, TypeOK, LedgerType, ProcessType, rows
    <2>. QED
      BY <1>1, <2>2 DEF CreateSubscription, TypeOK, RecordType, WorkerType, ProcessType,
                        records, worker, process
  <1>2. CASE ReadSubscription(s)
    <2>1. LedgerType'
      BY <1>2 DEF ReadSubscription, TypeOK, LedgerType, subAttributes, rows
    <2>. QED
      BY <1>2, <2>1 DEF ReadSubscription, TypeOK, RecordType, WorkerType, ProcessType,
                        records, worker, process
  <1>3. ASSUME NEW quota \in Quotas \union {Keep}, UpdateSubscription(s, quota, until, proxy)
        PROVE  TypeOK'
    <2>1. rowGeneration' \in [Jobs -> [Subs -> Nat \union {Invalid}]]
      BY <1>3, InvalidateType DEF UpdateSubscription, TypeOK
    <2>2. remaining' \in [Subs -> Nat] /\ generation' \in [Subs -> Nat]
      <3>1. CASE quota # Keep
        BY <1>3, <3>1, QuotaAssumption DEF UpdateSubscription, TypeOK, LedgerType
      <3>2. CASE quota = Keep
        <4>1. PICK refund \in (IF allowProxy[s] /\ ~proxy THEN ProxyRefunds(s) ELSE {0}) :
                    remaining' = [remaining EXCEPT ![s] = @ + refund]
          BY <1>3, <3>2 DEF UpdateSubscription
        <4>2. refund \in Nat
          BY <4>1, QuotaAssumption DEF ProxyRefunds, Bytes
        <4>3. generation' = generation
          BY <1>3, <3>2 DEF UpdateSubscription
        <4>. QED
          BY <4>1, <4>2, <4>3 DEF TypeOK, LedgerType
      <3>. QED
        BY <3>1, <3>2
    <2>3. /\ expiresAt' = [expiresAt EXCEPT ![s] = until]
          /\ allowProxy' = [allowProxy EXCEPT ![s] = proxy]
          /\ BumpRevisions({s})
          /\ UNCHANGED <<used, createdAt, life, reserved, records, worker, process>>
      BY <1>3 DEF UpdateSubscription
    <2>4. LedgerType'
      BY <2>1, <2>2, <2>3 DEF TypeOK, LedgerType, BumpRevisions
    <2>. QED
      BY <2>3, <2>4 DEF TypeOK, RecordType, WorkerType, ProcessType, records, worker, process
  <1>4. CASE TerminateSubscription(s)
    <2>1. rowGeneration' \in [Jobs -> [Subs -> Nat \union {Invalid}]]
      BY <1>4, InvalidateType DEF TerminateSubscription, TypeOK
    <2>2. LedgerType'
      BY <1>4, <2>1 DEF TerminateSubscription, TypeOK, LedgerType, ProcessType, BumpRevisions
    <2>. QED
      BY <1>4, <2>2 DEF TerminateSubscription, TypeOK, RecordType, WorkerType, ProcessType,
                        records, worker, process
  <1>. QED
    BY <1>1, <1>2, <1>3, <1>4

\* The steps of a worker.
LEMMA WorkerStepType ==
    ASSUME TypeOK, NEW j \in Jobs, Worker(j)
    PROVE  TypeOK'
  <1>. USE QuotaAssumption DEF TypeOK
  <1>1. ASSUME NEW estimate \in Sizes, BeginCompletion(j, estimate)
        PROVE  TypeOK'
    <2>1. estimate \in Nat
      BY <1>1
    <2>2. LedgerType' /\ faults' \in 0..MaxFaults
      BY <1>1, <2>1, ReserveType, LedgerStutter DEF BeginCompletion, ProcessType
    <2>3. WorkerType'
      BY <1>1, <2>1 DEF BeginCompletion, WorkerType, Goto, Points, AfterError
    <2>. QED
      BY <1>1, <2>2, <2>3 DEF BeginCompletion, RecordType, ProcessType, records, ProcessUnchanged
  <1>2. CASE GiveUp(j) \/ LinkFails(j)
    <2>1. WorkerType'
      BY <1>2 DEF GiveUp, LinkFails, WorkerType, Goto, Points, Unwinding, AfterError
    <2>. QED
      BY <1>2, <2>1, LedgerStutter
         DEF GiveUp, LinkFails, RecordType, ProcessType, records, process
  <1>3. ASSUME NEW actual \in Sizes, LinkResolved(j, actual)
        PROVE  TypeOK'
    <2>1. WorkerType'
      BY <1>3 DEF LinkResolved, WorkerType, Goto, Points
    <2>. QED
      BY <1>3, <2>1, LedgerStutter DEF LinkResolved, RecordType, ProcessType, records, process
  <1>4. CASE AdjustRelease(j)
    <2>1. LedgerType' /\ faults' \in 0..MaxFaults
      BY <1>4, ReleaseType DEF AdjustRelease
    <2>2. WorkerType'
      BY <1>4 DEF AdjustRelease, WorkerType, Goto, Points, Unwinding, AfterError
    <2>. QED
      BY <1>4, <2>1, <2>2 DEF AdjustRelease, RecordType, ProcessType, records, ProcessUnchanged
  <1>5. CASE AdjustReserve(j)
    <2>1. LedgerType' /\ faults' \in 0..MaxFaults
      BY <1>5, ReserveType DEF AdjustReserve, WorkerType
    <2>2. WorkerType'
      BY <1>5 DEF AdjustReserve, WorkerType, Goto, Points, Unwinding, AfterError
    <2>. QED
      BY <1>5, <2>1, <2>2 DEF AdjustReserve, RecordType, ProcessType, records, ProcessUnchanged
  <1>6. CASE Finalize(j)
    <2>1. LedgerType' /\ RecordType' /\ faults' \in 0..MaxFaults
      BY <1>6, FinalizeType, StoreType DEF Finalize
    <2>2. WorkerType'
      BY <1>6 DEF Finalize, WorkerType, Goto, Points, ForgetLocals
    <2>. QED
      BY <1>6, <2>1, <2>2 DEF Finalize, ProcessType, ProcessUnchanged
  <1>7. CASE FinalizeFails(j)
    <2>1. WorkerType'
      BY <1>7 DEF FinalizeFails, WorkerType, Goto, Points, Unwinding
    <2>. QED
      BY <1>7, <2>1, StoreType, LedgerStutter
         DEF FinalizeFails, RecordType, ProcessType, records, ProcessUnchanged
  <1>8. CASE FinalizeUncertain(j)
    <2>1. LedgerType' /\ RecordType'
      BY <1>8, FinalizeType, LedgerStutter DEF FinalizeUncertain, RecordType, records
    <2>2. WorkerType'
      BY <1>8 DEF FinalizeUncertain, WorkerType, Goto, Points, Unwinding
    <2>. QED
      BY <1>8, <2>1, <2>2, StoreType DEF FinalizeUncertain, ProcessType, ProcessUnchanged
  <1>9. CASE Unwind(j)
    <2>1. LedgerType' /\ faults' \in 0..MaxFaults
      BY <1>9, ReleaseType, LedgerStutter DEF Unwind, ProcessType
    <2>2. WorkerType'
      BY <1>9 DEF Unwind, WorkerType, Goto, Points, ForgetLocals
    <2>. QED
      BY <1>9, <2>1, <2>2 DEF Unwind, RecordType, ProcessType, records
  <1>10. CASE FailJob(j)
    <2>1. WorkerType' /\ RecordType'
      BY <1>10 DEF FailJob, WorkerType, RecordType, Goto, Points, Statuses
    <2>. QED
      BY <1>10, <2>1, StoreType, LedgerStutter DEF FailJob, ProcessType
  <1>11. CASE ReleaseFailed(j)
    <2>1. LedgerType' /\ faults' \in 0..MaxFaults
      BY <1>11, ReleaseType DEF ReleaseFailed
    <2>2. WorkerType'
      BY <1>11 DEF ReleaseFailed, WorkerType, Goto, Points
    <2>. QED
      BY <1>11, <2>1, <2>2 DEF ReleaseFailed, RecordType, ProcessType, records
  <1>. QED
    BY <1>1, <1>2, <1>3, <1>4, <1>5, <1>6, <1>7, <1>8, <1>9, <1>10, <1>11 DEF Worker

\* The steps of the process.
LEMMA ProcessStepType ==
    ASSUME TypeOK,
           \/ \E j \in Jobs : Submit(j) \/ DeleteRecord(j)
           \/ Tick \/ Crash \/ Shutdown \/ MarkInterrupted \/ Reconcile
    PROVE  TypeOK'
  <1>. USE QuotaAssumption DEF TypeOK
  <1>1. ASSUME NEW j \in Jobs, Submit(j) \/ DeleteRecord(j)
        PROVE  TypeOK'
    BY <1>1, LedgerStutter
       DEF Submit, DeleteRecord, RecordType, WorkerType, ProcessType, Goto, Points, Statuses,
           worker, process
  <1>2. CASE Tick
    BY <1>2, LedgerStutter
       DEF Tick, RecordType, WorkerType, ProcessType, records, worker, Times
  <1>3. CASE Crash \/ Shutdown
    <2>1. Stop /\ crashes' \in 0..MaxCrashes
      BY <1>3 DEF Crash, Shutdown, ProcessType
    <2>2. LedgerType' /\ RecordType'
      BY <2>1, LedgerStutter DEF Stop, RecordType, records
    <2>3. WorkerType'
      BY <2>1 DEF Stop, WorkerType, Points
    <2>. QED
      BY <2>1, <2>2, <2>3 DEF Stop, ProcessType
  <1>4. CASE MarkInterrupted
    BY <1>4, LedgerStutter
       DEF MarkInterrupted, RecordType, WorkerType, ProcessType, Statuses, worker
  <1>5. CASE Reconcile
    <2>1. PICK J \in SUBSET Jobs, K \in SUBSET Jobs : Resolve(J, K)
      BY <1>5 DEF Reconcile
    <2>2. LedgerType'
      BY <2>1, ResolveType
    <2>. QED
      BY <1>5, <2>2 DEF Reconcile, RecordType, WorkerType, ProcessType, records, worker
  <1>. QED
    BY <1>1, <1>2, <1>3, <1>4, <1>5

\* Every step keeps the types: the administrators', the workers', the process's.
LEMMA NextType == TypeOK /\ [Next]_vars => TypeOK'
  <1>1. CASE UNCHANGED vars
    BY <1>1, LedgerStutter
       DEF vars, TypeOK, RecordType, WorkerType, ProcessType, records, worker, process
  <1>2. 0 \in Times
    BY QuotaAssumption DEF Times
  <1>. QED
    BY <1>1, <1>2, AdminType, WorkerStepType, ProcessStepType DEF Next

\* In every behaviour the ledger, the job records, the workers and the process
\* keep their types; above all, no subscription's balance goes below zero.
THEOREM TypeCorrect == Spec => []TypeOK
  BY InitType, NextType, PTL DEF Spec

-----------------------------------------------------------------------------
(* The ledger is sound: one lemma per transaction, then one per actor.     *)

\* A step that leaves the ledger alone keeps it sound.
LEMMA SoundStutter ==
    ASSUME LedgerSound, UNCHANGED ledger
    PROVE  LedgerSound'
  BY DEF LedgerSound, ledger, subAttributes, rows, ValidRows, Rows

\* A transaction that gives back, settles or deletes adds no valid row and
\* leaves a terminated subscription alone.
LEMMA ResolveSound ==
    ASSUME LedgerType, LedgerSound, NEW J \in SUBSET Jobs, NEW K \in SUBSET Jobs,
           Resolve(J, K)
    PROVE  LedgerSound'
  <1>1. PICK credit \in Credits(J), debit \in Debits(K) :
            /\ remaining' = [s \in Subs |-> remaining[s] + credit[s]]
            /\ used' = [s \in Subs |-> used[s] + debit[s]]
            /\ BumpRevisions(TouchedBy(J \union K))
            /\ DeleteRows(J \union K)
            /\ UNCHANGED subAttributes
    BY DEF Resolve
  <1>. SUFFICES ASSUME NEW s \in Subs
                PROVE  /\ life'[s] = "terminated" => remaining'[s] = 0
                       /\ \A j \in Jobs : s \in ValidRows(j)' =>
                             /\ life'[s] = "open"
                             /\ rowGeneration'[j][s] <= generation'[s]
                             /\ j \in ProxyJobs => allowProxy'[s]
    BY DEF LedgerSound
  <1>2. life[s] = "terminated" => credit[s] = 0
    BY DEF Credits
  <1>3. life'[s] = "terminated" => remaining'[s] = 0
    BY <1>1, <1>2 DEF LedgerSound, LedgerType, subAttributes
  <1>4. ASSUME NEW j \in Jobs, s \in ValidRows(j)'
        PROVE  s \in ValidRows(j) /\ rowGeneration'[j][s] = rowGeneration[j][s]
    BY <1>1, <1>4 DEF DeleteRows, ValidRows, Rows, LedgerType
  <1>. QED
    BY <1>1, <1>3, <1>4 DEF LedgerSound, subAttributes

\* A settlement deletes the rows of one job and changes no other.
LEMMA SettleSound ==
    ASSUME LedgerType, LedgerSound, NEW k \in Jobs, SettleTx(k)
    PROVE  LedgerSound'
  <1>1. ASSUME NEW s \in Subs, NEW j \in Jobs, s \in ValidRows(j)'
        PROVE  s \in ValidRows(j) /\ rowGeneration'[j][s] = rowGeneration[j][s]
    BY <1>1 DEF SettleTx, DeleteRows, ValidRows, Rows, LedgerType
  <1>. QED
    BY <1>1 DEF LedgerSound, SettleTx, subAttributes

\* A reservation is taken from open, permitted subscriptions only, with their
\* current generation.
LEMMA TakeSound ==
    ASSUME LedgerType, LedgerSound, NEW k \in Jobs, NEW b \in Nat, TakeBytes(k, b)
    PROVE  LedgerSound'
  <1>1. PICK take \in Allocations(k, b) :
            /\ remaining' = [s \in Subs |-> remaining[s] - take[s]]
            /\ reserved' = [reserved EXCEPT ![k] = take]
            /\ rowGeneration' = [rowGeneration EXCEPT
                    ![k] = [s \in Subs |-> IF take[s] > 0 THEN generation[s] ELSE 0]]
            /\ UNCHANGED subAttributes
    BY DEF TakeBytes
  <1>2. /\ take \in [Subs -> Nat]
        /\ \A s \in Subs : take[s] > 0 =>
             life[s] = "open" /\ (k \in ProxyJobs => allowProxy[s])
    BY AllocationType
  <1>3. ASSUME NEW s \in Subs, life[s] = "terminated"
        PROVE  remaining'[s] = 0
    BY <1>1, <1>2, <1>3 DEF LedgerSound, LedgerType
  <1>4. ASSUME NEW s \in Subs, NEW j \in Jobs, j # k, s \in ValidRows(j)'
        PROVE  s \in ValidRows(j) /\ rowGeneration'[j][s] = rowGeneration[j][s]
    BY <1>1, <1>4 DEF ValidRows, Rows, LedgerType
  <1>5. ASSUME NEW s \in Subs, s \in ValidRows(k)'
        PROVE  take[s] > 0 /\ rowGeneration'[k][s] = generation[s]
    BY <1>1, <1>2, <1>5 DEF ValidRows, Rows, LedgerType
  <1>6. \A s \in Subs : generation[s] \in Nat
    BY DEF LedgerType
  <1>. QED
    BY <1>1, <1>2, <1>3, <1>4, <1>5, <1>6 DEF LedgerSound, subAttributes

\* The completion of a job settles it or charges open subscriptions.
LEMMA FinalizeSound ==
    ASSUME LedgerType, WorkerType, LedgerSound, NEW k \in Jobs, FinalizeWrites(k)
    PROVE  LedgerSound'
  <1>1. CASE SettleTx(k)
    BY <1>1, SettleSound
  <1>2. ASSUME NEW take \in Allocations(k, size[k]),
               remaining' = [s \in Subs |-> remaining[s] - take[s]],
               DeleteRows({k}), UNCHANGED subAttributes
        PROVE  LedgerSound'
    <2>1. size[k] \in Nat
      BY DEF WorkerType
    <2>2. /\ take \in [Subs -> Nat]
          /\ \A s \in Subs : take[s] > 0 => life[s] = "open"
      BY <2>1, AllocationType
    <2>3. \A s \in Subs : life[s] = "terminated" => remaining'[s] = 0
      BY <1>2, <2>2 DEF LedgerSound, LedgerType
    <2>4. ASSUME NEW s \in Subs, NEW j \in Jobs, s \in ValidRows(j)'
          PROVE  s \in ValidRows(j) /\ rowGeneration'[j][s] = rowGeneration[j][s]
      BY <1>2, <2>4 DEF DeleteRows, ValidRows, Rows, LedgerType
    <2>. QED
      BY <1>2, <2>3, <2>4 DEF LedgerSound, subAttributes
  <1>. QED
    BY <1>1, <1>2 DEF FinalizeWrites

\* What an administrator takes away, he takes from the reservations too.
LEMMA InvalidateRowsEffect ==
    ASSUME LedgerType, NEW s \in Subs, NEW J \in SUBSET Jobs, InvalidateRows(s, J),
           reserved' = reserved, NEW t \in Subs, NEW j \in Jobs, t \in ValidRows(j)'
    PROVE  /\ t \in ValidRows(j)
           /\ rowGeneration'[j][t] = rowGeneration[j][t]
           /\ t = s => j \notin J
  <1>1. \/ j \in J /\ s \in ValidRows(j) /\ rowGeneration'[j] = [rowGeneration[j] EXCEPT ![s] = Invalid]
        \/ ~(j \in J /\ s \in ValidRows(j)) /\ rowGeneration'[j] = rowGeneration[j]
    BY DEF InvalidateRows, ValidRows, Rows
  <1>2. rowGeneration[j] \in [Subs -> Nat \union {Invalid}]
    BY DEF LedgerType
  <1>3. reserved'[j][t] > 0 /\ rowGeneration'[j][t] >= 0
    BY DEF ValidRows, Rows
  <1>. QED
    BY <1>1, <1>2, <1>3 DEF ValidRows, Rows, Invalid

\* An administrator who resets, restricts or terminates a subscription
\* invalidates exactly the rows the change takes the ground from.
LEMMA AdminSound ==
    ASSUME TypeOK, LedgerSound,
           NEW s \in Subs, NEW until \in Times, NEW proxy \in BOOLEAN,
           \/ \E quota \in Quotas : CreateSubscription(s, quota, until, proxy)
           \/ ReadSubscription(s)
           \/ \E quota \in Quotas \union {Keep} : UpdateSubscription(s, quota, until, proxy)
           \/ TerminateSubscription(s)
    PROVE  LedgerSound'
  <1>1. ASSUME NEW quota \in Quotas, CreateSubscription(s, quota, until, proxy)
        PROVE  LedgerSound'
    <2>1. /\ life[s] = "absent"
          /\ life' = [life EXCEPT ![s] = "open"]
          /\ remaining' = [remaining EXCEPT ![s] = quota]
          /\ allowProxy' = [allowProxy EXCEPT ![s] = proxy]
          /\ generation' = generation /\ reserved' = reserved /\ rowGeneration' = rowGeneration
      BY <1>1 DEF CreateSubscription, rows
    <2>2. \A j \in Jobs : ValidRows(j)' = ValidRows(j) /\ s \notin ValidRows(j)
      BY <2>1 DEF LedgerSound, ValidRows, Rows
    <2>. QED
      BY <2>1, <2>2 DEF LedgerSound, TypeOK, LedgerType
  <1>2. CASE ReadSubscription(s)
    BY <1>2 DEF ReadSubscription, LedgerSound, subAttributes, rows, ValidRows, Rows
  <1>3. ASSUME NEW quota \in Quotas \union {Keep}, UpdateSubscription(s, quota, until, proxy)
        PROVE  LedgerSound'
    <2>. DEFINE J == IF allowProxy[s] /\ ~proxy THEN ProxyJobs ELSE {}
    <2>1. /\ life[s] = "open" /\ life' = life
          /\ allowProxy' = [allowProxy EXCEPT ![s] = proxy]
          /\ InvalidateRows(s, J) /\ reserved' = reserved
      BY <1>3 DEF UpdateSubscription
    <2>2. J \in SUBSET Jobs
      BY QuotaAssumption
    <2>3. \A t \in Subs : generation[t] \in Nat /\ generation[t] <= generation'[t]
      BY <1>3 DEF UpdateSubscription, TypeOK, LedgerType
    <2>4. \A t \in Subs : t # s => remaining'[t] = remaining[t]
      BY <1>3 DEF UpdateSubscription, TypeOK, LedgerType
    <2>5. ASSUME NEW t \in Subs, NEW j \in Jobs, t \in ValidRows(j)'
          PROVE  /\ life'[t] = "open"
                 /\ rowGeneration'[j][t] <= generation'[t]
                 /\ j \in ProxyJobs => allowProxy'[t]
      <3>1. /\ t \in ValidRows(j)
            /\ rowGeneration'[j][t] = rowGeneration[j][t]
            /\ t = s => j \notin J
        BY <2>1, <2>2, <2>5, InvalidateRowsEffect DEF TypeOK
      <3>2. /\ life[t] = "open"
            /\ rowGeneration[j][t] <= generation[t]
            /\ j \in ProxyJobs => allowProxy[t]
        BY <3>1 DEF LedgerSound
      <3>3. rowGeneration[j][t] \in Int /\ generation'[t] \in Int
        BY <1>3 DEF UpdateSubscription, TypeOK, LedgerType, Invalid
      <3>4. j \in ProxyJobs => allowProxy'[t]
        BY <2>1, <3>1, <3>2 DEF TypeOK, LedgerType
      <3>. QED
        BY <2>1, <2>3, <3>1, <3>2, <3>3, <3>4
    <2>. QED
      BY <2>1, <2>4, <2>5 DEF LedgerSound
  <1>4. CASE TerminateSubscription(s)
    <2>1. /\ life' = [life EXCEPT ![s] = "terminated"]
          /\ remaining' = [remaining EXCEPT ![s] = 0]
          /\ generation' = [generation EXCEPT ![s] = @ + 1]
          /\ allowProxy' = allowProxy
          /\ InvalidateRows(s, Jobs) /\ reserved' = reserved
      BY <1>4 DEF TerminateSubscription
    <2>2. ASSUME NEW t \in Subs, NEW j \in Jobs, t \in ValidRows(j)'
          PROVE  t # s /\ t \in ValidRows(j) /\ rowGeneration'[j][t] = rowGeneration[j][t]
      BY <2>1, <2>2, InvalidateRowsEffect DEF TypeOK
    <2>. QED
      BY <2>1, <2>2 DEF LedgerSound, TypeOK, LedgerType
  <1>. QED
    BY <1>1, <1>2, <1>3, <1>4

\* What a step of a worker does to the ledger is one of four transactions.
LEMMA WorkerWrites ==
    ASSUME WorkerType, NEW j \in Jobs, Worker(j)
    PROVE  \/ UNCHANGED ledger
           \/ Resolve({j}, {})
           \/ Rows(j) = {} /\ \E b \in Nat : TakeBytes(j, b)
           \/ FinalizeWrites(j)
  <1>1. ASSUME NEW estimate \in Sizes, BeginCompletion(j, estimate)
        PROVE  UNCHANGED ledger \/ (Rows(j) = {} /\ TakeBytes(j, estimate))
    BY <1>1 DEF BeginCompletion, ReserveAccepted, ReserveRefused, ReserveErrs
  <1>2. CASE GiveUp(j) \/ LinkFails(j) \/ \E actual \in Sizes : LinkResolved(j, actual)
    BY <1>2 DEF GiveUp, LinkFails, LinkResolved
  <1>3. CASE AdjustRelease(j)
    BY <1>3 DEF AdjustRelease, ReleaseTx, ReleaseTxFails
  <1>4. CASE AdjustReserve(j)
    <2>1. size[j] \in Nat
      BY DEF WorkerType
    <2>2. UNCHANGED ledger \/ (Rows(j) = {} /\ TakeBytes(j, size[j]))
      BY <1>4 DEF AdjustReserve, ReserveAccepted, ReserveRefused, ReserveErrs
    <2>. QED
      BY <2>1, <2>2
  <1>5. CASE Finalize(j) \/ FinalizeFails(j) \/ FinalizeUncertain(j)
    BY <1>5 DEF Finalize, FinalizeFails, FinalizeUncertain
  <1>6. CASE Unwind(j)
    BY <1>6 DEF Unwind, ReleaseTx, ReleaseTxFails
  <1>7. CASE FailJob(j) \/ ReleaseFailed(j)
    BY <1>7 DEF FailJob, ReleaseFailed, ReleaseTx, ReleaseTxFails
  <1>. QED
    BY <1>1, <1>2, <1>3, <1>4, <1>5, <1>6, <1>7, QuotaAssumption DEF Worker

\* What a step of the process does to the ledger.
LEMMA ProcessWrites ==
    ASSUME \/ \E j \in Jobs : Submit(j) \/ DeleteRecord(j)
           \/ Tick \/ Crash \/ Shutdown \/ MarkInterrupted \/ Reconcile
    PROVE  \/ UNCHANGED ledger
           \/ \E J, K \in SUBSET Jobs : Resolve(J, K)
  BY DEF Submit, DeleteRecord, Tick, Crash, Shutdown, Stop, MarkInterrupted, Reconcile

\* Every step keeps the ledger sound.
LEMMA SoundStep == TypeOK /\ LedgerSound /\ [Next]_vars => LedgerSound'
  <1>. SUFFICES ASSUME TypeOK, LedgerSound, [Next]_vars
                PROVE  LedgerSound'
    OBVIOUS
  <1>1. CASE UNCHANGED vars
    BY <1>1, SoundStutter DEF vars
  <1>2. ASSUME NEW j \in Jobs, Worker(j)
        PROVE  LedgerSound'
    BY <1>2, WorkerWrites, SoundStutter, ResolveSound, TakeSound, FinalizeSound DEF TypeOK
  <1>3. CASE \/ \E j \in Jobs : Submit(j) \/ DeleteRecord(j)
             \/ Tick \/ Crash \/ Shutdown \/ MarkInterrupted \/ Reconcile
    BY <1>3, ProcessWrites, SoundStutter, ResolveSound DEF TypeOK
  <1>4. 0 \in Times
    BY QuotaAssumption DEF Times
  <1>. QED
    BY <1>1, <1>2, <1>3, <1>4, AdminSound DEF Next

\* Whatever administrators do underneath the workers, nothing valid is held on
\* a subscription that was terminated or that lost the permission for it.
THEOREM LedgerSoundness == Spec => []LedgerSound
  <1>1. Init => LedgerSound
    BY DEF Init, LedgerSound, ValidRows, Rows
  <1>. QED
    BY <1>1, TypeCorrect, SoundStep, PTL DEF Spec

-----------------------------------------------------------------------------
(* What a job may hold when it has ended, and how it ends.                 *)

\* Where each job's run may be for what its record says, and which records
\* leave nothing reserved.
StageInv ==
    \A j \in Jobs :
        /\ status[j] = "new" => pc[j] = "idle"
        /\ pc[j] \in {"ready", "resolving", "adjusting", "reserving", "finalizing", "failing"} => status[j] = "live"
        /\ pc[j] = "unwinding" /\ next[j] # "idle" => status[j] = "live"
        /\ phase # "up" => pc[j] = "idle"
        /\ status[j] \in {"new", "completed"} => ~HasRows(j)

\* No other transaction than a reservation adds rows; a completion deletes
\* those of its job.
LEMMA RowsKept ==
    ASSUME LedgerType, NEW j \in Jobs,
           UNCHANGED ledger \/ (\E J, K \in SUBSET Jobs : Resolve(J, K)) \/ FinalizeWrites(j)
    PROVE  /\ \A k \in Jobs : HasRows(k)' => HasRows(k)
           /\ FinalizeWrites(j) => ~HasRows(j)'
  <1>1. CASE UNCHANGED ledger /\ ~FinalizeWrites(j)
    BY <1>1 DEF ledger, rows, HasRows, Rows
  <1>2. ASSUME NEW J \in SUBSET Jobs, DeleteRows(J)
        PROVE  \A k \in Jobs : (HasRows(k)' => HasRows(k)) /\ (k \in J => ~HasRows(k)')
    <2>1. \A k \in Jobs : k \in J => Rows(k)' = {}
      BY <1>2, DeleteRowsType
    <2>2. \A k \in Jobs : k \notin J => Rows(k)' = Rows(k)
      BY <1>2, DeleteRowsType DEF Rows
    <2>. QED
      BY <2>1, <2>2 DEF HasRows
  <1>3. ASSUME NEW J \in SUBSET Jobs, NEW K \in SUBSET Jobs, Resolve(J, K)
        PROVE  \A k \in Jobs : HasRows(k)' => HasRows(k)
    <2>1. DeleteRows(J \union K) /\ J \union K \in SUBSET Jobs
      BY <1>3 DEF Resolve
    <2>. QED
      BY <1>2, <2>1
  <1>4. ASSUME FinalizeWrites(j)
        PROVE  (\A k \in Jobs : HasRows(k)' => HasRows(k)) /\ ~HasRows(j)'
    <2>1. DeleteRows({j}) /\ {j} \in SUBSET Jobs
      BY <1>4 DEF FinalizeWrites, SettleTx
    <2>. QED
      BY <1>2, <2>1
  <1>. QED
    BY <1>1, <1>3, <1>4

\* A reservation adds rows to its own job only.
LEMMA TakeRows ==
    ASSUME LedgerType, NEW j \in Jobs, NEW b \in Nat, TakeBytes(j, b)
    PROVE  \A k \in Jobs \ {j} : HasRows(k)' => HasRows(k)
  BY DEF TakeBytes, HasRows, Rows, LedgerType

\* How a worker changes the record of its job.
LEMMA WorkerRecords ==
    ASSUME TypeOK, StageInv, NEW j \in Jobs, Worker(j)
    PROVE  /\ phase = "up" /\ phase' = phase
           /\ \A k \in Jobs \ {j} : /\ status'[k] = status[k] /\ charged'[k] = charged[k]
                                    /\ pc'[k] = pc[k] /\ next'[k] = next[k]
           /\ pc[j] # "idle" /\ status[j] # "new"
           /\ \/ status'[j] = status[j] /\ charged'[j] = charged[j]
              \/ status[j] = "live" /\ status'[j] = "completed" /\ FinalizeWrites(j)
              \/ status[j] = "live" /\ status'[j] = "failed" /\ charged'[j] = charged[j]
           /\ pc'[j] \in {"ready", "resolving", "adjusting", "reserving", "finalizing", "failing"} => status'[j] = "live"
           /\ pc'[j] = "unwinding" /\ next'[j] # "idle" => status'[j] = "live"
           /\ (\E b \in Nat : TakeBytes(j, b)) \/ UNCHANGED ledger \/ Resolve({j}, {}) \/ FinalizeWrites(j)
           /\ status'[j] = "completed" /\ ~FinalizeWrites(j) =>
                 status[j] = "completed" /\ (UNCHANGED ledger \/ Resolve({j}, {}))
  <1>. USE DEF TypeOK, RecordType, WorkerType, StageInv, Goto, records, process, ProcessUnchanged, Up
  <1>0. (\E b \in Nat : TakeBytes(j, b)) \/ UNCHANGED ledger \/ Resolve({j}, {}) \/ FinalizeWrites(j)
    BY WorkerWrites
  <1>1. ASSUME NEW estimate \in Sizes, BeginCompletion(j, estimate)
        PROVE  UNCHANGED <<status, charged, phase>> /\ Up /\ status[j] = "live" /\ pc[j] = "ready"
               /\ next' = next /\ \E p \in Points : pc' = [pc EXCEPT ![j] = p] /\ p # "unwinding"
    BY <1>1 DEF BeginCompletion, AfterError, Points
  <1>2. CASE GiveUp(j) \/ LinkFails(j) \/ \E actual \in Sizes : LinkResolved(j, actual)
    <2>1. UNCHANGED <<status, charged, phase>> /\ Up /\ status[j] = "live" /\ pc[j] # "idle"
          /\ \E p \in Points, n \in {"ready", "failing", "idle"} :
                pc' = [pc EXCEPT ![j] = p] /\ next' = [next EXCEPT ![j] = n]
      BY <1>2 DEF GiveUp, LinkFails, LinkResolved, AfterError, Unwinding, Points
    <2>. QED
      BY <1>0, <2>1
  <1>3. CASE AdjustRelease(j) \/ AdjustReserve(j)
    <2>1. UNCHANGED <<status, charged, phase>> /\ Up /\ status[j] = "live" /\ pc[j] # "idle"
          /\ \E p \in Points, n \in {"ready", "failing", "idle"} :
                pc' = [pc EXCEPT ![j] = p] /\ next' = [next EXCEPT ![j] = n]
      BY <1>3 DEF AdjustRelease, AdjustReserve, AfterError, Unwinding, Points
    <2>. QED
      BY <1>0, <2>1
  <1>4. CASE Finalize(j)
    BY <1>0, <1>4 DEF Finalize, FinalizeWrites, ForgetLocals
  <1>5. CASE FinalizeFails(j)
    BY <1>0, <1>5 DEF FinalizeFails, Unwinding
  <1>6. CASE FinalizeUncertain(j)
    BY <1>0, <1>6 DEF FinalizeUncertain, FinalizeWrites, Unwinding
  <1>7. CASE Unwind(j)
    <2>1. UNCHANGED <<status, charged, phase>> /\ Up /\ pc[j] = "unwinding"
          /\ pc' = [pc EXCEPT ![j] = next[j]] /\ next' = [next EXCEPT ![j] = "idle"]
          /\ (UNCHANGED ledger \/ Resolve({j}, {}))
      BY <1>7 DEF Unwind, ForgetLocals, ReleaseTx, ReleaseTxFails
    <2>. QED
      BY <2>1
  <1>8. CASE FailJob(j)
    BY <1>0, <1>8 DEF FailJob
  <1>9. CASE ReleaseFailed(j)
    <2>1. UNCHANGED <<status, charged, phase, next>> /\ Up /\ pc[j] = "releasing" /\ pc' = [pc EXCEPT ![j] = "idle"]
          /\ (UNCHANGED ledger \/ Resolve({j}, {}))
      BY <1>9 DEF ReleaseFailed, ReleaseTx, ReleaseTxFails
    <2>. QED
      BY <2>1
  <1>10. CASE \E estimate \in Sizes : BeginCompletion(j, estimate)
    BY <1>0, <1>1, <1>10
  <1>. QED
    BY <1>2, <1>3, <1>4, <1>5, <1>6, <1>7, <1>8, <1>9, <1>10 DEF Worker

\* Every step keeps StageInv.
LEMMA StageStep == TypeOK /\ StageInv /\ [Next]_vars => StageInv'
  <1>. SUFFICES ASSUME TypeOK, StageInv, [Next]_vars
                PROVE  StageInv'
    OBVIOUS
  <1>. USE DEF TypeOK, RecordType, WorkerType, StageInv, records, worker, process
  <1>1. ASSUME NEW j \in Jobs, Worker(j)
        PROVE  StageInv'
    <2>1. \A k \in Jobs \ {j} : HasRows(k)' => HasRows(k)
      <3>1. (\E b \in Nat : TakeBytes(j, b)) \/ UNCHANGED ledger \/ Resolve({j}, {}) \/ FinalizeWrites(j)
        BY <1>1, WorkerWrites
      <3>2. {j} \in SUBSET Jobs /\ {} \in SUBSET Jobs
        OBVIOUS
      <3>. QED
        BY <3>1, <3>2, RowsKept, TakeRows
    <2>2. status'[j] = "completed" => ~HasRows(j)'
      <3>1. {j} \in SUBSET Jobs /\ {} \in SUBSET Jobs
        OBVIOUS
      <3>2. CASE FinalizeWrites(j)
        BY <3>2, RowsKept
      <3>3. CASE status'[j] = "completed" /\ ~FinalizeWrites(j)
        <4>1. status[j] = "completed" /\ (UNCHANGED ledger \/ Resolve({j}, {}))
          BY <1>1, <3>3, WorkerRecords
        <4>2. HasRows(j)' => HasRows(j)
          BY <3>1, <4>1, RowsKept
        <4>. QED
          BY <4>1, <4>2
      <3>. QED
        BY <3>2, <3>3
    <2>3. ASSUME NEW k \in Jobs
          PROVE  /\ status'[k] = "new" => pc'[k] = "idle"
                 /\ pc'[k] \in {"ready", "resolving", "adjusting", "reserving", "finalizing", "failing"} => status'[k] = "live"
                 /\ pc'[k] = "unwinding" /\ next'[k] # "idle" => status'[k] = "live"
                 /\ phase' # "up" => pc'[k] = "idle"
                 /\ status'[k] \in {"new", "completed"} => ~HasRows(k)'
      <3>1. CASE k = j
        BY <1>1, <2>2, <3>1, WorkerRecords
      <3>2. CASE k # j
        BY <1>1, <2>1, <3>2, WorkerRecords
      <3>. QED
        BY <3>1, <3>2
    <2>. QED
      BY <2>3
  <1>2. ASSUME UNCHANGED <<records, worker, process, reserved>>
        PROVE  StageInv'
    BY <1>2 DEF HasRows, Rows
  <1>3. ASSUME NEW s \in Subs, \E quota \in Quotas, until \in Times, proxy \in BOOLEAN :
                                  CreateSubscription(s, quota, until, proxy)
        PROVE  StageInv'
    BY <1>2, <1>3 DEF CreateSubscription, rows
  <1>4. ASSUME NEW s \in Subs, \E quota \in Quotas \union {Keep}, until \in Times, proxy \in BOOLEAN :
                                  UpdateSubscription(s, quota, until, proxy)
        PROVE  StageInv'
    BY <1>2, <1>4 DEF UpdateSubscription
  <1>5. ASSUME NEW s \in Subs, ReadSubscription(s) \/ TerminateSubscription(s)
        PROVE  StageInv'
    BY <1>2, <1>5 DEF ReadSubscription, TerminateSubscription, rows
  <1>6. ASSUME NEW j \in Jobs, Submit(j)
        PROVE  StageInv'
    BY <1>6 DEF Submit, Goto, Up, ledger, rows, HasRows, Rows
  <1>7. ASSUME NEW j \in Jobs, DeleteRecord(j)
        PROVE  StageInv'
    BY <1>7 DEF DeleteRecord, Up, ledger, rows, HasRows, Rows
  <1>8. CASE Tick
    BY <1>8 DEF Tick, ledger, rows, HasRows, Rows
  <1>9. CASE Crash \/ Shutdown
    BY <1>9 DEF Crash, Shutdown, Stop, ledger, rows, HasRows, Rows
  <1>10. CASE MarkInterrupted
    <2>1. UNCHANGED <<pc, next, reserved>> /\ phase' = "marked" /\ phase = "down"
          /\ \A j \in Jobs : /\ status'[j] = status[j] \/ status'[j] \in {"lapsed", "failed"}
      BY <1>10 DEF MarkInterrupted, ledger, rows
    <2>. QED
      BY <2>1 DEF HasRows, Rows
  <1>11. CASE Reconcile
    <2>1. UNCHANGED <<pc, next, status>> /\ phase' = "up" /\ phase = "marked"
      BY <1>11 DEF Reconcile
    <2>2. \A k \in Jobs : HasRows(k)' => HasRows(k)
      <3>1. \E J, K \in SUBSET Jobs : Resolve(J, K)
        BY <1>11 DEF Reconcile
      <3>. QED
        BY <3>1, RowsKept
    <2>. QED
      BY <2>1, <2>2
  <1>12. CASE UNCHANGED vars
    BY <1>2, <1>12 DEF vars, ledger, rows
  <1>. QED
    BY <1>1, <1>3, <1>4, <1>5, <1>6, <1>7, <1>8, <1>9, <1>10, <1>11, <1>12 DEF Next

\* So it always holds.
LEMMA StageHolds == Spec => [](TypeOK /\ StageInv)
  <1>1. Init => StageInv
    BY DEF Init, StageInv, HasRows, Rows
  <1>. QED
    BY <1>1, TypeCorrect, StageStep, PTL DEF Spec

\* A job that completed has nothing reserved, whatever failed while it was
\* completed, and what the others hold can always be given back: every error
\* of reconcileQuotaReservations, which would keep the process from starting,
\* is impossible in every state, even while administrators act.
THEOREM StartIsNeverBlocked == Spec => []StartNeverBlocked
  <1>1. TypeOK /\ StageInv /\ LedgerSound => StartNeverBlocked
    <2>. SUFFICES ASSUME StageInv, LedgerSound
                  PROVE  StartNeverBlocked
      OBVIOUS
    <2>1. \A j \in Jobs : ~ReleaseStuck(j)
      BY DEF LedgerSound, ReleaseStuck, ValidRows, Rows
    <2>. QED
      BY <2>1 DEF StageInv, StartNeverBlocked, ReconcileBlocked
  <1>. QED
    BY <1>1, StageHolds, LedgerSoundness, PTL

\* The record of a job that ended is final: of all the transactions of its
\* worker, which may come late, of failJob and of a start, none turns a
\* completed job into a failed one or back, and a charge comes only with the
\* completion of a job that had not ended.
THEOREM EndsAreFinal == Spec => TerminalIsFinal
  <1>1. TypeOK /\ StageInv /\ [Next]_vars =>
          [\A j \in Jobs :
              /\ status[j] = "completed" => status'[j] \in {"completed", "deleted"}
              /\ status[j] = "failed" => status'[j] \in {"failed", "deleted"}
              /\ charged'[j] # charged[j] => status[j] = "live" /\ status'[j] = "completed"]_vars
    <2>. SUFFICES ASSUME TypeOK, StageInv, [Next]_vars, NEW j \in Jobs
                  PROVE  /\ status[j] = "completed" => status'[j] \in {"completed", "deleted"}
                         /\ status[j] = "failed" => status'[j] \in {"failed", "deleted"}
                         /\ charged'[j] # charged[j] => status[j] = "live" /\ status'[j] = "completed"
      OBVIOUS
    <2>. USE DEF TypeOK, RecordType, records
    <2>1. ASSUME NEW k \in Jobs, Worker(k)
          PROVE  \/ status'[j] = status[j] /\ charged'[j] = charged[j]
                 \/ status[j] = "live" /\ status'[j] = "completed"
                 \/ status[j] = "live" /\ status'[j] = "failed" /\ charged'[j] = charged[j]
      BY <2>1, WorkerRecords
    <2>2. CASE UNCHANGED <<status, charged>>
      BY <2>2
    <2>3. ASSUME NEW k \in Jobs, Submit(k) \/ DeleteRecord(k)
          PROVE  charged' = charged /\ (status'[j] = status[j] \/ status[j] = "new" \/ status'[j] = "deleted")
      BY <2>3 DEF Submit, DeleteRecord
    <2>4. CASE MarkInterrupted
      BY <2>4 DEF MarkInterrupted
    <2>5. Tick \/ Crash \/ Shutdown \/ Reconcile \/ UNCHANGED vars => UNCHANGED <<status, charged>>
      BY DEF Tick, Crash, Shutdown, Stop, Reconcile, vars
    <2>6. ASSUME NEW s \in Subs,
                 \/ \E quota \in Quotas, until \in Times, proxy \in BOOLEAN : CreateSubscription(s, quota, until, proxy)
                 \/ ReadSubscription(s)
                 \/ \E quota \in Quotas \union {Keep}, until \in Times, proxy \in BOOLEAN :
                       UpdateSubscription(s, quota, until, proxy)
                 \/ TerminateSubscription(s)
          PROVE  UNCHANGED <<status, charged>>
      BY <2>6 DEF CreateSubscription, ReadSubscription, UpdateSubscription, TerminateSubscription
    <2>. QED
      BY <2>1, <2>2, <2>3, <2>4, <2>5, <2>6 DEF Next
  <1>. QED
    BY <1>1, StageHolds, PTL DEF Spec, TerminalIsFinal

-----------------------------------------------------------------------------
(* What a run that holds bytes finds when it completes.                    *)

\* Until its run unwinds, a job has reserved what its worker remembers, and
\* the link to be charged has that size.
HeldInv ==
    \A j \in Jobs : pc[j] \in {"resolving", "adjusting", "finalizing"} =>
        /\ held[j] > 0 => ReservedSum(j) = held[j]
        /\ pc[j] = "finalizing" => size[j] = held[j]

\* A worker leaves the rows and the memory of the others alone.
LEMMA OthersKept ==
    ASSUME TypeOK, NEW j \in Jobs, Worker(j), NEW k \in Jobs, k # j
    PROVE  /\ pc'[k] = pc[k] /\ held'[k] = held[k] /\ size'[k] = size[k] /\ next'[k] = next[k]
           /\ reserved'[k] = reserved[k] /\ rowGeneration'[k] = rowGeneration[k]
  <1>1. pc'[k] = pc[k] /\ held'[k] = held[k] /\ size'[k] = size[k] /\ next'[k] = next[k]
    BY DEF Worker, TypeOK, WorkerType, Goto, Unwinding, ForgetLocals, BeginCompletion, GiveUp, LinkFails, LinkResolved,
           AdjustRelease, AdjustReserve, Finalize, FinalizeFails, FinalizeUncertain, Unwind, FailJob, ReleaseFailed
  <1>2. ASSUME NEW J \in SUBSET {j}, DeleteRows(J)
        PROVE  reserved'[k] = reserved[k] /\ rowGeneration'[k] = rowGeneration[k]
    BY <1>2, DeleteRowsType, J \in SUBSET Jobs DEF TypeOK
  <1>3. CASE UNCHANGED ledger
    BY <1>1, <1>3 DEF ledger, rows
  <1>4. CASE Resolve({j}, {})
    <2>1. DeleteRows({j} \union {}) /\ {j} \union {} \in SUBSET {j}
      BY <1>4 DEF Resolve
    <2>. QED
      BY <1>1, <1>2, <2>1
  <1>5. CASE FinalizeWrites(j)
    <2>1. DeleteRows({j})
      BY <1>5 DEF FinalizeWrites, SettleTx
    <2>. QED
      BY <1>1, <1>2, <2>1
  <1>6. CASE \E b \in Nat : TakeBytes(j, b)
    BY <1>1, <1>6 DEF TakeBytes, TypeOK, LedgerType
  <1>. QED
    BY <1>1, <1>3, <1>4, <1>5, <1>6, WorkerWrites DEF TypeOK

\* A reservation that is accepted is there.
LEMMA Accepted ==
    ASSUME TypeOK, NEW j \in Jobs, NEW b \in Nat, ReserveAccepted(j, b)
    PROVE  ReservedSum(j)' = b
  <1>1. CASE UNCHANGED ledger /\ ReservedSum(j) = b
    BY <1>1 DEF ledger, rows, ReservedSum
  <1>2. CASE TakeBytes(j, b)
    <2>1. PICK take \in Allocations(j, b) : reserved' = [reserved EXCEPT ![j] = take]
      BY <1>2 DEF TakeBytes
    <2>2. SumFunction(take) = b /\ reserved'[j] = take
      BY <2>1, AllocationType DEF TypeOK, LedgerType
    <2>. QED
      BY <2>2 DEF ReservedSum
  <1>. QED
    BY <1>1, <1>2 DEF ReserveAccepted

\* A worker that goes on holds what it remembers.
LEMMA WorkerHolds ==
    ASSUME TypeOK, HeldInv, NEW j \in Jobs, Worker(j), pc'[j] \in {"resolving", "adjusting", "finalizing"}
    PROVE  /\ held'[j] > 0 => ReservedSum(j)' = held'[j]
           /\ pc'[j] = "finalizing" => size'[j] = held'[j]
  <1>. USE DEF TypeOK, WorkerType, Goto, Unwinding, ProcessUnchanged
  <1>1. ASSUME NEW estimate \in Sizes, BeginCompletion(j, estimate)
        PROVE  pc'[j] # "finalizing" /\ (held'[j] > 0 => ReservedSum(j)' = held'[j])
    <2>1. estimate \in Nat
      BY QuotaAssumption
    <2>2. CASE held' = [held EXCEPT ![j] = 0] /\ pc' = [pc EXCEPT ![j] = "resolving"]
      BY <2>2
    <2>3. CASE /\ ReserveAccepted(j, estimate)
               /\ pc' = [pc EXCEPT ![j] = "resolving"] /\ held' = [held EXCEPT ![j] = estimate]
      BY <2>1, <2>3, Accepted
    <2>4. CASE ReserveRefused(j, estimate) /\ pc' = [pc EXCEPT ![j] = "failing"]
      BY <2>4
    <2>5. CASE \E p \in AfterError(attempt[j] + 1) : pc' = [pc EXCEPT ![j] = p]
      BY <2>5 DEF AfterError
    <2>. QED
      BY <1>1, <2>2, <2>3, <2>4, <2>5 DEF BeginCompletion
  <1>2. ASSUME NEW actual \in Sizes, LinkResolved(j, actual)
        PROVE  /\ held'[j] > 0 => ReservedSum(j)' = held'[j]
               /\ pc'[j] = "finalizing" => size'[j] = held'[j]
    <2>1. UNCHANGED <<reserved, held>> /\ pc[j] = "resolving" /\ size'[j] = actual
          /\ (pc'[j] = "finalizing" => actual = held[j])
      BY <1>2 DEF LinkResolved, ledger, rows
    <2>. QED
      BY <2>1 DEF HeldInv, ReservedSum
  <1>3. CASE AdjustRelease(j)
    <2>1. pc'[j] = "finalizing" /\ held'[j] = 0 /\ size'[j] = 0
      BY <1>3 DEF AdjustRelease, AfterError
    <2>. QED
      BY <2>1
  <1>4. CASE AdjustReserve(j)
    <2>1. ReserveAccepted(j, size[j]) /\ held' = [held EXCEPT ![j] = size[j]] /\ size' = size /\ size[j] \in Nat
      BY <1>4 DEF AdjustReserve, AfterError
    <2>. QED
      BY <2>1, Accepted
  <1>5. CASE GiveUp(j) \/ LinkFails(j) \/ Finalize(j) \/ FinalizeFails(j) \/ FinalizeUncertain(j) \/ FailJob(j)
             \/ ReleaseFailed(j) \/ Unwind(j)
    BY <1>5 DEF GiveUp, LinkFails, Finalize, FinalizeFails, FinalizeUncertain, FailJob, ReleaseFailed, Unwind
  <1>. QED
    BY <1>1, <1>2, <1>3, <1>4, <1>5 DEF Worker

\* Every step keeps HeldInv.
LEMMA HeldStep == TypeOK /\ StageInv /\ HeldInv /\ [Next]_vars => HeldInv'
  <1>. SUFFICES ASSUME TypeOK, StageInv, HeldInv, [Next]_vars
                PROVE  HeldInv'
    OBVIOUS
  <1>1. ASSUME UNCHANGED <<pc, held, size, reserved>>
        PROVE  HeldInv'
    BY <1>1 DEF HeldInv, ReservedSum
  <1>2. ASSUME NEW j \in Jobs, Worker(j)
        PROVE  HeldInv'
    <2>. SUFFICES ASSUME NEW k \in Jobs, pc'[k] \in {"resolving", "adjusting", "finalizing"}
                  PROVE  /\ held'[k] > 0 => SumFunction(reserved'[k]) = held'[k]
                         /\ pc'[k] = "finalizing" => size'[k] = held'[k]
      BY DEF HeldInv, ReservedSum
    <2>1. CASE k = j
      BY <1>2, <2>1, WorkerHolds DEF ReservedSum
    <2>2. CASE k # j
      BY <1>2, <2>2, OthersKept DEF HeldInv, ReservedSum
    <2>. QED
      BY <2>1, <2>2
  <1>3. ASSUME \A j \in Jobs : pc'[j] \notin {"resolving", "adjusting", "finalizing"}
        PROVE  HeldInv'
    BY <1>3 DEF HeldInv
  <1>4. ASSUME NEW s \in Subs,
               \/ \E quota \in Quotas, until \in Times, proxy \in BOOLEAN : CreateSubscription(s, quota, until, proxy)
               \/ ReadSubscription(s)
               \/ \E quota \in Quotas \union {Keep}, until \in Times, proxy \in BOOLEAN :
                     UpdateSubscription(s, quota, until, proxy)
               \/ TerminateSubscription(s)
        PROVE  HeldInv'
    BY <1>1, <1>4 DEF CreateSubscription, ReadSubscription, UpdateSubscription, TerminateSubscription, rows, worker
  <1>5. ASSUME NEW j \in Jobs, Submit(j)
        PROVE  HeldInv'
    BY <1>5 DEF Submit, Goto, ledger, rows, HeldInv, ReservedSum, TypeOK, WorkerType
  <1>6. ASSUME NEW j \in Jobs, DeleteRecord(j)
        PROVE  HeldInv'
    BY <1>1, <1>6 DEF DeleteRecord, ledger, rows, worker
  <1>7. CASE Tick \/ MarkInterrupted \/ UNCHANGED vars
    BY <1>1, <1>7 DEF Tick, MarkInterrupted, vars, ledger, rows, worker
  <1>8. CASE Crash \/ Shutdown
    BY <1>3, <1>8 DEF Crash, Shutdown, Stop
  <1>9. CASE Reconcile
    BY <1>3, <1>9 DEF Reconcile, StageInv, worker
  <1>. QED
    BY <1>2, <1>4, <1>5, <1>6, <1>7, <1>8, <1>9 DEF Next

\* So it always holds, with the invariants it rests on.
LEMMA HeldHolds == Spec => [](TypeOK /\ StageInv /\ HeldInv)
  <1>1. Init => HeldInv
    BY DEF Init, HeldInv
  <1>. QED
    BY <1>1, StageHolds, HeldStep, PTL DEF Spec

\* What a release does to the account of use: nothing.
LEMMA ReleaseKeepsUse ==
    ASSUME LedgerType, NEW J \in SUBSET Jobs, Resolve(J, {})
    PROVE  used' = used
  <1>1. PICK debit \in Debits({}) : used' = [s \in Subs |-> used[s] + debit[s]]
    BY DEF Resolve
  <1>2. \A s \in Subs : s \notin TouchedBy({})
    BY DEF TouchedBy
  <1>3. \A s \in Subs : debit[s] = 0
    BY <1>1, <1>2 DEF Debits
  <1>4. \A s \in Subs : used[s] + debit[s] = used[s]
    BY <1>3 DEF LedgerType
  <1>5. used' = [s \in Subs |-> used[s]]
    BY <1>1, <1>4
  <1>. QED
    BY <1>5 DEF LedgerType

\* finalizeCompletedJob charges a job what it had reserved: the backstop of
\* chargeIfEnoughTx is never needed.
LEMMA FinalizeCharges ==
    ASSUME TypeOK, HeldInv, NEW j \in Jobs, pc[j] = "finalizing", FinalizeWrites(j)
    PROVE  /\ SettleTx(j) /\ Completes(j) /\ ~Invalidated(j)
           /\ used' = [s \in Subs |-> used[s] + reserved[j][s]]
           /\ charged' = [charged EXCEPT ![j] = ReservedSum(j)]
  <1>1. ReservedSum(j) = size[j]
    <2>1. size[j] \in Nat /\ held[j] \in Nat /\ size[j] = held[j]
      BY DEF TypeOK, WorkerType, HeldInv
    <2>2. size[j] > 0 => ReservedSum(j) = size[j]
      BY <2>1 DEF HeldInv
    <2>3. ReservedSum(j) = size[j] \/ size[j] > 0
      BY DEF FinalizeWrites
    <2>. QED
      BY <2>2, <2>3
  <1>2. SettleTx(j)
    <2>1. size[j] \in Nat
      BY DEF TypeOK, WorkerType
    <2>2. ~ (ReservedSum(j) = 0 /\ size[j] > 0)
      BY <1>1, <2>1
    <2>. QED
      BY <2>2 DEF FinalizeWrites
  <1>. QED
    BY <1>1, <1>2 DEF FinalizeWrites, SettleTx, CanFinalize, Completes, TypeOK, RecordType

\* What a worker does to the ledger: one transaction completes the job and
\* settles what it holds; the others leave every charge as it was.
LEMMA WorkerTransactions ==
    ASSUME TypeOK, HeldInv, NEW j \in Jobs, Worker(j)
    PROVE  \/ FinalizeWrites(j) /\ pc[j] = "finalizing"
           \/ /\ UNCHANGED ledger \/ Resolve({j}, {}) \/ (Rows(j) = {} /\ \E b \in Nat : TakeBytes(j, b))
              /\ charged' = charged /\ \A k \in Jobs : ~Completes(k)
  <1>. DEFINE Writes == UNCHANGED ledger \/ Resolve({j}, {}) \/ (Rows(j) = {} /\ \E b \in Nat : TakeBytes(j, b))
              Charges == FinalizeWrites(j) /\ pc[j] = "finalizing"
  <1>1. ASSUME UNCHANGED records
        PROVE  charged' = charged /\ \A k \in Jobs : ~Completes(k)
    BY <1>1 DEF records, Completes
  <1>2. ASSUME Finalize(j) \/ FinalizeUncertain(j)
        PROVE  Charges \/ (Writes /\ UNCHANGED records)
    BY <1>2 DEF Finalize, FinalizeUncertain
  <1>3. ASSUME NEW estimate \in Sizes, BeginCompletion(j, estimate)
        PROVE  Writes /\ UNCHANGED records
    BY <1>3, QuotaAssumption DEF BeginCompletion, ReserveAccepted, ReserveRefused, ReserveErrs
  <1>4. ASSUME GiveUp(j) \/ LinkFails(j) \/ (\E actual \in Sizes : LinkResolved(j, actual)) \/ FinalizeFails(j)
        PROVE  Writes /\ UNCHANGED records
    BY <1>4 DEF GiveUp, LinkFails, LinkResolved, FinalizeFails
  <1>5. ASSUME AdjustRelease(j) \/ Unwind(j) \/ ReleaseFailed(j)
        PROVE  Writes /\ UNCHANGED records
    BY <1>5 DEF AdjustRelease, Unwind, ReleaseFailed, ReleaseTx, ReleaseTxFails
  <1>6. ASSUME AdjustReserve(j)
        PROVE  Writes /\ UNCHANGED records
    BY <1>6 DEF AdjustReserve, ReserveAccepted, ReserveRefused, ReserveErrs, TypeOK, WorkerType
  <1>7. ASSUME FailJob(j)
        PROVE  Writes /\ charged' = charged /\ \A k \in Jobs : ~Completes(k)
    BY <1>7 DEF FailJob, Completes, TypeOK, RecordType
  <1>. HIDE DEF Writes, Charges
  <1>8. Charges \/ (Writes /\ charged' = charged /\ \A k \in Jobs : ~Completes(k))
    BY <1>1, <1>2, <1>3, <1>4, <1>5, <1>6, <1>7 DEF Worker
  <1>. QED
    BY <1>8 DEF Writes, Charges

\* Use is recorded exactly once per job: by the one transaction of
\* finalizeCompletedJob that completes it, on each subscription what the job
\* held there; releases, adjustments, invalidations, crashes and the
\* reconciliation at a start record none.
THEOREM EachJobIsChargedOnce == Spec => ChargedExactlyOnce
  <1>1. TypeOK /\ StageInv /\ HeldInv /\ [Next]_vars =>
          [\/ used' = used /\ charged' = charged
           \/ \E j \in Jobs :
                 /\ Completes(j) /\ ~Invalidated(j)
                 /\ used' = [s \in Subs |-> used[s] + reserved[j][s]]
                 /\ charged' = [charged EXCEPT ![j] = ReservedSum(j)]]_vars
    <2>. SUFFICES ASSUME TypeOK, StageInv, HeldInv, [Next]_vars
                  PROVE  \/ used' = used /\ charged' = charged
                         \/ \E j \in Jobs :
                               /\ Completes(j) /\ ~Invalidated(j)
                               /\ used' = [s \in Subs |-> used[s] + reserved[j][s]]
                               /\ charged' = [charged EXCEPT ![j] = ReservedSum(j)]
      OBVIOUS
    <2>. DEFINE Quiet == used' = used /\ charged' = charged
                Charges(j) == /\ Completes(j) /\ ~Invalidated(j)
                              /\ used' = [s \in Subs |-> used[s] + reserved[j][s]]
                              /\ charged' = [charged EXCEPT ![j] = ReservedSum(j)]
    <2>1. ASSUME NEW j \in Jobs, Worker(j)
          PROVE  Quiet \/ Charges(j)
      <3>1. Resolve({j}, {}) => used' = used
        BY ReleaseKeepsUse DEF TypeOK
      <3>. QED
        BY <2>1, <3>1, WorkerTransactions, FinalizeCharges DEF ledger, TakeBytes
    <2>2. ASSUME NEW j \in Jobs, Submit(j) \/ DeleteRecord(j)
          PROVE  Quiet
      BY <2>2 DEF Submit, DeleteRecord, ledger
    <2>3. CASE Tick \/ Crash \/ Shutdown \/ MarkInterrupted \/ UNCHANGED vars
      BY <2>3 DEF Tick, Crash, Shutdown, Stop, MarkInterrupted, ledger, records, vars
    <2>4. CASE Reconcile
      <3>1. {j \in Jobs : HasRows(j) /\ status[j] = "completed"} = {}
        BY DEF StageInv
      <3>2. Resolve({j \in Jobs : HasRows(j) /\ status[j] # "completed"}, {}) /\ charged' = charged
        BY <2>4, <3>1 DEF Reconcile, records
      <3>3. used' = used
        BY <3>2, ReleaseKeepsUse DEF TypeOK
      <3>. QED
        BY <3>2, <3>3
    <2>5. ASSUME NEW s \in Subs,
                 \/ \E quota \in Quotas, until \in Times, proxy \in BOOLEAN : CreateSubscription(s, quota, until, proxy)
                 \/ ReadSubscription(s)
                 \/ \E quota \in Quotas \union {Keep}, until \in Times, proxy \in BOOLEAN :
                       UpdateSubscription(s, quota, until, proxy)
                 \/ TerminateSubscription(s)
          PROVE  Quiet
      BY <2>5 DEF CreateSubscription, ReadSubscription, UpdateSubscription, TerminateSubscription, records
    <2>. QED
      BY <2>1, <2>2, <2>3, <2>4, <2>5 DEF Next
  <1>. QED
    BY <1>1, HeldHolds, PTL DEF Spec, ChargedExactlyOnce

-----------------------------------------------------------------------------
(* What an administrator has seen.                                         *)

\* Only a subscription that exists has been read.
ViewInv == \A s \in adminView : life[s] # "absent"

\* Nothing shown of the subscription s changes.
SameView(s) ==
    /\ remaining'[s] = remaining[s] /\ used'[s] = used[s] /\ expiresAt'[s] = expiresAt[s]
    /\ allowProxy'[s] = allowProxy[s] /\ life'[s] = life[s]
    /\ \A j \in Jobs : /\ s \in ValidRows(j)' <=> s \in ValidRows(j)
                       /\ s \in ValidRows(j) => reserved'[j][s] = reserved[j][s]

\* Where nothing shown changes, the page is the same.
LEMMA SameViewShown ==
    ASSUME NEW s \in Subs, SameView(s)
    PROVE  Shown(s)' = Shown(s)
  <1>1. [j \in Jobs |-> IF s \in ValidRows(j) THEN reserved[j][s] ELSE 0]' =
            [j \in Jobs |-> IF s \in ValidRows(j) THEN reserved[j][s] ELSE 0]
    BY DEF SameView
  <1>. QED
    BY <1>1 DEF Shown, SameView

\* Rows that are deleted without their subscription being touched were not valid.
LEMMA DeletedRowsUnseen ==
    ASSUME LedgerType, NEW J \in SUBSET Jobs, DeleteRows(J), NEW s \in Subs, \A j \in J : s \notin ValidRows(j)
    PROVE  \A j \in Jobs : /\ s \in ValidRows(j)' <=> s \in ValidRows(j)
                           /\ s \in ValidRows(j) => reserved'[j][s] = reserved[j][s]
  BY DEF DeleteRows, ValidRows, Rows, LedgerType

\* A release or a settlement touches no subscription whose revision stays.
LEMMA ResolveView ==
    ASSUME LedgerType, NEW J \in SUBSET Jobs, NEW K \in SUBSET Jobs, Resolve(J, K), NEW s \in adminView'
    PROVE  SameView(s)
  <1>1. PICK credit \in Credits(J), debit \in Debits(K) :
            /\ remaining' = [t \in Subs |-> remaining[t] + credit[t]]
            /\ used' = [t \in Subs |-> used[t] + debit[t]]
            /\ BumpRevisions(TouchedBy(J \union K))
            /\ DeleteRows(J \union K)
            /\ UNCHANGED subAttributes
    BY DEF Resolve
  <1>2. s \in Subs /\ \A j \in J \union K : s \notin ValidRows(j)
    BY <1>1 DEF BumpRevisions, TouchedBy, LedgerType
  <1>3. s \notin TouchedBy(J) /\ s \notin TouchedBy(K)
    BY <1>2 DEF TouchedBy
  <1>4. credit[s] = 0 /\ debit[s] = 0
    BY <1>2, <1>3 DEF Credits, Debits
  <1>5. remaining'[s] = remaining[s] /\ used'[s] = used[s]
    BY <1>1, <1>2, <1>4 DEF LedgerType
  <1>6. J \union K \in SUBSET Jobs
    OBVIOUS
  <1>. QED
    BY <1>1, <1>2, <1>5, <1>6, DeletedRowsUnseen DEF SameView, subAttributes

\* Nor does the completion of a job.
LEMMA FinalizeView ==
    ASSUME LedgerType, WorkerType, NEW j \in Jobs, FinalizeWrites(j), NEW s \in adminView'
    PROVE  SameView(s)
  <1>1. DeleteRows({j}) /\ UNCHANGED subAttributes /\ ValidRows(j) = Rows(j)
    BY DEF FinalizeWrites, SettleTx, CanFinalize, Invalidated
  <1>2. s \in Subs /\ s \notin ValidRows(j)
    BY DEF FinalizeWrites, SettleTx, BumpRevisions, LedgerType
  <1>3. reserved[j][s] = 0
    BY <1>1, <1>2 DEF Rows, LedgerType
  <1>4. remaining'[s] = remaining[s] /\ used'[s] = used[s]
    <2>1. CASE SettleTx(j)
      BY <1>2, <1>3, <2>1 DEF SettleTx, LedgerType
    <2>2. ASSUME NEW take \in Allocations(j, size[j]),
                 remaining' = [t \in Subs |-> remaining[t] - take[t]],
                 used' = [t \in Subs |-> used[t] + reserved[j][t] + take[t]],
                 BumpRevisions(ValidRows(j) \union {t \in Subs : take[t] > 0})
          PROVE  remaining'[s] = remaining[s] /\ used'[s] = used[s]
      <3>1. take \in [Subs -> Nat]
        BY AllocationType DEF WorkerType
      <3>2. take[s] = 0
        BY <1>2, <2>2, <3>1 DEF BumpRevisions
      <3>. QED
        BY <1>2, <1>3, <2>2, <3>2 DEF LedgerType
    <2>. QED
      BY <2>1, <2>2 DEF FinalizeWrites
  <1>5. {j} \in SUBSET Jobs
    OBVIOUS
  <1>. QED
    BY <1>1, <1>2, <1>4, <1>5, DeletedRowsUnseen DEF SameView, subAttributes

\* Nor does a reservation.
LEMMA TakeView ==
    ASSUME LedgerType, NEW j \in Jobs, NEW b \in Nat, Rows(j) = {}, TakeBytes(j, b), NEW s \in adminView'
    PROVE  SameView(s)
  <1>1. PICK take \in Allocations(j, b) :
            /\ remaining' = [t \in Subs |-> remaining[t] - take[t]]
            /\ reserved' = [reserved EXCEPT ![j] = take]
            /\ rowGeneration' = [rowGeneration EXCEPT
                    ![j] = [t \in Subs |-> IF take[t] > 0 THEN generation[t] ELSE 0]]
            /\ BumpRevisions({t \in Subs : take[t] > 0})
            /\ UNCHANGED <<used, subAttributes>>
    BY DEF TakeBytes
  <1>2. take \in [Subs -> Nat]
    BY AllocationType
  <1>3. s \in Subs /\ take[s] = 0
    BY <1>1, <1>2 DEF BumpRevisions, LedgerType
  <1>4. remaining'[s] = remaining[s]
    BY <1>1, <1>3 DEF LedgerType
  <1>5. \A k \in Jobs : /\ s \in ValidRows(k)' <=> s \in ValidRows(k)
                        /\ s \in ValidRows(k) => reserved'[k][s] = reserved[k][s]
    <2>1. s \notin ValidRows(j) /\ s \notin ValidRows(j)'
      BY <1>1, <1>3 DEF ValidRows, Rows, LedgerType
    <2>2. \A k \in Jobs \ {j} : reserved'[k] = reserved[k] /\ rowGeneration'[k] = rowGeneration[k]
      BY <1>1 DEF LedgerType
    <2>. QED
      BY <2>1, <2>2 DEF ValidRows, Rows
  <1>. QED
    BY <1>1, <1>4, <1>5 DEF SameView, subAttributes

\* Nor does another administrator.
LEMMA AdminView ==
    ASSUME LedgerType, ViewInv, NEW t \in Subs, NEW s \in adminView, s \in adminView',
           \/ \E quota \in Quotas, until \in Times, proxy \in BOOLEAN : CreateSubscription(t, quota, until, proxy)
           \/ ReadSubscription(t)
           \/ \E quota \in Quotas \union {Keep}, until \in Times, proxy \in BOOLEAN :
                 UpdateSubscription(t, quota, until, proxy)
           \/ TerminateSubscription(t)
    PROVE  SameView(s)
  <1>. USE DEF LedgerType
  <1>1. s \in Subs
    OBVIOUS
  <1>2. CASE ReadSubscription(t)
    BY <1>2 DEF ReadSubscription, SameView, subAttributes, rows, ValidRows, Rows
  <1>3. ASSUME NEW quota \in Quotas, NEW until \in Times, NEW proxy \in BOOLEAN, CreateSubscription(t, quota, until, proxy)
        PROVE  SameView(s)
    <2>1. s # t
      BY <1>3 DEF CreateSubscription, ViewInv
    <2>. QED
      BY <1>1, <1>3, <2>1 DEF CreateSubscription, SameView, rows, ValidRows, Rows
  <1>4. ASSUME s # t, NEW J \in SUBSET Jobs, InvalidateRows(t, J), reserved' = reserved
        PROVE  \A j \in Jobs : s \in ValidRows(j)' <=> s \in ValidRows(j)
    BY <1>1, <1>4 DEF InvalidateRows, ValidRows, Rows
  <1>5. ASSUME NEW quota \in Quotas \union {Keep}, NEW until \in Times, NEW proxy \in BOOLEAN,
               UpdateSubscription(t, quota, until, proxy)
        PROVE  SameView(s)
    <2>1. s # t
      BY <1>5 DEF UpdateSubscription, BumpRevisions
    <2>2. \E J \in SUBSET Jobs : InvalidateRows(t, J)
      BY <1>5, QuotaAssumption DEF UpdateSubscription
    <2>3. /\ reserved' = reserved /\ used' = used /\ life' = life
          /\ remaining'[s] = remaining[s]
          /\ expiresAt'[s] = expiresAt[s] /\ allowProxy'[s] = allowProxy[s]
      BY <1>1, <1>5, <2>1 DEF UpdateSubscription
    <2>. QED
      BY <1>4, <2>1, <2>2, <2>3 DEF SameView
  <1>6. CASE TerminateSubscription(t)
    <2>1. s # t
      BY <1>6 DEF TerminateSubscription, BumpRevisions
    <2>2. InvalidateRows(t, Jobs) /\ reserved' = reserved /\ used' = used /\ allowProxy' = allowProxy
          /\ remaining'[s] = remaining[s] /\ life'[s] = life[s]
          /\ expiresAt'[s] = expiresAt[s]
      BY <1>1, <1>6, <2>1 DEF TerminateSubscription
    <2>. QED
      BY <1>4, <2>1, <2>2 DEF SameView
  <1>. QED
    BY <1>2, <1>3, <1>5, <1>6

\* Every step keeps ViewInv.
LEMMA ViewStep == TypeOK /\ ViewInv /\ [Next]_vars => ViewInv'
  <1>. SUFFICES ASSUME TypeOK, ViewInv, [Next]_vars
                PROVE  ViewInv'
    OBVIOUS
  <1>. USE DEF ViewInv, TypeOK, LedgerType
  <1>1. ASSUME UNCHANGED ledger \/ (\E J, K \in SUBSET Jobs : Resolve(J, K))
        PROVE  ViewInv'
    BY <1>1 DEF ledger, subAttributes, Resolve, BumpRevisions
  <1>2. ASSUME NEW j \in Jobs, Worker(j)
        PROVE  ViewInv'
    <2>1. FinalizeWrites(j) => ViewInv'
      BY DEF FinalizeWrites, SettleTx, subAttributes, BumpRevisions
    <2>2. (\E b \in Nat : TakeBytes(j, b)) => ViewInv'
      BY DEF TakeBytes, subAttributes, BumpRevisions
    <2>3. Resolve({j}, {}) => \E J, K \in SUBSET Jobs : Resolve(J, K)
      OBVIOUS
    <2>. QED
      BY <1>1, <1>2, <2>1, <2>2, <2>3, WorkerWrites
  <1>3. ASSUME NEW t \in Subs,
           \/ \E quota \in Quotas, until \in Times, proxy \in BOOLEAN : CreateSubscription(t, quota, until, proxy)
           \/ ReadSubscription(t)
           \/ \E quota \in Quotas \union {Keep}, until \in Times, proxy \in BOOLEAN :
                 UpdateSubscription(t, quota, until, proxy)
           \/ TerminateSubscription(t)
        PROVE  ViewInv'
    BY <1>3 DEF CreateSubscription, ReadSubscription, UpdateSubscription, TerminateSubscription, subAttributes, BumpRevisions
  <1>4. CASE UNCHANGED vars
    BY <1>1, <1>4 DEF vars
  <1>. QED
    BY <1>1, <1>2, <1>3, <1>4, ProcessWrites DEF Next

\* As long as the revision an administrator has read is the current one,
\* nothing that was shown with it has changed: every transaction that changes
\* a subscription or the reservations shown for it increments the revision.
THEOREM RevisionIsTheView == Spec => RevisionNamesTheView
  <1>1. Init => ViewInv
    BY DEF Init, ViewInv
  <1>2. ASSUME TypeOK, ViewInv, Next, NEW s \in adminView, s \in adminView'
        PROVE  Shown(s)' = Shown(s)
    <2>. USE <1>2
    <2>1. UNCHANGED ledger => SameView(s)
      BY DEF ledger, subAttributes, rows, SameView, ValidRows, Rows
    <2>2. ASSUME NEW j \in Jobs, Worker(j)
          PROVE  SameView(s)
      BY <2>1, <2>2, WorkerWrites, ResolveView, FinalizeView, TakeView DEF TypeOK
    <2>3. ASSUME \/ \E j \in Jobs : Submit(j) \/ DeleteRecord(j)
                 \/ Tick \/ Crash \/ Shutdown \/ MarkInterrupted \/ Reconcile
          PROVE  SameView(s)
      BY <2>1, <2>3, ProcessWrites, ResolveView DEF TypeOK
    <2>4. SameView(s)
      BY <2>2, <2>3, AdminView DEF Next, TypeOK
    <2>5. s \in Subs
      BY DEF TypeOK, LedgerType
    <2>. QED
      BY <2>4, <2>5, SameViewShown
  <1>3. TypeOK /\ ViewInv /\ [Next]_vars =>
          [\A s \in adminView : s \in adminView' => Shown(s)' = Shown(s)]_vars
    BY <1>2
  <1>4. Spec => []ViewInv
    BY <1>1, ViewStep, TypeCorrect, PTL DEF Spec
  <1>. QED
    BY <1>3, <1>4, TypeCorrect, PTL DEF Spec, RevisionNamesTheView

-----------------------------------------------------------------------------
(* No byte is created or lost.                                             *)

\* What each job holds on s for its current generation, and what of it the
\* step consumes.
HeldOn(s)     == [j \in Jobs |-> IF CurrentRow(j, s) THEN reserved[j][s] ELSE 0]
ConsumedOn(s) == [j \in Jobs |-> IF Completes(j) /\ CurrentRow(j, s) THEN reserved[j][s] ELSE 0]

\* A step that takes a job's bytes from what is held and gives them back or
\* consumes them conserves the quota of s.
Conserves(s) ==
    remaining'[s] + CurrentlyHeld(s)' = remaining[s] + CurrentlyHeld(s) - ConsumedNow(s)

\* What is held and consumed are numbers, and the sums are over all jobs.
LEMMA HeldType ==
    ASSUME LedgerType, NEW s \in Subs
    PROVE  /\ \A j \in Jobs : HeldOn(s)[j] \in Nat /\ ConsumedOn(s)[j] \in Nat
           /\ CurrentlyHeld(s) = SumFunctionOnSet(HeldOn(s), Jobs)
           /\ ConsumedNow(s) = SumFunctionOnSet(ConsumedOn(s), Jobs)
  <1>1. \A j \in Jobs : HeldOn(s)[j] \in Nat /\ ConsumedOn(s)[j] \in Nat
    BY DEF LedgerType, HeldOn, ConsumedOn
  <1>2. DOMAIN HeldOn(s) = Jobs /\ DOMAIN ConsumedOn(s) = Jobs
    BY DEF HeldOn, ConsumedOn
  <1>. QED
    BY <1>1, <1>2 DEF CurrentlyHeld, ConsumedNow, SumFunction, HeldOn, ConsumedOn

\* What leaves the held bytes of the jobs and is given back or consumed leaves the
\* sum as it was.
LEMMA MovesConserve ==
    ASSUME LedgerType, LedgerType', NEW s \in Subs, NEW back \in [Jobs -> Int],
           \A j \in Jobs : HeldOn(s)'[j] = HeldOn(s)[j] - ConsumedOn(s)[j] - back[j],
           remaining'[s] = remaining[s] + SumFunctionOnSet(back, Jobs)
    PROVE  Conserves(s)
  <1>1. PICK before, after, consumed : before = HeldOn(s) /\ after = HeldOn(s)' /\ consumed = ConsumedOn(s)
    OBVIOUS
  <1>2. \A j \in Jobs : before[j] \in Nat /\ consumed[j] \in Nat /\ back[j] \in Int
    BY <1>1, HeldType
  <1>3. CurrentlyHeld(s) = SumFunctionOnSet(before, Jobs) /\ ConsumedNow(s) = SumFunctionOnSet(consumed, Jobs)
    BY <1>1, HeldType
  <1>4. CurrentlyHeld(s)' = SumFunctionOnSet(after, Jobs)
    <2>1. DOMAIN after = Jobs
      BY <1>1 DEF HeldOn
    <2>2. CurrentlyHeld(s)' = SumFunction(after)
      BY <1>1 DEF CurrentlyHeld, HeldOn
    <2>. QED
      BY <2>1, <2>2 DEF SumFunction
  <1>5. \A j \in Jobs : after[j] = before[j] - consumed[j] - back[j]
    BY <1>1
  <1>6. IsFiniteSet(Jobs)
    BY QuotaAssumption
  <1>. DEFINE gone == [j \in Jobs |-> consumed[j] + back[j]]
  <1>7. SumFunctionOnSet(gone, Jobs) = SumFunctionOnSet(consumed, Jobs) + SumFunctionOnSet(back, Jobs)
    <2>1. \A j \in Jobs : consumed[j] \in Int /\ back[j] \in Int /\ gone[j] = consumed[j] + back[j]
      BY <1>2
    <2>. HIDE DEF gone
    <2>. QED
      BY <1>6, <2>1, SumsAdd
  <1>8. \A j \in Jobs : after[j] \in Int /\ gone[j] \in Int /\ before[j] = after[j] + gone[j]
    BY <1>2, <1>5
  <1>. HIDE DEF gone
  <1>9. SumFunctionOnSet(before, Jobs) = SumFunctionOnSet(after, Jobs) + SumFunctionOnSet(gone, Jobs)
    BY <1>6, <1>8, SumsAdd
  <1>10. /\ SumFunctionOnSet(after, Jobs) \in Int /\ SumFunctionOnSet(consumed, Jobs) \in Int
         /\ SumFunctionOnSet(back, Jobs) \in Int
    BY <1>2, <1>6, <1>8, SumType
  <1>11. remaining[s] \in Int
    BY DEF LedgerType
  <1>. QED
    BY <1>3, <1>4, <1>7, <1>9, <1>10, <1>11 DEF Conserves

\* Where the rows and the generation of s stay, nothing is held or consumed.
LEMMA QuietConserves ==
    ASSUME LedgerType, LedgerType', NEW s \in Subs, remaining'[s] = remaining[s],
           \A j \in Jobs : HeldOn(s)'[j] = HeldOn(s)[j] - ConsumedOn(s)[j]
    PROVE  Conserves(s)
  <1>. DEFINE back == [j \in Jobs |-> 0]
  <1>1. back \in [Jobs -> Int] /\ \A j \in Jobs : back[j] = 0
    OBVIOUS
  <1>2. \A j \in Jobs : HeldOn(s)'[j] = HeldOn(s)[j] - ConsumedOn(s)[j] - back[j]
    <2>. SUFFICES ASSUME NEW j \in Jobs
                  PROVE  HeldOn(s)'[j] = HeldOn(s)[j] - ConsumedOn(s)[j] - back[j]
      OBVIOUS
    <2>1. HeldOn(s)[j] \in Nat /\ ConsumedOn(s)[j] \in Nat /\ back[j] = 0
      BY HeldType
    <2>. HIDE DEF back
    <2>. QED
      BY <2>1
  <1>. HIDE DEF back
  <1>3. SumFunctionOnSet(back, Jobs) = 0
    BY <1>1, SumOfZeros, QuotaAssumption
  <1>4. remaining[s] \in Nat
    BY DEF LedgerType
  <1>5. remaining'[s] = remaining[s] + SumFunctionOnSet(back, Jobs)
    BY <1>3, <1>4
  <1>. QED
    BY <1>1, <1>2, <1>5, MovesConserve

\* A release gives back what the jobs hold; what they hold of an older
\* generation, or without a valid row, is not held.
LEMMA ReleaseConserves ==
    ASSUME LedgerType, LedgerSound, NEW J \in SUBSET Jobs, Resolve(J, {}),
           \A j \in Jobs : ~Completes(j), NEW s \in Subs
    PROVE  Conserves(s)
  <1>1. PICK credit \in Credits(J) :
            /\ remaining' = [t \in Subs |-> remaining[t] + credit[t]]
            /\ DeleteRows(J)
            /\ UNCHANGED subAttributes
    <2>1. J \union {} = J
      OBVIOUS
    <2>. QED
      BY <2>1 DEF Resolve
  <1>2. PICK before : before = HeldOn(s)
    OBVIOUS
  <1>3. \A j \in Jobs : before[j] \in Nat
    BY <1>2, HeldType
  <1>4. IsFiniteSet(Jobs) /\ IsFiniteSet(J)
    BY QuotaAssumption, FS_Subset
  <1>5. credit[s] = SumFunctionOnSet(before, J)
    <2>1. CASE s \in TouchedBy(J) /\ life[s] = "open"
      BY <1>2, <2>1 DEF Credits, HeldOn
    <2>2. CASE ~ (s \in TouchedBy(J) /\ life[s] = "open")
      <3>1. \A j \in J : before[j] = 0
        <4>. SUFFICES ASSUME NEW j \in J, CurrentRow(j, s)
                      PROVE  FALSE
          BY <1>2 DEF HeldOn
        <4>1. s \in ValidRows(j)
          BY DEF CurrentRow, ValidRows, Rows, LedgerType
        <4>. QED
          BY <2>2, <4>1 DEF TouchedBy, LedgerSound
      <3>2. SumFunctionOnSet(before, J) = 0
        BY <1>4, <3>1, SumOfZeros
      <3>. QED
        BY <2>2, <3>2 DEF Credits
    <2>. QED
      BY <2>1, <2>2
  <1>. DEFINE back == [j \in Jobs |-> IF j \in J THEN before[j] ELSE 0]
  <1>6. back \in [Jobs -> Int] /\ (\A j \in J : back[j] = before[j]) /\ \A j \in Jobs \ J : back[j] = 0
    BY <1>3
  <1>7. \A j \in Jobs : HeldOn(s)'[j] = before[j] - ConsumedOn(s)[j] - back[j]
    <2>. SUFFICES ASSUME NEW j \in Jobs
                  PROVE  HeldOn(s)'[j] = before[j] - ConsumedOn(s)[j] - back[j]
      OBVIOUS
    <2>1. ConsumedOn(s)[j] = 0
      BY DEF ConsumedOn
    <2>2. before[j] \in Nat
      BY <1>3
    <2>3. CASE j \in J
      <3>1. HeldOn(s)'[j] = 0
        BY <1>1, <2>3 DEF DeleteRows, HeldOn, CurrentRow
      <3>. QED
        BY <1>6, <2>1, <2>2, <2>3, <3>1
    <2>4. CASE j \notin J
      <3>1. reserved'[j] = reserved[j] /\ rowGeneration'[j] = rowGeneration[j]
        BY <1>1, <2>4, DeleteRowsType
      <3>2. HeldOn(s)'[j] = before[j]
        BY <1>1, <1>2, <3>1 DEF HeldOn, CurrentRow, subAttributes
      <3>. QED
        BY <1>6, <2>1, <2>2, <2>4, <3>2
    <2>. QED
      BY <2>3, <2>4
  <1>. HIDE DEF back
  <1>8. SumFunctionOnSet(back, Jobs) = SumFunctionOnSet(before, J)
    <2>1. SumFunctionOnSet(back, Jobs) = SumFunctionOnSet(back, J)
      BY <1>4, <1>6, SumRestricted
    <2>2. SumFunctionOnSet(back, J) = SumFunctionOnSet(before, J)
      BY <1>4, <1>6, SumCongruent
    <2>. QED
      BY <2>1, <2>2
  <1>9. remaining'[s] = remaining[s] + SumFunctionOnSet(back, Jobs)
    BY <1>1, <1>5, <1>8
  <1>10. LedgerType'
    BY ResolveType
  <1>. QED
    BY <1>2, <1>6, <1>7, <1>9, <1>10, MovesConserve

\* A settlement consumes what the job holds, and only that.
LEMMA SettleConserves ==
    ASSUME LedgerType, NEW j \in Jobs, SettleTx(j), Completes(j),
           \A k \in Jobs \ {j} : ~Completes(k), NEW s \in Subs
    PROVE  Conserves(s)
  <1>1. /\ remaining' = remaining /\ generation' = generation
        /\ \A k \in Jobs \ {j} : reserved'[k] = reserved[k] /\ rowGeneration'[k] = rowGeneration[k]
        /\ Rows(j)' = {}
    BY DeleteRowsType, {j} \in SUBSET Jobs DEF SettleTx, subAttributes
  <1>2. ASSUME NEW k \in Jobs
        PROVE  HeldOn(s)'[k] = HeldOn(s)[k] - ConsumedOn(s)[k]
    <2>1. HeldOn(s)[k] \in Nat
      BY HeldType
    <2>2. CASE k = j
      <3>1. HeldOn(s)'[k] = 0
        BY <1>1, <2>2 DEF HeldOn, CurrentRow, Rows
      <3>2. ConsumedOn(s)[k] = HeldOn(s)[k]
        BY <2>2 DEF HeldOn, ConsumedOn
      <3>. QED
        BY <2>1, <3>1, <3>2
    <2>3. CASE k # j
      <3>1. HeldOn(s)'[k] = HeldOn(s)[k]
        BY <1>1, <2>3 DEF HeldOn, CurrentRow
      <3>2. ConsumedOn(s)[k] = 0
        BY <2>3 DEF ConsumedOn
      <3>. QED
        BY <2>1, <3>1, <3>2
    <2>. QED
      BY <2>2, <2>3
  <1>3. LedgerType'
    BY SettleType
  <1>. QED
    BY <1>1, <1>2, <1>3, QuietConserves

\* A reservation holds what it takes.
LEMMA TakeConserves ==
    ASSUME LedgerType, NEW j \in Jobs, NEW b \in Nat, Rows(j) = {}, TakeBytes(j, b),
           \A k \in Jobs : ~Completes(k), NEW s \in Subs
    PROVE  Conserves(s)
  <1>1. PICK take \in Allocations(j, b) :
            /\ remaining' = [t \in Subs |-> remaining[t] - take[t]]
            /\ reserved' = [reserved EXCEPT ![j] = take]
            /\ rowGeneration' = [rowGeneration EXCEPT
                    ![j] = [t \in Subs |-> IF take[t] > 0 THEN generation[t] ELSE 0]]
            /\ UNCHANGED subAttributes
    BY DEF TakeBytes
  <1>2. take[s] \in Nat /\ remaining[s] \in Nat
    BY AllocationType DEF LedgerType
  <1>. DEFINE back == [k \in Jobs |-> IF k = j THEN - take[s] ELSE 0]
  <1>3. back \in [Jobs -> Int] /\ back[j] = - take[s] /\ \A k \in Jobs \ {j} : back[k] = 0
    BY <1>2
  <1>4. \A k \in Jobs : HeldOn(s)'[k] = HeldOn(s)[k] - ConsumedOn(s)[k] - back[k]
    <2>. SUFFICES ASSUME NEW k \in Jobs
                  PROVE  HeldOn(s)'[k] = HeldOn(s)[k] - ConsumedOn(s)[k] - back[k]
      OBVIOUS
    <2>1. ConsumedOn(s)[k] = 0 /\ HeldOn(s)[k] \in Nat
      BY HeldType DEF ConsumedOn
    <2>2. CASE k = j
      <3>1. HeldOn(s)[k] = 0
        BY <2>2 DEF HeldOn, CurrentRow, Rows
      <3>2. reserved'[j] = take /\ rowGeneration'[j][s] = IF take[s] > 0 THEN generation[s] ELSE 0
        BY <1>1 DEF LedgerType
      <3>3. HeldOn(s)'[k] = take[s]
        BY <1>1, <1>2, <2>2, <3>2 DEF HeldOn, CurrentRow, subAttributes
      <3>. HIDE DEF back
      <3>. QED
        BY <1>2, <1>3, <2>1, <2>2, <3>1, <3>3
    <2>3. CASE k # j
      <3>1. reserved'[k] = reserved[k] /\ rowGeneration'[k] = rowGeneration[k] /\ generation' = generation
        BY <1>1, <2>3 DEF LedgerType, subAttributes
      <3>2. HeldOn(s)'[k] = HeldOn(s)[k]
        BY <3>1 DEF HeldOn, CurrentRow
      <3>. HIDE DEF back
      <3>. QED
        BY <1>3, <2>1, <2>3, <3>2
    <2>. QED
      BY <2>2, <2>3
  <1>. HIDE DEF back
  <1>5. SumFunctionOnSet(back, Jobs) = - take[s]
    <2>1. IsFiniteSet(Jobs) /\ {j} \in SUBSET Jobs
      BY QuotaAssumption
    <2>2. SumFunctionOnSet(back, Jobs) = SumFunctionOnSet(back, {j})
      BY <1>3, <2>1, SumRestricted
    <2>3. - take[s] \in Int
      BY <1>2
    <2>. QED
      BY <1>3, <2>2, <2>3, SumOfOne
  <1>6. remaining'[s] = remaining[s] + SumFunctionOnSet(back, Jobs)
    BY <1>1, <1>2, <1>5
  <1>7. LedgerType'
    BY TakeType
  <1>. QED
    BY <1>3, <1>4, <1>6, <1>7, MovesConserve

\* Where nothing of the ledger changes and no job completes, neither does the sum.
LEMMA StutterConserves ==
    ASSUME LedgerType, UNCHANGED ledger, \A k \in Jobs : ~Completes(k), NEW s \in Subs
    PROVE  Conserves(s)
  <1>1. remaining' = remaining /\ HeldOn(s)' = HeldOn(s)
    BY DEF ledger, subAttributes, rows, HeldOn, CurrentRow
  <1>2. \A k \in Jobs : ConsumedOn(s)[k] = 0 /\ HeldOn(s)[k] \in Nat
    BY HeldType DEF ConsumedOn
  <1>3. \A k \in Jobs : HeldOn(s)'[k] = HeldOn(s)[k] - ConsumedOn(s)[k]
    BY <1>1, <1>2
  <1>. QED
    BY <1>1, <1>3, LedgerStutter, QuietConserves

\* What an invalidation of rows on t does to what is held on s.
LEMMA InvalidateHeld ==
    ASSUME LedgerType, NEW t \in Subs, NEW J \in SUBSET Jobs, InvalidateRows(t, J), reserved' = reserved,
           NEW s \in Subs, generation'[s] = generation[s], NEW j \in Jobs
    PROVE  HeldOn(s)'[j] = IF s = t /\ j \in J THEN 0 ELSE HeldOn(s)[j]
  <1>1. HeldOn(s)'[j] = IF reserved[j][s] > 0 /\ rowGeneration'[j][s] = generation[s] THEN reserved[j][s] ELSE 0
    BY DEF HeldOn, CurrentRow
  <1>2. generation[s] \in Nat /\ rowGeneration[j] \in [Subs -> Nat \union {Invalid}] /\ reserved[j][s] \in Nat
    BY DEF LedgerType
  <1>3. CASE j \in J /\ t \in ValidRows(j)
    <2>1. rowGeneration'[j] = [rowGeneration[j] EXCEPT ![t] = Invalid]
      BY <1>3 DEF InvalidateRows, ValidRows, Rows
    <2>2. CASE s = t
      <3>1. rowGeneration'[j][s] = Invalid /\ Invalid # generation[s]
        BY <1>2, <2>1, <2>2 DEF Invalid
      <3>. QED
        BY <1>1, <1>3, <2>2, <3>1
    <2>3. CASE s # t
      <3>1. rowGeneration'[j][s] = rowGeneration[j][s]
        BY <1>2, <2>1, <2>3
      <3>. QED
        BY <1>1, <2>3, <3>1 DEF HeldOn, CurrentRow
    <2>. QED
      BY <2>2, <2>3
  <1>4. CASE ~ (j \in J /\ t \in ValidRows(j))
    <2>1. rowGeneration'[j] = rowGeneration[j]
      BY <1>4 DEF InvalidateRows, ValidRows, Rows
    <2>2. HeldOn(s)'[j] = HeldOn(s)[j]
      BY <1>1, <2>1 DEF HeldOn, CurrentRow
    <2>3. s = t /\ j \in J => HeldOn(s)[j] = 0
      <3>1. s = t /\ j \in J /\ reserved[j][s] > 0 => rowGeneration[j][s] # generation[s]
        BY <1>2, <1>4 DEF ValidRows, Rows, Invalid
      <3>. QED
        BY <3>1 DEF HeldOn, CurrentRow
    <2>. QED
      BY <2>2, <2>3
  <1>. QED
    BY <1>3, <1>4

\* An administrator who only takes the permission away gives back what the
\* proxy jobs hold; every other change of an amount is a new generation.
LEMMA AdminConserves ==
    ASSUME TypeOK, NEW t \in Subs, NEW until \in Times, NEW proxy \in BOOLEAN,
           \/ \E quota \in Quotas : CreateSubscription(t, quota, until, proxy)
           \/ ReadSubscription(t)
           \/ \E quota \in Quotas \union {Keep} : UpdateSubscription(t, quota, until, proxy)
           \/ TerminateSubscription(t),
           NEW s \in Subs, life[s] # "absent", generation'[s] = generation[s]
    PROVE  Conserves(s)
  <1>1. LedgerType /\ LedgerType'
    <2>1. TypeOK'
      BY AdminType
    <2>. QED
      BY <2>1 DEF TypeOK
  <1>2. status' = status
    BY DEF CreateSubscription, ReadSubscription, UpdateSubscription, TerminateSubscription, records
  <1>3. \A j \in Jobs : ConsumedOn(s)[j] = 0 /\ HeldOn(s)[j] \in Nat
    BY <1>1, <1>2, HeldType DEF ConsumedOn, Completes
  <1>4. ASSUME remaining'[s] = remaining[s], \A j \in Jobs : HeldOn(s)'[j] = HeldOn(s)[j]
        PROVE  Conserves(s)
    BY <1>1, <1>3, <1>4, QuietConserves
  <1>5. ASSUME NEW quota \in Quotas, CreateSubscription(t, quota, until, proxy)
        PROVE  Conserves(s)
    <2>1. t # s /\ remaining'[s] = remaining[s] /\ HeldOn(s)' = HeldOn(s)
      BY <1>1, <1>5 DEF CreateSubscription, LedgerType, rows, HeldOn, CurrentRow
    <2>. QED
      BY <1>4, <2>1
  <1>6. CASE ReadSubscription(t)
    <2>1. remaining' = remaining /\ HeldOn(s)' = HeldOn(s)
      BY <1>6 DEF ReadSubscription, subAttributes, rows, HeldOn, CurrentRow
    <2>. QED
      BY <1>4, <2>1
  <1>7. CASE TerminateSubscription(t)
    <2>1. t # s
      BY <1>1, <1>7 DEF TerminateSubscription, LedgerType
    <2>2. InvalidateRows(t, Jobs) /\ reserved' = reserved /\ remaining'[s] = remaining[s]
      BY <1>1, <1>7, <2>1 DEF TerminateSubscription, LedgerType
    <2>3. \A j \in Jobs : HeldOn(s)'[j] = HeldOn(s)[j]
      BY <1>1, <2>1, <2>2, InvalidateHeld
    <2>. QED
      BY <1>4, <2>2, <2>3
  <1>8. ASSUME NEW quota \in Quotas \union {Keep}, UpdateSubscription(t, quota, until, proxy)
        PROVE  Conserves(s)
    <2>. DEFINE J == IF allowProxy[t] /\ ~proxy THEN ProxyJobs ELSE {}
    <2>1. InvalidateRows(t, J) /\ reserved' = reserved /\ J \in SUBSET Jobs
      BY <1>8, QuotaAssumption DEF UpdateSubscription
    <2>2. ASSUME NEW j \in Jobs
          PROVE  HeldOn(s)'[j] = IF s = t /\ j \in J THEN 0 ELSE HeldOn(s)[j]
      BY <1>1, <2>1, InvalidateHeld
    <2>3. CASE s # t
      <3>1. remaining'[s] = remaining[s]
        BY <1>1, <1>8, <2>3 DEF UpdateSubscription, LedgerType
      <3>. QED
        BY <1>4, <2>2, <2>3, <3>1
    <2>4. CASE s = t
      <3>1. quota = Keep
        BY <1>1, <1>8, <2>4 DEF UpdateSubscription, LedgerType
      <3>2. PICK refund \in (IF allowProxy[s] /\ ~proxy THEN ProxyRefunds(s) ELSE {0}) :
                    remaining' = [remaining EXCEPT ![s] = @ + refund]
        BY <1>8, <2>4, <3>1 DEF UpdateSubscription
      <3>3. PICK before : before = HeldOn(s)
        OBVIOUS
      <3>4. IsFiniteSet(Jobs) /\ IsFiniteSet(J) /\ \A j \in Jobs : before[j] \in Nat
        BY <1>3, <2>1, <3>3, QuotaAssumption, FS_Subset
      <3>5. refund = SumFunctionOnSet(before, J)
        <4>1. CASE allowProxy[s] /\ ~proxy
          BY <2>4, <3>2, <3>3, <4>1 DEF ProxyRefunds, HeldOn
        <4>2. CASE ~ (allowProxy[s] /\ ~proxy)
          <5>1. refund = 0 /\ \A j \in J : before[j] = 0
            BY <2>4, <3>2, <4>2
          <5>. HIDE DEF J
          <5>. QED
            BY <3>4, <5>1, SumOfZeros
        <4>. QED
          BY <4>1, <4>2
      <3>. DEFINE back == [j \in Jobs |-> IF j \in J THEN before[j] ELSE 0]
      <3>. HIDE DEF J
      <3>6. back \in [Jobs -> Int] /\ (\A j \in J : back[j] = before[j]) /\ \A j \in Jobs \ J : back[j] = 0
        BY <2>1, <3>4
      <3>7. \A j \in Jobs : HeldOn(s)'[j] = HeldOn(s)[j] - ConsumedOn(s)[j] - back[j]
        <4>. SUFFICES ASSUME NEW j \in Jobs
                      PROVE  HeldOn(s)'[j] = HeldOn(s)[j] - ConsumedOn(s)[j] - back[j]
          OBVIOUS
        <4>. HIDE DEF back
        <4>1. HeldOn(s)'[j] = IF j \in J THEN 0 ELSE before[j]
          BY <2>2, <2>4, <3>3
        <4>2. back[j] = IF j \in J THEN before[j] ELSE 0
          BY <3>6
        <4>3. before[j] \in Nat /\ HeldOn(s)[j] = before[j] /\ ConsumedOn(s)[j] = 0
          BY <1>3, <3>3, <3>4
        <4>. QED
          BY <4>1, <4>2, <4>3
      <3>. HIDE DEF back
      <3>8. SumFunctionOnSet(back, Jobs) = SumFunctionOnSet(before, J)
        <4>1. SumFunctionOnSet(back, Jobs) = SumFunctionOnSet(back, J)
          BY <2>1, <3>4, <3>6, SumRestricted
        <4>2. SumFunctionOnSet(back, J) = SumFunctionOnSet(before, J)
          BY <3>4, <3>6, SumCongruent
        <4>. QED
          BY <4>1, <4>2
      <3>9. remaining'[s] = remaining[s] + SumFunctionOnSet(back, Jobs)
        BY <1>1, <3>2, <3>5, <3>8 DEF LedgerType
      <3>. QED
        BY <1>1, <3>6, <3>7, <3>9, MovesConserve
    <2>. QED
      BY <2>3, <2>4
  <1>. QED
    BY <1>5, <1>6, <1>7, <1>8

\* The bytes a subscription can still give and those held on it for its
\* current generation change only when an administrator sets a new amount, or
\* by exactly what a job held when finalizeCompletedJob completes it: no
\* release, adjustment, invalidation, crash or reconciliation creates or loses
\* a byte.
THEOREM BytesAreConserved == Spec => QuotaConserved
  <1>1. ASSUME TypeOK, StageInv, HeldInv, LedgerSound, Next,
               NEW s \in Subs, life[s] # "absent", generation'[s] = generation[s]
        PROVE  Conserves(s)
    <2>. USE <1>1
    <2>1. LedgerType
      BY DEF TypeOK
    <2>2. ASSUME NEW j \in Jobs, Worker(j)
          PROVE  Conserves(s)
      <3>1. CASE FinalizeWrites(j) /\ pc[j] = "finalizing"
        <4>1. SettleTx(j) /\ Completes(j)
          BY <3>1, FinalizeCharges
        <4>2. \A k \in Jobs \ {j} : ~Completes(k)
          BY <2>2, WorkerRecords DEF Completes
        <4>. QED
          BY <2>1, <4>1, <4>2, SettleConserves
      <3>2. CASE /\ UNCHANGED ledger \/ Resolve({j}, {}) \/ (Rows(j) = {} /\ \E b \in Nat : TakeBytes(j, b))
                 /\ \A k \in Jobs : ~Completes(k)
        <4>1. {j} \in SUBSET Jobs
          OBVIOUS
        <4>. QED
          BY <2>1, <3>2, <4>1, StutterConserves, ReleaseConserves, TakeConserves
      <3>. QED
        BY <2>2, <3>1, <3>2, WorkerTransactions
    <2>3. ASSUME \/ \E j \in Jobs : Submit(j) \/ DeleteRecord(j)
                 \/ Tick \/ Crash \/ Shutdown \/ MarkInterrupted
          PROVE  Conserves(s)
      <3>1. UNCHANGED ledger
        BY <2>3 DEF Submit, DeleteRecord, Tick, Crash, Shutdown, Stop, MarkInterrupted
      <3>2. \A k \in Jobs : ~Completes(k)
        BY <2>3 DEF Submit, DeleteRecord, Tick, Crash, Shutdown, Stop, MarkInterrupted, records, Completes,
                    TypeOK, RecordType
      <3>. QED
        BY <2>1, <3>1, <3>2, StutterConserves
    <2>4. CASE Reconcile
      <3>1. {j \in Jobs : HasRows(j) /\ status[j] = "completed"} = {}
        BY DEF StageInv
      <3>2. Resolve({j \in Jobs : HasRows(j) /\ status[j] # "completed"}, {})
        BY <2>4, <3>1 DEF Reconcile
      <3>3. \A k \in Jobs : ~Completes(k)
        BY <2>4 DEF Reconcile, records, Completes
      <3>4. {j \in Jobs : HasRows(j) /\ status[j] # "completed"} \in SUBSET Jobs
        OBVIOUS
      <3>. QED
        BY <2>1, <3>2, <3>3, <3>4, ReleaseConserves
    <2>5. 0 \in Times
      BY QuotaAssumption DEF Times
    <2>. QED
      BY <2>2, <2>3, <2>4, <2>5, AdminConserves DEF Next
  <1>2. TypeOK /\ StageInv /\ HeldInv /\ LedgerSound /\ [Next]_vars =>
          [\A s \in Subs :
              life[s] # "absent" /\ generation'[s] = generation[s] =>
                  remaining'[s] + CurrentlyHeld(s)' = remaining[s] + CurrentlyHeld(s) - ConsumedNow(s)]_vars
    BY <1>1 DEF Conserves
  <1>. QED
    BY <1>2, HeldHolds, LedgerSoundness, PTL DEF Spec, QuotaConserved

=============================================================================
