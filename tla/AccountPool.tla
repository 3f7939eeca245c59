---------------------------- MODULE AccountPool ----------------------------
(***************************************************************************)
(* The pool of PikPak accounts: a map and an order in memory, saved whole  *)
(* to a table at every change, and put back when the save fails.           *)
(*                                                                         *)
(* An addition, a sign-in, a probe and the premium check talk to PikPak    *)
(* outside the lock, so an account may be gone, replaced or signed in      *)
(* again when they come back.  The completion of a job holds the lock      *)
(* while it books its traffic in the transaction that stores the job.      *)
(*                                                                         *)
(* The traffic of an account is the set of the charges it was booked for.  *)
(* A client is the number of the sign-in that made it, 0 when it was made  *)
(* from a row at a start.  Status, messages and parse errors are not kept. *)
(***************************************************************************)
EXTENDS Integers, SequencesExt

CONSTANTS
    Ids,         \* account ids, drawn from uuid
    Users,       \* PikPak user names
    Admins,      \* requests of administrators, at most one call each at a time
    Charges,     \* completions of jobs, each with traffic to book
    NoCharge,    \* nobody books traffic
    Configured,  \* the user whose credentials the configuration holds
    Limit,       \* the monthly limit of an account, in charges
    MaxMonth,    \* calendar months that begin
    MaxLogins,   \* sign-ins that succeed
    MaxFaults,   \* transactions that fail or whose commit is not confirmed
    MaxKills     \* kills of the process

ASSUME PoolAssumption ==
    /\ Ids # {}
    /\ NoCharge \notin Charges
    /\ Configured \in Users
    /\ {Limit, MaxMonth} \subseteq Nat \ {0}
    /\ {MaxLogins, MaxFaults, MaxKills} \subseteq Nat

VARIABLES
    poolUp,
    \* AccountPool.accounts and AccountPool.order
    accounts, order,
    \* pikpak_accounts by sort_order
    rows,
    \* the ids uuid has given out
    issued,
    \* the call of each administrator and of the health monitor
    calls,
    \* RefreshPremiumInfo: the client asked for each account, and the accounts
    \* whose state is still the object that was read
    asked, sameState,
    \* the completions: where each is, its account, and the month it began in
    stage, account, stamp,
    \* the holder of AccountPool.mu across steps, and accountTrafficUpdate.record
    locker, update,
    month, logins, poolFaults, poolKills,
    \* what committed completions booked in this month: <<charge, account>>
    billed,
    \* accounts whose traffic a known hazard has falsified (see TrafficIsBooked)
    disputed,
    \* a save was committed and reported as failed
    inDoubt,
    \* the accounts whose deletion was acknowledged and which nobody added since
    deleted

pool == <<accounts, order, sameState>>
booking == <<stage, account, stamp, locker, update, billed, disputed>>
premium == <<asked>>
ghosts == <<inDoubt, deleted>>
bounds == <<month, logins, poolFaults, poolKills>>
poolVars == <<poolUp, pool, rows, issued, calls, premium, booking, bounds, ghosts>>

Monitor == "monitor"
Callers == Admins \union {Monitor}
Clients == 0 .. MaxLogins
NotAsked == -1

Records == [user : Users, used : SUBSET Charges, period : 1 .. MaxMonth]
Accounts == [record : Records, client : Clients, premium : Clients \union {NotAsked}]
NoAccount == [client |-> NotAsked]
NoCall == [kind |-> "idle"]
NoUpdate == [used |-> {}]

Present(id) == accounts[id] # NoAccount
Pooled == {id \in Ids : Present(id)}
RowIds == {rows[i].id : i \in DOMAIN rows}

PoolTypeOK ==
    /\ poolUp \in BOOLEAN
    /\ accounts \in [Ids -> Accounts \union {NoAccount}]
    /\ order \in Seq(Ids) /\ IsInjective(order) /\ Range(order) = Pooled
    /\ rows \in Seq([id : Ids, record : Records])
    /\ \A i, k \in DOMAIN rows : rows[i].id = rows[k].id => i = k
    /\ issued \subseteq Ids /\ Pooled \union RowIds \subseteq issued
    /\ calls \in [Callers -> [kind : {"idle"}]
                     \union [kind : {"add"}, id : issued, user : Users]
                     \union [kind : {"login"}, id : issued]]
    /\ asked \in [Ids -> Clients \union {NotAsked}]
    /\ sameState \subseteq Pooled
    /\ stage \in [Charges -> {"new", "resolving", "completing", "locked", "committed", "failed", "done"}]
    /\ account \in [Charges -> Ids]
    /\ stamp \in [Charges -> 1 .. MaxMonth]
    /\ locker \in Charges \union {NoCharge}
    /\ update \in Records \union {NoUpdate}
    /\ month \in 1 .. MaxMonth /\ logins \in Clients
    /\ poolFaults \in 0 .. MaxFaults /\ poolKills \in 0 .. MaxKills
    /\ billed \subseteq Charges \X Ids
    /\ disputed \subseteq Ids /\ deleted \subseteq Ids
    /\ inDoubt \in BOOLEAN

\* An account a former process has left.
OldRow(id) == [id |-> id, record |-> [user |-> Configured, used |-> {}, period |-> 1]]

PoolInit ==
    /\ poolUp = FALSE
    /\ accounts = [id \in Ids |-> NoAccount]
    /\ order = <<>>
    /\ rows \in {<<>>, <<OldRow(CHOOSE id \in Ids : TRUE)>>}
    /\ issued = RowIds
    /\ calls = [c \in Callers |-> NoCall]
    /\ asked = [id \in Ids |-> NotAsked]
    /\ sameState = {}
    /\ stage = [c \in Charges |-> "new"]
    /\ account = [c \in Charges |-> CHOOSE id \in Ids : TRUE]
    /\ stamp = [c \in Charges |-> 1]
    /\ locker = NoCharge /\ update = NoUpdate
    /\ month = 1 /\ logins = 0 /\ poolFaults = 0 /\ poolKills = 0
    /\ billed = {} /\ disputed = {}
    /\ inDoubt = FALSE /\ deleted = {}

-----------------------------------------------------------------------------
(* Saving.                                                                 *)

Unlocked == poolUp /\ locker = NoCharge

PoolRows(accts, ids) == [i \in DOMAIN ids |-> [id |-> ids[i], record |-> accts[ids[i]].record]]

PoolFault ==
    /\ poolFaults < MaxFaults
    /\ poolFaults' = poolFaults + 1

NoPoolFault == UNCHANGED poolFaults

\* The snapshot is put back: the records as they were, in objects of their own.
RollBack(accts, ids) ==
    /\ sameState' = {}
    /\ UNCHANGED <<accounts, order>>

\* saveOrRollbackLocked, after a change to accts and ids that keeps the objects
\* in kept.  Replace writes the whole pool; a failure may come from a commit
\* that reached the table.
Saved(accts, ids, kept) ==
    /\ NoPoolFault
    /\ accounts' = accts
    /\ order' = ids
    /\ sameState' = sameState \intersect kept
    /\ rows' = PoolRows(accts, ids)
    /\ inDoubt' = FALSE

NotSaved(accts, ids) ==
    /\ PoolFault
    /\ RollBack(accts, ids)
    /\ \/ UNCHANGED <<rows, inDoubt>>
       \/ rows' = PoolRows(accts, ids) /\ inDoubt' = TRUE

SaveOrRollback(accts, ids, kept) == Saved(accts, ids, kept) \/ NotSaved(accts, ids)

\* A change of a record that no property tells apart: MarkFailed, MarkAvailable,
\* MarkCredentialCheckSuccess, MarkCredentialCheckFailed, ResetFailure,
\* RecordParseError, DeleteParseError, SetTrafficLimit, EnsureCredentialSchedule.
Touch(id) ==
    /\ Unlocked /\ Present(id)
    /\ SaveOrRollback(accounts, order, Ids)
    /\ UNCHANGED <<poolUp, issued, calls, premium, booking, month, logins, poolKills, deleted>>

-----------------------------------------------------------------------------
(* Add.                                                                    *)

Return(c) == calls' = [calls EXCEPT ![c] = NoCall]

\* accountIdentity, which reads the map without the lock: any account of the
\* user there is, else a new id.
IdentitiesOf(user) ==
    LET known == {id \in Pooled : accounts[id].record.user = user}
    IN  IF known # {} THEN known ELSE Ids \ issued

AddBegins(c, user) ==
    /\ poolUp
    /\ calls[c] = NoCall
    /\ logins < MaxLogins
    /\ \E id \in IdentitiesOf(user) :
          /\ calls' = [calls EXCEPT ![c] = [kind |-> "add", id |-> id, user |-> user]]
          /\ issued' = issued \union {id}
    /\ UNCHANGED <<poolUp, pool, rows, premium, booking, bounds, ghosts>>

NewRecord(user) == [user |-> user, used |-> {}, period |-> month]

\* Mutant: an account added again begins the month anew.
AddedAfresh(id, user, client) ==
    [record |-> NewRecord(user), client |-> client, premium |-> client]

\* An account that is there keeps its traffic and its schedule.
Added(id, user, client) ==
    [record |-> IF Present(id) THEN [accounts[id].record EXCEPT !.user = user]
                ELSE NewRecord(user),
     client |-> client, premium |-> client]

\* UpsertWithSession: the row in its place, or at the end.
Upsert(id, record) ==
    rows' = IF id \in RowIds
               THEN [i \in DOMAIN rows |-> IF rows[i].id = id THEN [id |-> id, record |-> record] ELSE rows[i]]
               ELSE Append(rows, [id |-> id, record |-> record])

AddEnds(c) ==
    /\ Unlocked
    /\ calls[c].kind = "add"
    /\ Return(c)
    /\ logins < MaxLogins
    /\ logins' = logins + 1
    /\ LET id  == calls[c].id
           new == Added(id, calls[c].user, logins + 1)
       IN  \/ /\ NoPoolFault
              /\ Upsert(id, new.record)
              /\ accounts' = [accounts EXCEPT ![id] = new]
              /\ order' = IF Present(id) THEN order ELSE Append(order, id)
              /\ sameState' = sameState \ {id}
              /\ deleted' = deleted \ {id}
              /\ billed' = {b \in billed : Present(id) \/ b[2] # id}
              /\ UNCHANGED inDoubt
           \/ /\ PoolFault
              /\ \/ UNCHANGED <<rows, inDoubt, deleted>>
                 \/ Upsert(id, new.record) /\ inDoubt' = TRUE /\ deleted' = deleted \ {id}
              /\ UNCHANGED <<pool, billed>>
    /\ UNCHANGED <<poolUp, issued, premium, stage, account, stamp, locker, update, disputed,
                   month, poolKills>>

\* The sign-in at PikPak fails.
CallFails(c) ==
    /\ poolUp
    /\ calls[c] # NoCall
    /\ Return(c)
    /\ UNCHANGED <<poolUp, pool, rows, issued, premium, booking, bounds, ghosts>>

-----------------------------------------------------------------------------
(* Delete.                                                                 *)

Delete(id) ==
    /\ Unlocked /\ Present(id)
    /\ LET accts == [accounts EXCEPT ![id] = NoAccount]
           rest  == RemoveAt(order, CHOOSE i \in DOMAIN order : order[i] = id)
       IN  \/ /\ Saved(accts, rest, Ids \ {id})
              /\ deleted' = deleted \union {id}
              /\ billed' = {b \in billed : b[2] # id}
           \/ /\ NotSaved(accts, rest)
              /\ UNCHANGED <<deleted, billed>>
    /\ UNCHANGED <<poolUp, issued, calls, premium, stage, account, stamp, locker, update, disputed,
                   month, logins, poolKills>>

-----------------------------------------------------------------------------
(* RefreshLogin, for an administrator and for the monitor.                 *)

LoginBegins(c, id) ==
    /\ Unlocked /\ Present(id)
    /\ c # Monitor /\ calls[c] = NoCall
    /\ calls' = [calls EXCEPT ![c] = [kind |-> "login", id |-> id]]
    /\ UNCHANGED <<poolUp, pool, rows, issued, premium, booking, bounds, ghosts>>

\* Mutant: the account is not looked up again after the sign-in.
StillThereAny(id) == TRUE

StillThere(id) == Present(id)

SignedIn(id, client) ==
    [record |-> IF Present(id) THEN accounts[id].record
                ELSE NewRecord(Configured),
     client |-> client, premium |-> client]

LoginEnds(c) ==
    /\ Unlocked
    /\ calls[c].kind = "login"
    /\ Return(c)
    /\ logins < MaxLogins
    /\ logins' = logins + 1
    /\ LET id    == calls[c].id
           accts == [accounts EXCEPT ![id] = SignedIn(id, logins + 1)]
           ids   == IF Present(id) THEN order ELSE Append(order, id)
       IN  IF StillThere(id)
              THEN SaveOrRollback(accts, ids, Ids)
              ELSE UNCHANGED <<pool, rows, inDoubt, poolFaults>>
    /\ UNCHANGED <<poolUp, issued, premium, booking, month, poolKills, deleted>>

-----------------------------------------------------------------------------
(* The health monitor, one account at a time; any may be the next due.  A   *)
(* probe that passes changes no more than Touch.  The gap between automatic *)
(* sign-ins is of any length.                                               *)

\* A probe of an account, which may have gone meanwhile, fails, and the gap is over
\* and can be stored to begin anew (reserveAutoAccountRefresh): the monitor signs in.
ProbeFails(id) ==
    /\ poolUp
    /\ id \in issued
    /\ calls[Monitor] = NoCall
    /\ calls' = [calls EXCEPT ![Monitor] = [kind |-> "login", id |-> id]]
    /\ UNCHANGED <<poolUp, pool, rows, issued, premium, booking, bounds, ghosts>>

-----------------------------------------------------------------------------
(* RefreshPremiumInfo.                                                     *)

\* triggerPremiumRefresh: premiumRefreshActive keeps the checks to one at a time.
OneCheckAtATime == \A id \in Ids : asked[id] = NotAsked

AskPremium ==
    /\ Unlocked
    /\ OneCheckAtATime
    /\ \E targets \in SUBSET Pooled \ {{}} :
          /\ asked' = [id \in Ids |-> IF id \in targets THEN accounts[id].client ELSE NotAsked]
          /\ sameState' = targets
    /\ UNCHANGED <<poolUp, accounts, order, rows, issued, calls, booking, bounds, ghosts>>

\* Mutant: the client is not compared, and a sign-in changes it in place.
PublishesSameState(id) == Present(id) /\ id \in sameState

Publishes(id) == Present(id) /\ id \in sameState /\ asked[id] = accounts[id].client

\* A check that times out has no answer for some accounts.
PublishPremium ==
    /\ Unlocked
    /\ \E answered \in SUBSET {id \in Ids : asked[id] # NotAsked} :
          LET news == {id \in answered : Publishes(id)}
          IN  IF news = {} THEN UNCHANGED <<pool, rows, inDoubt, poolFaults>>
              ELSE SaveOrRollback([id \in Ids |-> IF id \in news THEN [accounts[id] EXCEPT !.premium = asked[id]]
                                                   ELSE accounts[id]], order, Ids)
    /\ \E id \in Ids : asked[id] # NotAsked
    /\ asked' = [id \in Ids |-> NotAsked]
    /\ UNCHANGED <<poolUp, issued, calls, booking, month, logins, poolKills, deleted>>

-----------------------------------------------------------------------------
(* Traffic.                                                                *)

\* effectiveTrafficUsed
EffectiveUsed(record) == IF record.period = month THEN record.used ELSE {}

\* accountTrafficLimited
TrafficLimited(record) == Cardinality(EffectiveUsed(record)) >= Limit

\* ResolveOrder, whichever account the rotation begins with.
ResolveOrder == {id \in Pooled : ~TrafficLimited(accounts[id].record)}

Advance(c, to) == stage' = [stage EXCEPT ![c] = to]

\* The completion is over, with the job completed or failed.
CompletionEnds(c) ==
    /\ Advance(c, "done")
    /\ account' = [account EXCEPT ![c] = CHOOSE id \in Ids : TRUE]
    /\ stamp' = [stamp EXCEPT ![c] = 1]

Resolve(c) ==
    /\ Unlocked
    /\ stage[c] = "new"
    /\ \E id \in ResolveOrder : account' = [account EXCEPT ![c] = id]
    /\ Advance(c, "resolving")
    /\ UNCHANGED <<poolUp, pool, rows, issued, calls, premium, stamp, locker, update, billed, disputed,
                   bounds, ghosts>>

\* finalizeCompletedJob reads the clock, then waits for the lock.
BeginCompletion(c) ==
    /\ poolUp
    /\ stage[c] = "resolving"
    /\ Advance(c, "completing")
    /\ stamp' = [stamp EXCEPT ![c] = month]
    /\ UNCHANGED <<poolUp, pool, rows, issued, calls, premium, account, locker, update, billed, disputed,
                   bounds, ghosts>>

\* The charge in the month it is stamped with, which the record follows.
Booked(c, record) ==
    IF record.period = stamp[c] THEN [record EXCEPT !.used = @ \union {c}]
    ELSE [record EXCEPT !.used = {c}, !.period = stamp[c]]

\* Mutant: the lock is not kept while the transaction runs.
LockNot(c) == UNCHANGED locker

Lock(c) == locker' = c

BeginTraffic(c) ==
    /\ Unlocked
    /\ stage[c] = "completing"
    /\ IF Present(account[c])
          THEN /\ Lock(c)
               /\ update' = Booked(c, accounts[account[c]].record)
               /\ Advance(c, "locked")
               /\ UNCHANGED <<account, stamp>>
               /\ disputed' = IF stamp[c] < accounts[account[c]].record.period
                                 THEN disputed \union {account[c]} ELSE disputed
          ELSE /\ CompletionEnds(c)
               /\ UNCHANGED <<locker, update, disputed>>
    /\ UNCHANGED <<poolUp, pool, rows, issued, calls, premium, billed, bounds, ghosts>>

Write(c) ==
    /\ account[c] \in RowIds
    /\ rows' = [i \in DOMAIN rows |-> IF rows[i].id = account[c] THEN [rows[i] EXCEPT !.record = update] ELSE rows[i]]
    /\ billed' = IF stamp[c] = month THEN billed \union {<<c, account[c]>>} ELSE billed

\* The transaction that stores the completed job: it commits; fails, on a fault
\* or as the account has no row; or its commit is not confirmed.
CompletionTx(c) ==
    /\ poolUp
    /\ stage[c] = "locked"
    /\ \/ Write(c) /\ Advance(c, "committed") /\ UNCHANGED disputed /\ NoPoolFault
       \/ /\ UNCHANGED <<rows, billed, disputed>> /\ Advance(c, "failed")
          /\ IF account[c] \in RowIds THEN PoolFault ELSE NoPoolFault
       \/ /\ Write(c) /\ Advance(c, "failed") /\ PoolFault
          /\ disputed' = disputed \union {account[c]}
    /\ inDoubt' = (inDoubt \/ (stage'[c] = "failed" /\ rows' # rows))
    /\ UNCHANGED <<poolUp, pool, issued, calls, premium, account, stamp, locker, update,
                   month, logins, poolKills, deleted>>

Finishes(c) == stage[c] = "committed" /\ Present(account[c])

Finish(c) ==
    /\ poolUp
    /\ stage[c] \in {"committed", "failed"}
    /\ accounts' = IF Finishes(c) THEN [accounts EXCEPT ![account[c]].record = update] ELSE accounts
    /\ locker' = NoCharge /\ update' = NoUpdate
    /\ CompletionEnds(c)
    /\ UNCHANGED <<poolUp, order, sameState, rows, issued, calls, premium, billed, disputed,
                   bounds, ghosts>>

NewMonth ==
    /\ month < MaxMonth
    /\ month' = month + 1
    /\ billed' = {}
    /\ UNCHANGED <<poolUp, pool, rows, issued, calls, premium, stage, account, stamp, locker, update, disputed,
                   logins, poolFaults, poolKills, ghosts>>

-----------------------------------------------------------------------------
(* The process.                                                            *)

\* load
Load(stored) ==
    LET ids == [i \in DOMAIN stored |-> stored[i].id]
    IN  /\ rows' = stored
        /\ order' = ids
        /\ accounts' = [id \in Ids |->
              IF id \in Range(ids)
                 THEN [record |-> stored[CHOOSE i \in DOMAIN ids : ids[i] = id].record, client |-> 0, premium |-> NotAsked]
                 ELSE NoAccount]

\* AddBootstrap, when there is no account.
Bootstrap ==
    /\ rows = <<>>
    /\ \E id \in Ids \ issued :
          /\ issued' = issued \union {id}
          /\ Load(<<[id |-> id, record |-> NewRecord(Configured)]>>)

Start ==
    /\ ~poolUp
    /\ Bootstrap \/ (Load(rows) /\ UNCHANGED issued)
    /\ poolUp' = TRUE
    /\ inDoubt' = FALSE
    /\ UNCHANGED <<sameState, calls, premium, booking, bounds, deleted>>

Kill ==
    /\ poolUp
    /\ poolKills < MaxKills
    /\ poolKills' = poolKills + 1
    /\ poolUp' = FALSE
    /\ accounts' = [id \in Ids |-> NoAccount]
    /\ order' = <<>> /\ sameState' = {}
    /\ calls' = [c \in Callers |-> NoCall]
    /\ asked' = [id \in Ids |-> NotAsked]
    /\ stage' = [c \in Charges |-> IF stage[c] = "new" THEN "new" ELSE "done"]
    /\ account' = [c \in Charges |-> CHOOSE id \in Ids : TRUE]
    /\ stamp' = [c \in Charges |-> 1]
    /\ locker' = NoCharge /\ update' = NoUpdate
    /\ UNCHANGED <<rows, issued, billed, disputed, month, logins, poolFaults, ghosts>>

PoolNext ==
    \/ \E c \in Admins, u \in Users : AddBegins(c, u)
    \/ \E c \in Callers : AddEnds(c) \/ CallFails(c) \/ LoginEnds(c)
    \/ \E c \in Admins, id \in Ids : LoginBegins(c, id)
    \/ \E id \in Ids : Touch(id) \/ Delete(id) \/ ProbeFails(id)
    \/ AskPremium \/ PublishPremium
    \/ \E c \in Charges : \/ Resolve(c) \/ BeginCompletion(c) \/ BeginTraffic(c)
                          \/ CompletionTx(c) \/ Finish(c)
    \/ NewMonth
    \/ Start \/ Kill

PoolSpec == PoolInit /\ [][PoolNext]_poolVars

-----------------------------------------------------------------------------
(* Properties.                                                             *)

\* The map and the order in memory and the rows are the same accounts in the
\* same order with the same records whenever the lock is free, whatever failed:
\* only a save that was committed and reported as failed parts them, until the
\* next save that succeeds or the next start (saveOrRollbackLocked, Add,
\* finalizeCompletedJob).
PoolIsDurable == Unlocked /\ ~inDoubt => rows = PoolRows(accounts, order)

\* What an account has used this month is what the completions that were
\* committed since it was added booked on it: saves of the whole pool,
\* additions of an account that is there, sign-ins and restarts lose no charge
\* and count none twice.  Excepted are accounts with a completion whose commit
\* was not confirmed, which a later save of the pool may undo, and with one
\* that read the clock before a new month and got the lock after another of the
\* new month, which it undoes.
TrafficIsBooked ==
    Unlocked => \A id \in Pooled \ disputed :
        EffectiveUsed(accounts[id].record) = {c \in Charges : <<c, id>> \in billed}

\* An account whose deletion was acknowledged is neither in the pool nor in the
\* table until somebody adds it, whatever sign-in, probe, premium check or
\* completion was under way, and after a restart (RefreshLogin, finish).
DeletedStaysDeleted == \A id \in deleted : ~Present(id) /\ id \notin RowIds

\* The premium information shown for an account is an answer to the client it
\* has: no check that began before a sign-in or an addition overwrites what
\* these have found (RefreshPremiumInfo).
PremiumIsCurrent == \A id \in Pooled : accounts[id].premium \in {NotAsked, accounts[id].client}

=============================================================================
