---------------------------- MODULE ResolveQueue ----------------------------
(***************************************************************************)
(* The resolve queue: the one dispatcher that starts a worker goroutine    *)
(* per entry, the map of running job ids that is its slot count, jobs that *)
(* pause for a file selection and come back with a higher priority, the    *)
(* live change of the number of slots, and the shutdown that drains it.    *)
(*                                                                         *)
(* Every section of the code under the queue's mutex is one action.  A     *)
(* worker is a job's turn: its first run, or the run of a resumed job; it  *)
(* is "working" until its run function returns or has parked the job, and  *)
(* "leaving" until it gives its slot back.                                 *)
(***************************************************************************)
EXTENDS Integers, Sequences, FiniteSets, FiniteSetsExt

CONSTANTS
    Jobs,
    AdminJobs,       \* those submitted by an administrator
    Requests,        \* numbers of slots an administrator asks for
    MaxConcurrency,  \* maxResolveConcurrency
    Capacity,        \* maxGlobalNonterminalJobs
    MaxTurns         \* bound on how often one job is enqueued

ASSUME QueueAssumption ==
    /\ AdminJobs \subseteq Jobs
    /\ Requests \subseteq Int /\ Requests # {}
    /\ MaxConcurrency \in Nat \ {0}
    /\ Capacity \in Nat \ {0}
    /\ MaxTurns \in Nat \ {0}

VARIABLES
    \* the queue's fields
    entries, running, concurrency, closed,
    \* the dispatcher goroutine, and the workers it started
    dispatcher, worker,
    \* the call of shutdown: how far it is, the entries it took over, and
    \* whether it saw a dispatcher it has to wait for
    shutdown, pending, runStarted,
    \* the job store, as far as the queue's callers decide on it, the requests
    \* between their write to it and their call of enqueue, and the number of
    \* times a job was enqueued
    status, arriving, turn

queue == <<entries, running, concurrency, closed>>
closing == <<shutdown, pending, runStarted>>
callers == <<status, arriving>>
vars == <<queue, dispatcher, worker, closing, callers, turn>>

PriorityUser == 0
PriorityAdmin == 1
PriorityResume == 2

Turns == 1..MaxTurns
Entries == [job: Jobs, priority: {PriorityUser, PriorityAdmin, PriorityResume}, turn: Turns]

\* "active" is queued or running; a "stranded" job is one whose failure could
\* not be stored, so that a restart was requested.
Statuses == {"new", "active", "selection", "completed", "failed", "stranded"}

Clamp(n) == IF n < 1 THEN 1 ELSE IF n > MaxConcurrency THEN MaxConcurrency ELSE n

TypeOK ==
    /\ entries \in Seq(Entries)
    /\ running \subseteq Jobs
    /\ concurrency \in 1..MaxConcurrency
    /\ closed \in BOOLEAN
    /\ dispatcher \in {"created", "awake", "asleep", "done"}
    /\ worker \in [Jobs -> [Turns -> {"none", "working", "leaving"}]]
    /\ shutdown \in {"no", "failing", "joining", "draining", "done"}
    /\ pending \in Seq(Entries)
    /\ runStarted \in BOOLEAN
    /\ status \in [Jobs -> Statuses]
    /\ arriving \subseteq Jobs
    /\ turn \in [Jobs -> 0..MaxTurns]

Init ==
    /\ entries = <<>>
    /\ running = {}
    /\ concurrency \in {Clamp(n) : n \in Requests}
    /\ closed = FALSE
    /\ dispatcher = "created"
    /\ worker = [j \in Jobs |-> [t \in Turns |-> "none"]]
    /\ shutdown = "no"
    /\ pending = <<>>
    /\ runStarted = FALSE
    /\ status = [j \in Jobs |-> "new"]
    /\ arriving = {}
    /\ turn = [j \in Jobs |-> 0]

-----------------------------------------------------------------------------
(* Helpers.                                                                *)

Waiting(j) == \E i \in 1..Len(entries) : entries[i].job = j

EntryOf(j) == entries[Min({i \in 1..Len(entries) : entries[i].job = j})]

Workers(stages) == {w \in Jobs \X Turns : worker[w[1]][w[2]] \in stages}

\* cond.Broadcast: only the dispatcher ever waits.
Broadcast == dispatcher' = IF dispatcher = "asleep" THEN "awake" ELSE dispatcher

\* failJob: the failure is stored, or a restart is requested.
Fails(j) == \E s \in {"failed", "stranded"} : status' = [status EXCEPT ![j] = s]

CanDispatch == entries # <<>> /\ Cardinality(running) < concurrency

\* Mutant: an entry goes before those of its own priority.
PlaceInQueueBeforeEqual(priority) ==
    Min({i \in 1..Len(entries) : entries[i].priority <= priority} \union {Len(entries) + 1})

\* After the last entry whose priority is at least as high.
PlaceInQueue(priority) ==
    Min({i \in 1..Len(entries) : entries[i].priority < priority} \union {Len(entries) + 1})

Inserted(e) ==
    LET at == PlaceInQueue(e.priority)
    IN  SubSeq(entries, 1, at - 1) \o <<e>> \o SubSeq(entries, at, Len(entries))

PriorityOf(j) ==
    IF turn[j] > 0 THEN PriorityResume
    ELSE IF j \in AdminJobs THEN PriorityAdmin
    ELSE PriorityUser

\* How many jobs must end before j starts, as the queue reports it.
Position(j) ==
    IF j \in running \/ ~Waiting(j) THEN 0
    ELSE LET i == Min({k \in 1..Len(entries) : entries[k].job = j})
         IN  Max({0, (i - 1) + Cardinality(running) - concurrency + 1})

-----------------------------------------------------------------------------
(* The callers: handlers that create jobs, take selections, expire them    *)
(* and change the number of slots.                                         *)

\* withCapacity and jobs.create.
Submit(j) ==
    /\ status[j] = "new"
    /\ Cardinality({k \in Jobs : status[k] \in {"active", "selection", "stranded"}}) < Capacity
    /\ status' = [status EXCEPT ![j] = "active"]
    /\ arriving' = arriving \union {j}
    /\ UNCHANGED <<queue, dispatcher, worker, closing, turn>>

\* Mutant: the check that the job still waits for a selection is gone.
SelectUnchecked(j) ==
    /\ status[j] \in {"selection", "active"} /\ turn[j] \in 1..(MaxTurns - 1)
    /\ status' = [status EXCEPT ![j] = "active"]
    /\ arriving' = arriving \union {j}
    /\ UNCHANGED <<queue, dispatcher, worker, closing, turn>>

\* applyItemSelection, applyItemsSelection: the update of the job.
Select(j) ==
    /\ status[j] = "selection" /\ turn[j] < MaxTurns
    /\ status' = [status EXCEPT ![j] = "active"]
    /\ arriving' = arriving \union {j}
    /\ UNCHANGED <<queue, dispatcher, worker, closing, turn>>

\* expireSelectionJob, thirty minutes after the job was parked.
Expire(j) ==
    /\ status[j] = "selection"
    /\ Fails(j)
    /\ UNCHANGED <<queue, dispatcher, worker, closing, arriving, turn>>

\* Mutant: a new entry does not wake the dispatcher.
EnqueueSilently(j) ==
    /\ j \in arriving
    /\ arriving' = arriving \ {j}
    /\ ~closed /\ Len(entries) + Cardinality(running) < Capacity
    /\ entries' = Inserted([job |-> j, priority |-> PriorityOf(j), turn |-> turn[j] + 1])
    /\ turn' = [turn EXCEPT ![j] = @ + 1]
    /\ UNCHANGED <<status, dispatcher, running, concurrency, closed, worker, closing>>

Enqueue(j) ==
    /\ j \in arriving
    /\ arriving' = arriving \ {j}
    /\ \/ /\ closed \/ Len(entries) + Cardinality(running) >= Capacity
          /\ Fails(j)
          /\ UNCHANGED <<entries, turn, dispatcher>>
       \/ /\ ~closed /\ Len(entries) + Cardinality(running) < Capacity
          /\ entries' = Inserted([job |-> j, priority |-> PriorityOf(j), turn |-> turn[j] + 1])
          /\ turn' = [turn EXCEPT ![j] = @ + 1]
          /\ Broadcast
          /\ UNCHANGED status
    /\ UNCHANGED <<running, concurrency, closed, worker, closing>>

SetConcurrency(n) ==
    /\ concurrency' = Clamp(n)
    /\ Broadcast
    /\ UNCHANGED <<entries, running, closed, worker, closing, callers, turn>>

-----------------------------------------------------------------------------
(* The dispatcher: run.                                                    *)

StartDispatcher ==
    /\ dispatcher = "created"
    /\ dispatcher' = "awake"
    /\ UNCHANGED <<queue, worker, closing, callers, turn>>

\* cond.Wait
Sleep ==
    /\ dispatcher = "awake" /\ ~closed /\ ~CanDispatch
    /\ dispatcher' = "asleep"
    /\ UNCHANGED <<queue, worker, closing, callers, turn>>

Dispatch ==
    /\ dispatcher = "awake" /\ ~closed /\ CanDispatch
    /\ LET e == Head(entries)
       IN  /\ running' = running \union {e.job}
           /\ worker' = [worker EXCEPT ![e.job][e.turn] = "working"]
    /\ entries' = Tail(entries)
    /\ UNCHANGED <<concurrency, closed, dispatcher, closing, callers, turn>>

DispatcherExits ==
    /\ dispatcher = "awake" /\ closed
    /\ dispatcher' = "done"
    /\ UNCHANGED <<queue, worker, closing, callers, turn>>

-----------------------------------------------------------------------------
(* The workers.                                                            *)

\* Mutant: parking the job frees its slot before the worker has left.
PauseFreesSlot(j, t) ==
    /\ worker[j][t] = "working"
    /\ status' = [status EXCEPT ![j] = "selection"]
    /\ worker' = [worker EXCEPT ![j][t] = "leaving"]
    /\ running' = running \ {j}
    /\ UNCHANGED <<entries, concurrency, closed, dispatcher, closing, arriving, turn>>

\* requestSelection: the job is parked, and may be resumed, before the worker
\* has left.
Pause(j, t) ==
    /\ worker[j][t] = "working"
    /\ status' = [status EXCEPT ![j] = "selection"]
    /\ worker' = [worker EXCEPT ![j][t] = "leaving"]
    /\ UNCHANGED <<queue, dispatcher, closing, arriving, turn>>

\* The run function completes or fails the job; a panic and an exhausted
\* time budget are failures.
Finish(j, t) ==
    /\ worker[j][t] = "working"
    /\ Fails(j) \/ status' = [status EXCEPT ![j] = "completed"]
    /\ worker' = [worker EXCEPT ![j][t] = "leaving"]
    /\ UNCHANGED <<queue, dispatcher, closing, arriving, turn>>

Leave(j, t) ==
    /\ worker[j][t] = "leaving"
    /\ running' = running \ {j}
    /\ worker' = [worker EXCEPT ![j][t] = "none"]
    /\ Broadcast
    /\ UNCHANGED <<entries, concurrency, closed, closing, callers, turn>>

-----------------------------------------------------------------------------
(* shutdown.                                                               *)

\* Mutant: shutdown does not wake the dispatcher.
ShutdownSilently ==
    /\ shutdown = "no" /\ shutdown' = "failing"
    /\ closed' = TRUE
    /\ pending' = entries /\ entries' = <<>>
    /\ runStarted' = (dispatcher # "created")
    /\ UNCHANGED <<running, concurrency, dispatcher, worker, callers, turn>>

Shutdown ==
    /\ shutdown = "no" /\ shutdown' = "failing"
    /\ closed' = TRUE
    /\ pending' = entries /\ entries' = <<>>
    /\ runStarted' = (dispatcher # "created")
    /\ Broadcast
    /\ UNCHANGED <<running, concurrency, worker, callers, turn>>

FailPending ==
    /\ shutdown = "failing" /\ pending # <<>>
    /\ Fails(Head(pending).job)
    /\ pending' = Tail(pending)
    /\ UNCHANGED <<queue, dispatcher, worker, shutdown, runStarted, arriving, turn>>

AllFailed ==
    /\ shutdown = "failing" /\ pending = <<>>
    /\ shutdown' = IF runStarted THEN "joining" ELSE "draining"
    /\ UNCHANGED <<queue, dispatcher, worker, pending, runStarted, callers, turn>>

DispatcherJoined ==
    /\ shutdown = "joining" /\ dispatcher = "done"
    /\ shutdown' = "draining"
    /\ UNCHANGED <<queue, dispatcher, worker, pending, runStarted, callers, turn>>

\* Mutant: shutdown returns without waiting for the workers.
DrainedAtOnce ==
    /\ shutdown = "draining"
    /\ shutdown' = "done"
    /\ UNCHANGED <<queue, dispatcher, worker, pending, runStarted, callers, turn>>

\* workers.Wait
Drained ==
    /\ shutdown = "draining" /\ Workers({"working", "leaving"}) = {}
    /\ shutdown' = "done"
    /\ UNCHANGED <<queue, dispatcher, worker, pending, runStarted, callers, turn>>

-----------------------------------------------------------------------------

Dispatcher == StartDispatcher \/ Sleep \/ Dispatch \/ DispatcherExits

Worker(j, t) == Pause(j, t) \/ Finish(j, t) \/ Leave(j, t)

ShutdownSteps == FailPending \/ AllFailed \/ DispatcherJoined \/ Drained

Next ==
    \/ \E j \in Jobs : Submit(j) \/ Select(j) \/ Expire(j) \/ Enqueue(j)
    \/ \E n \in Requests : SetConcurrency(n)
    \/ Dispatcher
    \/ \E j \in Jobs, t \in Turns : Worker(j, t)
    \/ Shutdown
    \/ ShutdownSteps

Spec == Init /\ [][Next]_vars

\* Goroutines are scheduled, a handler that wrote the job goes on to call
\* enqueue, and the time budget of an entry bounds its run.  Nobody has to
\* submit, select, expire or shut down anything.
Fairness ==
    /\ WF_vars(Dispatcher)
    /\ WF_vars(ShutdownSteps)
    /\ \A j \in Jobs : WF_vars(Enqueue(j))
    /\ \A j \in Jobs, t \in Turns : WF_vars(Worker(j, t))

FairSpec == Spec /\ Fairness

-----------------------------------------------------------------------------
(* Properties.                                                             *)

\* An active job is in exactly one place: in a request about to enqueue it, in
\* the queue, in the hands of shutdown, or with one worker; any other job is
\* in none.  So no job is resolved twice at a time, whatever selections,
\* expiries and shutdowns race, and none is accepted and forgotten.
Places(j) ==
    Cardinality({i \in 1..Len(entries) : entries[i].job = j})
    + Cardinality({i \in 1..Len(pending) : pending[i].job = j})
    + Cardinality({t \in Turns : worker[j][t] = "working"})
    + (IF j \in arriving THEN 1 ELSE 0)

OnePlacePerJob ==
    \A j \in Jobs : Places(j) = IF status[j] = "active" THEN 1 ELSE 0

\* When shutdown returns, the database may be closed: no worker is alive, none
\* will be started, and no entry was left behind without being failed.
ShutdownLeavesNothing ==
    shutdown = "done" =>
        /\ Workers({"working", "leaving"}) = {}
        /\ entries = <<>> /\ pending = <<>>
        /\ \A j \in Jobs : status[j] = "active" => j \in arriving

\* The position a waiting job is told (by then its previous worker has left)
\* rises only when the limit is lowered or an entry of a higher priority jumps
\* ahead of it: a job is never overtaken by one of its own priority.
PositionNeverRises ==
    [][\A j \in Jobs :
        Waiting(j) /\ Waiting(j)' /\ j \notin running /\ Position(j)' > Position(j) =>
            \/ concurrency' < concurrency
            \/ \E k \in arriving \ arriving' : PriorityOf(k) > EntryOf(j).priority]_vars

\* A worker is started only while fewer than `concurrency` goroutines are alive.
WorkersWithinLimit ==
    [][LET alive == Workers({"working", "leaving"})
       IN  Workers({"working", "leaving"})' \ alive # {} => Cardinality(alive) < concurrency]_vars

\* Every job that was accepted or resumed is eventually resolved, parked or failed:
\* no wakeup of the dispatcher is lost and no slot leaks.  The jobs and their turns
\* are finite here.  Of a stream of jobs that never ends it says nothing: the queue
\* is strictly by priority, without ageing, and lets those in front starve a job.
ActiveJobsEnd == \A j \in Jobs : status[j] = "active" ~> status[j] # "active"

\* shutdown returns.
ShutdownReturns == closed ~> shutdown = "done"
=============================================================================
