------------------------------ MODULE BatchJobs ------------------------------
(***************************************************************************)
(* One batch: the parent job, a child job per link, the handler that       *)
(* creates and enqueues them, the continuation each child runs when it is  *)
(* done, which adds it to the live totals and stores the parent, the       *)
(* shutdown that fails what still waits, and the pass at the next start    *)
(* that folds the children a crash kept from being reported.               *)
(***************************************************************************)
EXTENDS Integers, FiniteSets

CONSTANTS
    Links,         \* the children
    MaxFaults,     \* bound on the storage operations that fail
    MaxUncertain,  \* bound on the completions whose commit cannot be confirmed
    MaxLapses,     \* bound on the children whose details expire before a start
    MaxCrashes     \* bound on the kills of the process

ASSUME BatchAssumption ==
    /\ IsFiniteSet(Links) /\ Links # {}
    /\ {MaxFaults, MaxUncertain, MaxLapses, MaxCrashes} \subseteq Nat

VARIABLES
    \* resolve_jobs: the parent's status, the children it counts as succeeded,
    \* the status of each child, and the children whose details have expired
    parent, counted, child, lapsed,
    \* the children that completed without the job store in memory, and so
    \* their continuation, learning of it
    unconfirmed,
    \* batchState: reports counted, and those of completed children
    done, succeeded,
    \* each child's run, what its continuation read, the totals it copied, and
    \* the children whose run panicked and is failed after it has reported
    run, found, copied, panicked,
    \* the handler that creates the batch
    creator,
    \* the process
    phase, queueClosed, restart, faults, uncertain, crashes

table == <<parent, counted, child, lapsed>>
totals == <<done, succeeded>>
runs == <<run, found, copied, panicked>>
process == <<phase, queueClosed, restart, crashes>>
bounds == <<faults, uncertain>>
vars == <<table, unconfirmed, totals, runs, creator, process, bounds>>

Totals == [done: 0..Cardinality(Links), succeeded: SUBSET Links]
Empty == [done |-> 0, succeeded |-> {}]

TypeOK ==
    /\ parent \in {"absent", "running", "completed", "failed"}
    /\ counted \subseteq Links
    /\ child \in [Links -> {"absent", "active", "completed", "failed"}]
    /\ lapsed \subseteq Links
    /\ unconfirmed \subseteq Links
    /\ done \in 0..Cardinality(Links)
    /\ succeeded \subseteq Links
    /\ run \in [Links -> {"none", "queued", "working", "returned", "waiting", "counting", "over"}]
    /\ found \in [Links -> BOOLEAN]
    /\ copied \in [Links -> Totals]
    /\ panicked \subseteq Links
    /\ creator \in {"idle", "creating", "enqueuing", "aborting", "abandoning", "done"}
    /\ phase \in {"up", "down", "folded"}
    /\ queueClosed \in BOOLEAN
    /\ restart \in BOOLEAN
    /\ faults \in 0..MaxFaults
    /\ uncertain \in 0..MaxUncertain
    /\ crashes \in 0..MaxCrashes

Init ==
    /\ parent = "absent"
    /\ counted = {}
    /\ child = [c \in Links |-> "absent"]
    /\ lapsed = {}
    /\ unconfirmed = {}
    /\ done = 0
    /\ succeeded = {}
    /\ run = [c \in Links |-> "none"]
    /\ found = [c \in Links |-> FALSE]
    /\ copied = [c \in Links |-> Empty]
    /\ panicked = {}
    /\ creator = "idle"
    /\ phase = "up"
    /\ queueClosed = FALSE
    /\ restart = FALSE
    /\ faults = 0
    /\ uncertain = 0
    /\ crashes = 0

-----------------------------------------------------------------------------

Up == phase = "up"

Goto(c, p) == run' = [run EXCEPT ![c] = p]

StoreFails == faults < MaxFaults /\ faults' = faults + 1

Ended(status) == status \in {"completed", "failed"}

Completed == {c \in Links : child[c] = "completed"}

\* failJob of a child: an error asks for a restart.
FailsChild(c) ==
    \/ /\ child' = [child EXCEPT ![c] = "failed"]
       /\ UNCHANGED <<restart, faults>>
    \/ /\ StoreFails /\ restart' = TRUE
       /\ UNCHANGED child

-----------------------------------------------------------------------------
(* createBatchJobAdmitted                                                  *)

CreateParent ==
    /\ Up /\ creator = "idle"
    /\ parent' = "running"
    /\ creator' = "creating"
    /\ UNCHANGED <<counted, child, lapsed, unconfirmed, totals, runs, process, bounds>>

CreateChild(c) ==
    /\ Up /\ creator = "creating" /\ child[c] = "absent"
    /\ \/ /\ child' = [child EXCEPT ![c] = "active"]
          /\ creator' = IF \A d \in Links \ {c} : child[d] # "absent" THEN "enqueuing" ELSE creator
          /\ UNCHANGED faults
       \/ /\ StoreFails
          /\ creator' = "aborting"
          /\ UNCHANGED child
    /\ UNCHANGED <<parent, counted, lapsed, unconfirmed, totals, runs, process, uncertain>>

AbortParent ==
    /\ Up /\ creator = "aborting"
    /\ creator' = "abandoning"
    /\ \/ parent' = "failed" /\ UNCHANGED <<restart, faults>>
       \/ StoreFails /\ restart' = TRUE /\ UNCHANGED parent
    /\ UNCHANGED <<counted, child, lapsed, unconfirmed, totals, runs, phase, queueClosed, crashes, uncertain>>

AbortChild(c) ==
    /\ Up /\ creator = "abandoning"
    /\ child[c] = "active" /\ run[c] = "none"
    /\ FailsChild(c)
    /\ Goto(c, "over")
    /\ UNCHANGED <<parent, counted, lapsed, unconfirmed, totals, found, copied, panicked, creator,
                   phase, queueClosed, crashes, uncertain>>

Abandoned ==
    /\ Up /\ creator = "abandoning"
    /\ \A c \in Links : child[c] = "absent" \/ run[c] = "over"
    /\ creator' = "done"
    /\ UNCHANGED <<table, unconfirmed, totals, runs, process, bounds>>

\* A refused child is failed by the queue and reported by the handler itself.
Enqueue(c) ==
    /\ Up /\ creator = "enqueuing" /\ run[c] = "none"
    /\ IF queueClosed
          THEN Goto(c, "returned") /\ FailsChild(c)
          ELSE Goto(c, "queued") /\ UNCHANGED <<child, restart, faults>>
    /\ creator' = IF \A d \in Links \ {c} : run[d] # "none" THEN "done" ELSE creator
    /\ UNCHANGED <<parent, counted, lapsed, unconfirmed, totals, found, copied, panicked,
                   phase, queueClosed, crashes, uncertain>>

-----------------------------------------------------------------------------
(* A child's run.                                                          *)

Start(c) ==
    /\ Up /\ run[c] = "queued" /\ ~queueClosed
    /\ Goto(c, "working")
    /\ UNCHANGED <<table, unconfirmed, totals, found, copied, panicked, creator, process, bounds>>

Complete(c) ==
    /\ Up /\ run[c] = "working"
    /\ child' = [child EXCEPT ![c] = "completed"]
    /\ Goto(c, "returned")
    /\ UNCHANGED <<parent, counted, lapsed, unconfirmed, totals, found, copied, panicked, creator,
                   process, bounds>>

\* The commit of the completion reports an error and cannot be read back:
\* the worker returns and leaves the job alone.
CompleteUncertainly(c) ==
    /\ Up /\ run[c] = "working"
    /\ uncertain < MaxUncertain /\ uncertain' = uncertain + 1
    /\ \/ /\ child' = [child EXCEPT ![c] = "completed"]
          /\ unconfirmed' = unconfirmed \union {c}
       \/ UNCHANGED <<child, unconfirmed>>
    /\ restart' = TRUE
    /\ Goto(c, "returned")
    /\ UNCHANGED <<parent, counted, lapsed, totals, found, copied, panicked, creator,
                   phase, queueClosed, crashes, faults>>

Fail(c) ==
    /\ Up /\ run[c] = "working"
    /\ FailsChild(c)
    /\ Goto(c, "returned")
    /\ UNCHANGED <<parent, counted, lapsed, unconfirmed, totals, found, copied, panicked, creator,
                   phase, queueClosed, crashes, uncertain>>

\* The deferred continuation runs first, the queue's recover later.
Panic(c) ==
    /\ Up /\ run[c] = "working"
    /\ panicked' = panicked \union {c}
    /\ Goto(c, "returned")
    /\ UNCHANGED <<table, unconfirmed, totals, found, copied, creator, process, bounds>>

FailPanicked(c) ==
    /\ Up /\ run[c] = "over" /\ c \in panicked
    /\ panicked' = panicked \ {c}
    /\ FailsChild(c)
    /\ UNCHANGED <<parent, counted, lapsed, unconfirmed, totals, run, found, copied, creator,
                   phase, queueClosed, crashes, uncertain>>

-----------------------------------------------------------------------------
(* batchChildDone                                                          *)

\* Mutant: a read error ends the continuation and nothing else.
ReadChildQuietly(c) ==
    /\ Up /\ run[c] = "returned"
    /\ \/ /\ found' = [found EXCEPT ![c] = child[c] = "completed" /\ c \notin unconfirmed]
          /\ Goto(c, "waiting")
          /\ UNCHANGED faults
       \/ /\ Ended(child[c]) /\ c \notin unconfirmed
          /\ StoreFails
          /\ Goto(c, "over")
          /\ UNCHANGED found
    /\ UNCHANGED <<table, unconfirmed, totals, copied, panicked, creator, process, uncertain>>

\* The child is read: from memory as long as it has not ended there.
ReadChild(c) ==
    /\ Up /\ run[c] = "returned"
    /\ \/ /\ found' = [found EXCEPT ![c] = child[c] = "completed" /\ c \notin unconfirmed]
          /\ Goto(c, "waiting")
          /\ UNCHANGED <<restart, faults>>
       \/ /\ Ended(child[c]) /\ c \notin unconfirmed
          /\ StoreFails /\ restart' = TRUE
          /\ Goto(c, "over")
          /\ UNCHANGED found
    /\ UNCHANGED <<table, unconfirmed, totals, copied, panicked, creator,
                   phase, queueClosed, crashes, uncertain>>

\* bs.mu
TotalsFree == \A c \in Links : run[c] # "counting"

CountChild(c) ==
    /\ Up /\ run[c] = "waiting" /\ TotalsFree
    /\ done' = done + 1
    /\ succeeded' = IF found[c] THEN succeeded \union {c} ELSE succeeded
    /\ copied' = [copied EXCEPT ![c] = [done |-> done', succeeded |-> succeeded']]
    /\ Goto(c, "counting")
    /\ UNCHANGED <<table, unconfirmed, found, panicked, creator, process, bounds>>

Verdict(t) ==
    IF t.done < Cardinality(Links) THEN "running"
    ELSE IF t.succeeded # {} THEN "completed" ELSE "failed"

StoreParent(c) ==
    LET Written ==
            /\ parent' = Verdict(copied[c])
            /\ counted' = copied[c].succeeded
    IN  /\ Up /\ run[c] = "counting"
        /\ \/ Written /\ UNCHANGED <<restart, faults>>
           \/ /\ StoreFails /\ restart' = TRUE
              /\ Written \/ UNCHANGED <<parent, counted>>
        /\ Goto(c, "over")
        /\ copied' = [copied EXCEPT ![c] = Empty]
        /\ UNCHANGED <<child, lapsed, unconfirmed, totals, found, panicked, creator,
                       phase, queueClosed, crashes, uncertain>>

-----------------------------------------------------------------------------
(* Shutdown, kill and the next start.                                      *)

\* An operator, an update or a storage error asks for it.
CloseQueue ==
    /\ Up /\ ~queueClosed
    /\ queueClosed' = TRUE
    /\ UNCHANGED <<table, unconfirmed, totals, runs, creator, phase, restart, crashes, bounds>>

\* A pending child is failed; its continuation is never run.
FailPending(c) ==
    /\ Up /\ queueClosed /\ run[c] = "queued"
    /\ FailsChild(c)
    /\ Goto(c, "over")
    /\ UNCHANGED <<parent, counted, lapsed, unconfirmed, totals, found, copied, panicked, creator,
                   phase, queueClosed, crashes, uncertain>>

Down ==
    /\ phase' = "down"
    /\ queueClosed' = FALSE
    /\ restart' = FALSE
    /\ done' = 0
    /\ succeeded' = {}
    /\ run' = [c \in Links |-> "over"]
    /\ found' = [c \in Links |-> FALSE]
    /\ copied' = [c \in Links |-> Empty]
    /\ panicked' = {}
    /\ creator' = "done"
    /\ UNCHANGED <<table, unconfirmed, bounds>>

Stop ==
    /\ Up /\ queueClosed
    /\ creator \in {"idle", "done"}
    /\ \A c \in Links : run[c] \in {"none", "over"} /\ c \notin panicked
    /\ Down /\ UNCHANGED crashes

Crash ==
    /\ phase # "down"
    /\ crashes < MaxCrashes /\ crashes' = crashes + 1
    /\ Down

\* The process was down, or the batch open, for longer than the details of a
\* child that ended are kept.
Lapse(c) ==
    /\ phase = "down" /\ Ended(child[c])
    /\ Cardinality(lapsed) < MaxLapses /\ c \notin lapsed
    /\ lapsed' = lapsed \union {c}
    /\ UNCHANGED <<parent, counted, child, unconfirmed, totals, runs, creator, process, bounds>>

Children == {c \in Links : child[c] # "absent"}

\* Mutant: the totals of a parent with unfinished children are left alone.
FoldWholeBatches ==
    /\ phase = "down" /\ phase' = "folded"
    /\ IF parent = "running" /\ Children # {} /\ \A c \in Children : Ended(child[c])
          THEN /\ counted' = Completed \ lapsed
               /\ parent' = IF counted' # {} THEN "completed" ELSE "failed"
          ELSE UNCHANGED <<counted, parent>>
    /\ UNCHANGED <<child, lapsed, unconfirmed, totals, runs, creator, queueClosed, restart, crashes, bounds>>

\* foldCompletedChildren
Fold ==
    /\ phase = "down" /\ phase' = "folded"
    /\ IF parent = "running" /\ Children # {}
          THEN /\ counted' = Completed \ lapsed
               /\ parent' =
                    IF \E c \in Children : ~Ended(child[c]) THEN "running"
                    ELSE IF counted' # {} THEN "completed" ELSE "failed"
          ELSE UNCHANGED <<counted, parent>>
    /\ UNCHANGED <<child, lapsed, unconfirmed, totals, runs, creator, queueClosed, restart, crashes, bounds>>

\* Mutant: batch parents are left to their children.
MarkChildrenOnly ==
    /\ phase = "folded" /\ phase' = "up"
    /\ child' = [c \in Links |-> IF child[c] = "active" THEN "failed" ELSE child[c]]
    /\ UNCHANGED <<parent, counted, lapsed, unconfirmed, totals, runs, creator,
                   queueClosed, restart, crashes, bounds>>

\* markNonterminalInterrupted
MarkInterrupted ==
    /\ phase = "folded" /\ phase' = "up"
    /\ child' = [c \in Links |-> IF child[c] = "active" THEN "failed" ELSE child[c]]
    /\ parent' = IF parent = "running" THEN "failed" ELSE parent
    /\ UNCHANGED <<counted, lapsed, unconfirmed, totals, runs, creator, queueClosed, restart, crashes, bounds>>

-----------------------------------------------------------------------------

Creator ==
    \/ AbortParent \/ Abandoned
    \/ \E c \in Links : CreateChild(c) \/ AbortChild(c) \/ Enqueue(c)

Run(c) ==
    \/ Start(c) \/ Complete(c) \/ CompleteUncertainly(c) \/ Fail(c) \/ Panic(c) \/ FailPanicked(c)
    \/ ReadChild(c) \/ CountChild(c) \/ StoreParent(c)

Restarts == (restart /\ CloseQueue) \/ Stop \/ Fold \/ MarkInterrupted

Next ==
    \/ CreateParent
    \/ Creator
    \/ \E c \in Links : Run(c) \/ FailPending(c) \/ Lapse(c)
    \/ CloseQueue \/ Stop \/ Crash \/ Fold \/ MarkInterrupted

Spec == Init /\ [][Next]_vars

\* The handler and every run go on, a requested restart is carried out, and
\* the service manager starts the process again.
Fairness ==
    /\ WF_vars(Creator)
    /\ \A c \in Links : WF_vars(Run(c)) /\ WF_vars(FailPending(c))
    /\ WF_vars(Restarts)

FairSpec == Spec /\ Fairness

-----------------------------------------------------------------------------
(* Properties.                                                             *)

\* While the process serves requests, a batch without live runs has ended or
\* is about to be restarted: nobody waits on a child that never reports.
NoBatchIsOrphaned ==
    phase = "up" /\ parent = "running" =>
        \/ restart \/ queueClosed
        \/ creator # "done"
        \/ \E c \in Links : run[c] # "over"

\* What the owner is promised.
Outcome(c) == IF child[c] \in {"absent", "active"} THEN "open" ELSE child[c]

Contract == INSTANCE BatchContract WITH
    outcome <- [c \in Links |-> Outcome(c)],
    verdict <- IF Ended(parent) THEN parent ELSE "open",
    doubtful <- unconfirmed \union lapsed

\* The batch keeps the promise of BatchContract.
ImplementsContract == Contract!Spec

\* The verdict of a batch that has ended names exactly the links that
\* completed and were charged.
VerdictCountsEveryLink == Ended(parent) => counted = Completed

\* Every batch ends.
BatchesEnd == parent = "running" ~> Ended(parent)
=============================================================================
