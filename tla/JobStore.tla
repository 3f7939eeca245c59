------------------------------ MODULE JobStore ------------------------------
(***************************************************************************)
(* The job store: resolve jobs in an encrypted table, and a bounded cache  *)
(* in memory that is the authority for every job that has not ended.       *)
(*                                                                         *)
(* A read of a job that ended goes to the table, outside the lock, and     *)
(* then puts what it read into the cache; an update does such a read       *)
(* first, then copies the cached job, changes the copy, stores it and      *)
(* caches it in one section under the lock.  A record carries the set of   *)
(* updates that made it, which is all that tells two versions of a job     *)
(* apart.                                                                  *)
(***************************************************************************)
EXTENDS Integers, FiniteSets, SequencesExt

CONSTANTS
    Jobs,
    Works,      \* updates by the job's worker and its expiry, which end it
    Refreshes,  \* updates of a job that ended: renewed links, attempts, warnings
    Readers,    \* requests that read a job
    Capacity    \* jobs kept in memory; only those that ended make room

ASSUME StoreAssumption ==
    /\ Works \intersect Refreshes = {}
    /\ Readers \intersect (Works \union Refreshes) = {}
    /\ Capacity \in Nat \ {0}
    /\ Jobs # {}

VARIABLES
    \* resolve_jobs, and the jobs whose details have expired
    durable, lapsed,
    \* jobStore.jobs and jobStore.order
    memory, order,
    \* the creations between the insert and the put
    creating,
    \* the calls of getWithError and update: where each is, its job, whether it
    \* found the job cached, what it read, and what a reader answers
    pc, target, cached, loaded, answer,
    \* the updates whose callers were told they succeeded
    acked,
    \* what was already acknowledged, and lapsed, when a call began
    known, knownLapsed

table == <<durable, lapsed>>
cache == <<memory, order>>
calls == <<pc, target, cached, loaded, answer>>
ghosts == <<known, knownLapsed>>
vars == <<table, cache, creating, calls, acked, ghosts>>

Updates == Works \union Refreshes
Calls == Updates \union Readers

Records == [status: {"absent", "active", "ended"}, notes: SUBSET Updates]
NoJob == [status |-> "absent", notes |-> {}]

TypeOK ==
    /\ durable \in [Jobs -> Records]
    /\ lapsed \subseteq {j \in Jobs : durable[j].status = "ended"}
    /\ memory \in [Jobs -> Records]
    /\ order \in Seq(Jobs) /\ IsInjective(order)
    /\ Range(order) = {j \in Jobs : memory[j] # NoJob}
    /\ creating \subseteq Jobs
    /\ pc \in [Calls -> {"idle", "loading", "forgetting", "publishing", "writing", "done"}]
    /\ target \in [Calls -> Jobs]
    /\ cached \in [Calls -> BOOLEAN]
    /\ loaded \in [Calls -> Records]
    /\ answer \in [Readers -> Records]
    /\ acked \subseteq Updates
    /\ known \in [Readers -> SUBSET Updates]
    /\ knownLapsed \in [Readers -> BOOLEAN]

Init ==
    /\ durable = [j \in Jobs |-> NoJob]
    /\ lapsed = {}
    /\ memory = [j \in Jobs |-> NoJob]
    /\ order = <<>>
    /\ creating = {}
    /\ pc = [c \in Calls |-> "idle"]
    /\ target = [c \in Calls |-> CHOOSE j \in Jobs : TRUE]
    /\ cached = [c \in Calls |-> FALSE]
    /\ loaded = [c \in Calls |-> NoJob]
    /\ answer = [r \in Readers |-> NoJob]
    /\ acked = {}
    /\ known = [r \in Readers |-> {}]
    /\ knownLapsed = [r \in Readers |-> FALSE]

-----------------------------------------------------------------------------
(* The cache.                                                              *)

\* Mutant: a job that has not ended makes room, too.
EvictableAny(mem, j) == TRUE

\* firstEvictableLocked
Evictable(mem, j) == mem[j].status # "active"

\* putLocked: the oldest evictable jobs go as long as there are too many.
Put(j, record) ==
    LET mem      == [memory EXCEPT ![j] = record]
        ids      == IF memory[j] = NoJob THEN Append(order, j) ELSE order
        room     == {i \in DOMAIN ids : Evictable(mem, ids[i])}
        excess   == Len(ids) - Capacity
        gone     == {ids[i] : i \in {n \in room : Cardinality({m \in room : m < n}) < excess}}
        Stays(k) == k \notin gone
    IN  /\ memory' = [k \in Jobs |-> IF k \in gone THEN NoJob ELSE mem[k]]
        /\ order' = SelectSeq(ids, Stays)

Goto(c, p) == pc' = [pc EXCEPT ![c] = p]

\* A call ends; a reader's gives an answer.
Return(c, record) ==
    /\ Goto(c, "done")
    /\ answer' = IF c \in Readers THEN [answer EXCEPT ![c] = record] ELSE answer

-----------------------------------------------------------------------------
(* create                                                                  *)

Create(j) ==
    /\ durable[j] = NoJob
    /\ durable' = [durable EXCEPT ![j] = [status |-> "active", notes |-> {}]]
    /\ creating' = creating \union {j}
    /\ UNCHANGED <<lapsed, cache, calls, acked, ghosts>>

PublishNew(j) ==
    /\ j \in creating
    /\ creating' = creating \ {j}
    /\ Put(j, [status |-> "active", notes |-> {}])
    /\ UNCHANGED <<table, calls, acked, ghosts>>

-----------------------------------------------------------------------------
(* getWithError, for a request and as the beginning of update.  Nobody     *)
(* knows the id of a job before its creation has returned.                 *)

\* Mutant: every read goes to the table.
ServedFromMemoryNever(j) == FALSE

ServedFromMemory(j) == memory[j].status = "active"

Begin(c, j) ==
    /\ pc[c] = "idle"
    /\ durable[j] # NoJob /\ j \notin creating
    /\ target' = [target EXCEPT ![c] = j]
    /\ IF ServedFromMemory(j)
          THEN /\ IF c \in Readers THEN Return(c, memory[j])
                  ELSE Goto(c, "writing") /\ UNCHANGED answer
               /\ UNCHANGED cached
          ELSE /\ Goto(c, "loading")
               /\ cached' = [cached EXCEPT ![c] = memory[j] # NoJob]
               /\ UNCHANGED answer
    /\ IF c \in Readers
          THEN /\ known' = [known EXCEPT ![c] = {u \in acked \intersect Works : target[u] = j}]
               /\ knownLapsed' = [knownLapsed EXCEPT ![c] = j \in lapsed]
          ELSE UNCHANGED ghosts
    /\ UNCHANGED <<table, cache, creating, loaded, acked>>

\* getAny: the details must still be available.
Found(j) == durable[j] # NoJob /\ j \notin lapsed

\* getAny, without the lock.
Load(c) ==
    /\ pc[c] = "loading"
    /\ \/ /\ Found(target[c])
          /\ loaded' = [loaded EXCEPT ![c] = durable[target[c]]]
          /\ Goto(c, "publishing") /\ UNCHANGED answer
       \/ /\ ~Found(target[c])
          /\ IF cached[c] THEN Goto(c, "forgetting") /\ UNCHANGED answer
             ELSE Return(c, NoJob)
          /\ UNCHANGED loaded
       \/ \* the read fails
          Return(c, NoJob) /\ UNCHANGED loaded
    /\ UNCHANGED <<table, cache, creating, target, cached, acked, ghosts>>

Forget(c) ==
    LET Stays(k) == k # target[c]
    IN  /\ pc[c] = "forgetting"
        /\ memory' = [memory EXCEPT ![target[c]] = NoJob]
        /\ order' = SelectSeq(order, Stays)
        /\ Return(c, NoJob)
        /\ UNCHANGED <<table, creating, target, cached, loaded, acked, ghosts>>

Publish(c) ==
    /\ pc[c] = "publishing"
    /\ Put(target[c], loaded[c])
    /\ IF c \in Readers THEN Return(c, loaded[c])
       ELSE Goto(c, "writing") /\ UNCHANGED answer
    /\ loaded' = [loaded EXCEPT ![c] = NoJob]
    /\ UNCHANGED <<table, creating, target, cached, acked, ghosts>>

\* A request is answered; the next one of this client may come.
Answered(r) ==
    /\ r \in Readers /\ pc[r] = "done"
    /\ Goto(r, "idle")
    /\ answer' = [answer EXCEPT ![r] = NoJob]
    /\ known' = [known EXCEPT ![r] = {}]
    /\ knownLapsed' = [knownLapsed EXCEPT ![r] = FALSE]
    /\ UNCHANGED <<table, cache, creating, target, cached, loaded, acked>>

-----------------------------------------------------------------------------
(* update and updateAtomic, after getWithError: one section under the lock *)

\* What the function given to update accepts: a worker's change and an expiry
\* need a job that has not ended, the others one that has.
Accepts(u, record) == (u \in Works) = (record.status = "active")

\* Mutant: a stored update is not put into the cache.
WriteTableOnly(u) ==
    LET j == target[u]
    IN  /\ pc[u] = "writing"
        /\ Goto(u, "done")
        /\ memory[j] # NoJob /\ Accepts(u, memory[j])
        /\ \E status \in {memory[j].status, "ended"} :
              durable' = [durable EXCEPT
                  ![j] = [status |-> status, notes |-> memory[j].notes \union {u}]]
        /\ acked' = acked \union {u}
        /\ UNCHANGED <<lapsed, cache, creating, target, cached, loaded, answer, ghosts>>

Write(u) ==
    LET j == target[u]
    IN  /\ pc[u] = "writing"
        /\ Goto(u, "done")
        /\ \/ /\ memory[j] # NoJob /\ Accepts(u, memory[j])
              /\ \E status \in {memory[j].status, "ended"} :
                    LET new == [status |-> status, notes |-> memory[j].notes \union {u}]
                    IN  \/ /\ durable' = [durable EXCEPT ![j] = new]
                           /\ memory' = [memory EXCEPT ![j] = new]
                           /\ acked' = acked \union {u}
                        \/ \* committed, but the commit reports an error
                           /\ durable' = [durable EXCEPT ![j] = new]
                           /\ UNCHANGED <<memory, acked>>
           \/ \* no longer cached, refused, or the write fails
              UNCHANGED <<durable, memory, acked>>
        /\ UNCHANGED <<lapsed, order, creating, target, cached, loaded, answer, ghosts>>

-----------------------------------------------------------------------------

\* Three hours after a job ended, its details expire; a job whose end was
\* written but reported as failed does not wait that long for the restart.
Lapse(j) ==
    /\ durable[j].status = "ended" /\ j \notin lapsed
    /\ memory[j].status # "active"
    /\ lapsed' = lapsed \union {j}
    /\ UNCHANGED <<durable, cache, creating, calls, acked, ghosts>>

\* The process ends and starts again: markNonterminalInterrupted.
Restart ==
    /\ durable' = [j \in Jobs |->
            IF durable[j].status = "active" THEN [durable[j] EXCEPT !.status = "ended"]
            ELSE durable[j]]
    /\ memory' = [j \in Jobs |-> NoJob]
    /\ order' = <<>>
    /\ creating' = {}
    /\ pc' = [c \in Calls |-> IF c \in Updates /\ pc[c] # "idle" THEN "done" ELSE "idle"]
    /\ cached' = [c \in Calls |-> FALSE]
    /\ loaded' = [c \in Calls |-> NoJob]
    /\ answer' = [r \in Readers |-> NoJob]
    /\ known' = [r \in Readers |-> {}]
    /\ knownLapsed' = [r \in Readers |-> FALSE]
    /\ UNCHANGED <<lapsed, target, acked>>

Next ==
    \/ \E j \in Jobs : Create(j) \/ PublishNew(j) \/ Lapse(j)
    \/ \E c \in Calls, j \in Jobs : Begin(c, j)
    \/ \E c \in Calls : Load(c) \/ Forget(c) \/ Publish(c)
    \/ \E r \in Readers : Answered(r)
    \/ \E u \in Updates : Write(u)
    \/ Restart

Spec == Init /\ [][Next]_vars

-----------------------------------------------------------------------------
(* Properties.                                                             *)

\* Admission counts the jobs in memory: every job that has not ended in the
\* table is there, as one that has not ended, however full the cache is and
\* whatever reads and updates of other jobs do to it.
AdmissionSeesEveryActiveJob ==
    \A j \in Jobs : durable[j].status = "active" /\ j \notin creating =>
        memory[j].status = "active"

\* What a worker was told is stored about its job stays stored, with the
\* outcome: no read that overtakes the worker, no eviction, no later refresh
\* and no restart brings back a version from before.
WorkIsKept ==
    \A u \in acked \intersect Works : u \in durable[target[u]].notes

\* A request is answered with everything the worker had been told was stored
\* when it began, and never with details that had expired by then.
AnswersAreCurrent ==
    \A r \in Readers : pc[r] = "done" =>
        /\ answer[r] # NoJob => known[r] \subseteq answer[r].notes
        /\ knownLapsed[r] => answer[r] = NoJob

\* What any caller of update was told is stored stays stored.
UpdatesAreKept ==
    \A u \in acked : u \in durable[target[u]].notes
=============================================================================
