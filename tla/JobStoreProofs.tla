--------------------------- MODULE JobStoreProofs ---------------------------
(***************************************************************************)
(* What admission, workers and readers rely on in the job store, for any   *)
(* jobs, callers and capacity: the cache shows every job that has not      *)
(* ended, what a worker was told is stored stays stored, and no answer is  *)
(* out of date.                                                            *)
(***************************************************************************)
EXTENDS JobStore, TLAPS

StoreTypes ==
    /\ durable \in [Jobs -> Records] /\ memory \in [Jobs -> Records]
    /\ lapsed \subseteq {j \in Jobs : durable[j].status = "ended"}
    /\ creating \subseteq Jobs
    /\ pc \in [Calls -> {"idle", "loading", "forgetting", "publishing", "writing", "done"}]
    /\ target \in [Calls -> Jobs] /\ cached \in [Calls -> BOOLEAN] /\ loaded \in [Calls -> Records]
    /\ answer \in [Readers -> Records] /\ acked \subseteq Updates
    /\ known \in [Readers -> SUBSET Updates] /\ knownLapsed \in [Readers -> BOOLEAN]

\* The cache and the table agree on which jobs have not ended, and nobody has
\* met a job that is being created.
CacheInv ==
    /\ \A j \in Jobs :
          /\ durable[j].status = "absent" => durable[j] = NoJob /\ memory[j] = NoJob
          /\ memory[j].status = "absent" => memory[j] = NoJob
          /\ durable[j].status = "active" /\ j \notin creating => memory[j].status = "active"
          /\ memory[j].status = "active" => j \notin lapsed
          /\ j \in creating => durable[j].status = "active" /\ memory[j] = NoJob
    /\ \A c \in Calls : pc[c] # "idle" => durable[target[c]] # NoJob /\ target[c] \notin creating

\* What the worker of a job was told is stored about it.
Told(j) == {u \in acked \intersect Works : target[u] = j}

\* It is in the table, and in the cache as long as the job is there.
KeptInv ==
    /\ \A u \in acked : pc[u] = "done"
    /\ \A j \in Jobs : Told(j) \subseteq durable[j].notes
                       /\ (memory[j] # NoJob => Told(j) \subseteq memory[j].notes)

\* A call reads the table only once the worker has said its last.
LoadInv ==
    \A c \in Calls :
        /\ pc[c] \in {"loading", "forgetting", "publishing"} => memory[target[c]].status # "active"
        /\ pc[c] = "publishing" => loaded[c].status = "ended" /\ Told(target[c]) \subseteq loaded[c].notes

AnswerInv ==
    \A r \in Readers :
        /\ pc[r] # "idle" => known[r] \subseteq Told(target[r]) /\ (knownLapsed[r] => target[r] \in lapsed)
        /\ pc[r] = "publishing" => ~ knownLapsed[r]
        /\ pc[r] = "done" => /\ answer[r] # NoJob => known[r] \subseteq answer[r].notes
                             /\ knownLapsed[r] => answer[r] = NoJob

StoreInv == StoreTypes /\ CacheInv /\ KeptInv /\ LoadInv /\ AnswerInv

-----------------------------------------------------------------------------
(* The steps of the calls.                                                 *)

\* The record of a job that does not exist.
LEMMA NoJobType == NoJob \in Records /\ NoJob.status = "absent" /\ NoJob.notes = {}
BY DEF NoJob, Records

\* What putLocked does to the cache: only jobs that are not active make room.
LEMMA PutMemory ==
    ASSUME StoreTypes, NEW j \in Jobs, NEW record \in Records, Put(j, record)
    PROVE  /\ memory' \in [Jobs -> Records]
           /\ \A k \in Jobs : LET new == IF k = j THEN record ELSE memory[k]
                              IN  memory'[k] = new \/ (memory'[k] = NoJob /\ new.status # "active")
<1>1. PICK mem \in [Jobs -> Records] : mem = [memory EXCEPT ![j] = record]
  BY DEF StoreTypes
<1>2. PICK gone : /\ \A k \in gone : Evictable(mem, k)
                  /\ memory' = [k \in Jobs |-> IF k \in gone THEN NoJob ELSE mem[k]]
  <2> DEFINE ids == IF memory[j] = NoJob THEN Append(order, j) ELSE order
             room == {i \in DOMAIN ids : Evictable(mem, ids[i])}
             leaving == {n \in room : Cardinality({m \in room : m < n}) < Len(ids) - Capacity}
             gone == {ids[i] : i \in leaving}
  <2>1. memory' = [k \in Jobs |-> IF k \in gone THEN NoJob ELSE mem[k]]
    BY <1>1 DEF Put
  <2>2. \A i \in leaving : Evictable(mem, ids[i])
    OBVIOUS
  <2> HIDE DEF leaving
  <2>3. \A k \in gone : Evictable(mem, k)
    BY <2>2
  <2> QED
    BY <2>1, <2>3
<1>3. \A k \in Jobs : mem[k] = IF k = j THEN record ELSE memory[k]
  BY <1>1 DEF StoreTypes
<1> QED
  BY <1>2, <1>3, NoJobType DEF Evictable

\* A call begins: a reader of a job that has not ended has its answer at once.
LEMMA Begun ==
    ASSUME StoreInv, NEW c \in Calls, NEW j \in Jobs, Begin(c, j)
    PROVE  StoreInv'
<1> USE DEF StoreInv, StoreTypes, Goto
<1>1. /\ pc[c] = "idle" /\ durable[j] # NoJob /\ j \notin creating
      /\ target' = [target EXCEPT ![c] = j]
      /\ UNCHANGED <<durable, lapsed, memory, creating, loaded, acked>>
  BY DEF Begin, table, cache
<1>2. \/ /\ memory[j].status = "active" /\ cached' = cached
         /\ \/ c \in Readers /\ pc' = [pc EXCEPT ![c] = "done"] /\ answer' = [answer EXCEPT ![c] = memory[j]]
            \/ c \notin Readers /\ pc' = [pc EXCEPT ![c] = "writing"] /\ answer' = answer
      \/ /\ memory[j].status # "active" /\ cached' = [cached EXCEPT ![c] = memory[j] # NoJob]
         /\ pc' = [pc EXCEPT ![c] = "loading"] /\ answer' = answer
  BY DEF Begin, Return, ServedFromMemory
<1>3. IF c \in Readers
      THEN /\ known' = [known EXCEPT ![c] = Told(j)] /\ knownLapsed' = [knownLapsed EXCEPT ![c] = j \in lapsed]
      ELSE known' = known /\ knownLapsed' = knownLapsed
  BY DEF Begin, ghosts, Told
<1>4. Told(j) \in SUBSET Updates /\ (j \in lapsed) \in BOOLEAN
  BY DEF Told
<1>5. StoreTypes'
  BY <1>1, <1>2, <1>3, <1>4
<1>6. \A k \in Jobs : Told(k)' = Told(k)
  BY <1>1 DEF KeptInv, Told, Calls, Updates
<1>7. CacheInv' /\ KeptInv'
  <2>1. \A d \in Calls : pc'[d] # "idle" =>
          (pc[d] # "idle" /\ target'[d] = target[d]) \/ (d = c /\ target'[d] = j)
    BY <1>1, <1>2
  <2>2. \A u \in acked : pc'[u] = "done"
    BY <1>1, <1>2 DEF KeptInv, Calls
  <2>3. CacheInv'
    BY <1>1, <2>1 DEF CacheInv
  <2>4. KeptInv'
    BY <1>1, <1>6, <2>2 DEF KeptInv
  <2> QED
    BY <2>3, <2>4
<1>8. LoadInv'
  BY <1>1, <1>2, <1>6 DEF LoadInv
<1>9. AnswerInv'
  <2>1. Readers \subseteq Calls
    BY DEF Calls
  <2>2. \A r \in Readers \ {c} : /\ pc'[r] = pc[r] /\ target'[r] = target[r] /\ answer'[r] = answer[r]
                                 /\ known'[r] = known[r] /\ knownLapsed'[r] = knownLapsed[r]
    BY <1>1, <1>2, <1>3, <2>1
  <2>3. c \in Readers => /\ known'[c] = Told(j) /\ (knownLapsed'[c] <=> j \in lapsed) /\ target'[c] = j
                         /\ pc'[c] \in {"done", "loading"}
                         /\ pc'[c] = "done" => answer'[c] = memory[j] /\ memory[j].status = "active"
    BY <1>1, <1>2, <1>3, <2>1
  <2>4. memory[j].status = "active" => j \notin lapsed /\ Told(j) \subseteq memory[j].notes
    BY NoJobType DEF CacheInv, KeptInv
  <2>5. ASSUME NEW r \in Readers
        PROVE  /\ pc'[r] # "idle" => known'[r] \subseteq Told(target'[r]) /\ (knownLapsed'[r] => target'[r] \in lapsed)
               /\ pc'[r] = "publishing" => ~ knownLapsed'[r]
               /\ pc'[r] = "done" => /\ answer'[r] # NoJob => known'[r] \subseteq answer'[r].notes
                                     /\ knownLapsed'[r] => answer'[r] = NoJob
    <3>1. CASE r = c
      BY <2>3, <2>4, <3>1
    <3>2. CASE r # c
      BY <1>1, <2>2, <3>2 DEF AnswerInv
    <3> QED
      BY <3>1, <3>2
  <2>6. \A r \in Readers : Told(target[r])' = Told(target'[r])
    <3>1. \A u \in acked : target'[u] = target[u]
      BY <1>1 DEF KeptInv, Calls, Updates
    <3> QED
      BY <1>1, <3>1 DEF Told
  <2> QED
    BY <1>1, <2>5, <2>6 DEF AnswerInv
<1> QED
  BY <1>5, <1>7, <1>8, <1>9

\* Reading a job into the cache keeps the invariant.
LEMMA Read ==
    ASSUME StoreInv, NEW c \in Calls, Load(c)
    PROVE  StoreInv'
<1> USE DEF StoreInv, StoreTypes, Goto
<1>1. pc[c] = "loading" /\ UNCHANGED <<durable, lapsed, memory, creating, target, cached, acked, known, knownLapsed>>
  BY DEF Load, table, cache, ghosts
<1>2. PICK j \in Jobs : j = target[c]
  OBVIOUS
<1>3. \/ /\ j \notin lapsed /\ loaded' = [loaded EXCEPT ![c] = durable[j]]
         /\ pc' = [pc EXCEPT ![c] = "publishing"] /\ answer' = answer
      \/ pc' = [pc EXCEPT ![c] = "forgetting"] /\ answer' = answer /\ loaded' = loaded
      \/ /\ pc' = [pc EXCEPT ![c] = "done"] /\ loaded' = loaded
         /\ answer' = IF c \in Readers THEN [answer EXCEPT ![c] = NoJob] ELSE answer
  BY <1>2 DEF Load, Return, Found
<1>4. /\ durable[j].status = "ended" /\ Told(j) \subseteq durable[j].notes /\ durable[j] # NoJob /\ j \notin creating
      /\ memory[j].status # "active"
  BY <1>1, <1>2 DEF CacheInv, KeptInv, LoadInv, Records
<1>5. \A k \in Jobs : Told(k)' = Told(k)
  BY <1>1 DEF Told
<1>6. StoreTypes'
  BY <1>1, <1>3, NoJobType
<1>7. CacheInv' /\ KeptInv'
  BY <1>1, <1>3, <1>5 DEF CacheInv, KeptInv, Calls, Updates
<1>8. LoadInv'
  BY <1>1, <1>2, <1>3, <1>4, <1>5 DEF LoadInv
<1>9. AnswerInv'
  BY <1>1, <1>2, <1>3, <1>5 DEF AnswerInv, Calls
<1> QED
  BY <1>6, <1>7, <1>8, <1>9

\* So does evicting one from it.
LEMMA Forgotten ==
    ASSUME StoreInv, NEW c \in Calls, Forget(c)
    PROVE  StoreInv'
<1> USE DEF StoreInv, StoreTypes, Goto
<1>1. /\ pc[c] = "forgetting" /\ memory' = [memory EXCEPT ![target[c]] = NoJob]
      /\ pc' = [pc EXCEPT ![c] = "done"]
      /\ answer' = IF c \in Readers THEN [answer EXCEPT ![c] = NoJob] ELSE answer
      /\ UNCHANGED <<durable, lapsed, creating, target, cached, loaded, acked, known, knownLapsed>>
  BY DEF Forget, Return, table, ghosts
<1>2. PICK j \in Jobs : j = target[c]
  OBVIOUS
<1>3. memory[j].status # "active" /\ memory'[j] = NoJob /\ \A k \in Jobs \ {j} : memory'[k] = memory[k]
  BY <1>1, <1>2 DEF LoadInv
<1>4. \A k \in Jobs : Told(k)' = Told(k)
  BY <1>1 DEF Told
<1>5. StoreTypes'
  BY <1>1, NoJobType
<1>6. CacheInv' /\ KeptInv'
  BY <1>1, <1>3, <1>4, NoJobType DEF CacheInv, KeptInv, Calls, Updates
<1>7. LoadInv' /\ AnswerInv'
  BY <1>1, <1>3, <1>4, NoJobType DEF LoadInv, AnswerInv, Calls
<1> QED
  BY <1>5, <1>6, <1>7

\* Room is made in the cache without a job that has not ended leaving it.
LEMMA Published ==
    ASSUME StoreInv, NEW c \in Calls, Publish(c)
    PROVE  StoreInv'
<1> USE DEF StoreInv, StoreTypes, Goto
<1>1. /\ pc[c] = "publishing" /\ Put(target[c], loaded[c]) /\ loaded' = [loaded EXCEPT ![c] = NoJob]
      /\ \/ c \in Readers /\ pc' = [pc EXCEPT ![c] = "done"] /\ answer' = [answer EXCEPT ![c] = loaded[c]]
         \/ c \notin Readers /\ pc' = [pc EXCEPT ![c] = "writing"] /\ answer' = answer
      /\ UNCHANGED <<durable, lapsed, creating, target, cached, acked, known, knownLapsed>>
  BY DEF Publish, Return, table, ghosts
<1>2. PICK j \in Jobs : j = target[c]
  OBVIOUS
<1>3. PICK record \in Records : record = loaded[c]
  OBVIOUS
<1>4. /\ memory' \in [Jobs -> Records]
      /\ \A k \in Jobs : LET new == IF k = j THEN record ELSE memory[k]
                         IN  memory'[k] = new \/ (memory'[k] = NoJob /\ new.status # "active")
  BY <1>1, <1>2, <1>3, PutMemory
<1>5. /\ record.status = "ended" /\ Told(j) \subseteq record.notes /\ memory[j].status # "active"
      /\ durable[j].status = "ended" /\ j \notin creating
  BY <1>1, <1>2, <1>3 DEF LoadInv, CacheInv, Records
<1>6. \A k \in Jobs : Told(k)' = Told(k)
  BY <1>1 DEF Told
<1>7. StoreTypes'
  BY <1>1, <1>4, NoJobType
<1>8. CacheInv'
  <2>1. ASSUME NEW k \in Jobs
        PROVE  /\ memory'[k].status = "active" <=> memory[k].status = "active"
               /\ memory'[k].status = "absent" => memory'[k] = NoJob
               /\ memory[k] = NoJob /\ k # j => memory'[k] = NoJob
    BY <1>4, <1>5, NoJobType DEF CacheInv
  <2>2. \A d \in Calls : pc'[d] # "idle" => pc[d] # "idle"
    BY <1>1
  <2>3. \A k \in Jobs : k \in creating \/ durable[k].status = "absent" => k # j
    BY <1>5
  <2> QED
    BY <1>1, <2>1, <2>2, <2>3 DEF CacheInv
<1>9. KeptInv'
  <2>1. \A k \in Jobs : memory'[k] # NoJob => Told(k) \subseteq memory'[k].notes
    BY <1>4, <1>5 DEF KeptInv
  <2>2. \A k \in Jobs : Told(k)' \subseteq durable'[k].notes /\ (memory'[k] # NoJob => Told(k)' \subseteq memory'[k].notes)
    BY <1>1, <1>6, <2>1 DEF KeptInv
  <2>3. \A u \in acked : pc'[u] = "done"
    BY <1>1 DEF KeptInv, Calls
  <2> QED
    BY <1>1, <2>2, <2>3 DEF KeptInv
<1>10. LoadInv'
  <2>1. \A k \in Jobs : memory'[k].status = "active" => memory[k].status = "active"
    BY <1>4, <1>5, NoJobType
  <2>2. \A d \in Calls : pc'[d] \in {"loading", "forgetting", "publishing"} => pc'[d] = pc[d] /\ loaded'[d] = loaded[d]
    BY <1>1
  <2> QED
    BY <1>1, <1>6, <2>1, <2>2 DEF LoadInv
<1>11. AnswerInv'
  <2>1. \A r \in Readers \ {c} : pc'[r] = pc[r] /\ answer'[r] = answer[r]
    BY <1>1 DEF Calls
  <2>2. c \in Readers => pc'[c] = "done" /\ answer'[c] = record
    BY <1>1, <1>3
  <2>3. ASSUME NEW r \in Readers
        PROVE  /\ pc'[r] # "idle" => known[r] \subseteq Told(target[r]) /\ (knownLapsed[r] => target[r] \in lapsed)
               /\ pc'[r] = "publishing" => ~ knownLapsed[r]
               /\ pc'[r] = "done" => /\ answer'[r] # NoJob => known[r] \subseteq answer'[r].notes
                                     /\ knownLapsed[r] => answer'[r] = NoJob
    BY <1>1, <1>2, <1>5, <2>1, <2>2, <2>3 DEF AnswerInv
  <2>4. \A r \in Readers : Told(target[r])' = Told(target[r])
    BY <1>1 DEF Told
  <2> QED
    BY <1>1, <2>3, <2>4 DEF AnswerInv
<1> QED
  BY <1>7, <1>8, <1>9, <1>10, <1>11

\* So does an answer.
LEMMA Replied ==
    ASSUME StoreInv, NEW r \in Readers, Answered(r)
    PROVE  StoreInv'
<1> USE DEF StoreInv, StoreTypes, Goto
<1>1. /\ pc[r] = "done" /\ pc' = [pc EXCEPT ![r] = "idle"] /\ answer' = [answer EXCEPT ![r] = NoJob]
      /\ known' = [known EXCEPT ![r] = {}] /\ knownLapsed' = [knownLapsed EXCEPT ![r] = FALSE]
      /\ UNCHANGED <<durable, lapsed, memory, creating, target, cached, loaded, acked>>
  BY DEF Answered, table, cache
<1>2. Readers \subseteq Calls /\ r \notin Updates
  BY StoreAssumption DEF Calls, Updates
<1>3. \A k \in Jobs : Told(k)' = Told(k)
  BY <1>1 DEF Told
<1>4. StoreTypes'
  BY <1>1, <1>2, NoJobType
<1>5. CacheInv' /\ KeptInv'
  BY <1>1, <1>2, <1>3 DEF CacheInv, KeptInv
<1>6. LoadInv' /\ AnswerInv'
  BY <1>1, <1>2, <1>3 DEF LoadInv, AnswerInv
<1> QED
  BY <1>4, <1>5, <1>6

\* An update is written from the copy in memory: what was stored before stays.
LEMMA Written ==
    ASSUME StoreInv, NEW u \in Updates, Write(u)
    PROVE  StoreInv'
<1> USE DEF StoreInv, StoreTypes, Goto
<1>1. /\ pc[u] = "writing" /\ pc' = [pc EXCEPT ![u] = "done"]
      /\ UNCHANGED <<lapsed, creating, target, cached, loaded, answer, known, knownLapsed>>
  BY DEF Write, ghosts
<1>2. PICK j \in Jobs : j = target[u]
  BY DEF Calls
<1>3. u \in Calls /\ u \notin acked /\ u \notin Readers /\ durable[j] # NoJob /\ j \notin creating
  BY <1>1, <1>2, StoreAssumption DEF Calls, Updates, KeptInv, CacheInv
<1>4. \A c \in Calls \ {u} : pc'[c] = pc[c]
  BY <1>1
<1>5. CASE UNCHANGED <<durable, memory, acked>>
  <2>1. \A k \in Jobs : Told(k)' = Told(k)
    BY <1>1, <1>5 DEF Told
  <2>2. StoreTypes'
    BY <1>1, <1>5
  <2>3. CacheInv' /\ KeptInv'
    BY <1>1, <1>3, <1>5, <2>1 DEF CacheInv, KeptInv, Calls
  <2>4. LoadInv' /\ AnswerInv'
    BY <1>1, <1>3, <1>5, <2>1 DEF LoadInv, AnswerInv, Calls
  <2> QED
    BY <2>2, <2>3, <2>4
<1>6. CASE ~ UNCHANGED <<durable, memory, acked>>
  <2>1. PICK status, new :
           /\ status \in {memory[j].status, "ended"}
           /\ new = [status |-> status, notes |-> memory[j].notes \union {u}]
           /\ durable' = [durable EXCEPT ![j] = new]
           /\ \/ memory' = [memory EXCEPT ![j] = new] /\ acked' = acked \union {u}
              \/ UNCHANGED <<memory, acked>>
           /\ memory[j] # NoJob /\ Accepts(u, memory[j])
    BY <1>2, <1>6 DEF Write
  <2>2. memory[j].status \in {"active", "ended"}
    BY <2>1 DEF CacheInv, Records
  <2>3. /\ new \in Records /\ new.status = status /\ new.notes = memory[j].notes \union {u} /\ new # NoJob
        /\ status \in {"active", "ended"} /\ (status = "active" => memory[j].status = "active")
    BY <2>1, <2>2 DEF Records, NoJob
  <2>4. /\ durable'[j] = new /\ memory'[j] \in {new, memory[j]}
        /\ \A k \in Jobs \ {j} : durable'[k] = durable[k] /\ memory'[k] = memory[k]
        /\ memory'[j] # NoJob /\ memory'[j].status \in {status, memory[j].status}
        /\ memory'[j].status = "absent" => FALSE
    BY <2>1, <2>2, <2>3
  <2>5. \A k \in Jobs : /\ Told(k) \subseteq Told(k)'
                        /\ Told(k)' \subseteq Told(k) \union {u}
                        /\ u \in Told(k)' => k = j /\ u \in memory'[k].notes /\ memory[j].status = "active"
    <3>1. \A k \in Jobs : u \in Told(k)' => k = j /\ u \in Works /\ acked' = acked \union {u}
      BY <1>1, <1>2, <1>3, <2>1 DEF Told
    <3>2. u \in Works => memory[j].status = "active"
      BY <2>1 DEF Accepts
    <3>3. acked' = acked \union {u} => memory'[j] = new
      BY <1>3, <2>1
    <3>4. \A k \in Jobs : Told(k) \subseteq Told(k)' /\ Told(k)' \subseteq Told(k) \union {u}
      BY <1>1, <2>1 DEF Told
    <3> QED
      BY <2>3, <3>1, <3>2, <3>3, <3>4
  <2>6. StoreTypes'
    <3>1. durable' \in [Jobs -> Records] /\ memory' \in [Jobs -> Records] /\ acked' \subseteq Updates
      <4>1. durable' \in [Jobs -> Records]
        BY <2>1, <2>3
      <4>2. [memory EXCEPT ![j] = new] \in [Jobs -> Records]
        BY <2>3
      <4>3. memory' \in [Jobs -> Records]
        BY <2>1, <4>2
      <4>4. acked' \subseteq Updates
        BY <2>1
      <4> QED
        BY <4>1, <4>3, <4>4
    <3>2. j \in lapsed => status = "ended"
      BY <2>1, <2>2 DEF CacheInv
    <3>3. \A k \in lapsed : durable'[k].status = "ended"
      BY <2>3, <2>4, <3>2
    <3> QED
      BY <1>1, <1>3, <3>1, <3>3
  <2>7. CacheInv'
    <3>1. ASSUME NEW k \in Jobs
          PROVE  /\ durable'[k].status = "absent" => durable'[k] = NoJob /\ memory'[k] = NoJob
                 /\ memory'[k].status = "absent" => memory'[k] = NoJob
                 /\ durable'[k].status = "active" /\ k \notin creating => memory'[k].status = "active"
                 /\ memory'[k].status = "active" => k \notin lapsed
                 /\ k \in creating => durable'[k].status = "active" /\ memory'[k] = NoJob
      <4>1. CASE k = j
        BY <1>3, <2>1, <2>2, <2>3, <2>4, <4>1 DEF CacheInv
      <4>2. CASE k # j
        BY <2>4, <4>2 DEF CacheInv
      <4> QED
        BY <4>1, <4>2
    <3>2. \A c \in Calls : pc'[c] # "idle" => durable'[target[c]] # NoJob /\ target[c] \notin creating
      BY <1>1, <1>2, <1>3, <1>4, <2>3, <2>4 DEF CacheInv
    <3> QED
      BY <1>1, <3>1, <3>2 DEF CacheInv
  <2>8. KeptInv'
    <3>1. \A d \in acked' : pc'[d] = "done"
      BY <1>1, <1>3, <1>4, <2>1 DEF KeptInv, Calls
    <3>2. ASSUME NEW k \in Jobs
          PROVE  Told(k)' \subseteq durable'[k].notes /\ (memory'[k] # NoJob => Told(k)' \subseteq memory'[k].notes)
      <4>1. CASE k = j
        <5>1. Told(j) \subseteq memory[j].notes
          BY <2>1 DEF KeptInv
        <5>2. Told(j)' \subseteq memory'[j].notes
          BY <2>3, <2>4, <2>5, <5>1
        <5>3. Told(j)' \subseteq durable'[j].notes
          BY <2>3, <2>4, <2>5, <5>1
        <5> QED
          BY <4>1, <5>2, <5>3
      <4>2. CASE k # j
        BY <2>4, <2>5, <4>2 DEF KeptInv
      <4> QED
        BY <4>1, <4>2
    <3> QED
      BY <3>1, <3>2 DEF KeptInv
  <2>9. \A c \in Calls : pc'[c] \in {"loading", "forgetting", "publishing"} =>
          memory[target[c]].status # "active" /\ Told(target[c])' = Told(target[c])
    <3>1. \A c \in Calls : pc'[c] \in {"loading", "forgetting", "publishing"} => memory[target[c]].status # "active"
      BY <1>1, <1>4 DEF LoadInv
    <3>2. \A c \in Calls : u \in Told(target[c])' => memory[target[c]].status = "active"
      <4>1. \A k \in Jobs : u \in Told(k)' => memory[k].status = "active"
        BY <2>5
      <4> QED
        BY <1>1, <4>1 DEF Told
    <3>3. \A c \in Calls : Told(target[c]) \subseteq Told(target[c])' /\ Told(target[c])' \subseteq Told(target[c]) \union {u}
      BY <1>1, <2>1 DEF Told
    <3> QED
      BY <3>1, <3>2, <3>3
  <2>10. LoadInv'
    <3>1. \A k \in Jobs : memory'[k].status = "active" => memory[k].status = "active"
      BY <2>2, <2>3, <2>4
    <3>2. ASSUME NEW c \in Calls
          PROVE  /\ pc'[c] \in {"loading", "forgetting", "publishing"} => memory'[target[c]].status # "active"
                 /\ pc'[c] = "publishing" => loaded[c].status = "ended" /\ Told(target[c])' \subseteq loaded[c].notes
      BY <1>1, <1>4, <2>9, <3>1 DEF LoadInv
    <3> QED
      BY <1>1, <3>2 DEF LoadInv
  <2>11. AnswerInv'
    <3>1. \A r \in Readers : pc'[r] = pc[r] /\ Told(target[r]) \subseteq Told(target[r])'
      BY <1>1, <1>3, <1>4, <2>1 DEF Told, Calls
    <3> QED
      BY <1>1, <3>1 DEF AnswerInv
  <2> QED
    BY <2>6, <2>7, <2>8, <2>10, <2>11
<1> QED
  BY <1>5, <1>6

-----------------------------------------------------------------------------
(* The steps of jobs and of the process.                                   *)

\* So does a creation.
LEMMA Created ==
    ASSUME StoreInv, NEW j \in Jobs, Create(j)
    PROVE  StoreInv'
<1> USE DEF StoreInv, StoreTypes
<1>1. PICK new : new = [status |-> "active", notes |-> {}]
  OBVIOUS
<1>2. /\ durable[j] = NoJob /\ durable' = [durable EXCEPT ![j] = new] /\ creating' = creating \union {j}
      /\ UNCHANGED <<lapsed, memory, pc, target, cached, loaded, answer, acked, known, knownLapsed>>
  BY <1>1 DEF Create, cache, calls, ghosts
<1>3. new \in Records /\ new.status = "active" /\ new # NoJob
  BY <1>1 DEF Records, NoJob
<1>4. durable'[j] = new /\ \A k \in Jobs \ {j} : durable'[k] = durable[k]
  BY <1>2
<1>5. memory[j] = NoJob /\ \A c \in Calls : pc[c] # "idle" => target[c] # j
  BY <1>2, NoJobType DEF CacheInv
<1>6. \A k \in Jobs : Told(k)' = Told(k)
  BY <1>2 DEF Told
<1>7. Told(j) = {}
  BY <1>5 DEF KeptInv, Told, Calls
<1>8. StoreTypes'
  <2>1. durable' \in [Jobs -> Records]
    BY <1>2, <1>3
  <2>2. j \notin lapsed
    BY <1>2, NoJobType
  <2> QED
    BY <1>2, <1>4, <2>1, <2>2
<1>9. CacheInv'
  <2>1. ASSUME NEW k \in Jobs
        PROVE  /\ durable'[k].status = "absent" => durable'[k] = NoJob /\ memory[k] = NoJob
               /\ memory[k].status = "absent" => memory[k] = NoJob
               /\ durable'[k].status = "active" /\ k \notin creating' => memory[k].status = "active"
               /\ memory[k].status = "active" => k \notin lapsed
               /\ k \in creating' => durable'[k].status = "active" /\ memory[k] = NoJob
    BY <1>2, <1>3, <1>4, <1>5 DEF CacheInv
  <2>2. \A c \in Calls : pc[c] # "idle" => durable'[target[c]] # NoJob /\ target[c] \notin creating'
    BY <1>2, <1>4, <1>5 DEF CacheInv
  <2> QED
    BY <1>2, <2>1, <2>2 DEF CacheInv
<1>10. KeptInv'
  <2>1. \A k \in Jobs : Told(k)' \subseteq durable'[k].notes /\ (memory[k] # NoJob => Told(k)' \subseteq memory[k].notes)
    BY <1>4, <1>6, <1>7 DEF KeptInv
  <2> QED
    BY <1>2, <2>1 DEF KeptInv
<1>11. LoadInv' /\ AnswerInv'
  <2>1. \A c \in Calls : Told(target[c])' = Told(target[c])
    BY <1>2 DEF Told
  <2>2. LoadInv'
    BY <1>2, <2>1 DEF LoadInv
  <2>3. AnswerInv'
    BY <1>2, <2>1 DEF AnswerInv, Calls
  <2> QED
    BY <2>2, <2>3
<1> QED
  BY <1>8, <1>9, <1>10, <1>11

\* So does the publication of what was created.
LEMMA NewPublished ==
    ASSUME StoreInv, NEW j \in Jobs, PublishNew(j)
    PROVE  StoreInv'
<1> USE DEF StoreInv, StoreTypes
<1>1. PICK record \in Records : record = [status |-> "active", notes |-> {}]
  BY DEF Records
<1>2. /\ j \in creating /\ creating' = creating \ {j} /\ Put(j, record)
      /\ UNCHANGED <<durable, lapsed, pc, target, cached, loaded, answer, acked, known, knownLapsed>>
  BY <1>1 DEF PublishNew, table, calls, ghosts
<1>3. /\ memory' \in [Jobs -> Records]
      /\ \A k \in Jobs : LET new == IF k = j THEN record ELSE memory[k]
                         IN  memory'[k] = new \/ (memory'[k] = NoJob /\ new.status # "active")
  BY <1>2, PutMemory
<1>4. /\ memory'[j] = record /\ record.status = "active" /\ durable[j].status = "active" /\ memory[j] = NoJob
      /\ \A c \in Calls : pc[c] # "idle" => target[c] # j
  BY <1>1, <1>2, <1>3 DEF CacheInv
<1>5. Told(j) = {}
  BY <1>4 DEF KeptInv, Told, Calls
<1>6. \A k \in Jobs : Told(k)' = Told(k)
  BY <1>2 DEF Told
<1>7. StoreTypes'
  BY <1>2, <1>3
<1>8. CacheInv'
  <2>1. ASSUME NEW k \in Jobs
        PROVE  /\ durable[k].status = "absent" => durable[k] = NoJob /\ memory'[k] = NoJob
               /\ memory'[k].status = "absent" => memory'[k] = NoJob
               /\ durable[k].status = "active" /\ k \notin creating' => memory'[k].status = "active"
               /\ memory'[k].status = "active" => k \notin lapsed
               /\ k \in creating' => durable[k].status = "active" /\ memory'[k] = NoJob
    <3>1. CASE k = j
      BY <1>2, <1>4, <3>1 DEF CacheInv
    <3>2. CASE k # j
      BY <1>2, <1>3, <3>2, NoJobType DEF CacheInv
    <3> QED
      BY <3>1, <3>2
  <2> QED
    BY <1>2, <2>1 DEF CacheInv
<1>9. KeptInv'
  <2>1. ASSUME NEW k \in Jobs
        PROVE  Told(k) \subseteq durable[k].notes /\ (memory'[k] # NoJob => Told(k) \subseteq memory'[k].notes)
    BY <1>3, <1>5 DEF KeptInv
  <2> QED
    BY <1>2, <1>6, <2>1 DEF KeptInv
<1>10. LoadInv' /\ AnswerInv'
  <2>1. \A c \in Calls : Told(target[c])' = Told(target[c])
    BY <1>2 DEF Told
  <2>2. \A c \in Calls : pc[c] # "idle" /\ memory[target[c]].status # "active" => memory'[target[c]].status # "active"
    BY <1>3, <1>4, NoJobType
  <2>3. LoadInv'
    BY <1>2, <2>1, <2>2 DEF LoadInv
  <2>4. AnswerInv'
    BY <1>2, <2>1 DEF AnswerInv, Calls
  <2> QED
    BY <2>3, <2>4
<1> QED
  BY <1>7, <1>8, <1>9, <1>10

\* So does the end of a retention.
LEMMA Lapsed ==
    ASSUME StoreInv, NEW j \in Jobs, Lapse(j)
    PROVE  StoreInv'
<1> USE DEF StoreInv, StoreTypes
<1>1. /\ durable[j].status = "ended" /\ memory[j].status # "active" /\ lapsed' = lapsed \union {j}
      /\ UNCHANGED <<durable, memory, creating, pc, target, cached, loaded, answer, acked, known, knownLapsed>>
  BY DEF Lapse, cache, calls, ghosts
<1>2. \A c \in Calls : Told(target[c])' = Told(target[c])
  BY <1>1 DEF Told
<1>3. StoreTypes' /\ CacheInv'
  BY <1>1 DEF CacheInv
<1>4. KeptInv'
  BY <1>1 DEF KeptInv, Told
<1>5. LoadInv' /\ AnswerInv'
  BY <1>1, <1>2 DEF LoadInv, AnswerInv, Calls
<1> QED
  BY <1>3, <1>4, <1>5

\* The table alone survives the process.
LEMMA Restarted ==
    ASSUME StoreInv, Restart
    PROVE  StoreInv'
<1> USE DEF StoreInv, StoreTypes
<1>1. /\ memory' = [j \in Jobs |-> NoJob] /\ creating' = {} /\ UNCHANGED <<lapsed, target, acked>>
      /\ pc' = [c \in Calls |-> IF c \in Updates /\ pc[c] # "idle" THEN "done" ELSE "idle"]
      /\ cached' = [c \in Calls |-> FALSE] /\ loaded' = [c \in Calls |-> NoJob]
      /\ answer' = [r \in Readers |-> NoJob] /\ known' = [r \in Readers |-> {}]
      /\ knownLapsed' = [r \in Readers |-> FALSE]
  BY DEF Restart
<1>2. ASSUME NEW j \in Jobs
      PROVE  /\ durable'[j] \in Records /\ durable'[j].notes = durable[j].notes /\ durable'[j].status # "active"
             /\ durable[j].status # "active" => durable'[j] = durable[j]
             /\ durable[j].status = "active" => durable'[j].status = "ended"
  <2>1. durable'[j] = IF durable[j].status = "active" THEN [durable[j] EXCEPT !.status = "ended"] ELSE durable[j]
    BY DEF Restart
  <2>2. [durable[j] EXCEPT !.status = "ended"] = [status |-> "ended", notes |-> durable[j].notes]
    BY DEF Records
  <2> QED
    BY <2>1, <2>2 DEF Records
<1>3. DOMAIN durable' = Jobs /\ durable' = [j \in Jobs |-> durable'[j]]
  BY DEF Restart
<1>4. StoreTypes'
  <2>1. durable' \in [Jobs -> Records]
    BY <1>2, <1>3
  <2> QED
    BY <1>1, <1>2, <2>1, NoJobType
<1>5. Readers \intersect Updates = {}
  BY StoreAssumption DEF Updates
<1>6. CacheInv'
  <2>1. \A j \in Jobs : durable'[j].status = "absent" => durable'[j] = NoJob
    BY <1>2 DEF CacheInv
  <2>2. \A j \in Jobs : durable[j] # NoJob => durable'[j] # NoJob
    BY <1>2, NoJobType
  <2>3. \A c \in Calls : pc'[c] # "idle" => pc[c] # "idle"
    BY <1>1
  <2> QED
    BY <1>1, <1>2, <2>1, <2>2, <2>3, NoJobType DEF CacheInv
<1>7. KeptInv'
  <2>1. \A u \in acked : pc'[u] = "done"
    BY <1>1 DEF KeptInv, Calls
  <2>2. \A k \in Jobs : Told(k)' = Told(k)
    BY <1>1 DEF Told
  <2>3. \A k \in Jobs : Told(k) \subseteq durable'[k].notes /\ memory'[k] = NoJob
    BY <1>1, <1>2 DEF KeptInv
  <2> QED
    BY <1>1, <2>1, <2>2, <2>3 DEF KeptInv
<1>8. \A c \in Calls : pc'[c] \in {"idle", "done"} /\ (c \in Readers => pc'[c] = "idle")
  BY <1>1, <1>5
<1>9. LoadInv' /\ AnswerInv'
  BY <1>8 DEF LoadInv, AnswerInv, Calls
<1> QED
  BY <1>4, <1>6, <1>7, <1>9

-----------------------------------------------------------------------------

\* The invariant of the store holds in every state of every behaviour.
THEOREM StoreHolds == Spec => []StoreInv
<1>1. Init => StoreInv
  <2> SUFFICES ASSUME Init
               PROVE  StoreInv
    OBVIOUS
  <2>1. StoreTypes
    <3>1. \A c \in Calls : target[c] \in Jobs
      BY StoreAssumption DEF Init
    <3> QED
      BY <3>1, NoJobType DEF Init, StoreTypes
  <2>2. CacheInv /\ LoadInv
    BY NoJobType DEF Init, CacheInv, LoadInv
  <2>3. KeptInv /\ AnswerInv
    BY NoJobType DEF Init, KeptInv, AnswerInv, Told, Calls
  <2> QED
    BY <2>1, <2>2, <2>3 DEF StoreInv
<1>2. StoreInv /\ [Next]_vars => StoreInv'
  <2>1. StoreInv /\ UNCHANGED vars => StoreInv'
    BY DEF vars, table, cache, calls, ghosts, StoreInv, StoreTypes, CacheInv, KeptInv, LoadInv, AnswerInv, Told
  <2> QED
    BY <2>1, Begun, Read, Forgotten, Published, Replied, Written, Created, NewPublished, Lapsed, Restarted DEF Next
<1> QED
  BY <1>1, <1>2, PTL DEF Spec

\* Whatever reads, refreshes and evictions run at the same time, a job that
\* has not ended in the table is in the cache as such once its creation is
\* over, so admissionCounts, which looks only there, misses none.
THEOREM StoreShowsActiveJobs == Spec => []AdmissionSeesEveryActiveJob
<1>1. StoreInv => AdmissionSeesEveryActiveJob
  BY DEF StoreInv, CacheInv, AdmissionSeesEveryActiveJob
<1> QED
  BY <1>1, StoreHolds, PTL

\* What update told a worker it stored is in the table for good: a read that
\* overtakes the worker, an eviction, a refresh of what the cache then holds
\* and a restart all keep it.
THEOREM StoreKeepsWork == Spec => []WorkIsKept
<1>1. StoreInv => WorkIsKept
  <2> SUFFICES ASSUME StoreInv, NEW u \in acked \intersect Works
               PROVE  u \in durable[target[u]].notes
    BY DEF WorkIsKept
  <2>1. target[u] \in Jobs /\ u \in Told(target[u])
    BY DEF StoreInv, StoreTypes, Told, Calls
  <2> QED
    BY <2>1 DEF StoreInv, KeptInv
<1> QED
  BY <1>1, StoreHolds, PTL

\* An answer of getWithError holds what the worker had been told was stored
\* when the request began, and no details that had expired by then.
THEOREM StoreAnswersAreCurrent == Spec => []AnswersAreCurrent
<1>1. StoreInv => AnswersAreCurrent
  BY DEF StoreInv, AnswerInv, AnswersAreCurrent
<1> QED
  BY <1>1, StoreHolds, PTL

=============================================================================
