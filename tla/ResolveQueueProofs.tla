------------------------- MODULE ResolveQueueProofs -------------------------
(***************************************************************************)
(* Proofs about the resolve queue, for every set of jobs, every number of  *)
(* slots, every capacity and every number of turns.                        *)
(***************************************************************************)
EXTENDS ResolveQueue, DataLemmas

-----------------------------------------------------------------------------
(* The operators of the queue.                                             *)

\* A new entry goes behind those of its priority and above, before all others.
LEMMA PlaceInQueueIs ==
    ASSUME entries \in Seq(Entries), NEW p \in Nat
    PROVE  /\ PlaceInQueue(p) \in 1 .. Len(entries) + 1
           /\ \A i \in 1 .. PlaceInQueue(p) - 1 : entries[i].priority >= p
           /\ PlaceInQueue(p) <= Len(entries) => entries[PlaceInQueue(p)].priority < p
<1>. DEFINE S == {i \in 1 .. Len(entries) : entries[i].priority < p} \union {Len(entries) + 1}
<1>1. S \in SUBSET Nat /\ S # {} /\ S \subseteq 1 .. Len(entries) + 1
  OBVIOUS
<1>2. Min(S) \in S /\ \A n \in S : Min(S) <= n
  <2>. HIDE DEF S
  <2>. QED
    BY <1>1, LeastMember
<1>3. PlaceInQueue(p) = Min(S)
  BY DEF PlaceInQueue
<1>4. \A i \in 1 .. Len(entries) : entries[i].priority \in Nat
  <2>1. \A i \in 1 .. Len(entries) : entries[i] \in Entries
    OBVIOUS
  <2>. QED
    BY <2>1 DEF Entries, PriorityUser, PriorityAdmin, PriorityResume
<1>5. \A i \in 1 .. Min(S) - 1 : i \notin S /\ i \in 1 .. Len(entries)
  <2>1. Len(entries) \in Nat
    OBVIOUS
  <2>. HIDE DEF S
  <2>2. Min(S) \in 1 .. Len(entries) + 1
    BY <1>1, <1>2
  <2>. QED
    BY <2>1, <2>2, <1>2
<1>. QED
  BY <1>1, <1>2, <1>3, <1>4, <1>5

\* An insertion puts the entry at its place and moves those behind it by one.
LEMMA InsertedEntries ==
    ASSUME entries \in Seq(Entries), NEW e \in Entries
    PROVE  LET at == PlaceInQueue(e.priority)
           IN  /\ at \in 1 .. Len(entries) + 1
               /\ Inserted(e) \in Seq(Entries)
               /\ Len(Inserted(e)) = Len(entries) + 1
               /\ \A i \in 1 .. Len(entries) + 1 :
                     Inserted(e)[i] = IF i < at THEN entries[i]
                                      ELSE IF i = at THEN e ELSE entries[i - 1]
<1>. DEFINE at == PlaceInQueue(e.priority)
            before == SubSeq(entries, 1, at - 1)
            after == SubSeq(entries, at, Len(entries))
<1>1. at \in 1 .. Len(entries) + 1 /\ Len(entries) \in Nat
  BY PlaceInQueueIs DEF Entries, PriorityUser, PriorityAdmin, PriorityResume
<1>. HIDE DEF at
<1>2. /\ before \in Seq(Entries) /\ Len(before) = at - 1
      /\ \A i \in 1 .. at - 1 : before[i] = entries[i]
  BY <1>1, SubSeqProperties
<1>3. /\ after \in Seq(Entries) /\ Len(after) = Len(entries) + 1 - at
      /\ \A i \in 1 .. Len(entries) + 1 - at : after[i] = entries[at + i - 1]
  BY <1>1, SubSeqProperties
<1>. HIDE DEF before, after
<1>4. <<e>> \in Seq(Entries) /\ Len(<<e>>) = 1 /\ <<e>>[1] = e
  OBVIOUS
<1>. DEFINE front == before \o <<e>>
<1>5. /\ front \in Seq(Entries) /\ Len(front) = at
      /\ \A i \in 1 .. at : front[i] = IF i < at THEN entries[i] ELSE e
  BY <1>1, <1>2, <1>4
<1>6. Inserted(e) = front \o after
  BY DEF Inserted, at, before, after
<1>. HIDE DEF front
<1>7. /\ front \o after \in Seq(Entries)
      /\ Len(front \o after) = Len(front) + Len(after)
      /\ \A i \in 1 .. Len(front) + Len(after) :
            (front \o after)[i] = IF i <= Len(front) THEN front[i] ELSE after[i - Len(front)]
  BY <1>3, <1>5, ConcatProperties
<1>8. Len(front) + Len(after) = Len(entries) + 1
  BY <1>1, <1>3, <1>5
<1>9. \A i \in 1 .. Len(entries) + 1 : i > at => after[i - at] = entries[i - 1]
  BY <1>1, <1>3
<1>10. ASSUME NEW i \in 1 .. Len(entries) + 1
       PROVE  Inserted(e)[i] = IF i < at THEN entries[i]
                               ELSE IF i = at THEN e ELSE entries[i - 1]
  BY <1>1, <1>5, <1>6, <1>7, <1>8, <1>9
<1>. QED
  BY <1>1, <1>6, <1>7, <1>8, <1>10 DEF at

-----------------------------------------------------------------------------
(* Types.                                                                  *)

\* The number of slots is within its bounds.
LEMMA ClampType == ASSUME NEW n \in Int PROVE Clamp(n) \in 1 .. MaxConcurrency
  BY QueueAssumption DEF Clamp

\* A priority is one of three.
LEMMA PriorityType ==
    ASSUME NEW j \in Jobs
    PROVE  PriorityOf(j) \in {PriorityUser, PriorityAdmin, PriorityResume}
  BY DEF PriorityOf, PriorityResume, PriorityAdmin, PriorityUser

\* A step of one worker leaves the others.
LEMMA WorkerChange ==
    ASSUME worker \in [Jobs -> [Turns -> {"none", "working", "leaving"}]],
           NEW j \in Jobs, NEW t \in Turns, NEW stage \in {"none", "working", "leaving"},
           worker' = [worker EXCEPT ![j][t] = stage]
    PROVE  /\ worker' \in [Jobs -> [Turns -> {"none", "working", "leaving"}]]
           /\ \A k \in Jobs, u \in Turns :
                 worker'[k][u] = IF k = j /\ u = t THEN stage ELSE worker[k][u]
  OBVIOUS

\* A job that is about to be enqueued has a turn left for it: a new one has had
\* none, and a selection is taken only when there is one.
TurnsLeft ==
    \A j \in Jobs :
        /\ status[j] = "new" => turn[j] = 0
        /\ j \in arriving => turn[j] < MaxTurns /\ status[j] # "new"

\* Every job, entry, worker and shutdown is in one of its states, no job is
\* enqueued more often than its turns allow, and the number of slots stays in
\* the range an administrator may ask for (resolveQueue, setConcurrency).
THEOREM QueueTypeCorrect == Spec => [](TypeOK /\ TurnsLeft)
<1>1. Init => TypeOK /\ TurnsLeft
  <2>1. \A n \in Requests : Clamp(n) \in 1 .. MaxConcurrency
    BY ClampType, QueueAssumption
  <2>2. ASSUME Init
        PROVE  /\ concurrency \in 1 .. MaxConcurrency
               /\ <<>> \in Seq(Entries)
               /\ worker \in [Jobs -> [Turns -> {"none", "working", "leaving"}]]
               /\ turn \in [Jobs -> 0 .. MaxTurns]
    BY <2>1, <2>2, EmptySeq, QueueAssumption DEF Init
  <2> QED
    BY <2>2 DEF Init, TypeOK, TurnsLeft, Statuses
<1>2. TypeOK /\ TurnsLeft /\ [Next]_vars => TypeOK' /\ TurnsLeft'
  <2> SUFFICES ASSUME TypeOK, TurnsLeft, [Next]_vars
               PROVE  TypeOK' /\ TurnsLeft'
    OBVIOUS
  <2> USE QueueAssumption DEF TypeOK, TurnsLeft, queue, closing, callers
  <2>1. ASSUME NEW j \in Jobs, Submit(j) \/ Select(j) \/ Expire(j)
        PROVE  TypeOK' /\ TurnsLeft'
    <3>1. PICK s \in Statuses \ {"new"} : status' = [status EXCEPT ![j] = s]
      BY <2>1 DEF Submit, Select, Expire, Fails, Statuses
    <3>2. status' \in [Jobs -> Statuses] /\ \A k \in Jobs : status'[k] = IF k = j THEN s ELSE status[k]
      BY <3>1
    <3>3. arriving' \subseteq Jobs /\ (arriving' = arriving \/ turn[j] < MaxTurns)
      BY <2>1 DEF Submit, Select, Expire
    <3>4. \A k \in arriving' : k = j \/ k \in arriving
      BY <2>1 DEF Submit, Select, Expire
    <3> QED
      BY <2>1, <3>2, <3>3, <3>4 DEF Submit, Select, Expire
  <2>2. ASSUME NEW j \in Jobs, Enqueue(j)
        PROVE  TypeOK' /\ TurnsLeft'
    <3>1. CASE Fails(j) /\ UNCHANGED <<entries, turn, dispatcher>>
      BY <2>2, <3>1 DEF Enqueue, Fails, Statuses
    <3>2. CASE /\ entries' = Inserted([job |-> j, priority |-> PriorityOf(j), turn |-> turn[j] + 1])
               /\ turn' = [turn EXCEPT ![j] = @ + 1]
               /\ Broadcast
               /\ UNCHANGED status
      <4> DEFINE e == [job |-> j, priority |-> PriorityOf(j), turn |-> turn[j] + 1]
      <4>1. turn[j] + 1 \in Turns
        BY <2>2 DEF Enqueue, Turns
      <4>2. e \in Entries
        BY <4>1, PriorityType DEF Entries
      <4>3. entries' \in Seq(Entries)
        <5> HIDE DEF e
        <5> QED
          BY <3>2, <4>2, InsertedEntries DEF e
      <4> QED
        BY <2>2, <3>2, <4>1, <4>3 DEF Enqueue, Broadcast, Turns
    <3> QED
      BY <2>2, <3>1, <3>2 DEF Enqueue
  <2>3. ASSUME NEW n \in Requests, SetConcurrency(n)
        PROVE  TypeOK' /\ TurnsLeft'
    BY <2>3, ClampType DEF SetConcurrency, Broadcast
  <2>4. CASE StartDispatcher \/ Sleep \/ DispatcherExits
    BY <2>4 DEF StartDispatcher, Sleep, DispatcherExits
  <2>5. CASE Dispatch
    <3>1. Head(entries) \in Entries /\ Tail(entries) \in Seq(Entries)
      BY <2>5, HeadTailProperties DEF Dispatch, CanDispatch
    <3> QED
      BY <2>5, <3>1 DEF Dispatch, Entries
  <2>6. ASSUME NEW j \in Jobs, NEW t \in Turns, Worker(j, t)
        PROVE  TypeOK' /\ TurnsLeft'
    <3>1. worker' \in [Jobs -> [Turns -> {"none", "working", "leaving"}]]
      <4>1. PICK stage \in {"none", "working", "leaving"} : worker' = [worker EXCEPT ![j][t] = stage]
        BY <2>6 DEF Worker, Pause, Finish, Leave
      <4> QED
        BY <4>1, WorkerChange
    <3>2. status' \in [Jobs -> Statuses] /\ \A k \in Jobs : status'[k] = "new" => status[k] = "new"
      BY <2>6 DEF Worker, Pause, Finish, Leave, Fails, Statuses
    <3>3. TurnsLeft'
      BY <2>6, <3>2 DEF Worker, Pause, Finish, Leave, Fails
    <3> QED
      BY <2>6, <3>1, <3>2, <3>3 DEF Worker, Pause, Finish, Leave, Broadcast
  <2>7. CASE Shutdown
    BY <2>7 DEF Shutdown, Broadcast
  <2>8. CASE FailPending
    <3>1. Head(pending) \in Entries /\ Tail(pending) \in Seq(Entries)
      BY <2>8, HeadTailProperties DEF FailPending
    <3>2. Head(pending).job \in Jobs
      BY <3>1 DEF Entries
    <3> QED
      BY <2>8, <3>1, <3>2 DEF FailPending, Fails, Statuses
  <2>9. CASE AllFailed \/ DispatcherJoined \/ Drained
    BY <2>9 DEF AllFailed, DispatcherJoined, Drained
  <2>10. CASE UNCHANGED vars
    BY <2>10 DEF vars
  <2> QED
    BY <2>1, <2>2, <2>3, <2>4, <2>5, <2>6, <2>7, <2>8, <2>9, <2>10 DEF Next, Dispatcher, ShutdownSteps
<1> QED
  BY <1>1, <1>2, PTL DEF Spec

-----------------------------------------------------------------------------
(* One place per job.                                                      *)

OccursIn(s, j) == {i \in 1 .. Len(s) : s[i].job = j}
TurnsAtWork(j) == {t \in Turns : worker[j][t] = "working"}
Sole(S) == \E x : S = {x}

\* An active job is in one of the four places, once; another job is in none.
Placed(j) ==
    \/ Sole(OccursIn(entries, j)) /\ OccursIn(pending, j) = {} /\ TurnsAtWork(j) = {} /\ j \notin arriving
    \/ OccursIn(entries, j) = {} /\ Sole(OccursIn(pending, j)) /\ TurnsAtWork(j) = {} /\ j \notin arriving
    \/ OccursIn(entries, j) = {} /\ OccursIn(pending, j) = {} /\ Sole(TurnsAtWork(j)) /\ j \notin arriving
    \/ OccursIn(entries, j) = {} /\ OccursIn(pending, j) = {} /\ TurnsAtWork(j) = {} /\ j \in arriving

Nowhere(j) ==
    OccursIn(entries, j) = {} /\ OccursIn(pending, j) = {} /\ TurnsAtWork(j) = {} /\ j \notin arriving

PlaceOf(j) == IF status[j] = "active" THEN Placed(j) ELSE Nowhere(j)

\* shutdown takes the entries once, and none comes after it.
PlacesInv ==
    /\ \A j \in Jobs : PlaceOf(j)
    /\ shutdown = "no" => pending = <<>>
    /\ closed <=> shutdown # "no"
    /\ closed => entries = <<>>

\* What PlaceOf says of a job is what the property counts.
LEMMA PlacesCounted ==
    ASSUME TypeOK, NEW j \in Jobs, PlaceOf(j)
    PROVE  Places(j) = IF status[j] = "active" THEN 1 ELSE 0
<1>1. /\ Cardinality({}) = 0
      /\ \A S : Sole(S) => Cardinality(S) = 1
  BY FS_EmptySet, FS_Singleton DEF Sole
<1>2. Places(j) = Cardinality(OccursIn(entries, j)) + Cardinality(OccursIn(pending, j))
                  + Cardinality(TurnsAtWork(j)) + (IF j \in arriving THEN 1 ELSE 0)
  BY DEF Places, OccursIn, TurnsAtWork
<1>3. CASE status[j] = "active"
  BY <1>1, <1>2, <1>3 DEF PlaceOf, Placed
<1>4. CASE status[j] # "active"
  BY <1>1, <1>2, <1>4 DEF PlaceOf, Nowhere
<1>. QED
  BY <1>3, <1>4

\* A new entry is where it was inserted, and moves the others at most by one.
LEMMA OccursInInserted ==
    ASSUME entries \in Seq(Entries), NEW e \in Entries, NEW j \in Jobs
    PROVE  /\ j # e.job /\ OccursIn(entries, j) = {} => OccursIn(Inserted(e), j) = {}
           /\ j # e.job /\ Sole(OccursIn(entries, j)) => Sole(OccursIn(Inserted(e), j))
           /\ j = e.job /\ OccursIn(entries, j) = {} => Sole(OccursIn(Inserted(e), j))
<1>. DEFINE at == PlaceInQueue(e.priority)
            after == Inserted(e)
            Moved(i) == IF i < at THEN i ELSE i + 1
<1>1. Len(entries) \in Nat /\ at \in 1 .. Len(entries) + 1 /\ Len(after) = Len(entries) + 1
  BY InsertedEntries
<1>2. \A i \in 1 .. Len(entries) + 1 :
         after[i] = IF i < at THEN entries[i] ELSE IF i = at THEN e ELSE entries[i - 1]
  BY InsertedEntries
<1>. HIDE DEF at, after
<1>3. \A i \in 1 .. Len(entries) : Moved(i) \in 1 .. Len(after) /\ after[Moved(i)] = entries[i]
  BY <1>1, <1>2
<1>4. \A k \in 1 .. Len(after) : k # at => \E i \in 1 .. Len(entries) : k = Moved(i)
  <2>. SUFFICES ASSUME NEW k \in 1 .. Len(after), k # at
                PROVE  \E i \in 1 .. Len(entries) : k = Moved(i)
    OBVIOUS
  <2>1. CASE k < at
    BY <1>1, <2>1
  <2>2. CASE k > at
    <3>1. k - 1 \in 1 .. Len(entries) /\ k = Moved(k - 1)
      BY <1>1, <2>2
    <3>. QED
      BY <3>1
  <2>. QED
    BY <1>1, <2>1, <2>2
<1>5. at \in 1 .. Len(after) /\ after[at] = e
  BY <1>1, <1>2
<1>. HIDE DEF Moved
<1>6. ASSUME j # e.job, NEW k \in OccursIn(after, j)
      PROVE  \E i \in OccursIn(entries, j) : k = Moved(i)
  BY <1>3, <1>4, <1>5, <1>6 DEF OccursIn
<1>7. \A i \in OccursIn(entries, j) : Moved(i) \in OccursIn(after, j)
  BY <1>3 DEF OccursIn
<1>8. ASSUME j # e.job, OccursIn(entries, j) = {}
      PROVE  OccursIn(after, j) = {}
  BY <1>6, <1>8
<1>9. ASSUME j # e.job, NEW x, OccursIn(entries, j) = {x}
      PROVE  OccursIn(after, j) = {Moved(x)}
  BY <1>6, <1>7, <1>9
<1>10. ASSUME j = e.job, OccursIn(entries, j) = {}
       PROVE  OccursIn(after, j) = {at}
  BY <1>3, <1>4, <1>5, <1>10 DEF OccursIn
<1>. QED
  BY <1>8, <1>9, <1>10 DEF Sole, after

\* The rest of the entries has what they had but the first.
LEMMA OccursInTail ==
    ASSUME NEW s \in Seq(Entries), s # <<>>, NEW j \in Jobs
    PROVE  /\ 1 \in OccursIn(s, Head(s).job)
           /\ j # Head(s).job /\ OccursIn(s, j) = {} => OccursIn(Tail(s), j) = {}
           /\ j # Head(s).job /\ Sole(OccursIn(s, j)) => Sole(OccursIn(Tail(s), j))
           /\ j = Head(s).job /\ Sole(OccursIn(s, j)) => OccursIn(Tail(s), j) = {}
<1>1. /\ Len(s) \in Nat \ {0}
      /\ Len(Tail(s)) = Len(s) - 1
      /\ \A i \in 1 .. Len(s) - 1 : Tail(s)[i] = s[i + 1]
      /\ Head(s) = s[1]
  BY HeadTailProperties, EmptySeq
<1>2. OccursIn(Tail(s), j) = {i - 1 : i \in OccursIn(s, j) \ {1}}
  <2>1. ASSUME NEW i \in OccursIn(Tail(s), j)
        PROVE  i + 1 \in OccursIn(s, j) \ {1} /\ i = (i + 1) - 1
    BY <1>1 DEF OccursIn
  <2>2. ASSUME NEW i \in OccursIn(s, j) \ {1}
        PROVE  i - 1 \in OccursIn(Tail(s), j)
    BY <1>1 DEF OccursIn
  <2>. QED
    BY <2>1, <2>2
<1>3. 1 \in OccursIn(s, Head(s).job)
  BY <1>1 DEF OccursIn
<1>4. j # Head(s).job => 1 \notin OccursIn(s, j)
  BY <1>1 DEF OccursIn
<1>5. ASSUME j # Head(s).job, OccursIn(s, j) = {}
      PROVE  OccursIn(Tail(s), j) = {}
  BY <1>2, <1>5
<1>6. ASSUME j # Head(s).job, NEW x, OccursIn(s, j) = {x}
      PROVE  OccursIn(Tail(s), j) = {x - 1}
  BY <1>2, <1>4, <1>6
<1>7. ASSUME j = Head(s).job, NEW x, OccursIn(s, j) = {x}
      PROVE  OccursIn(Tail(s), j) = {}
  BY <1>2, <1>3, <1>7
<1>. QED
  BY <1>3, <1>5, <1>6, <1>7 DEF Sole

\* What keeps a job where it is: the part of the state PlaceOf looks at.
LEMMA PlaceUnchanged ==
    ASSUME NEW j \in Jobs, PlaceOf(j), status'[j] = status[j],
           j \in arriving' <=> j \in arriving,
           UNCHANGED <<entries, pending, worker>>
    PROVE  PlaceOf(j)'
  BY DEF PlaceOf, Placed, Nowhere, OccursIn, TurnsAtWork

\* Every step takes a job from one place to the next, or out of all of them.
LEMMA PlacesStep ==
    ASSUME TypeOK, TurnsLeft, PlacesInv, [Next]_vars
    PROVE  PlacesInv'
<1> USE DEF queue, closing, callers
<1>1. ASSUME NEW j \in Jobs, Submit(j) \/ Select(j)
      PROVE  PlacesInv'
  <2>1. /\ status[j] # "active" /\ status' = [status EXCEPT ![j] = "active"]
        /\ arriving' = arriving \union {j}
        /\ UNCHANGED <<entries, pending, worker, shutdown, closed>>
    BY <1>1 DEF Submit, Select
  <2>2. ASSUME NEW k \in Jobs, k # j
        PROVE  PlaceOf(k)'
    BY <2>1, <2>2, PlaceUnchanged DEF PlacesInv, TypeOK
  <2>3. Nowhere(j)
    BY <2>1 DEF PlacesInv, PlaceOf
  <2>4. PlaceOf(j)'
    BY <2>1, <2>3 DEF PlaceOf, Placed, Nowhere, OccursIn, TurnsAtWork, TypeOK
  <2> QED
    BY <2>1, <2>2, <2>4 DEF PlacesInv
<1>2. ASSUME NEW j \in Jobs, Expire(j)
      PROVE  PlacesInv'
  <2>1. /\ status[j] # "active" /\ status'[j] # "active"
        /\ \A k \in Jobs : k # j => status'[k] = status[k]
        /\ UNCHANGED <<entries, pending, worker, shutdown, closed, arriving>>
    BY <1>2 DEF Expire, Fails, TypeOK
  <2>2. \A k \in Jobs : k # j => PlaceOf(k)'
    BY <2>1, PlaceUnchanged DEF PlacesInv
  <2>3. PlaceOf(j)'
    BY <2>1 DEF PlacesInv, PlaceOf, Nowhere, OccursIn, TurnsAtWork
  <2> QED
    BY <2>1, <2>2, <2>3 DEF PlacesInv
<1>3. ASSUME NEW j \in Jobs, Enqueue(j)
      PROVE  PlacesInv'
  <2>1. /\ j \in arriving /\ arriving' = arriving \ {j}
        /\ UNCHANGED <<pending, worker, shutdown, closed>>
    BY <1>3 DEF Enqueue
  <2>2. /\ status[j] = "active" /\ OccursIn(entries, j) = {} /\ OccursIn(pending, j) = {}
        /\ TurnsAtWork(j) = {}
    BY <2>1 DEF PlacesInv, PlaceOf, Placed, Nowhere
  <2>3. CASE Fails(j) /\ UNCHANGED entries
    <3>1. status'[j] # "active" /\ \A k \in Jobs : k # j => status'[k] = status[k]
      BY <2>3 DEF Fails, TypeOK
    <3>2. \A k \in Jobs : k # j => PlaceOf(k)'
      BY <2>1, <2>3, <3>1, PlaceUnchanged DEF PlacesInv
    <3>3. PlaceOf(j)'
      BY <2>1, <2>2, <2>3, <3>1 DEF PlaceOf, Nowhere, OccursIn, TurnsAtWork
    <3> QED
      BY <2>1, <2>3, <3>2, <3>3 DEF PlacesInv
  <2>4. CASE /\ ~closed /\ UNCHANGED status
             /\ entries' = Inserted([job |-> j, priority |-> PriorityOf(j), turn |-> turn[j] + 1])
    <3>1. turn[j] + 1 \in Turns
      <4>1. turn[j] \in 0 .. MaxTurns /\ turn[j] < MaxTurns
        BY <2>1 DEF TypeOK, TurnsLeft
      <4> QED
        BY <4>1, QueueAssumption DEF Turns
    <3>2. PICK e \in Entries : e.job = j /\ entries' = Inserted(e)
      BY <2>4, <3>1, PriorityType DEF Entries
    <3>3. \A k \in Jobs : OccursIn(pending, k)' = OccursIn(pending, k) /\ TurnsAtWork(k)' = TurnsAtWork(k)
      BY <2>1 DEF OccursIn, TurnsAtWork
    <3>4. ASSUME NEW k \in Jobs, k # j
          PROVE  /\ OccursIn(entries, k) = {} => OccursIn(entries, k)' = {}
                 /\ Sole(OccursIn(entries, k)) => Sole(OccursIn(entries, k)')
      BY <3>1, <3>2, <3>4, OccursInInserted DEF TypeOK, OccursIn
    <3>5. Sole(OccursIn(entries, j)')
      <4>1. Sole(OccursIn(Inserted(e), j))
        BY <2>2, <3>2, OccursInInserted DEF TypeOK
      <4> QED
        BY <3>2, <4>1 DEF OccursIn
    <3>6. ASSUME NEW k \in Jobs, k # j
          PROVE  PlaceOf(k)'
      BY <2>1, <2>4, <3>3, <3>4, <3>6 DEF PlacesInv, PlaceOf, Placed, Nowhere, Sole
    <3>7. PlaceOf(j)'
      BY <2>1, <2>2, <2>4, <3>3, <3>5 DEF PlaceOf, Placed, Sole
    <3> QED
      BY <2>1, <2>4, <3>6, <3>7 DEF PlacesInv
  <2> QED
    BY <1>3, <2>3, <2>4 DEF Enqueue
<1>4. CASE (\E n \in Requests : SetConcurrency(n)) \/ StartDispatcher \/ Sleep \/ DispatcherExits
  <2>1. UNCHANGED <<entries, pending, worker, shutdown, closed, arriving, status>>
    BY <1>4 DEF SetConcurrency, StartDispatcher, Sleep, DispatcherExits
  <2> QED
    BY <2>1, PlaceUnchanged DEF PlacesInv
<1>5. CASE Dispatch
  <2>1. PICK e \in Entries :
        /\ e = Head(entries) /\ entries # <<>> /\ ~closed
        /\ worker' = [worker EXCEPT ![e.job][e.turn] = "working"]
        /\ entries' = Tail(entries)
        /\ UNCHANGED <<pending, shutdown, closed, arriving, status>>
    BY <1>5, HeadTailProperties DEF Dispatch, CanDispatch, TypeOK
  <2>2. e.job \in Jobs /\ e.turn \in Turns
    BY <2>1 DEF Entries
  <2>3. \A k \in Jobs, u \in Turns :
           worker'[k][u] = IF k = e.job /\ u = e.turn THEN "working" ELSE worker[k][u]
    BY <2>1, <2>2, WorkerChange DEF TypeOK
  <2>4. \A k \in Jobs : OccursIn(pending, k)' = OccursIn(pending, k) /\ OccursIn(entries, k)' = OccursIn(Tail(entries), k)
    BY <2>1 DEF OccursIn
  <2>5. ASSUME NEW k \in Jobs, k # e.job
        PROVE  PlaceOf(k)'
    <3>1. TurnsAtWork(k)' = TurnsAtWork(k)
      BY <2>3, <2>5 DEF TurnsAtWork
    <3>2. /\ OccursIn(entries, k) = {} => OccursIn(Tail(entries), k) = {}
          /\ Sole(OccursIn(entries, k)) => Sole(OccursIn(Tail(entries), k))
      BY <2>1, <2>5, OccursInTail DEF TypeOK
    <3> QED
      BY <2>1, <2>4, <3>1, <3>2 DEF PlacesInv, PlaceOf, Placed, Nowhere, Sole
  <2>6. PlaceOf(e.job)'
    <3>1. 1 \in OccursIn(entries, e.job)
      BY <2>1, <2>2, OccursInTail DEF TypeOK
    <3>2. /\ status[e.job] = "active" /\ Sole(OccursIn(entries, e.job)) /\ OccursIn(pending, e.job) = {}
          /\ TurnsAtWork(e.job) = {} /\ e.job \notin arriving
      BY <2>2, <3>1 DEF PlacesInv, PlaceOf, Placed, Nowhere
    <3>3. OccursIn(Tail(entries), e.job) = {}
      BY <2>1, <2>2, <3>2, OccursInTail DEF TypeOK
    <3>4. TurnsAtWork(e.job)' = {e.turn}
      BY <2>2, <2>3, <3>2 DEF TurnsAtWork
    <3> QED
      BY <2>1, <2>2, <2>4, <3>2, <3>3, <3>4 DEF PlaceOf, Placed, Sole
  <2> QED
    BY <2>1, <2>2, <2>5, <2>6 DEF PlacesInv
<1>6. ASSUME NEW j \in Jobs, NEW t \in Turns, Pause(j, t) \/ Finish(j, t)
      PROVE  PlacesInv'
  <2>1. /\ worker[j][t] = "working" /\ worker' = [worker EXCEPT ![j][t] = "leaving"]
        /\ UNCHANGED <<entries, pending, shutdown, closed, arriving>>
    BY <1>6 DEF Pause, Finish
  <2>2. status'[j] # "active" /\ \A k \in Jobs : k # j => status'[k] = status[k]
    BY <1>6 DEF Pause, Finish, Fails, TypeOK
  <2>3. \A k \in Jobs, u \in Turns :
           worker'[k][u] = IF k = j /\ u = t THEN "leaving" ELSE worker[k][u]
    BY <2>1, WorkerChange DEF TypeOK
  <2>4. t \in TurnsAtWork(j)
    BY <2>1 DEF TurnsAtWork
  <2>5. Sole(TurnsAtWork(j)) /\ OccursIn(entries, j) = {} /\ OccursIn(pending, j) = {} /\ j \notin arriving
    BY <2>4 DEF PlacesInv, PlaceOf, Placed, Nowhere
  <2>6. TurnsAtWork(j)' = {}
    BY <2>3, <2>4, <2>5 DEF TurnsAtWork, Sole
  <2>7. \A k \in Jobs : k # j => TurnsAtWork(k)' = TurnsAtWork(k)
    BY <2>3 DEF TurnsAtWork
  <2>8. \A k \in Jobs : OccursIn(pending, k)' = OccursIn(pending, k) /\ OccursIn(entries, k)' = OccursIn(entries, k)
    BY <2>1 DEF OccursIn
  <2>9. PlaceOf(j)'
    BY <2>1, <2>2, <2>5, <2>6, <2>8 DEF PlaceOf, Nowhere
  <2>10. ASSUME NEW k \in Jobs, k # j
         PROVE  PlaceOf(k)'
    BY <2>1, <2>2, <2>7, <2>8, <2>10 DEF PlacesInv, PlaceOf, Placed, Nowhere
  <2> QED
    BY <2>1, <2>9, <2>10 DEF PlacesInv
<1>7. ASSUME NEW j \in Jobs, NEW t \in Turns, Leave(j, t)
      PROVE  PlacesInv'
  <2>1. /\ worker[j][t] = "leaving" /\ worker' = [worker EXCEPT ![j][t] = "none"]
        /\ UNCHANGED <<entries, pending, shutdown, closed, arriving, status>>
    BY <1>7 DEF Leave
  <2>2. \A k \in Jobs, u \in Turns :
           worker'[k][u] = IF k = j /\ u = t THEN "none" ELSE worker[k][u]
    BY <2>1, WorkerChange DEF TypeOK
  <2>3. \A k \in Jobs : TurnsAtWork(k)' = TurnsAtWork(k)
    BY <2>1, <2>2 DEF TurnsAtWork
  <2>4. \A k \in Jobs : OccursIn(pending, k)' = OccursIn(pending, k) /\ OccursIn(entries, k)' = OccursIn(entries, k)
    BY <2>1 DEF OccursIn
  <2> QED
    BY <2>1, <2>3, <2>4 DEF PlacesInv, PlaceOf, Placed, Nowhere
<1>8. CASE Shutdown
  <2>1. /\ pending = <<>> /\ pending' = entries /\ entries' = <<>> /\ closed' /\ shutdown' = "failing"
        /\ UNCHANGED <<worker, arriving, status>>
    BY <1>8 DEF Shutdown, PlacesInv
  <2>2. \A k \in Jobs : /\ OccursIn(pending, k)' = OccursIn(entries, k) /\ OccursIn(entries, k)' = {}
                         /\ OccursIn(pending, k) = {} /\ TurnsAtWork(k)' = TurnsAtWork(k)
    BY <2>1, EmptySeq DEF OccursIn, TurnsAtWork
  <2> QED
    BY <2>1, <2>2 DEF PlacesInv, PlaceOf, Placed, Nowhere, Sole
<1>9. CASE FailPending
  <2>1. PICK j \in Jobs :
        /\ j = Head(pending).job
        /\ shutdown = "failing" /\ pending # <<>> /\ Fails(j) /\ pending' = Tail(pending)
        /\ UNCHANGED <<entries, worker, shutdown, closed, arriving>>
    <3>1. Head(pending) \in Entries
      BY <1>9, HeadTailProperties DEF FailPending, TypeOK
    <3> QED
      BY <1>9, <3>1 DEF FailPending, Entries
  <2>3. 1 \in OccursIn(pending, j)
    BY <2>1, OccursInTail DEF TypeOK
  <2>4. /\ OccursIn(entries, j) = {} /\ Sole(OccursIn(pending, j)) /\ TurnsAtWork(j) = {} /\ j \notin arriving
    BY <2>3 DEF PlacesInv, PlaceOf, Placed, Nowhere
  <2>5. OccursIn(Tail(pending), j) = {}
    BY <2>1, <2>4, OccursInTail DEF TypeOK
  <2>6. ASSUME NEW k \in Jobs, k # j
        PROVE  /\ OccursIn(pending, k) = {} => OccursIn(Tail(pending), k) = {}
               /\ Sole(OccursIn(pending, k)) => Sole(OccursIn(Tail(pending), k))
    BY <2>1, <2>6, OccursInTail DEF TypeOK
  <2>7. \A k \in Jobs : /\ OccursIn(pending, k)' = OccursIn(Tail(pending), k)
                         /\ OccursIn(entries, k)' = OccursIn(entries, k) /\ TurnsAtWork(k)' = TurnsAtWork(k)
    BY <2>1 DEF OccursIn, TurnsAtWork
  <2>8. status'[j] # "active" /\ \A k \in Jobs : k # j => status'[k] = status[k]
    BY <2>1 DEF Fails, TypeOK
  <2>9. PlaceOf(j)'
    BY <2>1, <2>4, <2>5, <2>7, <2>8 DEF PlaceOf, Nowhere
  <2>10. ASSUME NEW k \in Jobs, k # j
         PROVE  PlaceOf(k)'
    BY <2>1, <2>6, <2>7, <2>8, <2>10 DEF PlacesInv, PlaceOf, Placed, Nowhere, Sole
  <2> QED
    BY <2>1, <2>9, <2>10 DEF PlacesInv
<1>10. CASE AllFailed \/ DispatcherJoined \/ Drained
  <2>1. /\ shutdown # "no" /\ shutdown' # "no"
        /\ UNCHANGED <<entries, pending, worker, closed, arriving, status>>
    BY <1>10 DEF AllFailed, DispatcherJoined, Drained
  <2> QED
    BY <2>1, PlaceUnchanged DEF PlacesInv
<1>11. CASE UNCHANGED vars
  <2>1. UNCHANGED <<entries, pending, worker, closed, shutdown, arriving, status>>
    BY <1>11 DEF vars
  <2> QED
    BY <2>1, PlaceUnchanged DEF PlacesInv
<1> QED
  BY <1>1, <1>2, <1>3, <1>4, <1>5, <1>6, <1>7, <1>8, <1>9, <1>10, <1>11
     DEF Next, Dispatcher, Worker, ShutdownSteps

\* No job is resolved twice at a time and none is accepted and forgotten, for any
\* number of jobs, slots and turns: an active job has one place, another has none
\* (resolveQueue and its callers).
THEOREM QueueOnePlacePerJob == Spec => []OnePlacePerJob
<1>1. Init => PlacesInv
  BY EmptySeq DEF Init, PlacesInv, PlaceOf, Nowhere, OccursIn, TurnsAtWork
<1>2. TypeOK /\ TurnsLeft /\ PlacesInv /\ [Next]_vars => PlacesInv'
  BY PlacesStep
<1>3. TypeOK /\ PlacesInv => OnePlacePerJob
  BY PlacesCounted DEF PlacesInv, OnePlacePerJob
<1> QED
  BY <1>1, <1>2, <1>3, QueueTypeCorrect, PTL DEF Spec

-----------------------------------------------------------------------------
(* Shutdown.                                                               *)

NoWorker == \A j \in Jobs, t \in Turns : worker[j][t] = "none"

\* Once the entries are failed there are none to fail, and once the workers have
\* been waited for there are none.
ShutdownInv ==
    /\ shutdown \in {"joining", "draining", "done"} => pending = <<>>
    /\ shutdown = "done" => NoWorker

\* When shutdown returns no worker is alive, none will start, and every job that
\* was accepted is failed or with its request (shutdown, "waits for running jobs").
THEOREM QueueShutdown == Spec => []ShutdownLeavesNothing
<1>1. Init => PlacesInv /\ ShutdownInv
  BY EmptySeq DEF Init, PlacesInv, PlaceOf, Nowhere, OccursIn, TurnsAtWork, ShutdownInv
<1>2. TypeOK /\ TurnsLeft /\ PlacesInv /\ ShutdownInv /\ [Next]_vars => PlacesInv' /\ ShutdownInv'
  <2> SUFFICES ASSUME TypeOK, TurnsLeft, PlacesInv, ShutdownInv, [Next]_vars
               PROVE  ShutdownInv'
    BY PlacesStep
  <2> USE DEF queue, closing, callers
  <2>1. ASSUME NEW j \in Jobs, Submit(j) \/ Select(j) \/ Expire(j) \/ Enqueue(j)
        PROVE  ShutdownInv'
    BY <2>1 DEF Submit, Select, Expire, Enqueue, ShutdownInv, NoWorker
  <2>2. CASE (\E n \in Requests : SetConcurrency(n)) \/ StartDispatcher \/ Sleep \/ DispatcherExits
    BY <2>2 DEF SetConcurrency, StartDispatcher, Sleep, DispatcherExits, ShutdownInv, NoWorker
  <2>3. CASE Dispatch
    BY <2>3 DEF Dispatch, ShutdownInv, PlacesInv
  <2>4. ASSUME NEW j \in Jobs, NEW t \in Turns, Worker(j, t)
        PROVE  ShutdownInv'
    BY <2>4 DEF Worker, Pause, Finish, Leave, ShutdownInv, NoWorker
  <2>5. CASE Shutdown
    BY <2>5 DEF Shutdown, ShutdownInv
  <2>6. CASE FailPending \/ AllFailed \/ DispatcherJoined
    BY <2>6 DEF FailPending, AllFailed, DispatcherJoined, ShutdownInv
  <2>7. CASE Drained
    <3>1. \A j \in Jobs, t \in Turns : worker[j][t] \notin {"working", "leaving"}
      <4>1. \A w \in Jobs \X Turns : worker[w[1]][w[2]] \notin {"working", "leaving"}
        BY <2>7 DEF Drained, Workers
      <4>2. ASSUME NEW j \in Jobs, NEW t \in Turns
            PROVE  worker[j][t] \notin {"working", "leaving"}
        <5>1. <<j, t>> \in Jobs \X Turns
          OBVIOUS
        <5> QED
          BY <4>1, <5>1
      <4> QED
        BY <4>2
    <3> QED
      BY <2>7, <3>1 DEF Drained, ShutdownInv, NoWorker, TypeOK
  <2>8. CASE UNCHANGED vars
    BY <2>8 DEF vars, ShutdownInv, NoWorker
  <2> QED
    BY <2>1, <2>2, <2>3, <2>4, <2>5, <2>6, <2>7, <2>8 DEF Next, Dispatcher, ShutdownSteps
<1>3. TypeOK /\ PlacesInv /\ ShutdownInv => ShutdownLeavesNothing
  <2> SUFFICES ASSUME TypeOK, PlacesInv, ShutdownInv, shutdown = "done"
               PROVE  /\ Workers({"working", "leaving"}) = {}
                      /\ entries = <<>> /\ pending = <<>>
                      /\ \A j \in Jobs : status[j] = "active" => j \in arriving
    BY DEF ShutdownLeavesNothing
  <2>1. entries = <<>> /\ pending = <<>> /\ NoWorker
    BY DEF PlacesInv, ShutdownInv
  <2>2. Workers({"working", "leaving"}) = {}
    BY <2>1 DEF NoWorker, Workers
  <2>3. \A j \in Jobs : OccursIn(entries, j) = {} /\ OccursIn(pending, j) = {} /\ TurnsAtWork(j) = {}
    BY <2>1, EmptySeq DEF OccursIn, TurnsAtWork, NoWorker
  <2> QED
    BY <2>1, <2>2, <2>3 DEF PlacesInv, PlaceOf, Placed, Sole
<1> QED
  BY <1>1, <1>2, <1>3, QueueTypeCorrect, PTL DEF Spec

-----------------------------------------------------------------------------
(* One slot.                                                               *)

Alive == Workers({"working", "leaving"})

\* With one slot a worker that lives has its job in the map of running jobs,
\* and is the only one.
SerialInv ==
    /\ concurrency = 1
    /\ IsFiniteSet(running)
    /\ \A w \in Alive : w[1] \in running
    /\ \A v, w \in Alive : v = w

\* As long as nobody asks for more than one slot, a worker starts only when no
\* other lives. (With more slots a resumed job may start beside its former worker:
\* see the run queue_overlap.)
THEOREM QueueSerial ==
    ASSUME \A n \in Requests : n <= 1
    PROVE  Spec => WorkersWithinLimit
<1>1. \A n \in Requests : Clamp(n) = 1
  BY QueueAssumption DEF Clamp
<1>2. Init => SerialInv
  BY <1>1, FS_EmptySet DEF Init, SerialInv, Alive, Workers
<1>3. ASSUME TypeOK, SerialInv, [Next]_vars
      PROVE  SerialInv' /\ (Alive' \ Alive # {} => Cardinality(Alive) < concurrency)
  <2> USE DEF queue, closing, callers
  <2>1. CASE UNCHANGED <<running, concurrency, worker>>
    BY <1>3, <2>1 DEF SerialInv, Alive, Workers
  <2>2. ASSUME NEW n \in Requests, SetConcurrency(n)
        PROVE  SerialInv' /\ Alive' = Alive
    BY <1>1, <1>3, <2>2 DEF SetConcurrency, SerialInv, Alive, Workers
  <2>3. CASE Dispatch
    <3>1. PICK e \in Entries :
             /\ Cardinality(running) < 1 /\ concurrency = 1 /\ concurrency' = 1
             /\ running' = running \union {e.job}
             /\ worker' = [worker EXCEPT ![e.job][e.turn] = "working"]
      BY <1>3, <2>3, HeadTailProperties DEF Dispatch, CanDispatch, TypeOK, SerialInv
    <3>2. e.job \in Jobs /\ e.turn \in Turns
      BY <3>1 DEF Entries
    <3>3. running = {} /\ Alive = {}
      BY <1>3, <3>1, FS_CardinalityType, FS_EmptySet DEF SerialInv
    <3>4. \A k \in Jobs, u \in Turns :
             worker'[k][u] = IF k = e.job /\ u = e.turn THEN "working" ELSE worker[k][u]
      BY <1>3, <3>1, <3>2, WorkerChange DEF TypeOK
    <3>5. \A k \in Jobs, u \in Turns : worker[k][u] \notin {"working", "leaving"}
      <4>1. ASSUME NEW k \in Jobs, NEW u \in Turns
            PROVE  <<k, u>> \notin Alive /\ <<k, u>> \in Jobs \X Turns
        BY <3>3
      <4> QED
        BY <4>1 DEF Alive, Workers
    <3>6. \A w \in Alive' : w = <<e.job, e.turn>>
      BY <3>4, <3>5 DEF Alive, Workers
    <3>7. IsFiniteSet(running') /\ e.job \in running'
      <4>1. running' = {e.job}
        BY <3>1, <3>3
      <4> QED
        BY <4>1, FS_Singleton
    <3>8. Cardinality(Alive) = 0
      BY <3>3, FS_EmptySet
    <3> QED
      BY <3>1, <3>6, <3>7, <3>8 DEF SerialInv
  <2>4. ASSUME NEW j \in Jobs, NEW t \in Turns, Pause(j, t) \/ Finish(j, t)
        PROVE  SerialInv' /\ Alive' \subseteq Alive
    <3>1. /\ worker[j][t] = "working" /\ worker' = [worker EXCEPT ![j][t] = "leaving"]
          /\ UNCHANGED <<running, concurrency>>
      BY <2>4 DEF Pause, Finish
    <3>2. \A k \in Jobs, u \in Turns :
             worker'[k][u] = IF k = j /\ u = t THEN "leaving" ELSE worker[k][u]
      BY <1>3, <3>1, WorkerChange DEF TypeOK
    <3>3. Alive' \subseteq Alive
      BY <3>1, <3>2 DEF Alive, Workers
    <3> QED
      BY <1>3, <3>1, <3>3 DEF SerialInv
  <2>5. ASSUME NEW j \in Jobs, NEW t \in Turns, Leave(j, t)
        PROVE  SerialInv' /\ Alive' = {}
    <3>1. /\ worker[j][t] = "leaving" /\ worker' = [worker EXCEPT ![j][t] = "none"]
          /\ running' = running \ {j} /\ concurrency' = concurrency
      BY <2>5 DEF Leave
    <3>2. \A k \in Jobs, u \in Turns :
             worker'[k][u] = IF k = j /\ u = t THEN "none" ELSE worker[k][u]
      BY <1>3, <3>1, WorkerChange DEF TypeOK
    <3>3. <<j, t>> \in Alive
      BY <3>1 DEF Alive, Workers
    <3>4. \A w \in Jobs \X Turns : w \in Alive' => w \in Alive /\ w # <<j, t>>
      BY <3>1, <3>2 DEF Alive, Workers
    <3>5. Alive' = {}
      BY <1>3, <3>3, <3>4 DEF SerialInv, Alive, Workers
    <3>6. IsFiniteSet(running')
      BY <1>3, <3>1, FS_RemoveElement DEF SerialInv
    <3> QED
      BY <1>3, <3>1, <3>5, <3>6 DEF SerialInv
  <2>6. ASSUME NEW j \in Jobs, Submit(j) \/ Select(j) \/ Expire(j) \/ Enqueue(j)
        PROVE  UNCHANGED <<running, concurrency, worker>>
    BY <2>6 DEF Submit, Select, Expire, Enqueue
  <2>7. CASE \/ StartDispatcher \/ Sleep \/ DispatcherExits \/ Shutdown \/ ShutdownSteps
             \/ UNCHANGED vars
    <3>1. UNCHANGED <<running, concurrency, worker>>
      BY <2>7 DEF StartDispatcher, Sleep, DispatcherExits, Shutdown, ShutdownSteps, FailPending,
                  AllFailed, DispatcherJoined, Drained, vars
    <3> QED
      BY <2>1, <3>1
  <2> QED
    BY <1>3, <2>1, <2>2, <2>3, <2>4, <2>5, <2>6, <2>7 DEF Next, Dispatcher, Worker
<1>4. TypeOK /\ SerialInv /\ [Next]_vars =>
         SerialInv' /\ (Alive' \ Alive # {} => Cardinality(Alive) < concurrency)
  BY <1>3
<1> QED
  BY <1>2, <1>4, QueueTypeCorrect, PTL DEF Spec, WorkersWithinLimit, Alive

-----------------------------------------------------------------------------
(* The position of a waiting job.                                          *)

\* The entries stand in the order of their priorities.
Sorted == \A i, k \in 1 .. Len(entries) : i < k => entries[i].priority >= entries[k].priority

OrderInv == IsFiniteSet(running) /\ Sorted

\* Priorities are compared as numbers.
LEMMA EntryPriorities ==
    ASSUME entries \in Seq(Entries)
    PROVE  \A i \in 1 .. Len(entries) : entries[i].priority \in Nat
<1>1. \A i \in 1 .. Len(entries) : entries[i] \in Entries
  OBVIOUS
<1> QED
  BY <1>1 DEF Entries, PriorityUser, PriorityAdmin, PriorityResume

\* An enqueue that is accepted inserts an entry with the priority of its job.
LEMMA EnqueuedEntry ==
    ASSUME TypeOK, TurnsLeft, NEW j \in Jobs, Enqueue(j)
    PROVE  \/ entries' = entries
           \/ \E e \in Entries : /\ e.job = j /\ e.priority = PriorityOf(j)
                                 /\ entries' = Inserted(e)
<1>1. turn[j] \in 0 .. MaxTurns /\ turn[j] < MaxTurns
  BY DEF Enqueue, TypeOK, TurnsLeft
<1>2. turn[j] + 1 \in Turns
  BY <1>1, QueueAssumption DEF Turns
<1>3. [job |-> j, priority |-> PriorityOf(j), turn |-> turn[j] + 1] \in Entries
  BY <1>2, PriorityType DEF Entries
<1> QED
  BY <1>3 DEF Enqueue

\* An insertion keeps the queue sorted.
LEMMA InsertedSorted ==
    ASSUME entries \in Seq(Entries), Sorted, NEW e \in Entries, entries' = Inserted(e)
    PROVE  Sorted'
<1> DEFINE at == PlaceInQueue(e.priority)
<1>1. e.priority \in Nat
  BY DEF Entries, PriorityUser, PriorityAdmin, PriorityResume
<1>2. /\ at \in 1 .. Len(entries) + 1
      /\ \A i \in 1 .. at - 1 : entries[i].priority >= e.priority
      /\ at <= Len(entries) => entries[at].priority < e.priority
  BY <1>1, PlaceInQueueIs
<1>3. /\ Len(entries') = Len(entries) + 1
      /\ \A i \in 1 .. Len(entries) + 1 :
            entries'[i] = IF i < at THEN entries[i] ELSE IF i = at THEN e ELSE entries[i - 1]
  BY InsertedEntries
<1>4. \A i \in 1 .. Len(entries) : entries[i].priority \in Nat
  BY EntryPriorities
<1>5. Len(entries) \in Nat
  OBVIOUS
<1> HIDE DEF at
<1>6. ASSUME NEW i \in at .. Len(entries)
      PROVE  entries[i].priority < e.priority
  <2>1. at \in 1 .. Len(entries) /\ i \in 1 .. Len(entries) /\ (i = at \/ at < i)
    BY <1>2, <1>5
  <2> QED
    BY <1>1, <1>2, <1>4, <2>1 DEF Sorted
<1>7. ASSUME NEW i \in 1 .. Len(entries) + 1, NEW k \in 1 .. Len(entries) + 1, i < k
      PROVE  entries'[i].priority >= entries'[k].priority
  <2>1. CASE k < at
    BY <1>2, <1>3, <1>5, <1>7, <2>1 DEF Sorted
  <2>2. CASE k = at
    BY <1>2, <1>3, <1>5, <1>7, <2>2
  <2>3. CASE k > at /\ i = at
    BY <1>1, <1>2, <1>3, <1>4, <1>5, <1>6, <1>7, <2>3
  <2>4. CASE k > at /\ i < at
    <3>1. /\ i \in 1 .. Len(entries) /\ k - 1 \in 1 .. Len(entries) /\ (i < k - 1 \/ i = k - 1)
          /\ entries'[i] = entries[i] /\ entries'[k] = entries[k - 1]
      BY <1>2, <1>3, <1>5, <1>7, <2>4
    <3> QED
      BY <1>1, <1>2, <1>4, <1>5, <1>6, <1>7, <2>4, <3>1
  <2>5. CASE k > at /\ i > at
    <3>1. /\ i - 1 \in 1 .. Len(entries) /\ k - 1 \in 1 .. Len(entries) /\ i - 1 < k - 1
          /\ entries'[i] = entries[i - 1] /\ entries'[k] = entries[k - 1]
      BY <1>2, <1>3, <1>5, <1>7, <2>5
    <3> QED
      BY <3>1 DEF Sorted
  <2> QED
    BY <1>2, <1>5, <2>1, <2>2, <2>3, <2>4, <2>5
<1> QED
  BY <1>3, <1>7 DEF Sorted

\* Every step keeps it sorted.
LEMMA OrderStep ==
    ASSUME TypeOK, TurnsLeft, OrderInv, [Next]_vars
    PROVE  OrderInv'
<1> USE DEF queue, closing, callers
<1>1. ASSUME NEW j \in Jobs, Enqueue(j)
      PROVE  OrderInv'
  <2>1. running' = running
    BY <1>1 DEF Enqueue
  <2>2. Sorted'
    BY <1>1, EnqueuedEntry, InsertedSorted DEF OrderInv, Sorted, TypeOK
  <2> QED
    BY <2>1, <2>2 DEF OrderInv
<1>2. CASE Dispatch
  <2>1. /\ entries \in Seq(Entries) /\ entries # <<>> /\ entries' = Tail(entries)
        /\ running' = running \union {Head(entries).job}
    BY <1>2 DEF Dispatch, CanDispatch, TypeOK
  <2>2. IsFiniteSet(running')
    BY <2>1, FS_AddElement DEF OrderInv
  <2>3. /\ Len(entries) \in Nat /\ Len(entries') = Len(entries) - 1
        /\ \A i \in 1 .. Len(entries) - 1 : entries'[i] = entries[i + 1]
    BY <2>1, HeadTailProperties
  <2> QED
    BY <2>2, <2>3 DEF OrderInv, Sorted
<1>3. CASE Shutdown
  BY <1>3, EmptySeq DEF Shutdown, OrderInv, Sorted
<1>4. ASSUME NEW j \in Jobs, NEW t \in Turns, Leave(j, t)
      PROVE  OrderInv'
  BY <1>4, FS_RemoveElement DEF Leave, OrderInv, Sorted
<1>5. CASE UNCHANGED <<entries, running>>
  BY <1>5 DEF OrderInv, Sorted
<1>6. ASSUME NEW j \in Jobs, Submit(j) \/ Select(j) \/ Expire(j)
      PROVE  UNCHANGED <<entries, running>>
  BY <1>6 DEF Submit, Select, Expire
<1>7. ASSUME NEW n \in Requests, SetConcurrency(n)
      PROVE  UNCHANGED <<entries, running>>
  BY <1>7 DEF SetConcurrency
<1>8. ASSUME NEW j \in Jobs, NEW t \in Turns, Pause(j, t) \/ Finish(j, t)
      PROVE  UNCHANGED <<entries, running>>
  BY <1>8 DEF Pause, Finish
<1>9. CASE StartDispatcher \/ Sleep \/ DispatcherExits \/ ShutdownSteps
  BY <1>5, <1>9 DEF StartDispatcher, Sleep, DispatcherExits, ShutdownSteps, FailPending, AllFailed,
                    DispatcherJoined, Drained
<1> QED
  BY <1>1, <1>2, <1>3, <1>4, <1>5, <1>6, <1>7, <1>8, <1>9 DEF Next, Dispatcher, Worker, vars

\* A job that waits in one place is told how many go before it and how many slots
\* that needs.
LEMMA PositionFrom ==
    ASSUME entries \in Seq(Entries), NEW j, NEW i \in Nat, OccursIn(entries, j) = {i}, j \notin running
    PROVE  /\ Position(j) = Max({0, (i - 1) + Cardinality(running) - concurrency + 1})
           /\ EntryOf(j) = entries[i]
<1>1. Min({i}) = i
  BY LeastMember
<1>2. {k \in 1 .. Len(entries) : entries[k].job = j} = {i}
  BY DEF OccursIn
<1>3. Waiting(j)
  BY <1>2 DEF Waiting
<1> QED
  BY <1>1, <1>2, <1>3 DEF Position, EntryOf

\* A position grows only with the entries and the running jobs before it, less
\* the slots.
LEMMA PositionGrows ==
    ASSUME entries \in Seq(Entries), entries' \in Seq(Entries), concurrency \in Int, concurrency' \in Int,
           Cardinality(running) \in Nat, Cardinality(running') \in Nat,
           NEW j, j \notin running,
           NEW i \in Nat, OccursIn(entries, j) = {i},
           NEW k \in Nat, OccursIn(entries', j) = {k},
           k + Cardinality(running') - concurrency' <= i + Cardinality(running) - concurrency
    PROVE  ~ (Position(j)' > Position(j))
<1> DEFINE before == (i - 1) + Cardinality(running) - concurrency + 1
           after == (k - 1) + Cardinality(running') - concurrency' + 1
<1>1. Position(j) = Max({0, before})
  BY PositionFrom
<1>2. before \in Int /\ after \in Int /\ after <= before
  OBVIOUS
<1>3. Position(j)' = 0 \/ Position(j)' = Max({0, after})
  <2>1. CASE j \in running'
    BY <2>1 DEF Position
  <2>2. CASE j \notin running'
    <3>1. Min({k}) = k
      BY LeastMember
    <3>2. {n \in 1 .. Len(entries') : entries'[n].job = j} = {k}
      BY DEF OccursIn
    <3>3. Waiting(j)'
      BY <3>2 DEF Waiting
    <3> QED
      BY <2>2, <3>1, <3>2, <3>3 DEF Position
  <2> QED
    BY <2>1, <2>2
<1> HIDE DEF before, after
<1>4. /\ Max({0, before}) = IF before > 0 THEN before ELSE 0
      /\ Max({0, after}) = IF after > 0 THEN after ELSE 0
  BY <1>2, MaxWithZero
<1> QED
  BY <1>1, <1>2, <1>3, <1>4

\* A waiting job moves back only when the limit is lowered or an entry of a higher
\* priority is inserted: jobs of one priority start in the order they were enqueued
\* (resolveQueue.enqueue, position).
THEOREM QueuePositionNeverRises == Spec => PositionNeverRises
<1>1. Init => PlacesInv /\ OrderInv
  BY EmptySeq, FS_EmptySet DEF Init, PlacesInv, PlaceOf, Nowhere, OccursIn, TurnsAtWork, OrderInv, Sorted
<1>2. ASSUME TypeOK, TypeOK', TurnsLeft, PlacesInv, PlacesInv', OrderInv, OrderInv', [Next]_vars,
             NEW j \in Jobs, Waiting(j), Waiting(j)', j \notin running, ~ (concurrency' < concurrency),
             \A k \in arriving \ arriving' : ~ (PriorityOf(k) > EntryOf(j).priority)
      PROVE  ~ (Position(j)' > Position(j))
  <2> USE DEF queue, closing, callers
  <2>1. PICK i \in 1 .. Len(entries) : OccursIn(entries, j) = {i}
    <3>1. OccursIn(entries, j) # {}
      BY <1>2 DEF Waiting, OccursIn
    <3>2. Sole(OccursIn(entries, j))
      BY <1>2, <3>1 DEF PlacesInv, PlaceOf, Placed, Nowhere
    <3> QED
      BY <3>2 DEF Sole, OccursIn
  <2>2. PICK k \in 1 .. Len(entries') : OccursIn(entries', j) = {k}
    <3>1. OccursIn(entries, j)' # {}
      BY <1>2 DEF Waiting, OccursIn
    <3>2. Sole(OccursIn(entries, j)')
      BY <1>2, <3>1 DEF PlacesInv, PlaceOf, Placed, Nowhere
    <3> QED
      BY <3>2 DEF Sole, OccursIn
  <2>3. /\ entries \in Seq(Entries) /\ entries' \in Seq(Entries)
        /\ concurrency \in Int /\ concurrency' \in Int /\ concurrency' >= concurrency
        /\ Cardinality(running) \in Nat /\ Cardinality(running') \in Nat
        /\ Len(entries) \in Nat /\ i \in Nat /\ k \in Nat
    BY <1>2, <2>1, <2>2, FS_CardinalityType DEF TypeOK, OrderInv
  <2>4. ASSUME k <= i, Cardinality(running') <= Cardinality(running)
        PROVE  ~ (Position(j)' > Position(j))
    <3>1. k + Cardinality(running') - concurrency' <= i + Cardinality(running) - concurrency
      BY <2>3, <2>4
    <3> QED
      BY <1>2, <2>1, <2>2, <2>3, <3>1, PositionGrows
  <2>5. ASSUME UNCHANGED <<entries, running>>
        PROVE  ~ (Position(j)' > Position(j))
    <3>1. k = i
      BY <2>1, <2>2, <2>5
    <3> QED
      BY <2>3, <2>4, <2>5, <3>1
  <2>6. ASSUME NEW m \in Jobs, Enqueue(m)
        PROVE  ~ (Position(j)' > Position(j))
    <3>1. running' = running /\ m \in arriving \ arriving' /\ OccursIn(entries, m) = {}
      BY <1>2, <2>6 DEF Enqueue, PlacesInv, PlaceOf, Placed, Nowhere
    <3>2. ASSUME NEW e \in Entries, e.job = m, e.priority = PriorityOf(m), entries' = Inserted(e)
          PROVE  k <= i
      <4> DEFINE at == PlaceInQueue(e.priority)
      <4>1. e.priority \in Nat /\ entries[i].priority \in Nat
        BY <2>1, <2>3, EntryPriorities DEF Entries, PriorityUser, PriorityAdmin, PriorityResume
      <4>2. /\ at \in 1 .. Len(entries) + 1
            /\ at <= Len(entries) => entries[at].priority < e.priority
        BY <2>3, <4>1, PlaceInQueueIs
      <4>3. e.priority <= entries[i].priority
        <5>1. EntryOf(j) = entries[i]
          BY <1>2, <2>1, <2>3, PositionFrom
        <5> QED
          BY <1>2, <3>1, <3>2, <4>1, <5>1
      <4>4. \A n \in 1 .. Len(entries) + 1 :
               entries'[n] = IF n < at THEN entries[n] ELSE IF n = at THEN e ELSE entries[n - 1]
        BY <2>3, <3>2, InsertedEntries
      <4>5. Len(entries') = Len(entries) + 1
        BY <2>3, <3>2, InsertedEntries
      <4> HIDE DEF at
      <4>6. i < at
        <5>1. ASSUME at <= i
              PROVE  FALSE
          <6>1. at \in 1 .. Len(entries) /\ (at = i \/ at < i)
            BY <2>1, <2>3, <4>2, <5>1
          <6>2. entries[at].priority \in Nat
            BY <2>3, <6>1, EntryPriorities
          <6> QED
            BY <1>2, <2>1, <4>1, <4>2, <4>3, <6>1, <6>2 DEF OrderInv, Sorted
        <5> QED
          BY <2>3, <4>2, <5>1
      <4>7. i \in OccursIn(entries', j)
        BY <2>1, <2>3, <4>4, <4>5, <4>6 DEF OccursIn
      <4> QED
        BY <2>2, <2>3, <4>7
    <3> QED
      BY <1>2, <2>3, <2>4, <2>5, <2>6, <3>1, <3>2, EnqueuedEntry
  <2>7. CASE Dispatch
    <3>1. /\ entries # <<>> /\ entries' = Tail(entries)
          /\ running' = running \union {Head(entries).job}
      BY <2>7 DEF Dispatch, CanDispatch
    <3>2. /\ Len(entries') = Len(entries) - 1
          /\ \A n \in 1 .. Len(entries) - 1 : entries'[n] = entries[n + 1]
      BY <2>3, <3>1, HeadTailProperties
    <3>3. k + 1 \in OccursIn(entries, j)
      BY <2>2, <2>3, <3>2 DEF OccursIn
    <3>4. i = k + 1
      BY <2>1, <3>3
    <3>5. Cardinality(running') <= Cardinality(running) + 1
      <4>1. \A x : Cardinality(running \union {x}) \in {Cardinality(running), Cardinality(running) + 1}
        BY <1>2, FS_AddElement DEF OrderInv
      <4>2. Cardinality(running') \in {Cardinality(running), Cardinality(running) + 1}
        BY <3>1, <4>1
      <4> QED
        BY <2>3, <4>2
    <3>6. k + Cardinality(running') - concurrency' <= i + Cardinality(running) - concurrency
      BY <2>3, <3>4, <3>5
    <3> QED
      BY <1>2, <2>1, <2>2, <2>3, <3>6, PositionGrows
  <2>8. ASSUME NEW m \in Jobs, NEW t \in Turns, Leave(m, t)
        PROVE  ~ (Position(j)' > Position(j))
    <3>1. entries' = entries /\ running' \subseteq running
      BY <2>8 DEF Leave
    <3>2. Cardinality(running') <= Cardinality(running)
      BY <1>2, <3>1, FS_Subset DEF OrderInv
    <3>3. k = i
      BY <2>1, <2>2, <3>1
    <3> QED
      BY <2>3, <2>4, <3>2, <3>3
  <2>9. CASE Shutdown
    BY <1>2, <2>2, <2>9, EmptySeq DEF Shutdown
  <2>10. ASSUME NEW m \in Jobs, Submit(m) \/ Select(m) \/ Expire(m)
         PROVE  UNCHANGED <<entries, running>>
    BY <2>10 DEF Submit, Select, Expire
  <2>11. ASSUME NEW n \in Requests, SetConcurrency(n)
         PROVE  UNCHANGED <<entries, running>>
    BY <2>11 DEF SetConcurrency
  <2>12. ASSUME NEW m \in Jobs, NEW t \in Turns, Pause(m, t) \/ Finish(m, t)
         PROVE  UNCHANGED <<entries, running>>
    BY <2>12 DEF Pause, Finish
  <2>13. CASE StartDispatcher \/ Sleep \/ DispatcherExits \/ ShutdownSteps \/ UNCHANGED vars
    BY <2>5, <2>13 DEF StartDispatcher, Sleep, DispatcherExits, ShutdownSteps, FailPending, AllFailed,
                       DispatcherJoined, Drained, vars
  <2> QED
    BY <1>2, <2>5, <2>6, <2>7, <2>8, <2>9, <2>10, <2>11, <2>12, <2>13 DEF Next, Dispatcher, Worker
<1>3. TypeOK /\ TypeOK' /\ TurnsLeft /\ PlacesInv /\ OrderInv /\ [Next]_vars =>
         PlacesInv' /\ OrderInv' /\ [\A j \in Jobs :
            Waiting(j) /\ Waiting(j)' /\ j \notin running /\ Position(j)' > Position(j) =>
                \/ concurrency' < concurrency
                \/ \E k \in arriving \ arriving' : PriorityOf(k) > EntryOf(j).priority]_vars
  <2> SUFFICES ASSUME TypeOK, TypeOK', TurnsLeft, PlacesInv, OrderInv, [Next]_vars
               PROVE  PlacesInv' /\ OrderInv' /\ \A j \in Jobs :
            Waiting(j) /\ Waiting(j)' /\ j \notin running /\ Position(j)' > Position(j) =>
                \/ concurrency' < concurrency
                \/ \E k \in arriving \ arriving' : PriorityOf(k) > EntryOf(j).priority
    OBVIOUS
  <2>1. PlacesInv' /\ OrderInv'
    BY PlacesStep, OrderStep
  <2> QED
    BY <1>2, <2>1
<1> QED
  BY <1>1, <1>3, QueueTypeCorrect, PTL DEF Spec, PositionNeverRises
=============================================================================
