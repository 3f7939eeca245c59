------------------------------ MODULE BatchProofs ------------------------------
(***************************************************************************)
(* A batch keeps the promise of BatchContract, whatever the bounds and the *)
(* finite set of its links, and its verdict is therefore exact; and none   *)
(* is left waiting for a child that never reports.                         *)
(***************************************************************************)
EXTENDS BatchJobs, FiniteSetTheorems, TLAPS

Busy == {c \in Links : run[c] \notin {"none", "over"}}
Past == {c \in Links : run[c] \in {"counting", "over"}}

\* While the process is down there are no runs.
StoppedInv == phase # "up" => creator = "done" /\ (\A c \in Links : run[c] = "over") /\ panicked = {}

\* How far the handler is.
CreatorInv ==
    /\ creator = "idle" => /\ parent = "absent" /\ done = 0 /\ succeeded = {}
                           /\ \A c \in Links : run[c] = "none"
    /\ parent = "absent" => /\ creator \in {"idle", "done"} /\ Busy = {} /\ counted = {}
                            /\ \A c \in Links : child[c] = "absent"
    /\ creator \in {"creating", "aborting"} =>
          /\ parent = "running" /\ counted = {}
          /\ \A c \in Links : child[c] \in {"absent", "active"} /\ run[c] = "none"
    /\ creator = "abandoning" => Busy = {} /\ (parent = "running" => restart)
    /\ creator = "enqueuing" =>
          /\ parent = "running" /\ \E c \in Links : run[c] = "none"
          /\ \A c \in Links : run[c] = "none" => child[c] = "active"

\* How far each run is.
RunInv ==
    /\ Busy # {} => parent = "running"
    /\ \A c \in Links :
          /\ run[c] \in {"queued", "working"} => child[c] = "active"
          /\ run[c] = "waiting" => (found[c] <=> child[c] = "completed" /\ c \notin unconfirmed)
          /\ run[c] = "counting" => copied[c] = [done |-> done, succeeded |-> succeeded]
          /\ c \in panicked => child[c] = "active" /\ run[c] \notin {"none", "queued", "working"}
    /\ \A c, d \in Links : run[c] = "counting" /\ run[d] = "counting" => c = d

\* The runs in T are those that counted: the totals are theirs, and as long as
\* no restart is due no run has ended without counting, nor the last one before
\* the parent was stored.
Tally(T) ==
    /\ T \subseteq Past /\ done = Cardinality(T)
    /\ succeeded \subseteq Completed /\ Completed \intersect T \subseteq succeeded \union unconfirmed
    /\ counted \subseteq succeeded
    /\ ~restart /\ ~queueClosed => T = Past /\ (Busy = {} => T # Links)
TallyInv == phase = "up" /\ parent = "running" => \E T \in SUBSET Links : Tally(T)

FoldInv == /\ counted \subseteq Completed
           /\ phase = "folded" /\ parent = "running" => Completed \ counted \subseteq lapsed

BatchInv == TypeOK /\ StoppedInv /\ CreatorInv /\ RunInv /\ TallyInv /\ FoldInv

-----------------------------------------------------------------------------
(* The runs and the handler.                                               *)

\* A batch has finitely many links, and counting one more of them adds one.
LEMMA LinksCount ==
    /\ Links # {} /\ Cardinality(Links) \in Nat /\ Cardinality({}) = 0
    /\ \A T \in SUBSET Links :
          /\ Cardinality(T) \in Nat /\ Cardinality(T) <= Cardinality(Links)
          /\ Cardinality(T) = Cardinality(Links) => T = Links
          /\ \A c \in Links \ T : Cardinality(T \union {c}) = Cardinality(T) + 1
<1>1. IsFiniteSet(Links) /\ Links # {}
  BY BatchAssumption
<1>2. ASSUME NEW T \in SUBSET Links
      PROVE  /\ Cardinality(T) \in Nat /\ Cardinality(T) <= Cardinality(Links)
             /\ Cardinality(T) = Cardinality(Links) => T = Links
             /\ \A c \in Links \ T : Cardinality(T \union {c}) = Cardinality(T) + 1
  <2>1. /\ IsFiniteSet(T) /\ Cardinality(T) <= Cardinality(Links)
        /\ Cardinality(Links) = Cardinality(T) => Links = T
    BY <1>1, FS_Subset
  <2>2. Cardinality(T) \in Nat
    BY <2>1, FS_CardinalityType
  <2>3. \A c \in Links \ T : Cardinality(T \union {c}) = Cardinality(T) + 1
    BY <2>1, FS_AddElement
  <2> QED
    BY <2>1, <2>2, <2>3
<1> QED
  BY <1>1, <1>2, FS_EmptySet, FS_CardinalityType

\* What a tally leaves room for.
LEMMA TallyRoom ==
    ASSUME TypeOK, NEW T \in SUBSET Links, Tally(T), NEW c \in Links, run[c] = "waiting"
    PROVE  /\ c \notin T /\ done + 1 = Cardinality(T \union {c}) /\ done + 1 \in 0 .. Cardinality(Links)
           /\ T \union {c} \in SUBSET Links
<1>1. c \notin T /\ T \union {c} \in SUBSET Links
  BY DEF Tally, Past
<1>2. Cardinality(T \union {c}) = done + 1 /\ Cardinality(T \union {c}) \in Nat
      /\ Cardinality(T \union {c}) <= Cardinality(Links)
  BY <1>1, LinksCount DEF Tally
<1> QED
  BY <1>1, <1>2, LinksCount

\* Every step keeps the types.
LEMMA TypeStep ==
    ASSUME BatchInv, [Next]_vars
    PROVE  TypeOK'
<1> USE DEF BatchInv, TypeOK, Goto, table, totals, runs, process, bounds
<1>0. 0 \in 0 .. Cardinality(Links) /\ MaxFaults \in Nat /\ MaxUncertain \in Nat /\ MaxCrashes \in Nat
  BY LinksCount, BatchAssumption
<1>1. StoreFails => faults' \in 0 .. MaxFaults
  BY <1>0 DEF StoreFails
<1>2. \A c \in Links : FailsChild(c) =>
         /\ child' \in [Links -> {"absent", "active", "completed", "failed"}]
         /\ faults' \in 0 .. MaxFaults /\ restart' \in BOOLEAN
  BY <1>1 DEF FailsChild
<1>3. CASE CreateParent \/ AbortParent \/ Abandoned
  BY <1>1, <1>3 DEF CreateParent, AbortParent, Abandoned
<1>4. ASSUME NEW c \in Links, CreateChild(c)
      PROVE  TypeOK'
  BY <1>1, <1>4 DEF CreateChild
<1>5. ASSUME NEW c \in Links, AbortChild(c) \/ Enqueue(c) \/ Fail(c) \/ FailPanicked(c) \/ FailPending(c)
      PROVE  TypeOK'
  BY <1>2, <1>5 DEF AbortChild, Enqueue, Fail, FailPanicked, FailPending
<1>6. ASSUME NEW c \in Links, Start(c) \/ Complete(c) \/ Panic(c)
      PROVE  TypeOK'
  BY <1>6 DEF Start, Complete, Panic
<1>7. ASSUME NEW c \in Links, CompleteUncertainly(c)
      PROVE  TypeOK'
  BY <1>0, <1>7 DEF CompleteUncertainly
<1>8. ASSUME NEW c \in Links, ReadChild(c)
      PROVE  TypeOK'
  BY <1>1, <1>8 DEF ReadChild
<1>9. ASSUME NEW c \in Links, CountChild(c)
      PROVE  TypeOK'
  <2>1. run[c] = "waiting" /\ parent = "running" /\ phase = "up"
    BY <1>9 DEF CountChild, RunInv, Busy, Up
  <2>2. PICK T \in SUBSET Links : Tally(T)
    BY <2>1 DEF TallyInv
  <2>3. done + 1 \in 0 .. Cardinality(Links)
    BY <2>1, <2>2, TallyRoom
  <2>4. done' = done + 1 /\ succeeded' \in SUBSET Links
    BY <1>9 DEF CountChild
  <2>5. [done |-> done', succeeded |-> succeeded'] \in Totals
    BY <2>3, <2>4 DEF Totals
  <2>6. copied' = [copied EXCEPT ![c] = [done |-> done', succeeded |-> succeeded']]
    BY <1>9 DEF CountChild
  <2>7. copied' \in [Links -> Totals]
    BY <2>5, <2>6
  <2> QED
    BY <1>9, <2>3, <2>4, <2>7 DEF CountChild
<1>10. Empty \in Totals
  BY <1>0 DEF Empty, Totals
<1>11. ASSUME NEW c \in Links, StoreParent(c)
       PROVE  TypeOK'
  <2>1. copied[c].succeeded \subseteq Links /\ Verdict(copied[c]) \in {"absent", "running", "completed", "failed"}
    BY DEF Totals, Verdict
  <2>2. copied' \in [Links -> Totals]
    BY <1>10, <1>11 DEF StoreParent
  <2> QED
    BY <1>1, <1>11, <2>1, <2>2 DEF StoreParent
<1>12. ASSUME NEW c \in Links, Lapse(c)
       PROVE  TypeOK'
  BY <1>12 DEF Lapse
<1>13. CASE CloseQueue
  BY <1>13 DEF CloseQueue
<1>14. CASE Stop \/ Crash
  <2>1. Down /\ crashes' \in 0 .. MaxCrashes
    BY <1>0, <1>14 DEF Stop, Crash
  <2> QED
    BY <1>0, <1>10, <2>1 DEF Down
<1>15. CASE Fold \/ MarkInterrupted
  BY <1>15 DEF Fold, MarkInterrupted, Completed
<1>16. CASE UNCHANGED vars
  BY <1>16 DEF vars
<1> QED
  BY <1>3, <1>4, <1>5, <1>6, <1>7, <1>8, <1>9, <1>11, <1>12, <1>13, <1>14, <1>15, <1>16 DEF Next, Creator, Run

\* Every step keeps what is known of a process that is stopped.
LEMMA StoppedStep ==
    ASSUME BatchInv, [Next]_vars
    PROVE  StoppedInv'
<1> USE DEF BatchInv, StoppedInv, runs, process
<1>1. ASSUME Up, phase' = phase
      PROVE  StoppedInv'
  BY <1>1 DEF Up
<1>2. CASE CreateParent \/ AbortParent \/ Abandoned \/ CloseQueue
  BY <1>1, <1>2 DEF CreateParent, AbortParent, Abandoned, CloseQueue
<1>3. ASSUME NEW c \in Links, CreateChild(c) \/ AbortChild(c) \/ Enqueue(c) \/ FailPending(c) \/ FailPanicked(c)
      PROVE  StoppedInv'
  BY <1>1, <1>3 DEF CreateChild, AbortChild, Enqueue, FailPending, FailPanicked
<1>4. ASSUME NEW c \in Links, Start(c) \/ Complete(c) \/ CompleteUncertainly(c) \/ Fail(c) \/ Panic(c)
      PROVE  StoppedInv'
  BY <1>1, <1>4 DEF Start, Complete, CompleteUncertainly, Fail, Panic
<1>5. ASSUME NEW c \in Links, ReadChild(c) \/ CountChild(c) \/ StoreParent(c)
      PROVE  StoppedInv'
  BY <1>1, <1>5 DEF ReadChild, CountChild, StoreParent
<1>6. ASSUME NEW c \in Links, Lapse(c)
      PROVE  StoppedInv'
  BY <1>6 DEF Lapse
<1>7. CASE Stop \/ Crash
  BY <1>7 DEF Stop, Crash, Down
<1>8. CASE Fold \/ MarkInterrupted \/ UNCHANGED vars
  BY <1>8 DEF Fold, MarkInterrupted, vars
<1> QED
  BY <1>2, <1>3, <1>4, <1>5, <1>6, <1>7, <1>8 DEF Next, Creator, Run

\* Every step keeps what is known of the handler that creates the batch.
LEMMA CreatorStep ==
    ASSUME BatchInv, [Next]_vars
    PROVE  CreatorInv'
<1> USE DEF BatchInv, TypeOK, CreatorInv, Busy, Goto, table, totals, runs, process, bounds
<1>1. CASE CreateParent
  BY <1>1, LinksCount DEF CreateParent
<1>2. ASSUME NEW c \in Links, CreateChild(c)
      PROVE  CreatorInv'
  <2>1. creator = "creating" /\ parent = "running" /\ counted = {} /\ \A d \in Links : run[d] = "none"
    BY <1>2 DEF CreateChild
  <2>2. CASE creator' = "aborting"
    BY <1>2, <2>1, <2>2 DEF CreateChild
  <2>3. CASE creator' # "aborting"
    <3>1. /\ child' = [child EXCEPT ![c] = "active"]
          /\ creator' = IF \A d \in Links \ {c} : child[d] # "absent" THEN "enqueuing" ELSE creator
      BY <1>2, <2>3 DEF CreateChild
    <3> QED
      BY <1>2, <2>1, <3>1 DEF CreateChild
  <2> QED
    BY <2>2, <2>3
<1>3. CASE AbortParent
  BY <1>3 DEF AbortParent
<1>4. ASSUME NEW c \in Links, AbortChild(c)
      PROVE  CreatorInv'
  BY <1>4 DEF AbortChild, FailsChild
<1>5. CASE Abandoned
  BY <1>5 DEF Abandoned
<1>6. ASSUME NEW c \in Links, Enqueue(c)
      PROVE  CreatorInv'
  BY <1>6 DEF Enqueue, FailsChild
<1>7. ASSUME NEW c \in Links, run[c] \in {"queued", "working", "returned", "waiting", "counting"},
             Start(c) \/ Complete(c) \/ CompleteUncertainly(c) \/ Fail(c) \/ Panic(c) \/ FailPending(c)
                 \/ ReadChild(c) \/ CountChild(c)
      PROVE  CreatorInv'
  <2>1. /\ parent = "running" /\ creator \in {"enqueuing", "done"} /\ c \in Busy
        /\ UNCHANGED <<parent, counted, creator>>
        /\ \A d \in Links \ {c} : child'[d] = child[d] /\ run'[d] = run[d]
        /\ run'[c] # "none"
    BY <1>7 DEF RunInv, Start, Complete, CompleteUncertainly, Fail, Panic, FailPending, ReadChild, CountChild, FailsChild
  <2> QED
    BY <1>7, <2>1
<1>8. ASSUME NEW c \in Links, StoreParent(c)
      PROVE  CreatorInv'
  <2>1. /\ creator \in {"enqueuing", "done"} /\ creator' = creator /\ run[c] = "counting"
        /\ child' = child /\ run' = [run EXCEPT ![c] = "over"]
        /\ parent' \in {parent, Verdict(copied[c])} /\ parent = "running"
    BY <1>8 DEF StoreParent, RunInv
  <2>2. creator = "enqueuing" => Verdict(copied[c]) = "running"
    <3>1. PICK T \in SUBSET Links : Tally(T)
      BY <1>8, <2>1 DEF TallyInv, StoreParent, Up
    <3>2. creator = "enqueuing" => T # Links
      BY <3>1 DEF Tally, Past
    <3>3. copied[c] = [done |-> Cardinality(T), succeeded |-> succeeded]
      BY <2>1, <3>1 DEF RunInv, Tally
    <3>4. T # Links => Cardinality(T) < Cardinality(Links)
      BY LinksCount
    <3> QED
      BY <3>2, <3>3, <3>4 DEF Verdict
  <2>3. parent' # "absent"
    BY <2>1 DEF Verdict
  <2> QED
    BY <2>1, <2>2, <2>3
<1>9. ASSUME NEW c \in Links, FailPanicked(c)
      PROVE  CreatorInv'
  <2>1. /\ child[c] = "active" /\ run[c] = "over" /\ UNCHANGED <<parent, counted, creator, run, done, succeeded>>
        /\ \A d \in Links \ {c} : child'[d] = child[d]
        /\ restart => restart'
    BY <1>9 DEF FailPanicked, RunInv, FailsChild
  <2> QED
    BY <2>1
<1>10. ASSUME NEW c \in Links, Lapse(c)
       PROVE  CreatorInv'
  BY <1>10 DEF Lapse
<1>11. CASE CloseQueue
  BY <1>11 DEF CloseQueue
<1>12. CASE Stop \/ Crash
  <2>1. Down
    BY <1>12 DEF Stop, Crash
  <2> QED
    BY <2>1 DEF Down
<1>13. CASE Fold
  <2>1. creator = "done" /\ parent' \in {parent, "running", "completed", "failed"}
        /\ (parent' = "absent" => parent = "absent" /\ counted' = counted) /\ UNCHANGED <<creator, run, child>>
    BY <1>13 DEF Fold, StoppedInv
  <2> QED
    BY <2>1
<1>14. CASE MarkInterrupted
  <2>1. creator = "done" /\ parent' \in {parent, "failed"} /\ UNCHANGED <<creator, run, counted>>
        /\ \A c \in Links : child[c] = "absent" => child'[c] = "absent"
    BY <1>14 DEF MarkInterrupted, StoppedInv
  <2> QED
    BY <2>1
<1>15. CASE UNCHANGED vars
  BY <1>15 DEF vars
<1>16. ASSUME NEW c \in Links, Run(c) \/ FailPending(c)
       PROVE  CreatorInv'
  <2>1. run[c] \in {"queued", "working", "returned", "waiting", "counting"} \/ FailPanicked(c)
    BY <1>16 DEF Run, Start, Complete, CompleteUncertainly, Fail, Panic, FailPending, ReadChild, CountChild, StoreParent
  <2> QED
    BY <1>7, <1>8, <1>9, <1>16, <2>1 DEF Run
<1> QED
  BY <1>1, <1>2, <1>3, <1>4, <1>5, <1>6, <1>10, <1>11, <1>12, <1>13, <1>14, <1>15, <1>16 DEF Next, Creator

\* Every step keeps what is known of the runs of the children.
LEMMA RunStep ==
    ASSUME BatchInv, [Next]_vars
    PROVE  RunInv'
<1> USE DEF BatchInv, TypeOK, RunInv, Busy, Goto, table, totals, runs, process, bounds
\* What the rest of a run rests on.
<1>1. ASSUME NEW c \in Links, run[c] \in {"queued", "working", "returned", "waiting", "counting"}
      PROVE  parent = "running" /\ c \in Busy /\ phase = "up"
  BY <1>1 DEF StoppedInv
<1>2. CASE CreateParent \/ AbortParent \/ Abandoned
  BY <1>2 DEF CreateParent, AbortParent, Abandoned, CreatorInv
<1>3. ASSUME NEW c \in Links, CreateChild(c)
      PROVE  RunInv'
  BY <1>3 DEF CreateChild, CreatorInv
<1>4. ASSUME NEW c \in Links, AbortChild(c)
      PROVE  RunInv'
  BY <1>4 DEF AbortChild, CreatorInv, FailsChild
<1>5. ASSUME NEW c \in Links, Enqueue(c)
      PROVE  RunInv'
  BY <1>5 DEF Enqueue, CreatorInv, FailsChild
<1>6. ASSUME NEW c \in Links, Start(c) \/ Complete(c) \/ Fail(c) \/ Panic(c)
      PROVE  RunInv'
  BY <1>6 DEF Start, Complete, Fail, Panic, FailsChild
<1>7. ASSUME NEW c \in Links, CompleteUncertainly(c)
      PROVE  RunInv'
  BY <1>7 DEF CompleteUncertainly
<1>8. ASSUME NEW c \in Links, FailPanicked(c) \/ FailPending(c)
      PROVE  RunInv'
  BY <1>8 DEF FailPanicked, FailPending, FailsChild
<1>9. ASSUME NEW c \in Links, ReadChild(c)
      PROVE  RunInv'
  <2>1. /\ run[c] = "returned" /\ UNCHANGED <<parent, child, unconfirmed, done, succeeded, copied, panicked>>
        /\ \/ run' = [run EXCEPT ![c] = "waiting"]
              /\ found' = [found EXCEPT ![c] = child[c] = "completed" /\ c \notin unconfirmed]
           \/ run' = [run EXCEPT ![c] = "over"] /\ found' = found
    BY <1>9 DEF ReadChild
  <2>2. \A d \in Links : run'[d] = "waiting" =>
          (found'[d] <=> child'[d] = "completed" /\ d \notin unconfirmed')
    <3> SUFFICES ASSUME NEW d \in Links, run'[d] = "waiting"
                 PROVE  found'[d] <=> child[d] = "completed" /\ d \notin unconfirmed
      BY <2>1
    <3>1. CASE d = c
      <4>1. found' = [found EXCEPT ![c] = child[c] = "completed" /\ c \notin unconfirmed]
        BY <2>1, <3>1
      <4>2. found'[c] = (child[c] = "completed" /\ c \notin unconfirmed)
        BY <4>1, Zenon
      <4> QED
        BY <3>1, <4>2
    <3>2. CASE d # c
      BY <2>1, <3>2
    <3> QED
      BY <3>1, <3>2
  <2>3. /\ \A d \in Links \ {c} : run'[d] = run[d]
        /\ run'[c] \in {"waiting", "over"}
    BY <2>1
  <2> QED
    BY <1>1, <2>1, <2>2, <2>3
<1>10. ASSUME NEW c \in Links, CountChild(c)
       PROVE  RunInv'
  <2>1. copied'[c] = [done |-> done', succeeded |-> succeeded']
    BY <1>10 DEF CountChild
  <2>2. /\ run[c] = "waiting" /\ run' = [run EXCEPT ![c] = "counting"] /\ \A d \in Links : run[d] # "counting"
        /\ UNCHANGED <<parent, child, unconfirmed, found, panicked>>
    BY <1>10 DEF CountChild, TotalsFree
  <2> QED
    BY <1>1, <2>1, <2>2
<1>11. ASSUME NEW c \in Links, StoreParent(c)
       PROVE  RunInv'
  <2>1. /\ run[c] = "counting" /\ run' = [run EXCEPT ![c] = "over"] /\ \A d \in Links \ {c} : run[d] # "counting"
        /\ UNCHANGED <<child, unconfirmed, found, panicked, done, succeeded>>
        /\ parent' \in {parent, Verdict(copied[c])} /\ parent = "running"
    BY <1>1, <1>11 DEF StoreParent
  <2>2. Busy' # {} => Verdict(copied[c]) = "running"
    <3>1. PICK T \in SUBSET Links : Tally(T)
      BY <1>11, <2>1 DEF TallyInv, StoreParent, Up
    <3>2. Busy' # {} => T # Links
      BY <2>1, <3>1 DEF Tally, Past
    <3>3. copied[c] = [done |-> Cardinality(T), succeeded |-> succeeded]
      BY <2>1, <3>1 DEF Tally
    <3>4. T # Links => Cardinality(T) < Cardinality(Links)
      BY LinksCount
    <3> QED
      BY <3>2, <3>3, <3>4 DEF Verdict
  <2> QED
    BY <2>1, <2>2
<1>12. ASSUME NEW c \in Links, Lapse(c)
       PROVE  RunInv'
  BY <1>12 DEF Lapse
<1>13. CASE CloseQueue \/ UNCHANGED vars
  BY <1>13 DEF CloseQueue, vars
<1>14. CASE Stop \/ Crash
  <2>1. Down
    BY <1>14 DEF Stop, Crash
  <2> QED
    BY <2>1 DEF Down
<1>15. CASE Fold \/ MarkInterrupted
  <2>1. /\ \A c \in Links : run'[c] = "over"
        /\ panicked' = {}
    BY <1>15 DEF Fold, MarkInterrupted, StoppedInv
  <2> QED
    BY <1>15, <2>1 DEF Fold, MarkInterrupted, StoppedInv
<1> QED
  BY <1>2, <1>3, <1>4, <1>5, <1>6, <1>7, <1>8, <1>9, <1>10, <1>11, <1>12, <1>13, <1>14, <1>15 DEF Next, Creator, Run

-----------------------------------------------------------------------------
(* The totals.                                                             *)

\* A step that neither counts a child nor stores the parent keeps the tally.
LEMMA TallyKept ==
    ASSUME NEW T, Tally(T), UNCHANGED <<done, succeeded, counted>>,
           T \subseteq Past', Completed \subseteq Completed',
           Completed' \intersect T \subseteq Completed \union unconfirmed', unconfirmed \subseteq unconfirmed',
           \/ restart' \/ queueClosed'
           \/ (restart' <=> restart) /\ (queueClosed' <=> queueClosed) /\ Past' = Past /\ (Busy' = {} => Busy = {})
    PROVE  Tally(T)'
BY DEF Tally

\* Every step keeps the counts of the parent.
LEMMA TallyStep ==
    ASSUME BatchInv, [Next]_vars
    PROVE  TallyInv'
<1> USE DEF BatchInv, TypeOK, Past, Busy, Completed, Goto, table, totals, runs, process, bounds
<1> SUFFICES ASSUME phase' = "up", parent' = "running"
             PROVE  \E T \in SUBSET Links : Tally(T)'
  BY DEF TallyInv
<1>1. CASE CreateParent
  <2>1. Tally({})'
    BY <1>1, LinksCount DEF CreateParent, CreatorInv, Tally
  <2> QED
    BY <2>1
<1>2. ASSUME Up, parent = "running", NEW T \in SUBSET Links, Tally(T)
      PROVE  Tally(T)' \/ (\E c \in Links : CountChild(c)) \/ Stop \/ Crash
  <2>1. T \subseteq Past
    BY <1>2 DEF Tally
  <2>2. ASSUME NEW c \in Links, CreateChild(c)
        PROVE  Tally(T)'
    BY <1>2, <2>1, <2>2, TallyKept DEF CreateChild
  <2>3. ASSUME NEW c \in Links, AbortChild(c)
        PROVE  Tally(T)'
    <3>1. /\ UNCHANGED <<done, succeeded, counted, unconfirmed>>
          /\ run[c] = "none" /\ child[c] = "active" /\ restart'
          /\ \A d \in Links \ {c} : run'[d] = run[d] /\ child'[d] = child[d]
          /\ child'[c] \in {"active", "failed"}
      <4>1. restart = TRUE
        BY <1>2, <2>3 DEF AbortChild, CreatorInv
      <4>2. restart'
        BY <2>3, <4>1 DEF AbortChild, FailsChild
      <4> QED
        BY <2>3, <4>2 DEF AbortChild, FailsChild
    <3>2. Past \subseteq Past' /\ Completed' = Completed
      BY <3>1
    <3> QED
      BY <1>2, <2>1, <3>1, <3>2, TallyKept
  <2>4. ASSUME NEW c \in Links, Enqueue(c)
        PROVE  Tally(T)'
    BY <1>2, <2>1, <2>4, TallyKept DEF Enqueue, FailsChild, CreatorInv
  <2>5. CASE AbortParent \/ Abandoned
    BY <1>2, <2>1, <2>5, TallyKept DEF AbortParent, Abandoned
  <2>6. ASSUME NEW c \in Links, Start(c) \/ Complete(c) \/ Fail(c) \/ Panic(c)
        PROVE  Tally(T)'
    <3>1. /\ UNCHANGED <<done, succeeded, counted, unconfirmed, queueClosed>>
          /\ run[c] \in {"queued", "working"} /\ child[c] = "active"
          /\ \A d \in Links \ {c} : run'[d] = run[d] /\ child'[d] = child[d]
          /\ run'[c] \in {"working", "returned"}
          /\ restart' \/ restart' = restart
      BY <2>6 DEF Start, Complete, Fail, Panic, FailsChild, RunInv
    <3>2. /\ Past' = Past /\ Busy' # {} /\ Completed \subseteq Completed'
          /\ Completed' \subseteq Completed \union {c} /\ c \notin T
      BY <2>1, <3>1
    <3> QED
      BY <1>2, <2>1, <3>1, <3>2, TallyKept
  <2>7. ASSUME NEW c \in Links, CompleteUncertainly(c)
        PROVE  Tally(T)'
    BY <1>2, <2>1, <2>7, TallyKept DEF CompleteUncertainly
  <2>8. ASSUME NEW c \in Links, FailPanicked(c) \/ FailPending(c)
        PROVE  Tally(T)'
    BY <1>2, <2>1, <2>8, TallyKept DEF FailPanicked, FailPending, FailsChild, RunInv
  <2>9. ASSUME NEW c \in Links, ReadChild(c)
        PROVE  Tally(T)'
    BY <1>2, <2>1, <2>9, TallyKept DEF ReadChild
  <2>10. ASSUME NEW c \in Links, StoreParent(c)
         PROVE  Tally(T)'
    BY <1>2, <2>1, <2>10, LinksCount DEF StoreParent, RunInv, Tally, Verdict
  <2>11. ASSUME NEW c \in Links, Lapse(c)
         PROVE  FALSE
    BY <1>2, <2>11 DEF Lapse, Up
  <2>12. CASE CloseQueue
    BY <1>2, <2>1, <2>12, TallyKept DEF CloseQueue
  <2>13. CASE Fold \/ MarkInterrupted
    BY <1>2, <2>13 DEF Fold, MarkInterrupted, Up
  <2>14. CASE UNCHANGED vars
    BY <1>2, <2>1, <2>14, TallyKept DEF vars
  <2>15. CASE CreateParent
    BY <1>2, <2>15 DEF CreateParent, CreatorInv
  <2> QED
    BY <2>2, <2>3, <2>4, <2>5, <2>6, <2>7, <2>8, <2>9, <2>10, <2>11, <2>12, <2>13, <2>14, <2>15
       DEF Next, Creator, Run
<1>3. ASSUME NEW c \in Links, CountChild(c)
      PROVE  \E T \in SUBSET Links : Tally(T)'
  <2>1. run[c] = "waiting" /\ parent = "running" /\ phase = "up"
    BY <1>3 DEF CountChild, RunInv, Up
  <2>2. PICK T \in SUBSET Links : Tally(T)
    BY <2>1 DEF TallyInv
  <2>3. c \notin T /\ done + 1 = Cardinality(T \union {c}) /\ T \union {c} \in SUBSET Links
    BY <2>1, <2>2, TallyRoom
  <2>4. /\ done' = done + 1 /\ run' = [run EXCEPT ![c] = "counting"]
        /\ succeeded' = IF found[c] THEN succeeded \union {c} ELSE succeeded
        /\ UNCHANGED <<parent, counted, child, unconfirmed, restart, queueClosed>>
    BY <1>3 DEF CountChild
  <2>5. found[c] <=> child[c] = "completed" /\ c \notin unconfirmed
    BY <2>1 DEF RunInv
  <2>6. Past' = Past \union {c} /\ Busy' # {}
    BY <2>1, <2>4
  <2>7. Tally(T \union {c})'
    BY <2>2, <2>3, <2>4, <2>5, <2>6 DEF Tally
  <2> QED
    BY <2>3, <2>7
<1>4. Stop \/ Crash => phase' = "down"
  BY DEF Stop, Crash, Down
<1>5. Up
  <2>1. ASSUME NEW c \in Links, Run(c) \/ FailPending(c) \/ CreateChild(c) \/ AbortChild(c) \/ Enqueue(c)
        PROVE  Up
    BY <2>1 DEF Run, CreateChild, AbortChild, Enqueue, Start, Complete, CompleteUncertainly, Fail, Panic,
                FailPanicked, ReadChild, CountChild, StoreParent, FailPending
  <2>2. ASSUME NEW c \in Links, Lapse(c)
        PROVE  FALSE
    BY <2>2 DEF Lapse
  <2>3. Fold \/ MarkInterrupted \/ Stop \/ Crash => FALSE
    BY <1>4 DEF Fold, MarkInterrupted
  <2>4. CreateParent \/ AbortParent \/ Abandoned \/ CloseQueue \/ UNCHANGED vars => Up
    BY DEF CreateParent, AbortParent, Abandoned, CloseQueue, vars, Up
  <2> QED
    BY <2>1, <2>2, <2>3, <2>4 DEF Next, Creator
<1>6. parent = "running" \/ CreateParent
  BY DEF Next, Creator, Run, RunInv, AbortParent, Abandoned, CreateChild, AbortChild, Enqueue, Start, Complete,
         CompleteUncertainly, Fail, Panic, FailPanicked, ReadChild, CountChild, StoreParent, FailPending, CloseQueue,
         Lapse, Stop, Crash, Down, Fold, MarkInterrupted, vars
<1> QED
  BY <1>1, <1>2, <1>3, <1>4, <1>5, <1>6 DEF TallyInv, Up

\* A child that completed has completed for good.
LEMMA CompletedKept ==
    ASSUME BatchInv, [Next]_vars
    PROVE  Completed \subseteq Completed'
<1> USE DEF BatchInv, TypeOK, Completed, table, runs
<1>1. ASSUME NEW c \in Links, Run(c) \/ FailPending(c) \/ CreateChild(c) \/ AbortChild(c) \/ Enqueue(c) \/ Lapse(c)
      PROVE  Completed \subseteq Completed'
  BY <1>1 DEF Run, RunInv, CreateChild, AbortChild, Enqueue, CreatorInv, Start, Complete, CompleteUncertainly, Fail, Panic,
              FailPanicked, ReadChild, CountChild, StoreParent, FailPending, FailsChild, Lapse
<1>2. CASE CreateParent \/ AbortParent \/ Abandoned \/ CloseQueue \/ Stop \/ Crash
  BY <1>2 DEF CreateParent, AbortParent, Abandoned, CloseQueue, Stop, Crash, Down
<1>3. CASE Fold \/ MarkInterrupted \/ UNCHANGED vars
  BY <1>3 DEF Fold, MarkInterrupted, vars
<1> QED
  BY <1>1, <1>2, <1>3 DEF Next, Creator

\* A parent that is stored while a child counts is given its totals.
LEMMA Stored ==
    ASSUME BatchInv, NEW c \in Links, StoreParent(c)
    PROVE  /\ parent = "running" /\ UNCHANGED <<child, unconfirmed, lapsed>>
           /\ \/ UNCHANGED <<parent, counted>>
              \/ /\ counted' = succeeded /\ counted \subseteq succeeded /\ succeeded \subseteq Completed
                 /\ \/ parent' = "running"
                    \/ /\ parent' = IF succeeded # {} THEN "completed" ELSE "failed"
                       /\ Completed \ succeeded \subseteq unconfirmed
<1> USE DEF BatchInv, TypeOK
<1>1. /\ parent = "running" /\ copied[c] = [done |-> done, succeeded |-> succeeded]
      /\ UNCHANGED <<child, unconfirmed, lapsed>>
  BY DEF StoreParent, RunInv, Busy
<1>2. PICK T \in SUBSET Links : Tally(T)
  BY <1>1 DEF TallyInv, StoreParent, Up
<1>3. succeeded \subseteq Completed /\ counted \subseteq succeeded
  BY <1>2 DEF Tally
<1>4. done = Cardinality(Links) => Completed \ succeeded \subseteq unconfirmed
  <2>1. done = Cardinality(Links) => T = Links
    BY <1>2, LinksCount DEF Tally
  <2> QED
    BY <1>2, <2>1 DEF Tally, Completed
<1>5. ~ (done < Cardinality(Links)) => done = Cardinality(Links)
  BY LinksCount
<1>6. CASE UNCHANGED <<parent, counted>>
  BY <1>1, <1>6
<1>7. CASE parent' = Verdict(copied[c]) /\ counted' = copied[c].succeeded
  <2>1. /\ counted' = succeeded
        /\ parent' = IF done < Cardinality(Links) THEN "running"
                     ELSE IF succeeded # {} THEN "completed" ELSE "failed"
    BY <1>1, <1>7 DEF Verdict
  <2> QED
    BY <1>1, <1>3, <1>4, <1>5, <2>1
<1> QED
  BY <1>6, <1>7 DEF StoreParent

\* Every step keeps what is known of a verdict being computed.
LEMMA FoldStep ==
    ASSUME BatchInv, [Next]_vars
    PROVE  FoldInv'
<1> USE DEF BatchInv, FoldInv, table, runs, process
<1>1. ASSUME counted' = counted, phase' # "folded"
      PROVE  FoldInv'
  BY <1>1, CompletedKept
<1>2. CASE CreateParent \/ AbortParent \/ Abandoned \/ CloseQueue \/ Stop \/ Crash \/ MarkInterrupted
  BY <1>1, <1>2 DEF CreateParent, AbortParent, Abandoned, CloseQueue, Stop, Crash, Down, MarkInterrupted, Up
<1>3. ASSUME NEW c \in Links, CreateChild(c) \/ AbortChild(c) \/ Enqueue(c) \/ FailPending(c) \/ FailPanicked(c) \/ Lapse(c)
      PROVE  FoldInv'
  BY <1>1, <1>3 DEF CreateChild, AbortChild, Enqueue, FailPending, FailPanicked, Lapse, Up
<1>4. ASSUME NEW c \in Links,
             Start(c) \/ Complete(c) \/ CompleteUncertainly(c) \/ Fail(c) \/ Panic(c) \/ ReadChild(c) \/ CountChild(c)
      PROVE  FoldInv'
  BY <1>1, <1>4 DEF Start, Complete, CompleteUncertainly, Fail, Panic, ReadChild, CountChild, Up
<1>5. ASSUME NEW c \in Links, StoreParent(c)
      PROVE  FoldInv'
  <2>1. counted' \subseteq Completed /\ phase' # "folded"
    BY <1>5, Stored DEF StoreParent, Up
  <2> QED
    BY <2>1, CompletedKept
<1>6. CASE Fold
  <2>1. Completed' = Completed /\ lapsed' = lapsed /\ Completed \subseteq Children
    BY <1>6 DEF Fold, Completed, Children
  <2>2. CASE parent = "running" /\ Children # {}
    BY <1>6, <2>1, <2>2 DEF Fold
  <2>3. CASE ~ (parent = "running" /\ Children # {})
    BY <1>6, <2>1, <2>3 DEF Fold
  <2> QED
    BY <2>2, <2>3
<1>7. CASE UNCHANGED vars
  BY <1>7 DEF vars, Completed
<1> QED
  BY <1>2, <1>3, <1>4, <1>5, <1>6, <1>7 DEF Next, Creator, Run

-----------------------------------------------------------------------------

\* The invariant of the batches holds in every state of every behaviour.
THEOREM BatchHolds == Spec => []BatchInv
<1>1. Init => BatchInv
  <2> SUFFICES ASSUME Init
               PROVE  BatchInv
    OBVIOUS
  <2>1. Empty \in Totals /\ 0 \in 0 .. Cardinality(Links)
    BY LinksCount DEF Empty, Totals
  <2>2. 0 \in 0 .. MaxFaults /\ 0 \in 0 .. MaxUncertain /\ 0 \in 0 .. MaxCrashes
    BY BatchAssumption
  <2>3. TypeOK
    BY <2>1, <2>2 DEF Init, TypeOK
  <2>4. StoppedInv /\ CreatorInv /\ TallyInv /\ FoldInv
    BY DEF Init, StoppedInv, CreatorInv, TallyInv, FoldInv, Busy
  <2>5. RunInv
    BY DEF Init, RunInv, Busy
  <2> QED
    BY <2>3, <2>4, <2>5 DEF BatchInv
<1>2. BatchInv /\ [Next]_vars => BatchInv'
  BY TypeStep, StoppedStep, CreatorStep, RunStep, TallyStep, FoldStep DEF BatchInv
<1> QED
  BY <1>1, <1>2, PTL DEF Spec

\* The variables keep their types; in particular the totals never count more
\* reports than there are links, whatever the order in which children end.
THEOREM BatchTypeCorrect == Spec => []TypeOK
<1>1. BatchInv => TypeOK
  BY DEF BatchInv
<1> QED
  BY <1>1, BatchHolds, PTL

\* While the process serves requests, a batch without live runs has ended or
\* is about to be restarted: every way a child of createBatchJobAdmitted can
\* end either reports to batchChildDone or asks for a restart.
THEOREM NoneOrphaned == Spec => []NoBatchIsOrphaned
<1>1. BatchInv => NoBatchIsOrphaned
  <2> SUFFICES ASSUME BatchInv, phase = "up", parent = "running", ~ restart, ~ queueClosed, creator = "done"
               PROVE  \E c \in Links : run[c] # "over"
    BY DEF NoBatchIsOrphaned
  <2>1. PICK T \in SUBSET Links : Tally(T)
    BY DEF BatchInv, TallyInv
  <2>2. T = Past /\ (Busy = {} => T # Links)
    BY <2>1 DEF Tally
  <2> QED
    BY <2>2 DEF Past, Busy
<1> QED
  BY <1>1, BatchHolds, PTL

-----------------------------------------------------------------------------
(* The promise.                                                            *)

CompletedLinks == Contract!Completed
Doubtful == unconfirmed \union lapsed

\* What a step shows the owner, said of the batch.
LEMMA Seen ==
    /\ CompletedLinks = Completed
    /\ Contract!open <=> ~ Ended(parent)
    /\ \A c \in Links : [d \in Links |-> Outcome(d)][c] = Outcome(c)
BY DEF CompletedLinks, Contract!Completed, Completed, Contract!open, Outcome, Ended

\* A step that changes no outcome, no count and no verdict is a stutter of the contract.
LEMMA Hidden ==
    ASSUME UNCHANGED <<counted, unconfirmed, lapsed>>, \A c \in Links : Outcome(c)' = Outcome(c),
           Ended(parent) \/ Ended(parent)' => parent' = parent
    PROVE  UNCHANGED Contract!vars
<1>1. [c \in Links |-> Outcome(c)]' = [c \in Links |-> Outcome(c)]
  OBVIOUS
<1>2. (IF Ended(parent) THEN parent ELSE "open")' = IF Ended(parent) THEN parent ELSE "open"
  BY DEF Ended
<1> QED
  BY <1>1, <1>2 DEF Contract!vars

\* The failure of a child is a step of the contract.
LEMMA ChildFailed ==
    ASSUME TypeOK, NEW c \in Links, child[c] = "active", UNCHANGED <<parent, counted, unconfirmed, lapsed>>,
           child' \in {child, [child EXCEPT ![c] = "failed"]}
    PROVE  Contract!Fail(c) \/ UNCHANGED Contract!vars
<1>1. CASE child' = child
  BY <1>1, Hidden DEF Outcome
<1>2. CASE child' = [child EXCEPT ![c] = "failed"]
  <2>1. [d \in Links |-> Outcome(d)]' = [[d \in Links |-> Outcome(d)] EXCEPT ![c] = "failed"]
    BY <1>2 DEF Outcome, TypeOK
  <2> QED
    BY <2>1 DEF Contract!Fail, Outcome, Ended
<1> QED
  BY <1>1, <1>2

\* So is its completion, confirmed or not.
LEMMA ChildCompleted ==
    ASSUME TypeOK, NEW c \in Links, child[c] = "active", ~ Ended(parent), UNCHANGED <<parent, counted, lapsed>>,
           child' = [child EXCEPT ![c] = "completed"], unconfirmed' \in {unconfirmed, unconfirmed \union {c}}
    PROVE  Contract!Complete(c)
<1>1. [d \in Links |-> Outcome(d)]' = [[d \in Links |-> Outcome(d)] EXCEPT ![c] = "completed"]
  BY DEF Outcome, TypeOK
<1> QED
  BY <1>1 DEF Contract!Complete, Contract!open, Outcome, Ended

\* The parent is stored with the children in links.
LEMMA ParentStored ==
    ASSUME NEW links \in SUBSET Completed, parent = "running", counted' = links, counted \ links \subseteq Doubtful,
           UNCHANGED <<child, unconfirmed, lapsed>>,
           \/ parent' = "running"
           \/ /\ parent' = IF links # {} THEN "completed" ELSE "failed"
              /\ Completed \ links \subseteq Doubtful
    PROVE  Contract!Count \/ Contract!Close
<1>1. [c \in Links |-> Outcome(c)]' = [c \in Links |-> Outcome(c)]
  BY DEF Outcome
<1>2. links \in SUBSET CompletedLinks
  BY Seen
<1>3. CASE parent' = "running"
  BY <1>1, <1>2, <1>3 DEF Contract!Count, Contract!open, CompletedLinks, Doubtful, Ended
<1>4. CASE /\ parent' = IF links # {} THEN "completed" ELSE "failed"
           /\ Completed \ links \subseteq Doubtful
  <2>1. Contract!Exact(links)
    BY <1>2, <1>4, Seen DEF Contract!Exact, CompletedLinks, Doubtful
  <2>2. (IF Ended(parent) THEN parent ELSE "open")' = IF links = {} THEN "failed" ELSE "completed"
    BY <1>4 DEF Ended
  <2> QED
    BY <1>1, <1>2, <2>1, <2>2 DEF Contract!Close, Contract!open, CompletedLinks, Ended
<1> QED
  BY <1>3, <1>4

\* Every step of the batches is a step of the contract or a stutter.
LEMMA ContractStep ==
    ASSUME BatchInv, [Next]_vars
    PROVE  [Contract!Next]_(Contract!vars)
<1> USE DEF BatchInv, TypeOK, Goto, table, totals, runs, process, bounds
<1>1. CASE CreateParent
  BY <1>1, Hidden DEF CreateParent, CreatorInv, Ended, Outcome
<1>2. CASE AbortParent
  <2>1. /\ parent = "running" /\ counted = {} /\ Completed = {} /\ UNCHANGED <<child, unconfirmed, lapsed, counted>>
        /\ parent' \in {"running", "failed"}
    BY <1>2 DEF AbortParent, CreatorInv, Completed
  <2>2. Contract!Count \/ Contract!Close
    BY <2>1, ParentStored
  <2> QED
    BY <2>2 DEF Contract!Next
<1>3. ASSUME NEW c \in Links, CreateChild(c)
      PROVE  UNCHANGED Contract!vars
  BY <1>3, Hidden DEF CreateChild, Outcome
<1>4. ASSUME NEW c \in Links, AbortChild(c) \/ Enqueue(c) \/ Fail(c) \/ FailPanicked(c) \/ FailPending(c)
      PROVE  [Contract!Next]_(Contract!vars)
  <2>1. child[c] = "active"
    BY <1>4 DEF AbortChild, Enqueue, CreatorInv, Fail, FailPanicked, FailPending, RunInv
  <2>2. child' \in {child, [child EXCEPT ![c] = "failed"]} /\ UNCHANGED <<parent, counted, unconfirmed, lapsed>>
    BY <1>4 DEF AbortChild, Enqueue, Fail, FailPanicked, FailPending, FailsChild
  <2>3. Contract!Fail(c) \/ UNCHANGED Contract!vars
    BY <2>1, <2>2, ChildFailed
  <2> QED
    BY <2>3 DEF Contract!Next
<1>5. ASSUME NEW c \in Links, Start(c) \/ Panic(c) \/ ReadChild(c) \/ CountChild(c)
      PROVE  UNCHANGED Contract!vars
  BY <1>5, Hidden DEF Start, Panic, ReadChild, CountChild, Outcome
<1>6. ASSUME NEW c \in Links, Complete(c) \/ CompleteUncertainly(c)
      PROVE  [Contract!Next]_(Contract!vars)
  <2>1. child[c] = "active" /\ ~ Ended(parent) /\ UNCHANGED <<parent, counted, lapsed>>
    BY <1>6 DEF Complete, CompleteUncertainly, RunInv, Busy, Ended
  <2>2. CASE child' = [child EXCEPT ![c] = "completed"] /\ unconfirmed' \in {unconfirmed, unconfirmed \union {c}}
    <3>1. Contract!Complete(c)
      BY <2>1, <2>2, ChildCompleted
    <3> QED
      BY <3>1 DEF Contract!Next
  <2>3. CASE UNCHANGED <<child, unconfirmed>>
    BY <2>1, <2>3, Hidden DEF Outcome
  <2> QED
    BY <1>6, <2>2, <2>3 DEF Complete, CompleteUncertainly
<1>7. ASSUME NEW c \in Links, StoreParent(c)
      PROVE  [Contract!Next]_(Contract!vars)
  <2>1. CASE UNCHANGED <<parent, counted>>
    BY <1>7, <2>1, Stored, Hidden DEF Outcome
  <2>2. CASE ~ UNCHANGED <<parent, counted>>
    <3>1. /\ counted' = succeeded /\ counted \subseteq succeeded /\ succeeded \in SUBSET Completed
          /\ parent = "running" /\ UNCHANGED <<child, unconfirmed, lapsed>>
          /\ \/ parent' = "running"
             \/ /\ parent' = IF succeeded # {} THEN "completed" ELSE "failed"
                /\ Completed \ succeeded \subseteq unconfirmed
      BY <1>7, <2>2, Stored
    <3>2. Contract!Count \/ Contract!Close
      BY <3>1, ParentStored DEF Doubtful
    <3> QED
      BY <3>2 DEF Contract!Next
  <2> QED
    BY <2>1, <2>2
<1>8. ASSUME NEW c \in Links, Lapse(c)
      PROVE  Contract!Doubt(c)
  BY <1>8 DEF Lapse, Contract!Doubt, Outcome, Ended
<1>9. CASE Abandoned \/ CloseQueue \/ Stop \/ Crash \/ UNCHANGED vars
  BY <1>9, Hidden DEF Abandoned, CloseQueue, Stop, Crash, Down, vars, Outcome
<1>10. CASE Fold
  <2>1. CASE parent = "running" /\ Children # {}
    <3>1. PICK links : links = Completed \ lapsed
      OBVIOUS
    <3>2. /\ counted' = links /\ UNCHANGED <<child, unconfirmed, lapsed>>
          /\ parent' = IF \E c \in Children : ~ Ended(child[c]) THEN "running"
                       ELSE IF links # {} THEN "completed" ELSE "failed"
      BY <1>10, <2>1, <3>1 DEF Fold
    <3>3. Contract!Count \/ Contract!Close
      BY <2>1, <3>1, <3>2, ParentStored DEF Doubtful, FoldInv
    <3> QED
      BY <3>3 DEF Contract!Next
  <2>2. CASE ~ (parent = "running" /\ Children # {})
    BY <1>10, <2>2, Hidden DEF Fold, Outcome
  <2> QED
    BY <2>1, <2>2
<1>11. CASE MarkInterrupted
  <2>1. /\ child' = [c \in Links |-> IF child[c] = "active" THEN "failed" ELSE child[c]]
        /\ parent' = (IF parent = "running" THEN "failed" ELSE parent) /\ phase = "folded"
        /\ UNCHANGED <<counted, unconfirmed, lapsed>>
    BY <1>11 DEF MarkInterrupted
  <2>2. CASE parent = "absent"
    BY <2>1, <2>2, Hidden DEF CreatorInv, Outcome, Ended
  <2>3. CASE parent # "absent"
    <3>1. PICK lost : lost = {c \in Links : child[c] = "active"}
      OBVIOUS
    <3>2. lost \in SUBSET {c \in Links : [d \in Links |-> Outcome(d)][c] = "open"}
      BY <3>1 DEF Outcome
    <3>3. [c \in Links |-> Outcome(c)]' =
            [c \in Links |-> IF c \in lost THEN "failed" ELSE [d \in Links |-> Outcome(d)][c]]
      BY <2>1, <3>1 DEF Outcome
    <3>4. CASE parent = "running"
      <4>1. counted \in SUBSET CompletedLinks /\ Contract!Exact(counted)
        BY <2>1, <3>4, Seen DEF FoldInv, Contract!Exact, CompletedLinks
      <4> QED
        BY <2>1, <3>2, <3>3, <3>4, <4>1 DEF Contract!Interrupt, Contract!Next, Contract!open, CompletedLinks, Ended
    <3>5. CASE parent # "running"
      <4>1. ~ Contract!open
        BY <2>3, <3>5 DEF Contract!open, Ended
      <4> QED
        BY <2>1, <3>2, <3>3, <3>5, <4>1 DEF Contract!Interrupt, Contract!Next
    <3> QED
      BY <3>4, <3>5
  <2> QED
    BY <2>2, <2>3
<1> QED
  BY <1>1, <1>2, <1>3, <1>4, <1>5, <1>6, <1>7, <1>8, <1>9, <1>10, <1>11 DEF Next, Creator, Run, Contract!Next

\* The batch as createBatchJobAdmitted, batchChildDone and
\* foldCompletedChildren keep it, with storage that fails, completions that
\* cannot be confirmed and kills at any step, keeps the promise of
\* BatchContract: every step is one it allows or is invisible to the owner.
THEOREM BatchKeepsContract == Spec => ImplementsContract
<1>1. Init => Contract!Init
  BY DEF Init, Contract!Init, Outcome, Ended
<1>2. BatchInv /\ [Next]_vars => [Contract!Next]_(Contract!vars)
  BY ContractStep
<1> QED
  BY <1>1, <1>2, BatchHolds, PTL DEF Spec, ImplementsContract, Contract!Spec

\* The verdict of a batch that has ended names every link that ever completes
\* but doubtful ones, and no other: the promise that batchChildDone and
\* foldCompletedChildren keep together.
THEOREM ExactVerdict == Contract!Spec => []Contract!VerdictIsExact
<1>1. Contract!Init => Contract!VerdictIsExact
  BY DEF Contract!Init, Contract!VerdictIsExact, Contract!Completed, Contract!open
<1>2. Contract!VerdictIsExact /\ [Contract!Next]_(Contract!vars) => Contract!VerdictIsExact'
  <2> SUFFICES ASSUME Contract!VerdictIsExact, [Contract!Next]_(Contract!vars)
               PROVE  Contract!VerdictIsExact'
    OBVIOUS
  <2>1. ASSUME NEW c \in Links, Contract!Complete(c)
        PROVE  Contract!VerdictIsExact'
    <3>1. Contract!Completed \subseteq Contract!Completed'
      BY <2>1 DEF Contract!Complete, Contract!Completed
    <3> QED
      BY <2>1, <3>1 DEF Contract!Complete, Contract!VerdictIsExact, Contract!open
  <2>2. ASSUME NEW c \in Links, Contract!Fail(c)
        PROVE  Contract!VerdictIsExact'
    <3>1. Contract!Completed' = Contract!Completed
      BY <2>2 DEF Contract!Fail, Contract!Completed
    <3> QED
      BY <2>2, <3>1 DEF Contract!Fail, Contract!VerdictIsExact, Contract!Exact, Contract!open
  <2>3. ASSUME NEW c \in Links, Contract!Doubt(c)
        PROVE  Contract!VerdictIsExact'
    <3>1. Contract!Completed' = Contract!Completed
      BY <2>3 DEF Contract!Doubt, Contract!Completed
    <3> QED
      BY <2>3, <3>1 DEF Contract!Doubt, Contract!VerdictIsExact, Contract!Exact, Contract!open
  <2>4. CASE Contract!Count
    BY <2>4 DEF Contract!Count, Contract!VerdictIsExact, Contract!Completed, Contract!open
  <2>5. CASE Contract!Close
    BY <2>5 DEF Contract!Close, Contract!VerdictIsExact, Contract!Exact, Contract!Completed, Contract!open
  <2>6. CASE Contract!Interrupt
    <3>1. PICK lost \in SUBSET {c \in Links : [d \in Links |-> Outcome(d)][c] = "open"} :
              [d \in Links |-> Outcome(d)]' =
                [c \in Links |-> IF c \in lost THEN "failed" ELSE [d \in Links |-> Outcome(d)][c]]
      BY <2>6 DEF Contract!Interrupt
    <3>2. Contract!Completed' = Contract!Completed
      BY <3>1 DEF Contract!Completed
    <3> QED
      BY <2>6, <3>2 DEF Contract!Interrupt, Contract!VerdictIsExact, Contract!Exact, Contract!open
  <2>7. CASE UNCHANGED Contract!vars
    BY <2>7 DEF Contract!vars, Contract!VerdictIsExact, Contract!Exact, Contract!Completed, Contract!open
  <2> QED
    BY <2>1, <2>2, <2>3, <2>4, <2>5, <2>6, <2>7 DEF Contract!Next
<1> QED
  BY <1>1, <1>2, PTL DEF Contract!Spec


\* The verdict of a batch is exact: in the batch as it runs, once the parent
\* has ended, the children it counts are those that completed, but for those
\* whose completion could not be confirmed or whose details have expired.
THEOREM BatchVerdictIsExact == Spec => []Contract!VerdictIsExact
BY BatchKeepsContract, ExactVerdict, PTL DEF ImplementsContract

=============================================================================
