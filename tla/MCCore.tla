------------------------------- MODULE MCCore -------------------------------
(***************************************************************************)
(* The resolve queue with slots for more than one worker, and the restore  *)
(* of the storage with the recovery at every start, side by side.  They    *)
(* share no variable, and no property speaks of both: one is chosen at the *)
(* beginning, and the other stays where it begins.  The restore is under   *)
(* its fairness; what must happen in the queue is another run's subject.   *)
(***************************************************************************)
EXTENDS ResolveQueue, RestoreJournal

VARIABLE chosen

mcVars == <<chosen, vars, restoreVars>>

MCInit ==
    /\ chosen \in {"queue", "restore"}
    /\ Init /\ RestoreInit
    /\ chosen # "queue" => concurrency = 1
    /\ chosen # "restore" => \A f \in Files : place[f].target = Nothing

InQueue(A) == chosen = "queue" /\ A /\ UNCHANGED <<chosen, restoreVars>>
InRestore(A) == chosen = "restore" /\ A /\ UNCHANGED <<chosen, vars>>

MCNext == InQueue(Next) \/ InRestore(RestoreNext)

\* RestoreFairness for the chosen component.
MCFairness ==
    /\ WF_mcVars(InRestore(Recovery \/ Restore))
    /\ WF_mcVars(InRestore(StartServer))

MCSpec == MCInit /\ [][MCNext]_mcVars /\ MCFairness
=============================================================================
