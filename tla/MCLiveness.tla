----------------------------- MODULE MCLiveness -----------------------------
(***************************************************************************)
(* Parts that must come to an end, under the fairness of their schedulers: *)
(* a batch, the files in PikPak accounts with the ledger of those to       *)
(* delete, and the discovery and the links of the library.  As in MCSafety *)
(* they share no variable and one is chosen; only the chosen one moves and *)
(* is scheduled.  The jobs with files are for magnet links: those for      *)
(* shares are in MCSafety.                                                 *)
(***************************************************************************)
EXTENDS TempCleanup, LibraryLinks, BatchJobs

VARIABLE chosen

mcVars == <<chosen, fileVars, linksVars, vars>>

MCInit ==
    /\ chosen \in {"files", "links", "batch"}
    /\ FilesInit /\ LinksInit /\ Init
    /\ shares = {}

InFiles(A) == chosen = "files" /\ A /\ UNCHANGED <<chosen, linksVars, vars>>
InLinks(A) == chosen = "links" /\ A /\ UNCHANGED <<chosen, fileVars, vars>> /\ Witnessed
InBatch(A) == chosen = "batch" /\ A /\ UNCHANGED <<chosen, fileVars, linksVars>>

MCNext == InFiles(FilesNext) \/ InLinks(LinksStep) \/ InBatch(Next)

\* FilesFairness, LinksFairness and Fairness for the chosen component.
MCFairness ==
    /\ \A r \in Rows : WF_mcVars(InFiles(DeadlinePasses(r))) /\ SF_mcVars(InFiles(DeletesRow(r)))
    /\ \A j \in Jobs : WF_mcVars(InFiles(LinksExpire(j)))
    /\ WF_mcVars(InFiles(ReadDue))
    /\ WF_mcVars(InFiles(CleanRemove))
    /\ WF_mcVars(InFiles(CleanDelete \/ CleanFails))
    /\ WF_mcVars(InLinks(StartDiscovery))
    /\ WF_mcVars(InLinks(EndDiscovery))
    /\ WF_mcVars(InLinks(StoreFiles))
    /\ WF_mcVars(InLinks(RecordFailure))
    /\ WF_mcVars(InBatch(Creator))
    /\ \A c \in Links : WF_mcVars(InBatch(Run(c))) /\ WF_mcVars(InBatch(FailPending(c)))
    /\ WF_mcVars(InBatch(Restarts))

MCSpec == MCInit /\ [][MCNext]_mcVars /\ MCFairness
=============================================================================
