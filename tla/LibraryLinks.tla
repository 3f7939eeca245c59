---------------------------- MODULE LibraryLinks ----------------------------
(***************************************************************************)
(* A resource of the library from its discovery to its downloads: the      *)
(* discovery is a job of the queue whose outcome a deferred function       *)
(* stores in the entry; a link is a token and a mode for a file of it;     *)
(* downloads of one token share a resolution, which is another job, and    *)
(* the administrator links, resets, revokes and removes meanwhile.         *)
(*                                                                         *)
(* One entry with one file.  Tokens are numbers in the order they were     *)
(* drawn, so an old one never comes back.  lookupToken reads the row of    *)
(* the token, then the entry with its links: a token that the second read  *)
(* finds was there at the first, so the two are one step.                  *)
(***************************************************************************)
EXTENDS Integers, FiniteSets

CONSTANTS
    Requests,      \* downloads, one at a time each
    CacheLimit,    \* maxLibraryDownloadCache
    MaxTokens,     \* tokens drawn
    MaxCalls       \* shared resolutions begun by a process

ASSUME LinksAssumption ==
    {CacheLimit, MaxTokens, MaxCalls} \subseteq Nat \ {0}

VARIABLES
    libraryUp,
    \* library_entries.status, "none" before it is created
    status,
    \* where startLibraryDiscovery and the deferred function of its job are
    discovery,
    \* library_links: token 0 for no row
    link,
    \* Server.libraryDownloads: the call of a token, 0 for none
    downloads,
    \* libraryDownload objects: whether the channel is closed, whether the job
    \* has a result and is still known, and whether expires has passed
    call,
    \* handleLibraryDownload: where it is, its token, mode and call
    request,
    tokens, made,
    \* no code will end the discovery before a restart: a fault kept its outcome
    \* or its start from the table
    unrecorded,
    \* downloads whose link was in force since the resolution they wait for ended
    proven

catalog == <<status, discovery, link, unrecorded>>
service == <<downloads, call, request>>
linkCounts == <<tokens, made>>
linksVars == <<libraryUp, catalog, service, linkCounts, proven>>

Modes == {"direct", "proxy"}
NoLink == [token |-> 0, mode |-> "direct"]
NewCall == [done |-> FALSE, result |-> FALSE, known |-> TRUE, expired |-> FALSE]
Idle == [at |-> "idle", token |-> 0, mode |-> "direct", call |-> 0]

LinksTypeOK ==
    /\ {libraryUp, unrecorded} \subseteq BOOLEAN
    /\ status \in {"none", "pending", "ready", "failed", "removed"}
    /\ discovery \in {"none", "starting", "running", "completing", "failing"}
    /\ tokens \in 0 .. MaxTokens /\ made \in 0 .. MaxCalls
    /\ link \in [token : 0 .. tokens, mode : Modes]
    /\ downloads \in [1 .. MaxTokens -> 0 .. made]
    /\ call \in [1 .. MaxCalls ->
                   [done : BOOLEAN, result : BOOLEAN, known : BOOLEAN, expired : BOOLEAN]]
    /\ request \in [Requests -> [at : {"idle", "found", "waiting", "answered"},
                                 token : 0 .. tokens, mode : Modes, call : 0 .. made]]
    /\ proven \subseteq Requests

LinksInit ==
    /\ libraryUp = TRUE /\ status = "none" /\ discovery = "none" /\ unrecorded = FALSE
    /\ link = NoLink
    /\ downloads = [t \in 1 .. MaxTokens |-> 0]
    /\ call = [c \in 1 .. MaxCalls |-> NewCall]
    /\ request = [r \in Requests |-> Idle]
    /\ tokens = 0 /\ made = 0
    /\ proven = {}

-----------------------------------------------------------------------------
\* The discovery of the files.

\* handleLibraryCreate, libraryStore.create: a commit that is not confirmed
\* leaves a row whose discovery the handler does not start.
CreateResource ==
    /\ libraryUp /\ status = "none"
    /\ \/ discovery' = "starting" /\ UNCHANGED unrecorded
       \/ unrecorded' = TRUE /\ UNCHANGED discovery
    /\ status' = "pending"
    /\ UNCHANGED <<libraryUp, link, service, linkCounts>>

\* handleLibraryRetry, markPending: refused unless failed.  The fault is a commit
\* that is not confirmed, or the read after it that fails.
Retry ==
    /\ libraryUp /\ status = "failed"
    /\ \/ discovery' = "starting" /\ UNCHANGED unrecorded
       \/ unrecorded' = TRUE /\ UNCHANGED discovery
    /\ status' = "pending"
    /\ UNCHANGED <<libraryUp, link, service, linkCounts>>

\* startLibraryDiscovery: an entry that cannot be read, or is gone, is left as it is.  The job
\* is refused without an account, at a limit, by a full or closing queue.
StartDiscovery ==
    /\ discovery = "starting"
    /\ \/ /\ discovery' = "none"
          /\ unrecorded' = (status = "pending")
       \/ /\ status # "removed" /\ discovery' \in {"running", "failing"}
          /\ UNCHANGED unrecorded
    /\ UNCHANGED <<libraryUp, status, link, service, linkCounts>>

\* processJob returned or panicked; the job completed with files, or did not, or
\* is no longer known.
EndDiscovery ==
    /\ discovery = "running" /\ discovery' \in {"completing", "failing"}
    /\ UNCHANGED <<libraryUp, status, link, unrecorded, service, linkCounts>>

\* The deferred function, libraryStore.complete: only a pending entry is
\* completed, a missing one is tolerated, any other error is recorded: a file listed
\* twice, a fault of the storage, a commit that is not confirmed.
StoreFiles ==
    /\ discovery = "completing"
    /\ \/ /\ discovery' = "none"
          /\ status' = IF status = "pending" THEN "ready" ELSE status
       \/ /\ discovery' = "failing"
          /\ status' \in {status} \union {"ready" : s \in {status} \intersect {"pending"}}
    /\ UNCHANGED <<libraryUp, link, unrecorded, service, linkCounts>>

\* Mutant: an entry that is there is failed whatever its status.
FailableAny == status \notin {"none", "removed"}

\* libraryStore.fail: SELECT ... AND status='pending'.
Failable == status = "pending"

\* Mutant: an outcome that cannot be stored as complete is dropped.
RecordFailureNot ==
    /\ discovery = "failing" /\ discovery' = "none"
    /\ UNCHANGED <<libraryUp, status, link, unrecorded, service, linkCounts>>

\* recordLibraryDiscoveryFailure: an error of the store is only logged.
RecordFailure ==
    /\ discovery = "failing" /\ discovery' = "none"
    /\ \/ /\ UNCHANGED unrecorded
          /\ status' = IF Failable THEN "failed" ELSE status
       \/ /\ Failable /\ UNCHANGED status
          /\ unrecorded' = TRUE
    /\ UNCHANGED <<libraryUp, link, service, linkCounts>>

-----------------------------------------------------------------------------
\* The administrator.

\* libraryStore.link: the token is kept, with a new mode, unless it is reset.
LinkFile ==
    \E m \in Modes, reset \in BOOLEAN :
       /\ libraryUp /\ status = "ready"
       /\ IF link.token # 0 /\ ~reset
          THEN /\ m # link.mode
               /\ link' = [link EXCEPT !.mode = m]
               /\ UNCHANGED tokens
          ELSE /\ tokens < MaxTokens /\ tokens' = tokens + 1
               /\ link' = [token |-> tokens', mode |-> m]
       /\ UNCHANGED <<libraryUp, status, discovery, unrecorded, service, made>>

RevokeLink ==
    /\ libraryUp /\ link.token # 0 /\ link' = NoLink
    /\ UNCHANGED <<libraryUp, status, discovery, unrecorded, service, linkCounts>>

\* handleLibraryDelete; the links go with the entry.
RemoveResource ==
    /\ libraryUp /\ status \notin {"none", "removed"}
    /\ status' = "removed" /\ link' = NoLink /\ unrecorded' = FALSE
    /\ UNCHANGED <<libraryUp, discovery, service, linkCounts>>

-----------------------------------------------------------------------------
\* The downloads.

\* lookupToken for a token and a mode it answered before.
InForce(t, m) == status = "ready" /\ t # 0 /\ link = [token |-> t, mode |-> m]

\* handleLibraryDownload begins.
FindLink(r) ==
    /\ libraryUp /\ request[r].at = "idle" /\ InForce(link.token, link.mode)
    /\ request' = [request EXCEPT ![r] = [at |-> "found", token |-> link.token,
                                          mode |-> link.mode, call |-> 0]]
    /\ UNCHANGED <<libraryUp, catalog, downloads, call, linkCounts>>

\* Server.libraryDownloads once the calls whose time has passed have left it.
Kept(t) ==
    IF downloads[t] # 0 /\ call[downloads[t]].done /\ call[downloads[t]].expired
    THEN 0 ELSE downloads[t]

Joins(r, c) ==
    request' = [request EXCEPT ![r] = [at |-> "waiting", token |-> @.token, mode |-> @.mode, call |-> c]]

\* libraryDownloadJob, under its mutex: the call of the token is joined while its
\* job is known; otherwise a call is begun, unless there are too many of them or
\* the job or the queue refuses.
JoinDownload(r) ==
    /\ libraryUp /\ request[r].at = "found"
    /\ LET t == request[r].token
           kept == [u \in 1 .. MaxTokens |-> Kept(u)]
           left == [kept EXCEPT ![t] = 0]
       IN  \/ /\ kept[t] # 0 /\ call[kept[t]].known
              /\ downloads' = kept /\ Joins(r, kept[t]) /\ UNCHANGED <<call, made>>
           \/ /\ kept[t] # 0 => ~call[kept[t]].known
              /\ \/ /\ Cardinality({u \in 1 .. tokens : left[u] # 0}) < CacheLimit
                    /\ made < MaxCalls /\ made' = made + 1
                    /\ downloads' = [left EXCEPT ![t] = made']
                    /\ Joins(r, made')
                 \/ downloads' = left /\ request' = [request EXCEPT ![r] = Idle] /\ UNCHANGED made
              /\ UNCHANGED call
    /\ UNCHANGED <<libraryUp, catalog, tokens>>

\* processJob of a shared job returned or panicked.
EndDownload(c) ==
    /\ libraryUp /\ c <= made /\ ~call[c].done
    /\ \E result \in BOOLEAN : call' = [call EXCEPT ![c].done = TRUE,
                                            ![c].result = result /\ call[c].known]
    /\ UNCHANGED <<libraryUp, catalog, downloads, request, linkCounts>>

\* The time of a call passes, or its job leaves the job store; told apart while
\* the call can be joined or is waited for.
Expires(c) ==
    /\ \E t \in 1 .. tokens : downloads[t] = c /\ link.token = t
    /\ call[c].done /\ ~call[c].expired
    /\ call' = [call EXCEPT ![c].expired = TRUE]
    /\ UNCHANGED <<libraryUp, catalog, downloads, request, linkCounts>>

JobLeaves(c) ==
    /\ \/ \E t \in 1 .. tokens : downloads[t] = c /\ link.token = t
       \/ \E r \in Requests : request[r].call = c /\ request[r].at = "waiting"
    /\ call[c].known
    /\ call' = [call EXCEPT ![c].known = FALSE]
    /\ UNCHANGED <<libraryUp, catalog, downloads, request, linkCounts>>

\* The link a download came with, token and mode, is in force.
Authorized(r) == InForce(request[r].token, request[r].mode)

\* Mutant: the link is not looked up again.
AuthorizedOnce(r) == TRUE

\* The second lookupToken of handleLibraryDownload.
StillAuthorized(r) == Authorized(r)

Answer(r) ==
    /\ libraryUp /\ request[r].at = "waiting"
    /\ LET c == request[r].call IN
          /\ call[c].done
          /\ request' = [request EXCEPT ![r] =
                IF StillAuthorized(r) /\ call[c].known /\ call[c].result
                THEN [@ EXCEPT !.at = "answered"] ELSE Idle]
    /\ UNCHANGED <<libraryUp, catalog, downloads, call, linkCounts>>

\* The client leaves, the timer fires or the queue closes; or the answer is out.
LeaveDownload(r) ==
    /\ request[r].at \in {"waiting", "answered"}
    /\ request' = [request EXCEPT ![r] = Idle]
    /\ UNCHANGED <<libraryUp, catalog, downloads, call, linkCounts>>

-----------------------------------------------------------------------------
StopLibrary ==
    /\ libraryUp
    /\ libraryUp' = FALSE
    /\ discovery' = "none"
    /\ downloads' = [t \in 1 .. MaxTokens |-> 0]
    /\ request' = [r \in Requests |-> Idle]
    /\ call' = [c \in 1 .. MaxCalls |-> NewCall] /\ made' = 0
    /\ UNCHANGED <<status, link, unrecorded, tokens>>

\* newLibraryStore fails what is pending, or the server does not start.
StartLibrary ==
    /\ ~libraryUp /\ libraryUp' = TRUE
    /\ status' = IF status = "pending" THEN "failed" ELSE status
    /\ unrecorded' = FALSE
    /\ UNCHANGED <<discovery, link, service, linkCounts>>

LinksStep ==
    \/ CreateResource \/ Retry \/ StartDiscovery \/ EndDiscovery \/ StoreFiles \/ RecordFailure
    \/ LinkFile \/ RevokeLink \/ RemoveResource
    \/ \E r \in Requests : FindLink(r) \/ JoinDownload(r) \/ Answer(r) \/ LeaveDownload(r)
    \/ \E c \in 1 .. MaxCalls : EndDownload(c) \/ Expires(c) \/ JobLeaves(c)
    \/ StopLibrary \/ StartLibrary

\* A download keeps its proof until it ends, and gets one whenever its link is in
\* force and the resolution it waits for, or was answered from, has ended.
Witnessed ==
    proven' = {r \in Requests :
                 /\ request'[r].at \in {"waiting", "answered"}
                 /\ call'[request'[r].call].done
                 /\ r \in proven \/ Authorized(r)'}

LinksNext == LinksStep /\ Witnessed

LinksSpec == LinksInit /\ [][LinksNext]_linksVars

\* The handler that starts a discovery runs on, and the queue ends every job.
LinksFairness ==
    /\ WF_linksVars(StartDiscovery /\ Witnessed)
    /\ WF_linksVars(EndDiscovery /\ Witnessed)
    /\ WF_linksVars(StoreFiles /\ Witnessed)
    /\ WF_linksVars(RecordFailure /\ Witnessed)

LinksFairSpec == LinksSpec /\ LinksFairness

-----------------------------------------------------------------------------
\* "A deletion, revocation or mode change during resolution takes effect before a
\* usable address is returned to a waiting downloader" (library_resolver.go:289):
\* an address is answered only when the link, with the token and the mode the
\* download came with, was in force at some moment since the shared resolution
\* ended, however many downloads, calls and links of the file overlap.
AnswerIsAuthorized == \A r \in Requests : request[r].at = "answered" => r \in proven

\* The list of files of an entry that is ready outlives the discovery that stored
\* it: a completion that was committed but reported as failed is followed by the
\* record of a failure, and that must not take the files back.
ReadyIsKept == [][status = "ready" => status' \in {"ready", "removed"}]_status

\* An entry never stays pending: every discovery ends in files or in a failure
\* that can be retried, unless a fault of the storage kept that from the table
\* (then a restart does it), or the process stopped.
DiscoveryEnds == status = "pending" ~> status # "pending" \/ unrecorded \/ ~libraryUp
=============================================================================
