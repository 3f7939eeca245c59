--------------------------- MODULE DownloadProofs ---------------------------
(***************************************************************************)
(* What is proved, for every value of the constants, of the way from a     *)
(* resource of the library to the bytes a client gets and to the files     *)
(* that are left at PikPak: the links of the library, the catalog, the     *)
(* download through the server and the ledger of temporary files.          *)
(***************************************************************************)
EXTENDS LibraryTree, LibraryLinks, ProxyStream, TempCleanup, DataLemmas

-----------------------------------------------------------------------------
(* LibraryLinks.                                                           *)

CallForms == [done : BOOLEAN, result : BOOLEAN, known : BOOLEAN, expired : BOOLEAN]

\* A download that begins is not done.
LEMMA NewCallType == NewCall \in CallForms /\ NewCall.done = FALSE
  BY DEF NewCall, CallForms

\* What a step changes of a download leaves it one.
LEMMA CallChanges ==
    ASSUME NEW c \in CallForms, NEW b \in BOOLEAN, NEW d \in BOOLEAN
    PROVE  /\ [c EXCEPT !.done = b, !.result = d] \in CallForms
           /\ [c EXCEPT !.expired = b] \in CallForms
           /\ [c EXCEPT !.known = b] \in CallForms
           /\ [c EXCEPT !.expired = b].done = c.done
           /\ [c EXCEPT !.known = b].done = c.done
           /\ [c EXCEPT !.done = b, !.result = d].done = b
  BY DEF CallForms

RequestForms(t, c) == [at : {"idle", "found", "waiting", "answered"},
                       token : 0 .. t, mode : Modes, call : 0 .. c]

\* A download that waits has a resolution; one that was answered keeps it, and it
\* has ended.
ServiceInv ==
    /\ tokens \in 0 .. MaxTokens /\ made \in 0 .. MaxCalls
    /\ downloads \in [1 .. MaxTokens -> 0 .. made]
    /\ call \in [1 .. MaxCalls -> CallForms]
    /\ request \in [Requests -> RequestForms(tokens, made)]
    /\ \A r \in Requests :
          /\ request[r].at \in {"waiting", "answered"} => request[r].call \in 1 .. made
          /\ request[r].at = "answered" => call[request[r].call].done
          /\ request[r].at # "idle" => request[r].token # 0

\* An answer is the one there was, or one that is authorized now.
AnswerIsNew(r) == request[r].at = "answered" => Authorized(r)
AnswerIsOld(r) == request'[r] = request[r]

ServiceKept == ServiceInv' /\ \A q \in Requests : AnswerIsOld(q) \/ AnswerIsNew(q)'

\* One request changes, the others have what they had.
Moved(r, e) ==
    /\ request' = [request EXCEPT ![r] = e] /\ call' = call
    /\ tokens' \in 0 .. MaxTokens /\ made' \in 0 .. MaxCalls /\ tokens <= tokens' /\ made <= made'
    /\ downloads' \in [1 .. MaxTokens -> 0 .. made']
    /\ e \in RequestForms(tokens', made')
    /\ e.at \in {"waiting", "answered"} => e.call \in 1 .. made'
    /\ e.at = "answered" => call[e.call].done /\ Authorized(r)'
    /\ e.at # "idle" => e.token # 0

\* A step of one request keeps the service.
LEMMA RequestMoves ==
    ASSUME ServiceInv, NEW r \in Requests, NEW e, Moved(r, e)
    PROVE  ServiceKept
<1> USE DEF Moved
<1>1. \A q \in Requests : request'[q] = IF q = r THEN e ELSE request[q]
  BY DEF ServiceInv
<1>2. ASSUME NEW f \in RequestForms(tokens, made)
      PROVE  f \in RequestForms(tokens', made')
  BY DEF ServiceInv, RequestForms
<1>3. request' \in [Requests -> RequestForms(tokens', made')]
  BY <1>2 DEF ServiceInv
<1>4. ASSUME NEW q \in Requests
      PROVE  /\ request'[q].at \in {"waiting", "answered"} => request'[q].call \in 1 .. made'
             /\ request'[q].at = "answered" => call'[request'[q].call].done
             /\ request'[q].at # "idle" => request'[q].token # 0
  BY <1>1 DEF ServiceInv
<1>5. \A q \in Requests : AnswerIsOld(q) \/ AnswerIsNew(q)'
  BY <1>1 DEF AnswerIsOld, AnswerIsNew
<1> QED
  BY <1>3, <1>4, <1>5 DEF ServiceInv, ServiceKept

\* Reading the link keeps the service.
LEMMA FindsLink ==
    ASSUME LinksTypeOK, ServiceInv, NEW r \in Requests, FindLink(r)
    PROVE  ServiceKept
<1> DEFINE e == [at |-> "found", token |-> link.token, mode |-> link.mode, call |-> 0]
<1>1. link.token \in 0 .. tokens /\ link.mode \in Modes
  BY DEF LinksTypeOK
<1>2. request' = [request EXCEPT ![r] = e] /\ UNCHANGED <<downloads, call, tokens, made>>
  BY DEF FindLink, linkCounts
<1>3. e \in RequestForms(tokens', made') /\ e.at = "found" /\ e.token # 0
  BY <1>1, <1>2 DEF ServiceInv, RequestForms, FindLink, InForce
<1> HIDE DEF e
<1>4. Moved(r, e)
  BY <1>2, <1>3 DEF ServiceInv, Moved
<1> QED
  BY <1>4, RequestMoves

\* An idle request is a request.
LEMMA IdleIsForm == ASSUME ServiceInv PROVE Idle \in RequestForms(tokens, made) /\ Idle.at = "idle"
  BY DEF ServiceInv, RequestForms, Idle, Modes

\* So is one that waits for a download, which has a number already.
LEMMA WaitingForm ==
    ASSUME NEW t \in Nat, NEW m \in Nat, NEW e \in RequestForms(t, m), NEW n \in Nat, m <= n,
           NEW c \in 1 .. n
    PROVE  [at |-> "waiting", token |-> e.token, mode |-> e.mode, call |-> c] \in RequestForms(t, n)
  BY DEF RequestForms

\* Joining or starting a shared download keeps the service.
LEMMA JoinsDownload ==
    ASSUME ServiceInv, NEW r \in Requests, JoinDownload(r)
    PROVE  ServiceKept
<1> DEFINE kept == [u \in 1 .. MaxTokens |-> Kept(u)]
           others == [kept EXCEPT ![request[r].token] = 0]
<1>1. made \in Nat /\ \A u \in 1 .. MaxTokens : Kept(u) \in 0 .. made
  BY DEF ServiceInv, Kept
<1>2. kept \in [1 .. MaxTokens -> 0 .. made]
  BY <1>1
<1>3. others \in [1 .. MaxTokens -> 0 .. made]
  <2> HIDE DEF kept
  <2>1. 0 \in 0 .. made
    BY <1>1
  <2> QED
    BY <1>2, <2>1
<1>4. UNCHANGED <<call, tokens>>
  BY DEF JoinDownload
<1>5. \/ /\ kept[request[r].token] # 0 /\ downloads' = kept /\ Joins(r, kept[request[r].token])
         /\ UNCHANGED made
      \/ /\ made < MaxCalls /\ made' = made + 1 /\ Joins(r, made')
         /\ downloads' = [others EXCEPT ![request[r].token] = made']
      \/ downloads' = others /\ request' = [request EXCEPT ![r] = Idle] /\ UNCHANGED made
  BY DEF JoinDownload
<1>6. /\ request[r] \in RequestForms(tokens, made) /\ tokens \in Nat
      /\ request[r].token \in 1 .. MaxTokens
  BY <1>4, LinksAssumption DEF ServiceInv, RequestForms, JoinDownload
<1>7. CASE /\ kept[request[r].token] # 0 /\ downloads' = kept /\ Joins(r, kept[request[r].token])
           /\ UNCHANGED made
  <2> DEFINE c == kept[request[r].token]
             e == [at |-> "waiting", token |-> request[r].token, mode |-> request[r].mode, call |-> c]
  <2>1. c \in 1 .. made
    BY <1>1, <1>2, <1>6, <1>7
  <2>2. request' = [request EXCEPT ![r] = e]
    BY <1>7 DEF Joins
  <2> HIDE DEF c
  <2>3. /\ e \in RequestForms(tokens, made)
        /\ e.at = "waiting" /\ e.call = c /\ e.token = request[r].token
    BY <1>1, <1>6, <2>1, WaitingForm
  <2> HIDE DEF e
  <2>4. Moved(r, e)
    BY <1>2, <1>4, <1>6, <1>7, <2>1, <2>2, <2>3 DEF ServiceInv, Moved
  <2> QED
    BY <2>4, RequestMoves
<1>8. CASE /\ made < MaxCalls /\ made' = made + 1 /\ Joins(r, made')
            /\ downloads' = [others EXCEPT ![request[r].token] = made']
  <2> DEFINE e == [at |-> "waiting", token |-> request[r].token, mode |-> request[r].mode, call |-> made']
  <2>1. made' \in Nat /\ made' \in 1 .. made' /\ made <= made'
    BY <1>1, <1>8
  <2>2. request' = [request EXCEPT ![r] = e]
    BY <1>8 DEF Joins
  <2>3. /\ e \in RequestForms(tokens, made')
        /\ e.at = "waiting" /\ e.call = made' /\ e.token = request[r].token
    BY <1>1, <1>6, <2>1, WaitingForm
  <2> HIDE DEF e
  <2>4. downloads' \in [1 .. MaxTokens -> 0 .. made']
    BY <1>1, <1>3, <1>8, <2>1
  <2>5. Moved(r, e)
    BY <1>1, <1>4, <1>6, <1>8, <2>1, <2>2, <2>3, <2>4, LinksAssumption DEF ServiceInv, Moved
  <2> QED
    BY <2>5, RequestMoves
<1>9. CASE downloads' = others /\ request' = [request EXCEPT ![r] = Idle] /\ UNCHANGED made
  <2> HIDE DEF others
  <2>1. Moved(r, Idle)
    BY <1>3, <1>4, <1>9, IdleIsForm DEF ServiceInv, Moved
  <2> QED
    BY <2>1, RequestMoves
<1> QED
  BY <1>5, <1>7, <1>8, <1>9

\* One resolution changes, and has ended if it had before.
CallMoves(c, e) ==
    /\ call' = [call EXCEPT ![c] = e] /\ e \in CallForms
    /\ call[c].done => e.done
    /\ UNCHANGED <<downloads, request, tokens, made>>

\* A step of a shared download keeps the service.
LEMMA CallChangesKeep ==
    ASSUME ServiceInv, NEW c \in 1 .. MaxCalls, NEW e, CallMoves(c, e)
    PROVE  ServiceKept
<1>1. 1 .. made \subseteq 1 .. MaxCalls
  BY LinksAssumption DEF ServiceInv
<1>2. call' \in [1 .. MaxCalls -> CallForms] /\ \A d \in 1 .. MaxCalls : call[d].done => call'[d].done
  BY DEF CallMoves, ServiceInv
<1> QED
  BY <1>1, <1>2 DEF CallMoves, ServiceInv, AnswerIsOld, ServiceKept

\* Answering a request keeps the service.
LEMMA Answers ==
    ASSUME ServiceInv, NEW r \in Requests, Answer(r)
    PROVE  ServiceKept
<1>1. request[r].at = "waiting" /\ call[request[r].call].done
  BY DEF Answer
<1>2. UNCHANGED <<status, link, downloads, call, tokens, made>>
  BY DEF Answer, catalog, linkCounts
<1>3. \/ request' = [request EXCEPT ![r] = Idle]
      \/ request' = [request EXCEPT ![r] = [@ EXCEPT !.at = "answered"]] /\ Authorized(r)
  BY DEF Answer, StillAuthorized
<1>4. CASE request' = [request EXCEPT ![r] = Idle]
  <2>1. Moved(r, Idle)
    BY <1>2, <1>4, IdleIsForm DEF ServiceInv, Moved
  <2> QED
    BY <2>1, RequestMoves
<1>5. CASE request' = [request EXCEPT ![r] = [@ EXCEPT !.at = "answered"]] /\ Authorized(r)
  <2> DEFINE e == [request[r] EXCEPT !.at = "answered"]
  <2>1. /\ request[r] \in RequestForms(tokens, made) /\ request[r].call \in 1 .. made
    BY <1>1 DEF ServiceInv
  <2>2. /\ e \in RequestForms(tokens, made) /\ e.at = "answered" /\ e.call = request[r].call
        /\ e.token = request[r].token /\ e.mode = request[r].mode
    BY <2>1 DEF RequestForms
  <2>3. request' = [request EXCEPT ![r] = e]
    BY <1>5
  <2> HIDE DEF e
  <2>4. request'[r] = e
    BY <2>3 DEF ServiceInv
  <2>5. Authorized(r)'
    BY <1>2, <1>5, <2>2, <2>4 DEF Authorized, InForce
  <2>6. Moved(r, e)
    BY <1>1, <1>2, <2>1, <2>2, <2>3, <2>5 DEF ServiceInv, Moved
  <2> QED
    BY <2>6, RequestMoves
<1> QED
  BY <1>3, <1>4, <1>5

\* What the service does not see keeps it.
LEMMA OthersKeep ==
    ASSUME ServiceInv, UNCHANGED <<service, linkCounts>> PROVE ServiceKept
  BY DEF ServiceInv, ServiceKept, AnswerIsOld, service, linkCounts

\* Linking a file keeps the service.
LEMMA LinkFileKeeps ==
    ASSUME LinksTypeOK, ServiceInv, LinkFile PROVE ServiceKept
<1>1. UNCHANGED <<downloads, call, request, made>> /\ tokens' \in 0 .. MaxTokens /\ tokens <= tokens'
  BY LinksAssumption DEF LinksTypeOK, LinkFile, service
<1>2. request' \in [Requests -> RequestForms(tokens', made')]
  BY <1>1 DEF ServiceInv, RequestForms
<1> QED
  BY <1>1, <1>2 DEF ServiceInv, ServiceKept, AnswerIsOld

\* So does a stop of the process.
LEMMA StopKeeps ==
    ASSUME LinksTypeOK, ServiceInv, StopLibrary PROVE ServiceKept
<1>1. Idle \in RequestForms(tokens, 0) /\ Idle.at = "idle" /\ NewCall \in CallForms
  BY NewCallType DEF ServiceInv, RequestForms, Idle, Modes
<1> QED
  BY <1>1, LinksAssumption DEF StopLibrary, ServiceInv, ServiceKept, AnswerIsOld, AnswerIsNew

\* So does every step.
LEMMA ServiceStep ==
    ASSUME LinksTypeOK, ServiceInv, LinksStep PROVE ServiceKept
<1>1. ASSUME NEW r \in Requests, LeaveDownload(r)
      PROVE  ServiceKept
  <2>1. request' = [request EXCEPT ![r] = Idle] /\ UNCHANGED <<downloads, call, tokens, made>>
    BY <1>1 DEF LeaveDownload, linkCounts
  <2>2. Moved(r, Idle)
    BY <2>1, IdleIsForm DEF ServiceInv, Moved
  <2> QED
    BY <2>2, RequestMoves
<1>2. ASSUME NEW c \in 1 .. MaxCalls, EndDownload(c) \/ Expires(c) \/ JobLeaves(c)
      PROVE  ServiceKept
  <2>1. UNCHANGED <<downloads, request, tokens, made>>
    BY <1>2 DEF EndDownload, Expires, JobLeaves, linkCounts
  <2>2. call[c] \in CallForms
    BY DEF ServiceInv
  <2>3. CASE EndDownload(c)
    <3>1. PICK result \in BOOLEAN :
             call' = [call EXCEPT ![c] = [@ EXCEPT !.done = TRUE, !.result = result /\ call[c].known]]
      BY <2>3 DEF EndDownload
    <3> DEFINE e == [call[c] EXCEPT !.done = TRUE, !.result = result /\ call[c].known]
    <3>2. (result /\ call[c].known) \in BOOLEAN
      OBVIOUS
    <3>3. e \in CallForms /\ e.done = TRUE
      BY <2>2, <3>2, CallChanges
    <3>4. call' = [call EXCEPT ![c] = e]
      BY <3>1
    <3> HIDE DEF e
    <3>5. CallMoves(c, e)
      BY <2>1, <3>3, <3>4 DEF CallMoves
    <3> QED
      BY <3>5, CallChangesKeep
  <2>4. CASE Expires(c)
    <3> DEFINE e == [call[c] EXCEPT !.expired = TRUE]
    <3>1. e \in CallForms /\ e.done = call[c].done
      BY <2>2, CallChanges
    <3>2. call' = [call EXCEPT ![c] = e]
      BY <2>4 DEF Expires
    <3> HIDE DEF e
    <3>3. CallMoves(c, e)
      BY <2>1, <3>1, <3>2 DEF CallMoves
    <3> QED
      BY <3>3, CallChangesKeep
  <2>5. CASE JobLeaves(c)
    <3> DEFINE e == [call[c] EXCEPT !.known = FALSE]
    <3>1. e \in CallForms /\ e.done = call[c].done
      BY <2>2, CallChanges
    <3>2. call' = [call EXCEPT ![c] = e]
      BY <2>5 DEF JobLeaves
    <3> HIDE DEF e
    <3>3. CallMoves(c, e)
      BY <2>1, <3>1, <3>2 DEF CallMoves
    <3> QED
      BY <3>3, CallChangesKeep
  <2> QED
    BY <1>2, <2>3, <2>4, <2>5
<1>3. CASE \/ CreateResource \/ Retry \/ StartDiscovery \/ EndDiscovery \/ StoreFiles
           \/ RecordFailure \/ RevokeLink \/ RemoveResource \/ StartLibrary
  BY <1>3, OthersKeep DEF CreateResource, Retry, StartDiscovery, EndDiscovery, StoreFiles,
     RecordFailure, RevokeLink, RemoveResource, StartLibrary
<1> QED
  BY <1>1, <1>2, <1>3, FindsLink, JoinsDownload, Answers, LinkFileKeeps, StopKeeps DEF LinksStep

\* Every step keeps the types.
LEMMA LinksTypeStep ==
    ASSUME LinksTypeOK, ServiceInv, [LinksNext]_linksVars
    PROVE  LinksTypeOK'
<1> DEFINE CatalogTypes == /\ libraryUp \in BOOLEAN /\ unrecorded \in BOOLEAN
                           /\ status \in {"none", "pending", "ready", "failed", "removed"}
                           /\ discovery \in {"none", "starting", "running", "completing", "failing"}
                           /\ link \in [token : 0 .. tokens, mode : Modes]
<1>1. CatalogTypes /\ proven \subseteq Requests /\ tokens \in 0 .. MaxTokens
  BY DEF LinksTypeOK
<1>2. NoLink.token = 0 /\ NoLink \in [token : {0}, mode : Modes]
  BY DEF NoLink, Modes
<1>3. CASE UNCHANGED linksVars
  BY <1>3 DEF linksVars, catalog, service, linkCounts, LinksTypeOK
<1>4. CASE LinksNext
  <2>1. ServiceKept
    BY <1>4, ServiceStep DEF LinksNext
  <2>2. proven' \subseteq Requests
    BY <1>4 DEF LinksNext, Witnessed
  <2>3. ASSUME CreateResource \/ Retry
        PROVE  CatalogTypes'
    BY <1>1, <2>3 DEF CreateResource, Retry, linkCounts
  <2>4. ASSUME StartDiscovery \/ EndDiscovery \/ StoreFiles \/ RecordFailure
        PROVE  CatalogTypes'
    BY <1>1, <2>4 DEF StartDiscovery, EndDiscovery, StoreFiles, RecordFailure, linkCounts
  <2>5. ASSUME LinkFile
        PROVE  CatalogTypes'
    <3>1. PICK m \in Modes :
             \/ link' = [link EXCEPT !.mode = m] /\ UNCHANGED tokens
             \/ link' = [token |-> tokens', mode |-> m] /\ tokens' = tokens + 1
      BY <2>5 DEF LinkFile
    <3>2. link' \in [token : 0 .. tokens', mode : Modes]
      BY <1>1, <3>1
    <3> QED
      BY <1>1, <2>5, <3>2 DEF LinkFile
  <2>6. ASSUME RevokeLink \/ RemoveResource
        PROVE  CatalogTypes'
    <3>1. link' = NoLink /\ tokens' = tokens
      BY <2>6 DEF RevokeLink, RemoveResource, linkCounts
    <3>2. link' \in [token : 0 .. tokens', mode : Modes]
      BY <1>1, <1>2, <3>1
    <3> QED
      BY <1>1, <2>6, <3>2 DEF RevokeLink, RemoveResource
  <2>7. ASSUME NEW r \in Requests, FindLink(r) \/ JoinDownload(r) \/ Answer(r) \/ LeaveDownload(r)
        PROVE  CatalogTypes'
    BY <1>1, <2>7 DEF FindLink, JoinDownload, Answer, LeaveDownload, catalog, linkCounts
  <2>8. ASSUME NEW c \in 1 .. MaxCalls, EndDownload(c) \/ Expires(c) \/ JobLeaves(c)
        PROVE  CatalogTypes'
    BY <1>1, <2>8 DEF EndDownload, Expires, JobLeaves, catalog, linkCounts
  <2>9. ASSUME StopLibrary \/ StartLibrary
        PROVE  CatalogTypes'
    BY <1>1, <2>9 DEF StopLibrary, StartLibrary, linkCounts
  <2>10. CatalogTypes'
    BY <1>4, <2>3, <2>4, <2>5, <2>6, <2>7, <2>8, <2>9 DEF LinksNext, LinksStep
  <2> QED
    BY <2>1, <2>2, <2>10 DEF ServiceKept, ServiceInv, LinksTypeOK, CallForms, RequestForms
<1> QED
  BY <1>3, <1>4

\* An address is answered only when its link was in force since the shared
\* resolution ended, for any number of downloads, tokens, resolutions and places in
\* the cache (handleLibraryDownload, libraryDownloadJob).  What carries it: an
\* answered download keeps its resolution, and that one has ended.
THEOREM AnswersAreAuthorized == LinksSpec => [](LinksTypeOK /\ AnswerIsAuthorized)
<1> DEFINE Inv == LinksTypeOK /\ ServiceInv /\ AnswerIsAuthorized
<1>1. LinksInit => Inv
  <2> SUFFICES ASSUME LinksInit PROVE Inv
    OBVIOUS
  <2>1. Idle \in RequestForms(0, 0) /\ Idle.at = "idle" /\ NewCall \in CallForms
    BY NewCallType DEF RequestForms, Idle, Modes
  <2>2. NoLink \in [token : 0 .. 0, mode : Modes]
    BY DEF NoLink, Modes
  <2>3. tokens = 0 /\ made = 0 /\ MaxTokens \in Nat /\ MaxCalls \in Nat
    BY LinksAssumption DEF LinksInit
  <2>4. ServiceInv
    BY <2>1, <2>3 DEF LinksInit, ServiceInv
  <2>5. LinksTypeOK
    BY <2>2, <2>3, <2>4 DEF LinksInit, LinksTypeOK, ServiceInv, CallForms, RequestForms
  <2> QED
    BY <2>1, <2>4, <2>5 DEF LinksInit, AnswerIsAuthorized
<1>2. Inv /\ [LinksNext]_linksVars => Inv'
  <2> SUFFICES ASSUME Inv, [LinksNext]_linksVars PROVE Inv'
    OBVIOUS
  <2>1. LinksTypeOK'
    BY LinksTypeStep
  <2>2. CASE UNCHANGED linksVars
    BY <2>1, <2>2 DEF linksVars, catalog, service, linkCounts, ServiceInv, AnswerIsAuthorized
  <2>3. CASE LinksNext
    <3>1. ServiceKept
      BY <2>3, ServiceStep DEF LinksNext
    <3>2. ASSUME NEW r \in Requests, request'[r].at = "answered"
          PROVE  r \in proven'
      <4>1. call'[request'[r].call].done
        BY <3>1, <3>2 DEF ServiceKept, ServiceInv
      <4>2. r \in proven \/ Authorized(r)'
        BY <3>1, <3>2 DEF ServiceKept, AnswerIsOld, AnswerIsNew, AnswerIsAuthorized
      <4> QED
        BY <2>3, <3>2, <4>1, <4>2 DEF LinksNext, Witnessed
    <3> QED
      BY <2>1, <3>1, <3>2 DEF ServiceKept, AnswerIsAuthorized
  <2> QED
    BY <2>2, <2>3
<1> QED
  BY <1>1, <1>2, PTL DEF LinksSpec

\* The list of files of an entry outlives the discovery that stored it: no step of
\* a discovery, a restart or an administrator takes it back but a removal.
THEOREM ReadyListIsKept == LinksSpec => ReadyIsKept
<1>1. ASSUME LinksNext, status = "ready"
      PROVE  status' \in {"ready", "removed"}
  <2>1. ASSUME NEW r \in Requests, FindLink(r) \/ JoinDownload(r) \/ Answer(r) \/ LeaveDownload(r)
        PROVE  status' = status
    BY <2>1 DEF FindLink, JoinDownload, Answer, LeaveDownload, catalog
  <2>2. ASSUME NEW c \in 1 .. MaxCalls, EndDownload(c) \/ Expires(c) \/ JobLeaves(c)
        PROVE  status' = status
    BY <2>2 DEF EndDownload, Expires, JobLeaves, catalog
  <2> QED
    BY <1>1, <2>1, <2>2 DEF LinksNext, LinksStep, CreateResource, Retry, StartDiscovery, EndDiscovery,
       StoreFiles, RecordFailure, Failable, LinkFile, RevokeLink, RemoveResource, StopLibrary, StartLibrary
<1>2. [LinksNext]_linksVars => [status = "ready" => status' \in {"ready", "removed"}]_status
  BY <1>1 DEF linksVars, catalog
<1> QED
  BY <1>2, PTL DEF LinksSpec, ReadyIsKept

-----------------------------------------------------------------------------
(* ProxyStream.                                                            *)

PartForms == [next : 1 .. NumChunks + 1, dispatched : 0 .. NumChunks,
              fetching : SUBSET Chunks, pending : SUBSET Chunks,
              results : Seq([chunk : Chunks, ok : BOOLEAN])]

Places == {"new", "limit", "source", "multipart", "probe", "stream", "renew",
           "single", "retry", "again", "copy", "done"}

\* The header and the first n chunks.
Prefix(n) == [i \in 1 .. n + 1 |-> i - 1]

\* What a response has, by the place the download is at, the ranges p it has and
\* whether it was cut short.
Fitting(where, s, p, cut) ==
    /\ where \notin {"stream", "copy", "done"} => s = <<>>
    /\ where = "stream" => /\ p.next <= NumChunks
                           /\ s = IF p.next = 1 THEN <<>> ELSE Prefix(p.next - 1)
    /\ where = "copy" => \E n \in 0 .. NumChunks : s = Prefix(n)
    /\ where = "done" => \/ s = <<ErrorItem>>
                         \/ cut /\ s = <<>>
                         \/ \E n \in 0 .. NumChunks : s = Prefix(n) /\ (cut \/ n = NumChunks)

StreamInv ==
    /\ place \in [Downloads -> Places] /\ sent = [d \in Downloads |-> sent[d]]
    /\ parts \in [Downloads -> PartForms]
    /\ \A d \in Downloads : Fitting(place[d], sent[d], parts[d], d \in cutShort)

\* The numbers of parts, of places and of fetches are positive.
LEMMA ProxyNumbers == NumChunks \in Nat \ {0} /\ WindowChunks \in Nat \ {0} /\ Concurrency \in Nat \ {0}
  BY ProxyAssumption

\* A download without parts waits for the first.
LEMMA NoPartsForm == NoParts \in PartForms /\ NoParts.next = 1
<1>1. <<>> \in Seq([chunk : Chunks, ok : BOOLEAN])
  OBVIOUS
<1> QED
  BY <1>1, ProxyNumbers DEF NoParts, PartForms

\* The header and the first n parts are n + 1 items.
LEMMA PrefixIs ==
    ASSUME NEW n \in Nat
    PROVE  Prefix(n) \in Seq(Nat) /\ Len(Prefix(n)) = n + 1 /\ Prefix(n) # <<>>
<1>1. Prefix(n) \in [1 .. n + 1 -> Nat]
  BY DEF Prefix
<1> QED
  BY <1>1 DEF Prefix

\* Which a sequence is that has them in that order.
LEMMA SequenceIsPrefix ==
    ASSUME NEW n \in Nat, NEW s \in Seq(Nat), Len(s) = n + 1, \A i \in 1 .. n + 1 : s[i] = i - 1
    PROVE  s = Prefix(n)
<1>1. Prefix(n) \in Seq(Nat) /\ Len(Prefix(n)) = n + 1 /\ \A i \in 1 .. n + 1 : Prefix(n)[i] = i - 1
  BY PrefixIs DEF Prefix
<1> QED
  BY <1>1, SeqEqual

\* Chunks that follow those that were sent.
LEMMA PrefixGrows ==
    ASSUME NEW n \in Nat, NEW more \in Seq(Nat), \A i \in 1 .. Len(more) : more[i] = n + i
    PROVE  Prefix(n) \o more = Prefix(n + Len(more))
<1> DEFINE all == Prefix(n) \o more
<1>1. /\ Len(more) \in Nat /\ Prefix(n) \in Seq(Nat) /\ Len(Prefix(n)) = n + 1
      /\ \A i \in 1 .. n + 1 : Prefix(n)[i] = i - 1
  BY PrefixIs DEF Prefix
<1>2. /\ all \in Seq(Nat) /\ Len(all) = n + Len(more) + 1
      /\ \A i \in 1 .. n + 1 + Len(more) : all[i] = IF i <= n + 1 THEN Prefix(n)[i] ELSE more[i - (n + 1)]
  <2>1. /\ all \in Seq(Nat) /\ Len(all) = Len(Prefix(n)) + Len(more)
        /\ \A i \in 1 .. Len(Prefix(n)) + Len(more) :
              all[i] = IF i <= Len(Prefix(n)) THEN Prefix(n)[i] ELSE more[i - Len(Prefix(n))]
    BY <1>1, ConcatProperties
  <2>2. Len(Prefix(n)) + Len(more) = n + 1 + Len(more) /\ n + 1 + Len(more) = n + Len(more) + 1
    BY <1>1
  <2> HIDE DEF all
  <2> QED
    BY <1>1, <2>1, <2>2
<1> HIDE DEF all
<1>3. ASSUME NEW i \in 1 .. n + Len(more) + 1
      PROVE  all[i] = i - 1
  <2>1. CASE i <= n + 1
    BY <1>1, <1>2, <2>1
  <2>2. CASE i > n + 1
    <3>1. i - (n + 1) \in 1 .. Len(more)
      BY <1>1, <2>2
    <3> QED
      BY <1>1, <1>2, <2>2, <3>1
  <2> QED
    BY <1>1, <2>1, <2>2
<1>4. n + Len(more) \in Nat
  BY <1>1
<1>5. all = Prefix(n + Len(more))
  BY <1>2, <1>3, <1>4, SequenceIsPrefix
<1> QED
  BY <1>5 DEF all

\* The header alone is such a prefix.
LEMMA HeaderIsPrefix == <<HeaderItem>> = Prefix(0)
<1>1. <<HeaderItem>> \in Seq(Nat) /\ Len(<<HeaderItem>>) = 1 /\ <<HeaderItem>>[1] = 0
  BY DEF HeaderItem
<1>2. 0 + 1 = 1 /\ \A i \in 1 .. 1 : <<HeaderItem>>[i] = i - 1
  BY <1>1
<1> DEFINE s == <<HeaderItem>>
<1> HIDE DEF s
<1>3. s \in Seq(Nat) /\ Len(s) = 0 + 1 /\ \A i \in 1 .. 0 + 1 : s[i] = i - 1
  BY <1>1, <1>2 DEF s
<1>4. s = Prefix(0)
  BY <1>3, SequenceIsPrefix
<1> QED
  BY <1>4 DEF s

\* What may be dispatched is the least of its bounds.
LEMMA LeastOfThree ==
    ASSUME NEW a \in Int, NEW b \in Int, NEW c \in Int
    PROVE  Min({a, b, c}) \in Int /\ Min({a, b, c}) <= b
<1>1. \E x \in {a, b, c} : \A y \in {a, b, c} : x <= y
  <2>1. CASE a <= b /\ a <= c
    BY <2>1
  <2>2. CASE b <= a /\ b <= c
    BY <2>2
  <2>3. CASE c <= a /\ c <= b
    BY <2>3
  <2> QED
    BY <2>1, <2>2, <2>3
<1>2. Min({a, b, c}) \in {a, b, c} /\ \A y \in {a, b, c} : Min({a, b, c}) <= y
  BY <1>1 DEF Min
<1> QED
  BY <1>2

\* Dispatching parts leaves the next one to write.
LEMMA DispatchedForm ==
    ASSUME NEW d \in Downloads, NEW p \in PartForms
    PROVE  Dispatched(d, p) \in PartForms /\ Dispatched(d, p).next = p.next
<1> DEFINE a == NumWorkers - InFlight(p)
           b == NumChunks - p.dispatched
           c == WindowChunks - (p.dispatched + 1 - p.next)
           room == Min({a, b, c})
           more == [p EXCEPT !.fetching = @ \union (p.dispatched + 1 .. p.dispatched + room),
                             !.dispatched = @ + room]
<1>1. /\ p.dispatched \in 0 .. NumChunks /\ p.next \in 1 .. NumChunks + 1
      /\ p.fetching \subseteq 1 .. NumChunks /\ p.results \in Seq([chunk : Chunks, ok : BOOLEAN])
  BY DEF PartForms, Chunks
<1>2. b \in Int /\ c \in Int
  BY <1>1, ProxyNumbers
<1>3. a \in Int
  <2>1. NumWorkers \in Int
    <3>1. Min({Concurrency, NumChunks, WindowChunks}) \in Int
      <4>1. Concurrency \in Int /\ NumChunks \in Int /\ WindowChunks \in Int
        BY ProxyNumbers
      <4> QED
        BY <4>1, LeastOfThree
    <3> QED
      BY <3>1 DEF NumWorkers
  <2>2. IsFiniteSet(p.fetching)
    <3>1. IsFiniteSet(1 .. NumChunks)
      BY ProxyNumbers, FS_Interval
    <3> QED
      BY <1>1, <3>1, FS_Subset
  <2>3. Cardinality(p.fetching) \in Nat
    BY <2>2, FS_CardinalityType
  <2>4. Len(p.results) \in Nat
    BY <1>1, LenProperties
  <2> QED
    BY <2>1, <2>3, <2>4 DEF InFlight
<1>4. room \in Int /\ room <= b
  <2> HIDE DEF a, b, c
  <2> QED
    BY <1>2, <1>3, LeastOfThree
<1>5. Dispatched(d, p) = p \/ (room > 0 /\ Dispatched(d, p) = more)
  <2>1. Dispatched(d, p) = IF d \in gone \/ room <= 0 THEN p ELSE more
    BY DEF Dispatched
  <2> HIDE DEF room, more
  <2> QED
    BY <1>4, <2>1
<1> HIDE DEF room
<1>6. ASSUME room > 0
      PROVE  more \in PartForms /\ more.next = p.next
  <2>1. p.dispatched + room \in 0 .. NumChunks
    BY <1>1, <1>4, <1>6, ProxyNumbers
  <2>2. p.fetching \union (p.dispatched + 1 .. p.dispatched + room) \subseteq Chunks
    <3>1. p.dispatched + 1 .. p.dispatched + room \subseteq 1 .. NumChunks
      BY <1>1, <1>4, <2>1, ProxyNumbers
    <3> QED
      BY <1>1, <3>1 DEF Chunks
  <2> QED
    BY <2>1, <2>2 DEF PartForms
<1> QED
  BY <1>5, <1>6

\* The first chunk that cannot be written yet.
LEMMA NextAfterIs ==
    ASSUME NEW p \in PartForms
    PROVE  /\ NextAfter(p) \in p.next .. NumChunks + 1 /\ NextAfter(p) \notin p.pending
           /\ \A c \in p.next .. NextAfter(p) - 1 : c \in p.pending
<1> DEFINE S == {n \in p.next .. NumChunks + 1 : n \notin p.pending}
<1>1. p.next \in 1 .. NumChunks + 1 /\ p.pending \subseteq 1 .. NumChunks
  BY DEF PartForms, Chunks
<1>2. NumChunks + 1 \in S /\ S \in SUBSET Nat
  BY <1>1, ProxyNumbers
<1>3. Min(S) \in S /\ \A n \in S : Min(S) <= n
  <2> HIDE DEF S
  <2> QED
    BY <1>2, LeastMember
<1>4. PICK m \in S : \A n \in S : m <= n
  BY <1>3
<1>5. \A c \in p.next .. m - 1 : c \in p.pending
  BY <1>1, <1>4, ProxyNumbers
<1>6. \E n \in p.next .. NumChunks + 1 : n \notin p.pending /\ \A c \in p.next .. n - 1 : c \in p.pending
  BY <1>4, <1>5
<1> QED
  BY <1>6 DEF NextAfter

\* Writing parts advances it past those that are there.
LEMMA WrittenForm ==
    ASSUME NEW p \in PartForms
    PROVE  Written(p) \in PartForms /\ Written(p).next = NextAfter(p)
<1>1. p.next \in 1 .. NumChunks + 1 /\ NextAfter(p) \in p.next .. NumChunks + 1
  BY NextAfterIs DEF PartForms
<1>2. NextAfter(p) \in 1 .. NumChunks + 1
  BY <1>1, ProxyNumbers
<1> QED
  BY <1>2 DEF Written, PartForms

\* The parts written are the ones that follow, in order.
LEMMA ReadyFollows ==
    ASSUME NEW p \in PartForms
    PROVE  /\ Ready(p) \in Seq(Nat) /\ Len(Ready(p)) = NextAfter(p) - p.next
           /\ \A i \in 1 .. Len(Ready(p)) : Ready(p)[i] = p.next - 1 + i
<1> DEFINE m == NextAfter(p) - p.next
<1>1. p.next \in Nat /\ m \in Nat /\ \A i \in 1 .. m : p.next + i - 1 \in Nat
  <2>1. p.next \in 1 .. NumChunks + 1
    BY DEF PartForms
  <2>2. NextAfter(p) \in p.next .. NumChunks + 1
    BY NextAfterIs
  <2> QED
    BY <2>1, <2>2, ProxyNumbers
<1>2. Ready(p) \in [1 .. m -> Nat]
  <2>1. Ready(p) = [i \in 1 .. m |-> p.next + i - 1]
    BY DEF Ready
  <2> QED
    BY <1>1, <2>1
<1>3. Ready(p) \in Seq(Nat) /\ Len(Ready(p)) = m
  <2> HIDE DEF m
  <2> QED
    BY <1>1, <1>2
<1>4. \A i \in 1 .. m : Ready(p)[i] = p.next - 1 + i
  BY <1>1 DEF Ready
<1> QED
  BY <1>3, <1>4

\* One download goes to a place, with a response, its ranges, and perhaps cut short.
Turn(d, where, what, p) ==
    /\ place' = [place EXCEPT ![d] = where] /\ sent' = [sent EXCEPT ![d] = what]
    /\ parts' = [parts EXCEPT ![d] = p]
    /\ cutShort' \in {cutShort, cutShort \union {d}}
    /\ where \in Places /\ p \in PartForms
    /\ Fitting(where, what, p, d \in cutShort')

\* A step of one download that leaves it fitting keeps the others.
LEMMA TurnKeeps ==
    ASSUME StreamInv, NEW d \in Downloads, NEW where, NEW what, NEW p, Turn(d, where, what, p)
    PROVE  StreamInv'
<1>1. place' \in [Downloads -> Places] /\ parts' \in [Downloads -> PartForms]
  BY DEF Turn, StreamInv
<1>2. sent' = [e \in Downloads |-> sent'[e]]
  BY DEF Turn, StreamInv
<1>3. Fitting(place'[d], sent'[d], parts'[d], d \in cutShort')
  BY DEF Turn, StreamInv
<1>4. ASSUME NEW e \in Downloads, e # d
      PROVE  Fitting(place'[e], sent'[e], parts'[e], e \in cutShort')
  <2>1. place'[e] = place[e] /\ sent'[e] = sent[e] /\ parts'[e] = parts[e]
    BY <1>4 DEF Turn, StreamInv
  <2>2. (e \in cutShort') = (e \in cutShort)
    BY <1>4 DEF Turn
  <2> QED
    BY <2>1, <2>2 DEF StreamInv, Fitting
<1> QED
  BY <1>1, <1>2, <1>3, <1>4 DEF StreamInv

\* Before the response begins every place but that of the ranges is the same.
LEMMA NothingSent ==
    ASSUME NEW where \in Places \ {"stream", "copy", "done"}, NEW p, NEW cut
    PROVE  Fitting(where, <<>>, p, cut)
  BY DEF Fitting

\* A client that was sent an error fits.
LEMMA ErrorSent == ASSUME NEW p, NEW cut PROVE Fitting("done", <<ErrorItem>>, p, cut)
  BY DEF Fitting

Early == Places \ {"stream", "copy", "done"}

\* A step before the response begins.
LEMMA EarlySteps ==
    ASSUME StreamInv, NEW d \in Downloads, place[d] \in Early, UNCHANGED <<parts, cutShort>>,
           \/ UNCHANGED sent /\ \E where \in Early : To(d, where)
           \/ FailsWith(d)
           \/ To(d, "done") /\ Tells(d, <<ErrorItem>>)
    PROVE  StreamInv'
<1>1. sent[d] = <<>> /\ sent = [sent EXCEPT ![d] = <<>>] /\ parts[d] \in PartForms
      /\ parts = [parts EXCEPT ![d] = parts[d]]
  BY DEF StreamInv, Fitting, Early
<1>2. ASSUME NEW where \in Early, UNCHANGED sent, To(d, where)
      PROVE  StreamInv'
  <2>1. Turn(d, where, <<>>, parts[d])
    BY <1>1, <1>2, NothingSent DEF Turn, To, Early
  <2> QED
    BY <2>1, TurnKeeps
<1>3. ASSUME To(d, "done"), Tells(d, <<ErrorItem>>)
      PROVE  StreamInv'
  <2>1. sent' = [sent EXCEPT ![d] = sent[d] \o <<ErrorItem>>]
    BY <1>3 DEF Tells
  <2>2. sent[d] \o <<ErrorItem>> = <<ErrorItem>>
    BY <1>1, ConcatEmptySeq
  <2>3. Turn(d, "done", <<ErrorItem>>, parts[d])
    BY <1>1, <1>3, <2>1, <2>2, ErrorSent DEF Turn, To, Places
  <2> QED
    BY <2>3, TurnKeeps
<1> QED
  BY <1>2, <1>3 DEF FailsWith

\* The steps before a response keep StreamInv.
LEMMA EarlyActions ==
    ASSUME StreamInv, NEW d \in Downloads,
           \/ Arrives(d) \/ AcquirePlace(d) \/ FindSource(d) \/ AcquireMultipart(d)
           \/ RenewForRanges(d) \/ RenewForSingle(d)
    PROVE  StreamInv'
<1>1. place[d] \in Early /\ UNCHANGED <<parts, cutShort>>
  BY DEF Arrives, AcquirePlace, FindSource, AcquireMultipart, RenewForRanges, RenewForSingle, Early, Places
<1>2. \/ UNCHANGED sent /\ \E where \in {"limit", "source", "multipart", "single", "probe", "again"} : To(d, where)
      \/ FailsWith(d)
      \/ To(d, "done") /\ Tells(d, <<ErrorItem>>)
  BY DEF Arrives, AcquirePlace, FindSource, AcquireMultipart, RenewForRanges, RenewForSingle, Renews
<1>3. {"limit", "source", "multipart", "single", "probe", "again"} \subseteq Early
  BY DEF Early, Places
<1> QED
  BY <1>1, <1>2, <1>3, EarlySteps

\* The probe of the source keeps it.
LEMMA ProbeKeeps ==
    ASSUME StreamInv, NEW d \in Downloads, Probe(d)
    PROVE  StreamInv'
<1>1. /\ place[d] = "probe" /\ sent[d] = <<>> /\ UNCHANGED <<sent, cutShort>>
      /\ sent = [sent EXCEPT ![d] = <<>>]
  BY DEF Probe, StreamInv, Fitting
<1>2. CASE To(d, "stream") /\ parts' = [parts EXCEPT ![d] = Dispatched(d, NoParts)]
  <2> DEFINE p == Dispatched(d, NoParts)
  <2>1. p \in PartForms /\ p.next = 1
    BY NoPartsForm, DispatchedForm
  <2> HIDE DEF p
  <2>2. Fitting("stream", <<>>, p, d \in cutShort')
    BY <2>1, ProxyNumbers DEF Fitting
  <2>3. parts' = [parts EXCEPT ![d] = p]
    BY <1>2 DEF p
  <2>4. Turn(d, "stream", <<>>, p)
    BY <1>1, <1>2, <2>1, <2>2, <2>3 DEF Turn, To, Places
  <2> QED
    BY <2>4, TurnKeeps
<1>3. CASE UNCHANGED parts /\ \E where \in {"renew", "single"} : To(d, where)
  BY <1>1, <1>3, EarlySteps DEF Early, Places
<1> QED
  BY <1>2, <1>3 DEF Probe, MultipartFails

\* So does opening a single stream,
LEMMA OpenKeeps ==
    ASSUME StreamInv, NEW d \in Downloads, OpenSingle(d)
    PROVE  StreamInv'
<1>1. place[d] \in Early /\ sent[d] = <<>> /\ parts[d] \in PartForms /\ UNCHANGED <<parts, cutShort>>
      /\ parts = [parts EXCEPT ![d] = parts[d]]
  BY DEF OpenSingle, StreamInv, Fitting, Early, Places
<1>2. CASE To(d, "copy") /\ Tells(d, <<HeaderItem>>)
  <2>1. sent[d] \o <<HeaderItem>> = Prefix(0)
    BY <1>1, HeaderIsPrefix, ConcatEmptySeq
  <2>2. sent' = [sent EXCEPT ![d] = Prefix(0)]
    BY <1>2, <2>1 DEF Tells
  <2>3. Fitting("copy", Prefix(0), parts[d], d \in cutShort')
    BY ProxyNumbers DEF Fitting
  <2>4. Turn(d, "copy", Prefix(0), parts[d])
    BY <1>1, <1>2, <2>2, <2>3 DEF Turn, To, Places
  <2> QED
    BY <2>4, TurnKeeps
<1>3. CASE \/ UNCHANGED sent /\ To(d, "retry")
           \/ FailsWith(d)
  <2>1. "retry" \in Early
    BY DEF Early, Places
  <2> QED
    BY <1>1, <1>3, <2>1, EarlySteps
<1> QED
  BY <1>2, <1>3 DEF OpenSingle

\* the end of a fetch, in whichever order the parts come,
LEMMA FetchKeeps ==
    ASSUME StreamInv, NEW d \in Downloads, NEW c \in Chunks, FetchEnds(d, c)
    PROVE  StreamInv'
<1>1. PICK ok \in BOOLEAN :
         parts' = [parts EXCEPT ![d] = [parts[d] EXCEPT !.fetching = @ \ {c},
                                                        !.results = Append(@, [chunk |-> c, ok |-> ok])]]
  BY DEF FetchEnds
<1> DEFINE p == [parts[d] EXCEPT !.fetching = @ \ {c}, !.results = Append(@, [chunk |-> c, ok |-> ok])]
<1>2. parts[d] \in PartForms /\ Fitting(place[d], sent[d], parts[d], d \in cutShort) /\ place[d] \in Places
  BY DEF StreamInv
<1>3. Append(parts[d].results, [chunk |-> c, ok |-> ok]) \in Seq([chunk : Chunks, ok : BOOLEAN])
  BY <1>2 DEF PartForms
<1>4. p \in PartForms /\ p.next = parts[d].next
  BY <1>2, <1>3 DEF PartForms
<1>5. parts' = [parts EXCEPT ![d] = p]
  BY <1>1
<1> HIDE DEF p
<1>6. UNCHANGED <<place, sent, cutShort>> /\ place = [place EXCEPT ![d] = place[d]]
      /\ sent = [sent EXCEPT ![d] = sent[d]]
  BY DEF FetchEnds, StreamInv
<1>7. Turn(d, place[d], sent[d], p)
  BY <1>2, <1>4, <1>5, <1>6 DEF Turn, Fitting
<1> QED
  BY <1>7, TurnKeeps

\* copying a single stream,
LEMMA CopyKeeps ==
    ASSUME StreamInv, NEW d \in Downloads, CopySingle(d)
    PROVE  StreamInv'
<1>1. place[d] = "copy" /\ UNCHANGED parts /\ parts[d] \in PartForms
      /\ parts = [parts EXCEPT ![d] = parts[d]]
  BY DEF CopySingle, StreamInv
<1>2. PICK n \in 0 .. NumChunks : sent[d] = Prefix(n)
  BY <1>1 DEF StreamInv, Fitting
<1>3. n \in Nat /\ Len(sent[d]) = n + 1
  BY <1>2, PrefixIs
<1>4. sent = [sent EXCEPT ![d] = Prefix(n)] /\ place = [place EXCEPT ![d] = "copy"]
  BY <1>1, <1>2 DEF StreamInv
<1>5. CASE /\ Len(sent[d]) <= NumChunks /\ Tells(d, <<Len(sent[d])>>) /\ UNCHANGED <<place, cutShort>>
  <2>1. <<n + 1>> \in Seq(Nat) /\ Len(<<n + 1>>) = 1 /\ \A i \in 1 .. 1 : <<n + 1>>[i] = n + i
    BY <1>3
  <2>2. Prefix(n) \o <<n + 1>> = Prefix(n + 1)
    <3> DEFINE more == <<n + 1>>
    <3> HIDE DEF more
    <3>1. more \in Seq(Nat) /\ Len(more) = 1 /\ \A i \in 1 .. 1 : more[i] = n + i
      BY <2>1 DEF more
    <3>2. Prefix(n) \o more = Prefix(n + 1)
      BY <1>3, <3>1, PrefixGrows
    <3> QED
      BY <3>2 DEF more
  <2>3. sent' = [sent EXCEPT ![d] = Prefix(n + 1)]
    BY <1>2, <1>3, <1>5, <2>2 DEF Tells
  <2>4. Fitting("copy", Prefix(n + 1), parts[d], d \in cutShort')
    BY <1>3, <1>5, ProxyNumbers DEF Fitting
  <2>5. Turn(d, "copy", Prefix(n + 1), parts[d])
    BY <1>1, <1>4, <1>5, <2>3, <2>4 DEF Turn, Places
  <2> QED
    BY <2>5, TurnKeeps
<1>6. CASE Len(sent[d]) > NumChunks /\ Serves(d) /\ UNCHANGED <<sent, cutShort>>
  <2>1. n = NumChunks
    BY <1>3, <1>6, ProxyNumbers
  <2>2. Fitting("done", Prefix(n), parts[d], d \in cutShort')
    BY <2>1, ProxyNumbers DEF Fitting
  <2>3. Turn(d, "done", Prefix(n), parts[d])
    BY <1>1, <1>4, <1>6, <2>2 DEF Turn, Places, Serves, To
  <2> QED
    BY <2>3, TurnKeeps
<1>7. CASE Cut(d)
  <2>1. cutShort' = cutShort \union {d} /\ UNCHANGED sent /\ To(d, "done")
    BY <1>7 DEF Cut, Serves
  <2>2. Fitting("done", Prefix(n), parts[d], d \in cutShort')
    BY <1>2, <2>1 DEF Fitting
  <2>3. Turn(d, "done", Prefix(n), parts[d])
    BY <1>1, <1>4, <2>1, <2>2 DEF Turn, Places, To
  <2> QED
    BY <2>3, TurnKeeps
<1> QED
  BY <1>5, <1>6, <1>7 DEF CopySingle

\* The ranges with the chunk that the loop received.
LEMMA ReceivedForm ==
    ASSUME NEW p \in PartForms, p.results # <<>>
    PROVE  /\ Head(p.results).chunk \in Chunks
           /\ [p EXCEPT !.results = Tail(@), !.pending = @ \union {Head(p.results).chunk}] \in PartForms
           /\ [p EXCEPT !.results = Tail(@), !.pending = @ \union {Head(p.results).chunk}].next = p.next
<1>1. /\ Head(p.results) \in [chunk : Chunks, ok : BOOLEAN]
      /\ Tail(p.results) \in Seq([chunk : Chunks, ok : BOOLEAN])
  BY HeadTailProperties DEF PartForms
<1> QED
  BY <1>1 DEF PartForms

\* What is written after a range was received: chunks that follow those sent.
LEMMA ChunksFollow ==
    ASSUME NEW n \in 1 .. NumChunks, NEW s, s = IF n = 1 THEN <<>> ELSE Prefix(n - 1),
           NEW more \in Seq(Nat), \A i \in 1 .. Len(more) : more[i] = n - 1 + i
    PROVE  s \o ((IF s # <<>> THEN <<>> ELSE <<HeaderItem>>) \o more) = Prefix(n - 1 + Len(more))
<1>1. Len(more) \in Nat /\ <<HeaderItem>> \in Seq(Nat) /\ <<>> \in Seq(Nat)
  BY DEF HeaderItem
<1>2. CASE n = 1
  <2>1. s = <<>> /\ n - 1 = 0
    BY <1>2
  <2>2. \A i \in 1 .. Len(more) : more[i] = 0 + i
    BY <1>2
  <2>3. Prefix(0) \o more = Prefix(0 + Len(more))
    BY <2>2, PrefixGrows
  <2>4. <<HeaderItem>> \o more \in Seq(Nat)
    BY <1>1, ConcatProperties
  <2>5. <<>> \o (<<HeaderItem>> \o more) = <<HeaderItem>> \o more
    BY <2>4, ConcatEmptySeq
  <2> QED
    BY <2>1, <2>3, <2>5, HeaderIsPrefix
<1>3. CASE n # 1
  <2>1. n - 1 \in Nat /\ s = Prefix(n - 1) /\ s # <<>>
    BY <1>3, PrefixIs, ProxyNumbers
  <2>2. Prefix(n - 1) \o more = Prefix(n - 1 + Len(more))
    BY <2>1, PrefixGrows
  <2>3. <<>> \o more = more
    BY <1>1, ConcatEmptySeq
  <2> QED
    BY <2>1, <2>2, <2>3
<1> QED
  BY <1>2, <1>3

\* what the client receives,
LEMMA ReceiveKeeps ==
    ASSUME StreamInv, NEW d \in Downloads, Receive(d)
    PROVE  StreamInv'
<1> DEFINE p == [parts[d] EXCEPT !.results = Tail(@), !.pending = @ \union {Head(parts[d].results).chunk}]
           first == parts[d].next
<1>1. /\ place[d] = "stream" /\ parts[d].results # <<>> /\ parts[d] \in PartForms
      /\ sent = [sent EXCEPT ![d] = sent[d]] /\ place = [place EXCEPT ![d] = "stream"]
  BY DEF Receive, StreamInv
<1>2. /\ first \in 1 .. NumChunks
      /\ sent[d] = IF first = 1 THEN <<>> ELSE Prefix(first - 1)
  BY <1>1, ProxyNumbers DEF StreamInv, Fitting, PartForms
<1>3. p \in PartForms /\ p.next = first
  BY <1>1, ReceivedForm
<1>4. \/ RangeFailed(d) /\ parts' = [parts EXCEPT ![d] = NoParts]
      \/ /\ Tells(d, IF Ready(p) = <<>> THEN <<>> ELSE HeaderFor(d) \o Ready(p))
         /\ IF Written(p).next > NumChunks
            THEN Serves(d) /\ parts' = [parts EXCEPT ![d] = NoParts]
            ELSE parts' = [parts EXCEPT ![d] = Dispatched(d, Written(p))] /\ UNCHANGED <<place, failures>>
         /\ UNCHANGED cutShort
      \/ /\ Ready(p) # <<>>
         /\ \E n \in 0 .. Len(Ready(p)) - 1 : Tells(d, HeaderFor(d) \o SubSeq(Ready(p), 1, n))
         /\ Serves(d) /\ cutShort' = cutShort \union {d}
         /\ parts' = [parts EXCEPT ![d] = NoParts]
  BY Zenon DEF Receive
<1> HIDE DEF p
<1>5. /\ Ready(p) \in Seq(Nat) /\ Len(Ready(p)) = NextAfter(p) - first
      /\ \A i \in 1 .. Len(Ready(p)) : Ready(p)[i] = first - 1 + i
      /\ NextAfter(p) \in first .. NumChunks + 1
  BY <1>3, ReadyFollows, NextAfterIs
<1>6. Written(p) \in PartForms /\ Written(p).next = NextAfter(p)
  BY <1>3, WrittenForm
<1> DEFINE q == Written(p)
           r == Ready(p)
           n == NextAfter(p)
<1> HIDE DEF q, r, n, first
<1>7. CASE RangeFailed(d) /\ parts' = [parts EXCEPT ![d] = NoParts]
  <2>1. CASE sent[d] # <<>>
    <3>1. UNCHANGED sent /\ To(d, "done") /\ cutShort' = cutShort \union {d}
      BY <1>7, <2>1 DEF RangeFailed, Begun, Serves
    <3>2. first - 1 \in 0 .. NumChunks /\ sent[d] = Prefix(first - 1)
      BY <1>2, <2>1, ProxyNumbers
    <3>3. Fitting("done", sent[d], NoParts, d \in cutShort')
      BY <3>1, <3>2 DEF Fitting
    <3>4. Turn(d, "done", sent[d], NoParts)
      BY <1>1, <1>7, <3>1, <3>3, NoPartsForm DEF Turn, To, Places
    <3> QED
      BY <3>4, TurnKeeps
  <2>2. CASE sent[d] = <<>>
    <3>1. PICK where \in {"renew", "single"} : To(d, where)
      BY <1>7, <2>2 DEF RangeFailed, Begun, MultipartFails
    <3>2. UNCHANGED <<sent, cutShort>>
      BY <1>7, <2>2 DEF RangeFailed, Begun
    <3>3. where \in Places \ {"stream", "copy", "done"}
      BY DEF Places
    <3>4. Fitting(where, <<>>, NoParts, d \in cutShort')
      BY <3>3, NothingSent
    <3>5. Turn(d, where, <<>>, NoParts)
      BY <1>1, <1>7, <2>2, <3>1, <3>2, <3>3, <3>4, NoPartsForm DEF Turn, To
    <3> QED
      BY <3>5, TurnKeeps
  <2> QED
    BY <2>1, <2>2
<1>8. CASE /\ Tells(d, IF r = <<>> THEN <<>> ELSE HeaderFor(d) \o r)
           /\ IF q.next > NumChunks
              THEN Serves(d) /\ parts' = [parts EXCEPT ![d] = NoParts]
              ELSE parts' = [parts EXCEPT ![d] = Dispatched(d, q)] /\ UNCHANGED <<place, failures>>
           /\ UNCHANGED cutShort
  <2> DEFINE now == sent[d] \o (IF r = <<>> THEN <<>> ELSE HeaderFor(d) \o r)
  <2>1. sent' = [sent EXCEPT ![d] = now]
    BY <1>8 DEF Tells
  <2>2. q \in PartForms /\ q.next = n /\ n \in first .. NumChunks + 1
    BY <1>5, <1>6 DEF q, n
  <2>3. now = IF n = 1 THEN <<>> ELSE Prefix(n - 1)
    <3>1. CASE r = <<>>
      <4>1. n = first
        BY <1>2, <1>5, <3>1, EmptySeq DEF r, n
      <4>2. sent[d] \in Seq(Nat)
        BY <1>2, PrefixIs, EmptySeq, ProxyNumbers
      <4> QED
        BY <1>2, <3>1, <4>1, <4>2, ConcatEmptySeq
    <3>2. CASE r # <<>>
      <4>1. Len(r) \in Nat \ {0} /\ Len(r) = n - first /\ n # 1 /\ first - 1 + Len(r) = n - 1
        BY <1>2, <1>5, <2>2, <3>2, EmptySeq, ProxyNumbers DEF r, n
      <4>2. r \in Seq(Nat) /\ \A i \in 1 .. Len(r) : r[i] = first - 1 + i
        BY <1>5 DEF r
      <4>3. now = sent[d] \o ((IF sent[d] # <<>> THEN <<>> ELSE <<HeaderItem>>) \o r)
        BY <3>2 DEF HeaderFor, Begun
      <4>4. now = Prefix(first - 1 + Len(r))
        BY <1>2, <4>2, <4>3, ChunksFollow
      <4> QED
        BY <4>1, <4>4
    <3> QED
      BY <3>1, <3>2
  <2> HIDE DEF now
  <2>4. CASE q.next > NumChunks
    <3>1. n = NumChunks + 1 /\ now = Prefix(NumChunks)
      BY <1>2, <2>2, <2>3, <2>4, ProxyNumbers
    <3>2. Fitting("done", now, NoParts, d \in cutShort')
      BY <3>1, ProxyNumbers DEF Fitting
    <3>3. Turn(d, "done", now, NoParts)
      BY <1>1, <1>8, <2>1, <2>4, <3>2, NoPartsForm DEF Turn, To, Places, Serves
    <3> QED
      BY <3>3, TurnKeeps
  <2>5. CASE ~ (q.next > NumChunks)
    <3>1. Dispatched(d, q) \in PartForms /\ Dispatched(d, q).next = n /\ n <= NumChunks
      BY <1>2, <2>2, <2>5, DispatchedForm, ProxyNumbers
    <3>2. Fitting("stream", now, Dispatched(d, q), d \in cutShort')
      BY <2>3, <3>1 DEF Fitting
    <3>3. Turn(d, "stream", now, Dispatched(d, q))
      BY <1>1, <1>8, <2>1, <2>5, <3>1, <3>2 DEF Turn, Places
    <3> QED
      BY <3>3, TurnKeeps
  <2> QED
    BY <2>4, <2>5
<1>9. CASE /\ r # <<>>
           /\ \E m \in 0 .. Len(r) - 1 : Tells(d, HeaderFor(d) \o SubSeq(r, 1, m))
           /\ Serves(d) /\ cutShort' = cutShort \union {d}
           /\ parts' = [parts EXCEPT ![d] = NoParts]
  <2>1. PICK m \in 0 .. Len(r) - 1 : Tells(d, HeaderFor(d) \o SubSeq(r, 1, m))
    BY <1>9
  <2> DEFINE more == SubSeq(r, 1, m)
             now == sent[d] \o (HeaderFor(d) \o more)
  <2>2. Len(r) \in Nat /\ r \in Seq(Nat) /\ Len(r) = n - first /\ n \in first .. NumChunks + 1
        /\ \A i \in 1 .. Len(r) : r[i] = first - 1 + i
    BY <1>2, <1>5, ProxyNumbers DEF r, n
  <2>3. m \in 0 .. Len(r) /\ m \in Nat
    BY <2>2
  <2>4. more \in Seq(Nat) /\ Len(more) = m /\ \A i \in 1 .. m : more[i] = first - 1 + i
    <3>1. \A i \in 1 .. m : r[i] \in Nat
      BY <2>2, <2>3
    <3>2. more \in Seq(Nat) /\ Len(more) = IF 1 <= m THEN m - 1 + 1 ELSE 0
      BY <2>3, <3>1, SubSeqProperties
    <3>3. \A i \in 1 .. m - 1 + 1 : more[i] = r[1 + i - 1]
      BY <2>3, <3>1, SubSeqProperties
    <3> HIDE DEF more
    <3> QED
      BY <2>2, <2>3, <3>2, <3>3
  <2> HIDE DEF more
  <2>5. now = sent[d] \o ((IF sent[d] # <<>> THEN <<>> ELSE <<HeaderItem>>) \o more)
    BY DEF HeaderFor, Begun
  <2>6. now = Prefix(first - 1 + Len(more))
    BY <1>2, <2>4, <2>5, ChunksFollow
  <2>7. first - 1 + Len(more) \in 0 .. NumChunks
    BY <1>2, <2>2, <2>3, <2>4, ProxyNumbers
  <2>8. sent' = [sent EXCEPT ![d] = now]
    BY <2>1 DEF Tells, more
  <2> HIDE DEF now
  <2>9. Fitting("done", now, NoParts, d \in cutShort')
    BY <1>9, <2>6, <2>7 DEF Fitting
  <2>10. Turn(d, "done", now, NoParts)
    BY <1>1, <1>9, <2>8, <2>9, NoPartsForm DEF Turn, To, Places, Serves
  <2> QED
    BY <2>10, TurnKeeps
<1> QED
  BY <1>4, <1>7, <1>8, <1>9 DEF q, r

\* and a client that goes away.
LEMMA AbandonKeeps ==
    ASSUME StreamInv, NEW d \in Downloads, Abandon(d)
    PROVE  StreamInv'
<1>1. /\ To(d, "done") /\ cutShort' = cutShort \union {d} /\ parts' = [parts EXCEPT ![d] = NoParts]
      /\ sent' = [sent EXCEPT ![d] = sent[d]] /\ parts[d] \in PartForms
      /\ place[d] = "stream"
  BY DEF Abandon, Serves, StreamInv
<1>2. sent[d] = <<>> \/ \E n \in 0 .. NumChunks : sent[d] = Prefix(n)
  <2>1. parts[d].next - 1 \in 0 .. NumChunks
    BY <1>1, ProxyNumbers DEF PartForms
  <2> QED
    BY <1>1, <2>1 DEF StreamInv, Fitting
<1>3. Fitting("done", sent[d], NoParts, d \in cutShort')
  BY <1>1, <1>2 DEF Fitting
<1>4. Turn(d, "done", sent[d], NoParts)
  BY <1>1, <1>3, NoPartsForm DEF Turn, To, Places
<1> QED
  BY <1>4, TurnKeeps

\* So every step keeps it.
LEMMA StreamStep ==
    ASSUME StreamInv, [ProxyNext]_proxyVars
    PROVE  StreamInv'
<1>1. CASE UNCHANGED <<place, sent, cutShort, parts>>
  BY <1>1 DEF StreamInv, Fitting
<1>2. ASSUME NEW t \in ProxyTokens, FailureLapses(t)
      PROVE  UNCHANGED <<place, sent, cutShort, parts>>
  BY <1>2 DEF FailureLapses
<1>3. ASSUME NEW d \in Downloads, ClientLeaves(d)
      PROVE  UNCHANGED <<place, sent, cutShort, parts>>
  BY <1>3 DEF ClientLeaves
<1>4. CASE UNCHANGED proxyVars
  BY <1>1, <1>4 DEF proxyVars
<1> QED
  BY <1>1, <1>2, <1>3, <1>4, EarlyActions, ProbeKeeps, OpenKeeps, FetchKeeps, CopyKeeps, ReceiveKeeps,
     AbandonKeeps DEF ProxyNext

\* What else the type says: of tokens, failures and downloads.
RestTyped ==
    /\ proxyToken \in [Downloads -> ProxyTokens] /\ failures \subseteq ProxyTokens
    /\ refreshed \subseteq Downloads /\ gone \subseteq Downloads /\ cutShort \subseteq Downloads

\* Every step keeps the types.
LEMMA RestStep ==
    ASSUME RestTyped, [ProxyNext]_proxyVars
    PROVE  RestTyped'
<1> USE DEF RestTyped
<1>1. ASSUME NEW d \in Downloads, FailsWith(d) \/ Serves(d)
      PROVE  failures' \subseteq ProxyTokens
  BY <1>1 DEF FailsWith, Serves
<1>2. ASSUME NEW d \in Downloads, NEW to, Renews(d, to)
      PROVE  refreshed' \subseteq Downloads
  BY <1>2 DEF Renews
<1>3. ASSUME NEW d \in Downloads,
             Arrives(d) \/ AcquirePlace(d) \/ FindSource(d) \/ ClientLeaves(d) \/ AcquireMultipart(d)
      PROVE  RestTyped'
  BY <1>1, <1>2, <1>3 DEF Arrives, AcquirePlace, FindSource, ClientLeaves, AcquireMultipart
<1>4. ASSUME NEW d \in Downloads, Probe(d) \/ Abandon(d) \/ RenewForRanges(d) \/ \E c \in Chunks : FetchEnds(d, c)
      PROVE  RestTyped'
  BY <1>1, <1>2, <1>4 DEF Probe, Abandon, RenewForRanges, FetchEnds
<1>5. ASSUME NEW d \in Downloads, Receive(d)
      PROVE  RestTyped'
  <2>1. UNCHANGED <<proxyToken, refreshed, gone>> /\ cutShort' \in {cutShort, cutShort \union {d}}
    BY <1>5 DEF Receive, RangeFailed
  <2>2. UNCHANGED failures \/ Serves(d)
    BY <1>5 DEF Receive, RangeFailed
  <2> QED
    BY <1>1, <2>1, <2>2
<1>6. ASSUME NEW d \in Downloads, OpenSingle(d) \/ RenewForSingle(d) \/ CopySingle(d)
      PROVE  RestTyped'
  BY <1>1, <1>2, <1>6 DEF OpenSingle, RenewForSingle, CopySingle, Cut
<1> QED
  BY <1>3, <1>4, <1>5, <1>6 DEF ProxyNext, FailureLapses, proxyVars

\* A client is given one response, an error or a header and chunks of the file in
\* their order, and all of them unless it was cut short, for any downloads, chunks,
\* window, ranges at once and limits (handleProxy, serveProxyMultipart,
\* serveProxySingleStream).  What carries it: while ranges are served, what was
\* written is the header and the chunks before `next'.
THEOREM ClientsGetTheFile == ProxySpec => [](ProxyTypeOK /\ ClientGetsTheFile)
<1>1. ProxyInit => StreamInv /\ RestTyped
  <2> SUFFICES ASSUME ProxyInit
               PROVE  StreamInv /\ RestTyped
    OBVIOUS
  <2>1. \A d \in Downloads : Fitting(place[d], sent[d], parts[d], d \in cutShort)
    BY DEF ProxyInit, Fitting
  <2>2. (CHOOSE t \in ProxyTokens : TRUE) \in ProxyTokens
    BY ProxyAssumption
  <2> QED
    BY <2>1, <2>2, NoPartsForm DEF ProxyInit, StreamInv, RestTyped, Places
<1>2. StreamInv /\ RestTyped /\ [ProxyNext]_proxyVars => StreamInv' /\ RestTyped'
  BY StreamStep, RestStep
<1>3. StreamInv /\ RestTyped => ProxyTypeOK /\ ClientGetsTheFile
  <2> SUFFICES ASSUME StreamInv, RestTyped
               PROVE  ProxyTypeOK /\ ClientGetsTheFile
    OBVIOUS
  <2>1. ASSUME NEW n \in 0 .. NumChunks
        PROVE  /\ Prefix(n) = <<HeaderItem>> \o [i \in 1 .. n |-> i]
               /\ Len(Prefix(n)) = n + 1
               /\ Prefix(n) \in Seq(Chunks \union {HeaderItem, ErrorItem})
    <3>1. n \in Nat
      BY ProxyNumbers
    <3> DEFINE more == [i \in 1 .. n |-> i]
    <3>2. more \in Seq(Nat) /\ Len(more) = n /\ \A i \in 1 .. Len(more) : more[i] = 0 + i
      BY <3>1
    <3> HIDE DEF more
    <3>3. Prefix(0) \o more = Prefix(0 + Len(more))
      BY <3>2, PrefixGrows
    <3>4. Prefix(n) = <<HeaderItem>> \o more
      <4>1. 0 + Len(more) = n
        BY <3>1, <3>2
      <4> QED
        BY <3>3, <4>1, HeaderIsPrefix
    <3>5. Prefix(n) \in [1 .. n + 1 -> Chunks \union {HeaderItem, ErrorItem}]
      BY <3>1, ProxyNumbers DEF Prefix, Chunks, HeaderItem
    <3>6. Len(Prefix(n)) = n + 1
      BY <3>1, PrefixIs
    <3>7. Prefix(n) \in Seq(Chunks \union {HeaderItem, ErrorItem})
      <4>1. n + 1 \in Nat
        BY <3>1
      <4> QED
        BY <3>5, <4>1
    <3> QED
      BY <3>4, <3>6, <3>7 DEF more
  <2>2. <<>> \in Seq(Chunks \union {HeaderItem, ErrorItem})
        /\ <<ErrorItem>> \in Seq(Chunks \union {HeaderItem, ErrorItem})
    OBVIOUS
  <2>3. ASSUME NEW d \in Downloads
        PROVE  \/ sent[d] = <<>> /\ (place[d] = "done" => d \in cutShort)
               \/ sent[d] = <<ErrorItem>>
               \/ \E n \in 0 .. NumChunks : /\ sent[d] = Prefix(n)
                                            /\ place[d] = "done" => d \in cutShort \/ n = NumChunks
    <3>1. place[d] \in Places /\ parts[d] \in PartForms /\ Fitting(place[d], sent[d], parts[d], d \in cutShort)
      BY DEF StreamInv
    <3>2. place[d] = "stream" => parts[d].next = 1 \/ parts[d].next - 1 \in 0 .. NumChunks
      BY <3>1, ProxyNumbers DEF PartForms
    <3> QED
      BY <3>1, <3>2 DEF Fitting
  <2>4. \A d \in Downloads : sent[d] \in Seq(Chunks \union {HeaderItem, ErrorItem})
    BY <2>1, <2>2, <2>3
  <2>5. ProxyTypeOK
    BY <2>4 DEF StreamInv, RestTyped, ProxyTypeOK, PartForms, Places
  <2>6. ClientGetsTheFile
    <3> SUFFICES ASSUME NEW d \in Downloads
                 PROVE  /\ \/ sent[d] \in {<<>>, <<ErrorItem>>}
                           \/ \E n \in 0 .. NumChunks : sent[d] = <<HeaderItem>> \o [i \in 1 .. n |-> i]
                        /\ place[d] = "done" /\ d \notin cutShort =>
                              sent[d] = <<ErrorItem>> \/ Len(sent[d]) = NumChunks + 1
      BY DEF ClientGetsTheFile
    <3> QED
      BY <2>1, <2>3
  <2> QED
    BY <2>5, <2>6
<1> QED
  BY <1>1, <1>2, <1>3, PTL DEF ProxySpec

-----------------------------------------------------------------------------
(* TempCleanup.                                                            *)

\* The places of an attempt that has created its files and not deleted them, and
\* all those of an attempt on an account.
WithFile == {"record", "ready", "found", "selecting", "selected", "finalize", "resumed"}
OnAccount == WithFile \union {"create", "undo", "cleanup", "reconcile", "detach"}

JobsTyped ==
    /\ pooled \subseteq Pikpaks
    /\ at \in [Jobs -> UnderWay \union Over]
    /\ on \in [Jobs -> Pikpaks \union {NoPikpak}]
    /\ left \in [Jobs -> SUBSET Pikpaks]
    /\ tempAccount \in [Jobs -> Pikpaks \union {NoPikpak}]
    /\ tempIDs \in [Jobs -> SUBSET Files]
    /\ shares \subseteq Jobs /\ selectedIDs \subseteq shares
    /\ links \in [Jobs -> {"none", "valid", "expired"}]
    /\ \A j \in Jobs :
          /\ at[j] \in OnAccount => on[j] \in Pikpaks \ left[j]
          /\ at[j] = "choosing" => j \in shares \ selectedIDs
          /\ links[j] # "none" => at[j] \in {"completed", "uncertain"} /\ on[j] \in Pikpaks

LedgerTyped ==
    /\ files \subseteq Files /\ tracked \subseteq Files
    /\ ledger \in [Rows -> [ids : SUBSET Files, deadline : {"none", "creation", "completion", "failure"}]]
    /\ dueRows \in Seq(Rows)
    /\ batch \in Seq([row : Rows, ids : SUBSET Files])

\* A link expires, is renewed, or expires again.
LinkMoves(j) == LinksExpire(j) \/ RenewLinks(j) \/ RenewalExpires(j)

\* What is recorded anywhere is a file of the row or the job that it is recorded
\* for, and was in the ledger.
RecordsFit ==
    /\ \A r \in Rows : \A f \in ledger[r].ids : f[1] = r /\ f \in tracked
    /\ \A i \in 1 .. Len(batch) : \A f \in batch[i].ids : f[1] = batch[i].row /\ f \in tracked
    /\ \A j \in Jobs : \A f \in tempIDs[j] : f[1] = <<j, tempAccount[j]>> /\ f \in tracked

\* The accounts on which a job may still create the files of its present choice.
Untried(j) ==
    {a \in Pikpaks : \/ at[j] = "queued"
                     \/ at[j] \in UnderWay \ {"choosing"} /\ a \in left[j]
                     \/ at[j] = "create" /\ a = on[j]}

\* What a job may still create was never in the ledger.
Fresh ==
    \A f \in tracked :
        LET j == f[1][1] IN
          /\ f[1][2] \in Untried(j) => IF j \in selectedIDs THEN f[2] # "chosen" ELSE f[2] \notin {"folder", "item"}
          /\ j \notin selectedIDs => f[2] # "chosen"
          /\ f[2] = "folder" => j \notin shares

\* What was deleted, and is to leave the records next, is gone.
DeletedIsGone ==
    /\ \A j \in Jobs : at[j] = "reconcile" => files = Without(Own(j))
    /\ emptied => batch # <<>> /\ files = Without(Head(batch).ids)

ForgetInv == JobsTyped /\ LedgerTyped /\ RecordsFit /\ Fresh /\ DeletedIsGone /\ NothingForgotten

InCleaner(r) == r \in Range(dueRows) \/ \E i \in 1 .. Len(batch) : batch[i].row = r

\* The cleaner has none of the rows of a job that is under way, nor the row of its
\* links, and the files are there, unless the job was late.
OutliveInv ==
    \A j \in Jobs \ late :
        /\ at[j] \in UnderWay => \A a \in Pikpaks : ~ InCleaner(<<j, a>>)
        /\ at[j] \in WithFile => Item(j) \in files
        /\ links[j] = "valid" =>
              /\ Item(j) \in files /\ ~ InCleaner(RowOf(j))
              /\ ledger[RowOf(j)].deadline = "completion"

\* The files that an attempt may create are those of its row.
LEMMA FilesOfAttempt ==
    ASSUME JobsTyped, NEW j \in Jobs, on[j] \in Pikpaks
    PROVE  /\ RowOf(j) \in Rows /\ RowOf(j) = <<j, on[j]>>
           /\ Item(j) \in Files /\ Item(j)[1] = RowOf(j)
           /\ Item(j)[2] = IF j \in selectedIDs THEN "chosen" ELSE "item"
           /\ Folder(j) \in Files /\ Folder(j)[1] = RowOf(j) /\ Folder(j)[2] = "folder"
           /\ Created(j) \in {Item(j), Folder(j)}
           /\ Created(j) = Folder(j) => j \notin shares
           /\ Created(j) \in Files /\ Created(j)[1] = RowOf(j)
  BY DEF RowOf, Rows, Item, Folder, Created, Files, Kinds

\* Every step keeps the types of the jobs.
LEMMA JobsTypedStep ==
    ASSUME JobsTyped, [FilesNext]_fileVars
    PROVE  JobsTyped'
<1> USE CleanupAssumption DEF JobsTyped, GoesTo, Steps, Elsewhere, OnAccount, WithFile, UnderWay, Over
<1>1. ASSUME NEW j \in Jobs, Begin(j)
      PROVE  JobsTyped'
  BY <1>1 DEF Begin
<1>2. ASSUME NEW j \in Jobs, NextAttempt(j)
      PROVE  JobsTyped'
  BY <1>2 DEF NextAttempt
<1>3. ASSUME NEW j \in Jobs, Refused(j)
      PROVE  JobsTyped'
  BY <1>3 DEF Refused
<1>4. ASSUME NEW j \in Jobs, CreateFolder(j) \/ FilesFound(j) \/ FinishWithItems(j)
      PROVE  JobsTyped'
  BY <1>4 DEF CreateFolder, FilesFound, FinishWithItems, OnlyFiles
<1>5. ASSUME NEW j \in Jobs, RestoreShare(j)
      PROVE  JobsTyped'
  BY <1>5 DEF RestoreShare, OnlyFiles
<1>6. ASSUME NEW j \in Jobs, SourceSelection(j)
      PROVE  JobsTyped'
  BY <1>6 DEF SourceSelection
<1>7. ASSUME NEW j \in Jobs, RecordTemp(j)
      PROVE  JobsTyped'
  <2>1. at[j] = "record" /\ on[j] \in Pikpaks
    BY <1>7 DEF RecordTemp
  <2>2. Created(j) \in Files
    BY <2>1, FilesOfAttempt
  <2> QED
    BY <1>7, <2>1, <2>2 DEF RecordTemp
<1>8. ASSUME NEW j \in Jobs, UndoCreate(j) \/ Selection(j) \/ Resume(j)
      PROVE  JobsTyped'
  BY <1>8 DEF UndoCreate, Selection, Resume
<1>9. ASSUME NEW j \in Jobs, Finalize(j)
      PROVE  JobsTyped'
  BY <1>9 DEF Finalize, CompletionWrites, AfterUncertainty
<1>10. ASSUME NEW j \in Jobs, Cleanup(j)
      PROVE  JobsTyped'
  BY <1>10 DEF Cleanup
<1>11. ASSUME NEW j \in Jobs, Reconcile(j) \/ Detach(j)
      PROVE  JobsTyped'
  BY <1>11 DEF Reconcile, Detach, Detached
<1>12. ASSUME NEW j \in Jobs, LinkMoves(j)
      PROVE  JobsTyped'
  BY <1>12 DEF LinkMoves, LinksExpire, RenewLinks, RenewalExpires, OnlyRenewed, jobVars
<1>13. ASSUME NEW r \in Rows, DeadlinePasses(r)
      PROVE  JobsTyped'
  BY <1>13 DEF DeadlinePasses, jobVars
<1>14. CASE ReadDue \/ CleanDelete \/ CleanFails \/ CleanRemove
  BY <1>14 DEF ReadDue, CleanDelete, CleanFails, CleanRemove, NotTheCleaner, jobVars
<1>15. ASSUME NEW a \in Pikpaks, DeleteAccount(a)
      PROVE  JobsTyped'
  BY <1>15 DEF DeleteAccount, jobVars
<1>16. CASE KillAndStart
  BY <1>16 DEF KillAndStart
<1>17. CASE UNCHANGED fileVars
  BY <1>17 DEF fileVars, jobVars
<1> QED
  BY <1>1, <1>2, <1>3, <1>4, <1>5, <1>6, <1>7, <1>8, <1>9, <1>10, <1>11, <1>12, <1>13, <1>14, <1>15,
     <1>16, <1>17 DEF FilesNext, LinkMoves, JobStep

-----------------------------------------------------------------------------
(* The ledger and the cleaner.                                             *)

\* Taking a row off the queue leaves rows of the queue.
LEMMA NotDueFewer ==
    ASSUME dueRows \in Seq(Rows), NEW r
    PROVE  NotDue(r) \in Seq(Rows) /\ Range(NotDue(r)) \subseteq Range(dueRows)
<1>1. CASE r \in Range(dueRows)
  <2>1. PICK i \in 1 .. Len(dueRows) : i = CHOOSE n \in 1 .. Len(dueRows) : dueRows[n] = r
    BY <1>1 DEF Range
  <2>2. NotDue(r) = RemoveAt(dueRows, i)
    BY <1>1, <2>1 DEF NotDue
  <2> QED
    BY <2>2, RemovedAt
<1>2. CASE r \notin Range(dueRows)
  BY <1>2 DEF NotDue
<1> QED
  BY <1>1, <1>2

\* What recordTx leaves.
LEMMA RecordTxLeaves ==
    ASSUME LedgerTyped, NEW r \in Rows, NEW ids \in SUBSET Files,
           NEW deadline \in {"creation", "completion"}, RecordTx(r, ids, deadline)
    PROVE  /\ ledger' \in [Rows -> [ids : SUBSET Files, deadline : {"none", "creation", "completion", "failure"}]]
           /\ ledger'[r].ids = ledger[r].ids \union ids /\ ledger'[r].deadline = deadline
           /\ \A q \in Rows \ {r} : ledger'[q] = ledger[q]
           /\ dueRows' \in Seq(Rows) /\ Range(dueRows') \subseteq Range(dueRows)
           /\ tracked' = tracked \union ids
<1>1. /\ ledger' = [ledger EXCEPT ![r] = [ids |-> @.ids \union ids, deadline |-> deadline]]
      /\ dueRows' = NotDue(r) /\ tracked' = tracked \union ids
  BY DEF RecordTx
<1> QED
  BY <1>1, NotDueFewer DEF LedgerTyped

\* What removeRecordIDsTx leaves.
LEMMA RemoveIDsLeaves ==
    ASSUME LedgerTyped, NEW r \in Rows, NEW ids \in SUBSET Files, RemoveIDsTx(r, ids)
    PROVE  /\ ledger' \in [Rows -> [ids : SUBSET Files, deadline : {"none", "creation", "completion", "failure"}]]
           /\ ledger'[r].ids = ledger[r].ids \ ids
           /\ \A q \in Rows \ {r} : ledger'[q] = ledger[q]
           /\ dueRows' \in Seq(Rows) /\ Range(dueRows') \subseteq Range(dueRows)
<1> DEFINE rest == ledger[r].ids \ ids
           row == IF rest = {} THEN NoRow ELSE [ledger[r] EXCEPT !.ids = rest]
<1>1. ledger' = [ledger EXCEPT ![r] = row] /\ dueRows' \in {dueRows, NotDue(r)}
  BY DEF RemoveIDsTx
<1>2. row \in [ids : SUBSET Files, deadline : {"none", "creation", "completion", "failure"}] /\ row.ids = rest
  BY DEF LedgerTyped, NoRow
<1> HIDE DEF row
<1> QED
  BY <1>1, <1>2, NotDueFewer DEF LedgerTyped

\* Postponing a row changes nothing but its deadline.
LEMMA PostponeLeaves ==
    ASSUME LedgerTyped, NEW r \in Rows, Postpone(r)
    PROVE  /\ ledger' \in [Rows -> [ids : SUBSET Files, deadline : {"none", "creation", "completion", "failure"}]]
           /\ \A q \in Rows : ledger'[q].ids = ledger[q].ids
           /\ \A q \in Rows \ {r} : ledger'[q] = ledger[q]
           /\ dueRows' \in Seq(Rows) /\ Range(dueRows') \subseteq Range(dueRows)
<1>1. ledger' = ledger \/ ledger' = [ledger EXCEPT ![r] = [ledger[r] EXCEPT !.deadline = "failure"]]
  BY DEF Postpone
<1>2. ledger[r] \in [ids : SUBSET Files, deadline : {"none", "creation", "completion", "failure"}]
  BY DEF LedgerTyped
<1> DEFINE row == [ledger[r] EXCEPT !.deadline = "failure"]
<1>3. row \in [ids : SUBSET Files, deadline : {"none", "creation", "completion", "failure"}]
      /\ row.ids = ledger[r].ids
  BY <1>2
<1> HIDE DEF row
<1>4. ledger' = ledger \/ ledger' = [ledger EXCEPT ![r] = row]
  BY <1>1 DEF row
<1>5. dueRows' = NotDue(r)
  BY DEF Postpone
<1> QED
  BY <1>3, <1>4, <1>5, NotDueFewer DEF LedgerTyped

\* The batch that the cleaner reads.
LEMMA ReadDueReads ==
    ASSUME LedgerTyped, ReadDue
    PROVE  /\ batch' \in Seq([row : Rows, ids : SUBSET Files]) /\ batch' # <<>> /\ batch = <<>>
           /\ \A i \in 1 .. Len(batch') : /\ batch'[i].row \in Range(dueRows)
                                          /\ batch'[i].ids = ledger[batch'[i].row].ids
<1> DEFINE n == Min({BatchLimit, Len(dueRows)})
           entry(i) == [row |-> dueRows[i], ids |-> ledger[dueRows[i]].ids]
<1>1. /\ batch' = [i \in 1 .. n |-> entry(i)] /\ batch = <<>> /\ dueRows # <<>>
      /\ dueRows \in Seq(Rows) /\ BatchLimit \in Nat \ {0}
  BY CleanupAssumption DEF ReadDue, LedgerTyped
<1>2. Len(dueRows) \in Nat \ {0} /\ DOMAIN dueRows = 1 .. Len(dueRows)
  BY <1>1, EmptySeq, LenProperties
<1>3. n \in 1 .. Len(dueRows)
  <2>1. n \in {BatchLimit, Len(dueRows)} /\ n <= Len(dueRows)
    <3> DEFINE l == Len(dueRows)
    <3> HIDE DEF l
    <3>1. l \in Nat
      BY <1>2 DEF l
    <3>2. \E x \in {BatchLimit, l} : \A y \in {BatchLimit, l} : x <= y
      <4>1. CASE BatchLimit <= l
        BY <1>1, <3>1, <4>1
      <4>2. CASE l <= BatchLimit
        BY <1>1, <3>1, <4>2
      <4> QED
        BY <1>1, <3>1, <4>1, <4>2
    <3> QED
      BY <3>2 DEF Min, l
  <2> HIDE DEF n
  <2>2. n \in Nat \ {0}
    BY <1>1, <1>2, <2>1
  <2>3. Len(dueRows) \in Nat
    BY <1>2
  <2> QED
    BY <2>1, <2>2, <2>3
<1>4. ASSUME NEW i \in 1 .. n
      PROVE  /\ entry(i) \in [row : Rows, ids : SUBSET Files]
             /\ entry(i).row \in Range(dueRows) /\ entry(i).ids = ledger[entry(i).row].ids
  <2>1. i \in 1 .. Len(dueRows) /\ dueRows[i] \in Rows /\ dueRows[i] \in Range(dueRows)
    BY <1>1, <1>2, <1>3, ElementOfSeq DEF Range
  <2> QED
    BY <2>1 DEF LedgerTyped
<1> HIDE DEF n, entry
<1>5. /\ batch' \in Seq([row : Rows, ids : SUBSET Files]) /\ Len(batch') = n
      /\ \A i \in 1 .. n : batch'[i] = entry(i)
  <2>1. batch' \in [1 .. n -> [row : Rows, ids : SUBSET Files]] /\ n \in Nat
    BY <1>1, <1>2, <1>3, <1>4
  <2> QED
    BY <1>1, <2>1
<1>6. batch' # <<>>
  BY <1>2, <1>3, <1>5
<1> QED
  BY <1>1, <1>4, <1>5, <1>6

\* A handled row leaves the rest of the batch as it was.
LEMMA HandledRest ==
    ASSUME LedgerTyped, batch # <<>>, Handled
    PROVE  /\ batch' \in Seq([row : Rows, ids : SUBSET Files])
           /\ Head(batch) = batch[1] /\ batch[1] \in [row : Rows, ids : SUBSET Files] /\ 1 \in 1 .. Len(batch)
           /\ \A i \in 1 .. Len(batch') : i + 1 \in 1 .. Len(batch) /\ batch'[i] = batch[i + 1]
<1> DEFINE S == [row : Rows, ids : SUBSET Files]
<1>1. batch \in Seq(S) /\ batch' = Tail(batch)
  BY DEF LedgerTyped, Handled
<1> HIDE DEF S
<1>2. Len(batch) \in Nat \ {0} /\ \A i \in 1 .. Len(batch) : batch[i] \in S
  BY <1>1, EmptySeq, ElementOfSeq
<1>3. /\ Tail(batch) \in Seq(S) /\ Len(Tail(batch)) = Len(batch) - 1
      /\ \A i \in 1 .. Len(Tail(batch)) : Tail(batch)[i] = batch[i + 1]
  BY <1>1, HeadTailProperties
<1>4. 1 \in 1 .. Len(batch) /\ Head(batch) = batch[1]
  BY <1>1, <1>2
<1>5. \A i \in 1 .. Len(batch) - 1 : i + 1 \in 1 .. Len(batch)
  BY <1>2
<1> QED
  BY <1>1, <1>2, <1>3, <1>4, <1>5 DEF S

-----------------------------------------------------------------------------
(* That the ledger forgets nothing.                                        *)

\* Where no record changes, files may only disappear.
LEMMA UnchangedRecords ==
    ASSUME JobsTyped, LedgerTyped, RecordsFit, UNCHANGED <<tempAccount, tempIDs, tracked, ledgerVars, cleaner>>
    PROVE  /\ files' \subseteq Files => LedgerTyped'
           /\ RecordsFit'
           /\ files' \subseteq files /\ NothingForgotten => NothingForgotten'
  BY DEF LedgerTyped, RecordsFit, NothingForgotten, ledgerVars, cleaner

\* What a job has recorded is of one row, and was in the ledger.
LEMMA OwnFits ==
    ASSUME JobsTyped, RecordsFit, NEW j \in Jobs
    PROVE  /\ Own(j) \in SUBSET Files /\ \A f \in Own(j) : f[1] = RowOf(j) /\ f \in tracked
           /\ tempAccount[j] \in {NoPikpak, on[j]} =>
                 tempIDs[j] \in SUBSET Files /\ \A f \in tempIDs[j] : f[1] = RowOf(j) /\ f \in tracked
<1>1. tempAccount[j] = NoPikpak => tempIDs[j] = {}
  BY CleanupAssumption DEF JobsTyped, RecordsFit, Files, Rows
<1> QED
  BY <1>1 DEF Own, RowOf, JobsTyped, RecordsFit

\* What a job may still create stays out of the ledger while neither grows.
LEMMA FreshIsKept ==
    ASSUME Fresh, UNCHANGED <<tracked, shares, selectedIDs>>, \A j \in Jobs : Untried(j)' \subseteq Untried(j),
           tracked \subseteq Files
    PROVE  Fresh'
<1>1. \A f \in tracked : f[1][1] \in Jobs
  BY DEF Files, Rows
<1> QED
  BY <1>1 DEF Fresh

\* Untried accounts only become fewer, until the user has chosen a file.
LEMMA UntriedFewer ==
    ASSUME JobsTyped, [FilesNext]_fileVars, \A j \in Jobs : ~ SourceSelection(j)
    PROVE  \A j \in Jobs : Untried(j)' \subseteq Untried(j)
<1> USE CleanupAssumption DEF JobsTyped, GoesTo, Steps, Elsewhere, OnAccount, WithFile, UnderWay, Over, Untried
<1>1. ASSUME NEW j \in Jobs, Begin(j)
      PROVE  \A k \in Jobs : Untried(k)' \subseteq Untried(k)
  BY <1>1 DEF Begin
<1>2. ASSUME NEW j \in Jobs, NextAttempt(j)
      PROVE  \A k \in Jobs : Untried(k)' \subseteq Untried(k)
  BY <1>2 DEF NextAttempt
<1>3. ASSUME NEW j \in Jobs,
             Refused(j) \/ CreateFolder(j) \/ RestoreShare(j) \/ UndoCreate(j) \/ FilesFound(j) \/ FinishWithItems(j)
      PROVE  \A k \in Jobs : Untried(k)' \subseteq Untried(k)
  BY <1>3 DEF Refused, CreateFolder, RestoreShare, OnlyFiles, UndoCreate, FilesFound, FinishWithItems
<1>4. ASSUME NEW j \in Jobs, RecordTemp(j) \/ Selection(j) \/ Resume(j)
      PROVE  \A k \in Jobs : Untried(k)' \subseteq Untried(k)
  BY <1>4 DEF RecordTemp, Selection, Resume
<1>5. ASSUME NEW j \in Jobs, Finalize(j) \/ Cleanup(j) \/ Reconcile(j) \/ Detach(j)
      PROVE  \A k \in Jobs : Untried(k)' \subseteq Untried(k)
  BY <1>5 DEF Finalize, CompletionWrites, AfterUncertainty, Cleanup, Reconcile, Detach
<1>6. CASE \/ \E j \in Jobs : LinkMoves(j)
           \/ \E r \in Rows : DeadlinePasses(r)
           \/ ReadDue \/ CleanDelete \/ CleanFails \/ CleanRemove
           \/ \E a \in Pikpaks : DeleteAccount(a)
           \/ UNCHANGED fileVars
  BY <1>6 DEF LinkMoves, LinksExpire, RenewLinks, RenewalExpires, OnlyRenewed,
     DeadlinePasses, ReadDue, CleanDelete, CleanFails, CleanRemove, NotTheCleaner,
              DeleteAccount, fileVars, jobVars
<1>7. CASE KillAndStart
  BY <1>7 DEF KillAndStart
<1> QED
  BY <1>1, <1>2, <1>3, <1>4, <1>5, <1>6, <1>7 DEF FilesNext, LinkMoves, JobStep

\* Every step keeps that.
LEMMA FreshStep ==
    ASSUME JobsTyped, LedgerTyped, RecordsFit, Fresh, [FilesNext]_fileVars
    PROVE  Fresh'
<1>1. \A f \in Files : f[1] \in Rows /\ f[1][1] \in Jobs /\ f[1][2] \in Pikpaks /\ f[1] = <<f[1][1], f[1][2]>>
  BY DEF Files, Rows
<1>2. ASSUME NEW j \in Jobs, SourceSelection(j)
      PROVE  Fresh'
  <2>1. /\ at[j] = "choosing" /\ j \in shares \ selectedIDs /\ tracked' = tracked /\ shares' = shares
        /\ selectedIDs' \subseteq selectedIDs \union {j} /\ selectedIDs \subseteq selectedIDs'
        /\ j \in selectedIDs' \/ Untried(j)' = {}
    BY <1>2 DEF SourceSelection, Steps, GoesTo, JobsTyped, pikpak, Untried, UnderWay
  <2>2. \A k \in Jobs \ {j} : Untried(k)' \subseteq Untried(k)
    BY <1>2 DEF SourceSelection, Steps, GoesTo, JobsTyped, Untried
  <2> QED
    BY <1>1, <2>1, <2>2 DEF Fresh, LedgerTyped
<1>3. ASSUME NEW j \in Jobs, NEW ids \in SUBSET Files, \A f \in ids \ tracked : f = Created(j) \/ f = Item(j),
             tracked' = tracked \union ids, at[j] \in WithFile, at'[j] \in {"ready", "completed", "uncertain"},
             UNCHANGED <<on, left, shares, selectedIDs>>,
             \A k \in Jobs : Untried(k)' \subseteq Untried(k)
      PROVE  Fresh'
  <2>1. on[j] \in Pikpaks \ left[j]
    BY <1>3 DEF JobsTyped, OnAccount
  <2>2. on[j] \notin Untried(j)'
    BY <1>3, <2>1 DEF Untried, UnderWay
  <2>3. ASSUME NEW f \in ids \ tracked
        PROVE  /\ f[1] = <<j, on[j]>>
               /\ j \notin selectedIDs => f[2] # "chosen"
               /\ f[2] = "folder" => j \notin shares
    BY <1>3, <2>1, <2>3, FilesOfAttempt
  <2>4. tracked \subseteq Files
    BY DEF LedgerTyped
  <2> QED
    BY <1>1, <1>3, <2>2, <2>3, <2>4 DEF Fresh
<1>4. ASSUME \A j \in Jobs : ~ SourceSelection(j)
      PROVE  \A j \in Jobs : Untried(j)' \subseteq Untried(j)
  BY <1>4, UntriedFewer
<1>5. ASSUME tracked' = tracked, UNCHANGED <<shares, selectedIDs>>, \A j \in Jobs : Untried(j)' \subseteq Untried(j)
      PROVE  Fresh'
  BY <1>5, FreshIsKept DEF LedgerTyped
<1>6. ASSUME NEW j \in Jobs, RecordTemp(j), \A k \in Jobs : Untried(k)' \subseteq Untried(k)
      PROVE  Fresh'
  <2>1. CASE tracked' = tracked
    BY <1>5, <1>6, <2>1 DEF RecordTemp, Elsewhere
  <2>2. CASE tracked' # tracked
    <3>1. /\ at[j] = "record" /\ at'[j] = "ready" /\ tracked' = tracked \union {Created(j)}
          /\ UNCHANGED <<on, left, shares, selectedIDs>>
      BY <1>6, <2>2 DEF RecordTemp, Elsewhere, RecordTx, Steps, GoesTo, JobsTyped
    <3>2. Created(j) \in Files
      BY <3>1, FilesOfAttempt DEF JobsTyped, OnAccount, WithFile
    <3> QED
      BY <1>3, <1>6, <3>1, <3>2 DEF WithFile
  <2> QED
    BY <2>1, <2>2
<1>7. ASSUME NEW j \in Jobs, Finalize(j), \A k \in Jobs : Untried(k)' \subseteq Untried(k)
      PROVE  Fresh'
  <2>1. CASE tracked' = tracked
    BY <1>5, <1>7, <2>1 DEF Finalize, Elsewhere
  <2>2. CASE tracked' # tracked
    <3>1. /\ at[j] \in {"finalize", "resumed"} /\ at'[j] \in {"completed", "uncertain"}
          /\ tempAccount[j] \in {NoPikpak, on[j]}
          /\ tracked' = tracked \union (tempIDs[j] \union {Item(j)})
          /\ UNCHANGED <<on, left, shares, selectedIDs>>
      BY <1>7, <2>2 DEF Finalize, CompletionWrites, AfterUncertainty, Elsewhere, RecordTx, GoesTo, JobsTyped
    <3>2. Item(j) \in Files
      BY <3>1, FilesOfAttempt DEF JobsTyped, OnAccount, WithFile
    <3>3. tempIDs[j] \in SUBSET Files /\ \A f \in tempIDs[j] : f \in tracked
      BY <3>1, OwnFits
    <3> DEFINE ids == tempIDs[j] \union {Item(j)}
    <3>4. ids \in SUBSET Files /\ \A f \in ids \ tracked : f = Item(j)
      BY <3>2, <3>3
    <3> HIDE DEF ids
    <3> QED
      BY <1>3, <1>7, <3>1, <3>4 DEF WithFile, ids
  <2> QED
    BY <2>1, <2>2
<1>8. ASSUME NEW j \in Jobs, JobStep(j) /\ ~ SourceSelection(j) /\ ~ RecordTemp(j) /\ ~ Finalize(j)
      PROVE  UNCHANGED <<tracked, shares, selectedIDs>>
  BY <1>8 DEF JobStep, Begin, NextAttempt, Refused, CreateFolder, RestoreShare, OnlyFiles, UndoCreate, FilesFound,
              FinishWithItems, Selection, Resume, Cleanup, Reconcile, Detach, Elsewhere, pikpak
<1>9. CASE \/ \E j \in Jobs : LinkMoves(j)
           \/ \E r \in Rows : DeadlinePasses(r)
           \/ ReadDue \/ CleanDelete \/ CleanFails \/ CleanRemove
           \/ \E a \in Pikpaks : DeleteAccount(a)
           \/ KillAndStart \/ UNCHANGED fileVars
  <2>1. UNCHANGED <<tracked, shares, selectedIDs>>
    BY <1>9 DEF LinkMoves, LinksExpire, RenewLinks, RenewalExpires, OnlyRenewed,
       DeadlinePasses, ReadDue, CleanDelete, CleanFails, CleanRemove, NotTheCleaner,
                DeleteAccount, KillAndStart, fileVars, jobVars, pikpak
  <2> QED
    BY <1>2, <1>4, <1>5, <2>1
<1> QED
  BY <1>2, <1>4, <1>5, <1>6, <1>7, <1>8, <1>9 DEF FilesNext, LinkMoves

\* The steps that leave what is recorded as it is.
Quiet(j) ==
    \/ Begin(j) \/ NextAttempt(j) \/ Refused(j) \/ CreateFolder(j) \/ RestoreShare(j) \/ SourceSelection(j)
    \/ UndoCreate(j) \/ FilesFound(j) \/ FinishWithItems(j) \/ Selection(j) \/ Resume(j) \/ Cleanup(j)
    \/ LinkMoves(j)

\* A step of a job that records nothing changes no record.
LEMMA QuietKeeps ==
    ASSUME NEW j \in Jobs, Quiet(j)
    PROVE  UNCHANGED <<tempAccount, tempIDs, tracked, ledgerVars, cleaner>>
<1>1. CASE Begin(j) \/ NextAttempt(j) \/ Refused(j)
  BY <1>1 DEF Begin, NextAttempt, Refused, Elsewhere, pikpak
<1>2. CASE CreateFolder(j) \/ RestoreShare(j) \/ FilesFound(j) \/ FinishWithItems(j)
  BY <1>2 DEF CreateFolder, RestoreShare, FilesFound, FinishWithItems, OnlyFiles, Elsewhere
<1>3. CASE SourceSelection(j) \/ Selection(j) \/ Resume(j) \/ LinkMoves(j)
  BY <1>3 DEF SourceSelection, Selection, Resume,
     LinkMoves, LinksExpire, RenewLinks, RenewalExpires, OnlyRenewed,
     Elsewhere, pikpak, jobVars
<1>4. CASE UndoCreate(j) \/ Cleanup(j)
  BY <1>4 DEF UndoCreate, Cleanup, Elsewhere
<1> QED
  BY <1>1, <1>2, <1>3, <1>4 DEF Quiet

Appear(j, new) ==
    /\ files' \subseteq files \union new
    /\ new # {} => files' = files \union new /\ at'[j] = "record"
    /\ \A f \in new : f \notin tracked /\ <<f[1], "folder">> \notin tracked

\* What a quiet step does to the files: it deletes some, or it puts files of an
\* account there that were never in the ledger.
LEMMA QuietFiles ==
    ASSUME JobsTyped, LedgerTyped, Fresh, NEW j \in Jobs, Quiet(j)
    PROVE  \E new \in SUBSET Files : Appear(j, new)
<1>0. ASSUME files' \subseteq files
      PROVE  \E new \in SUBSET Files : Appear(j, new)
  <2>1. Appear(j, {})
    BY <1>0 DEF Appear
  <2> QED
    BY <2>1
<1>1. CASE CreateFolder(j) \/ RestoreShare(j)
  <2>1. CASE UNCHANGED files
    BY <1>0, <2>1
  <2>2. CASE ~ UNCHANGED files
    <3> DEFINE new == IF j \in shares THEN {Item(j)} ELSE {Folder(j), Item(j)}
    <3>1. files' = files \union new /\ at[j] = "create" /\ at'[j] = "record"
      BY <1>1, <2>2 DEF CreateFolder, RestoreShare, Steps, GoesTo, JobsTyped
    <3>2. on[j] \in Pikpaks /\ on[j] \in Untried(j)
      BY <3>1 DEF JobsTyped, OnAccount, WithFile, Untried
    <3>3. /\ Item(j) \in Files /\ Item(j)[1] = <<j, on[j]>>
          /\ Item(j)[2] = IF j \in selectedIDs THEN "chosen" ELSE "item"
          /\ Folder(j) \in Files /\ Folder(j) = <<<<j, on[j]>>, "folder">>
      BY <3>2, FilesOfAttempt DEF Folder, RowOf
    <3>4. j \in selectedIDs => j \in shares
      BY DEF JobsTyped
    <3>5. \A f \in tracked : f[1] = <<j, on[j]>> =>
             /\ IF j \in selectedIDs THEN f[2] # "chosen" ELSE f[2] \notin {"folder", "item"}
             /\ f[2] = "folder" => j \notin shares
      BY <3>2 DEF Fresh
    <3>6. Folder(j) \notin tracked
      BY <3>3, <3>4, <3>5
    <3>7. Item(j) \notin tracked
      BY <3>3, <3>5
    <3>8. \A f \in new : f \notin tracked /\ f[1] = <<j, on[j]>>
      BY <3>3, <3>6, <3>7
    <3>9. \A f \in new : <<f[1], "folder">> = Folder(j)
      BY <3>3, <3>8
    <3>10. new \in SUBSET Files
      BY <3>3
    <3> HIDE DEF new
    <3>11. Appear(j, new)
      BY <3>1, <3>6, <3>8, <3>9 DEF Appear
    <3> QED
      BY <3>10, <3>11
  <2> QED
    BY <2>1, <2>2
<1>2. CASE ~ (CreateFolder(j) \/ RestoreShare(j))
  <2>1. files' \subseteq files
    BY <1>2 DEF Quiet, Begin, NextAttempt, Refused, SourceSelection, UndoCreate, FilesFound, FinishWithItems,
                Selection, Resume, Cleanup, LinkMoves, LinksExpire, RenewLinks, RenewalExpires, OnlyRenewed,
                   Elsewhere, pikpak, jobVars, Without
  <2> QED
    BY <1>0, <2>1
<1> QED
  BY <1>1, <1>2

\* Every step keeps the records fitting.
LEMMA RecordsStep ==
    ASSUME JobsTyped, LedgerTyped, RecordsFit, Fresh, [FilesNext]_fileVars
    PROVE  LedgerTyped' /\ RecordsFit'
<1>1. ASSUME NEW j \in Jobs, Quiet(j)
      PROVE  LedgerTyped' /\ RecordsFit'
  <2>1. \E new \in SUBSET Files : Appear(j, new)
    BY <1>1, QuietFiles
  <2>2. files' \subseteq Files
    BY <2>1 DEF LedgerTyped, Appear
  <2> QED
    BY <1>1, <2>2, QuietKeeps, UnchangedRecords
<1>2. ASSUME NEW j \in Jobs, RecordTemp(j)
      PROVE  LedgerTyped' /\ RecordsFit'
  <2>1. CASE UNCHANGED <<tempAccount, tempIDs, tracked, ledgerVars>>
    BY <1>2, <2>1, UnchangedRecords DEF RecordTemp, Elsewhere, LedgerTyped
  <2>2. CASE ~ UNCHANGED <<tempAccount, tempIDs, tracked, ledgerVars>>
    <3>1. /\ at[j] = "record" /\ tempAccount[j] \in {NoPikpak, on[j]}
          /\ tempAccount' = [tempAccount EXCEPT ![j] = on[j]]
          /\ tempIDs' = [tempIDs EXCEPT ![j] = @ \union {Created(j)}]
          /\ RecordTx(RowOf(j), {Created(j)}, "creation")
          /\ UNCHANGED <<batch, files>>
      BY <1>2, <2>2 DEF RecordTemp, Elsewhere, cleaner, Steps
    <3>2. on[j] \in Pikpaks
      BY <3>1 DEF JobsTyped, OnAccount, WithFile
    <3>3. RowOf(j) \in Rows /\ RowOf(j) = <<j, on[j]>> /\ Created(j) \in Files /\ Created(j)[1] = RowOf(j)
      BY <3>2, FilesOfAttempt
    <3>4. /\ ledger' \in [Rows -> [ids : SUBSET Files, deadline : {"none", "creation", "completion", "failure"}]]
          /\ ledger'[RowOf(j)].ids = ledger[RowOf(j)].ids \union {Created(j)}
          /\ \A q \in Rows \ {RowOf(j)} : ledger'[q] = ledger[q]
          /\ dueRows' \in Seq(Rows)
          /\ tracked' = tracked \union {Created(j)}
      BY <3>1, <3>3, RecordTxLeaves
    <3>5. \A f \in tempIDs[j] : f[1] = RowOf(j) /\ f \in tracked
      BY <3>1, OwnFits
    <3>6. \A f \in tempIDs'[j] : f[1] = <<j, tempAccount'[j]>> /\ f \in tracked'
      BY <3>1, <3>3, <3>4, <3>5 DEF JobsTyped
    <3>7. \A k \in Jobs \ {j} : \A f \in tempIDs'[k] : f[1] = <<k, tempAccount'[k]>> /\ f \in tracked'
      BY <3>1, <3>4 DEF JobsTyped, RecordsFit
    <3>8. \A r \in Rows : \A f \in ledger'[r].ids : f[1] = r /\ f \in tracked'
      BY <3>3, <3>4 DEF RecordsFit
    <3>9. LedgerTyped'
      BY <3>1, <3>3, <3>4 DEF LedgerTyped
    <3> QED
      BY <3>1, <3>4, <3>6, <3>7, <3>8, <3>9 DEF RecordsFit
  <2> QED
    BY <2>1, <2>2
<1>3. ASSUME NEW j \in Jobs, Finalize(j)
      PROVE  LedgerTyped' /\ RecordsFit'
  <2>1. CASE UNCHANGED <<tempAccount, tempIDs, tracked, ledgerVars>>
    BY <1>3, <2>1, UnchangedRecords DEF Finalize, Elsewhere, LedgerTyped
  <2>2. CASE ~ UNCHANGED <<tempAccount, tempIDs, tracked, ledgerVars>>
    <3> DEFINE ids == tempIDs[j] \union {Item(j)}
    <3>1. /\ at[j] \in {"finalize", "resumed"} /\ tempAccount[j] \in {NoPikpak, on[j]}
          /\ tempAccount' = [tempAccount EXCEPT ![j] = NoPikpak]
          /\ tempIDs' = [tempIDs EXCEPT ![j] = {}]
          /\ RecordTx(RowOf(j), ids, "completion")
          /\ UNCHANGED <<batch, files>>
      BY <1>3, <2>2 DEF Finalize, CompletionWrites, Elsewhere, cleaner
    <3>2. on[j] \in Pikpaks
      BY <3>1 DEF JobsTyped, OnAccount, WithFile
    <3>3. RowOf(j) \in Rows /\ Item(j) \in Files /\ Item(j)[1] = RowOf(j)
      BY <3>2, FilesOfAttempt
    <3>4. ids \in SUBSET Files /\ \A f \in ids : f[1] = RowOf(j)
      BY <3>1, <3>3, OwnFits
    <3> HIDE DEF ids
    <3>5. /\ ledger' \in [Rows -> [ids : SUBSET Files, deadline : {"none", "creation", "completion", "failure"}]]
          /\ ledger'[RowOf(j)].ids = ledger[RowOf(j)].ids \union ids
          /\ \A q \in Rows \ {RowOf(j)} : ledger'[q] = ledger[q]
          /\ dueRows' \in Seq(Rows)
          /\ tracked' = tracked \union ids
      BY <3>1, <3>3, <3>4, RecordTxLeaves
    <3>6. \A k \in Jobs : \A f \in tempIDs'[k] : f[1] = <<k, tempAccount'[k]>> /\ f \in tracked'
      BY <3>1, <3>5 DEF JobsTyped, RecordsFit
    <3>7. \A r \in Rows : \A f \in ledger'[r].ids : f[1] = r /\ f \in tracked'
      BY <3>3, <3>4, <3>5 DEF RecordsFit
    <3>8. LedgerTyped'
      BY <3>1, <3>4, <3>5 DEF LedgerTyped
    <3> QED
      BY <3>1, <3>5, <3>6, <3>7, <3>8 DEF RecordsFit
  <2> QED
    BY <2>1, <2>2
<1>4. ASSUME NEW j \in Jobs, Reconcile(j) \/ Detach(j)
      PROVE  LedgerTyped' /\ RecordsFit'
  <2>1. /\ UNCHANGED <<files, tracked, batch>>
        /\ at[j] \in {"reconcile", "detach"}
        /\ UNCHANGED <<tempAccount, tempIDs>> \/ /\ tempAccount' = [tempAccount EXCEPT ![j] = NoPikpak]
                                                 /\ tempIDs' = [tempIDs EXCEPT ![j] = {}]
        /\ UNCHANGED ledgerVars \/ RemoveIDsTx(RowOf(j), Own(j))
    BY <1>4 DEF Reconcile, Detach, Detached, Steps, Elsewhere, pikpak, cleaner
  <2>2. RowOf(j) \in Rows /\ Own(j) \in SUBSET Files
    BY <2>1, FilesOfAttempt, OwnFits DEF JobsTyped, OnAccount
  <2>3. /\ ledger' \in [Rows -> [ids : SUBSET Files, deadline : {"none", "creation", "completion", "failure"}]]
        /\ \A r \in Rows : ledger'[r].ids \subseteq ledger[r].ids
        /\ dueRows' \in Seq(Rows)
    <3>1. CASE UNCHANGED ledgerVars
      BY <3>1 DEF ledgerVars, LedgerTyped
    <3>2. CASE RemoveIDsTx(RowOf(j), Own(j))
      <4>1. /\ ledger' \in [Rows -> [ids : SUBSET Files, deadline : {"none", "creation", "completion", "failure"}]]
            /\ ledger'[RowOf(j)].ids = ledger[RowOf(j)].ids \ Own(j)
            /\ \A q \in Rows \ {RowOf(j)} : ledger'[q] = ledger[q]
            /\ dueRows' \in Seq(Rows)
        BY <2>2, <3>2, RemoveIDsLeaves
      <4> QED
        BY <4>1
    <3> QED
      BY <2>1, <3>1, <3>2
  <2>4. \A k \in Jobs : \A f \in tempIDs'[k] : f[1] = <<k, tempAccount'[k]>> /\ f \in tracked'
    <3>1. CASE UNCHANGED <<tempAccount, tempIDs>>
      BY <2>1, <3>1 DEF RecordsFit
    <3>2. CASE tempAccount' = [tempAccount EXCEPT ![j] = NoPikpak] /\ tempIDs' = [tempIDs EXCEPT ![j] = {}]
      BY <2>1, <3>2 DEF RecordsFit, JobsTyped
    <3> QED
      BY <2>1, <3>1, <3>2
  <2>5. LedgerTyped'
    BY <2>1, <2>3 DEF LedgerTyped
  <2> QED
    BY <2>1, <2>3, <2>4, <2>5 DEF RecordsFit
<1>5. CASE ReadDue
  <2>1. /\ batch' \in Seq([row : Rows, ids : SUBSET Files])
        /\ \A i \in 1 .. Len(batch') : /\ batch'[i].row \in Range(dueRows)
                                       /\ batch'[i].ids = ledger[batch'[i].row].ids
    BY <1>5, ReadDueReads
  <2>2. \A r \in Range(dueRows) : r \in Rows
    BY ElementOfSeq DEF LedgerTyped, Range
  <2>3. UNCHANGED <<tempAccount, tempIDs, files, tracked, ledger, dueRows>>
    BY <1>5 DEF ReadDue, NotTheCleaner, jobVars, ledgerVars
  <2> QED
    BY <2>1, <2>2, <2>3 DEF LedgerTyped, RecordsFit
<1>6. CASE CleanDelete
  BY <1>6, UnchangedRecords DEF CleanDelete, NotTheCleaner, jobVars, ledgerVars, LedgerTyped, RecordsFit, Without
<1>7. CASE CleanFails \/ CleanRemove
  <2>1. /\ batch # <<>> /\ Handled
        /\ UNCHANGED <<files, tracked, tempAccount, tempIDs>>
        /\ \/ UNCHANGED ledgerVars
           \/ RemoveIDsTx(Head(batch).row, Head(batch).ids)
           \/ Postpone(Head(batch).row)
    BY <1>7 DEF CleanFails, CleanRemove, NotTheCleaner, jobVars
  <2>2. /\ batch' \in Seq([row : Rows, ids : SUBSET Files])
        /\ Head(batch) = batch[1] /\ batch[1] \in [row : Rows, ids : SUBSET Files]
        /\ \A i \in 1 .. Len(batch') : i + 1 \in 1 .. Len(batch) /\ batch'[i] = batch[i + 1]
    BY <2>1, HandledRest
  <2>3. /\ ledger' \in [Rows -> [ids : SUBSET Files, deadline : {"none", "creation", "completion", "failure"}]]
        /\ \A r \in Rows : ledger'[r].ids \subseteq ledger[r].ids
        /\ dueRows' \in Seq(Rows)
    <3>1. CASE UNCHANGED ledgerVars
      BY <3>1 DEF ledgerVars, LedgerTyped
    <3>2. CASE RemoveIDsTx(Head(batch).row, Head(batch).ids)
      <4>1. /\ ledger' \in [Rows -> [ids : SUBSET Files, deadline : {"none", "creation", "completion", "failure"}]]
            /\ ledger'[Head(batch).row].ids = ledger[Head(batch).row].ids \ Head(batch).ids
            /\ \A q \in Rows \ {Head(batch).row} : ledger'[q] = ledger[q]
            /\ dueRows' \in Seq(Rows)
        BY <2>2, <3>2, RemoveIDsLeaves
      <4> QED
        BY <4>1
    <3>3. CASE Postpone(Head(batch).row)
      BY <2>2, <3>3, PostponeLeaves
    <3> QED
      BY <2>1, <3>1, <3>2, <3>3
  <2>4. \A i \in 1 .. Len(batch') : \A f \in batch'[i].ids : f[1] = batch'[i].row /\ f \in tracked
    BY <2>2 DEF RecordsFit
  <2> QED
    BY <2>1, <2>2, <2>3, <2>4 DEF LedgerTyped, RecordsFit
<1>8. ASSUME NEW r \in Rows, DeadlinePasses(r)
      PROVE  LedgerTyped' /\ RecordsFit'
  <2>1. dueRows' = Append(dueRows, r) /\ UNCHANGED <<tempAccount, tempIDs, files, tracked, ledger, batch>>
    BY <1>8 DEF DeadlinePasses, jobVars, pikpak, cleaner
  <2> QED
    BY <2>1, AppendProperties DEF LedgerTyped, RecordsFit
<1>9. CASE (\E a \in Pikpaks : DeleteAccount(a)) \/ UNCHANGED fileVars
  BY <1>9, UnchangedRecords DEF DeleteAccount, fileVars, jobVars, pikpak, LedgerTyped
<1>10. CASE KillAndStart
  <2>1. UNCHANGED <<tempAccount, tempIDs, files, tracked, ledger, dueRows>> /\ batch' = <<>>
    BY <1>10 DEF KillAndStart, pikpak, ledgerVars
  <2>2. batch' \in Seq([row : Rows, ids : SUBSET Files]) /\ Len(batch') = 0
    BY <2>1
  <2> QED
    BY <2>1, <2>2 DEF LedgerTyped, RecordsFit
<1> QED
  BY <1>1, <1>2, <1>3, <1>4, <1>5, <1>6, <1>7, <1>8, <1>9, <1>10 DEF FilesNext, LinkMoves, JobStep, Quiet

\* Files appear only in a quiet step, and they were never in the ledger.
LEMMA FilesStep ==
    ASSUME JobsTyped, LedgerTyped, Fresh, [FilesNext]_fileVars
    PROVE  \A f \in files' \ files : f \notin tracked /\ <<f[1], "folder">> \notin tracked
<1>1. ASSUME NEW j \in Jobs, Quiet(j)
      PROVE  \A f \in files' \ files : f \notin tracked /\ <<f[1], "folder">> \notin tracked
  <2>1. \E new \in SUBSET Files : Appear(j, new)
    BY <1>1, QuietFiles
  <2> QED
    BY <2>1 DEF Appear
<1>2. ASSUME NEW j \in Jobs, RecordTemp(j) \/ Finalize(j) \/ Reconcile(j) \/ Detach(j)
      PROVE  files' = files
  BY <1>2 DEF RecordTemp, Finalize, Reconcile, Detach, pikpak
<1>3. CASE ReadDue \/ CleanDelete \/ CleanFails \/ CleanRemove
  BY <1>3 DEF ReadDue, CleanDelete, CleanFails, CleanRemove, Without
<1>4. CASE (\E r \in Rows : DeadlinePasses(r)) \/ (\E a \in Pikpaks : DeleteAccount(a)) \/ KillAndStart
           \/ UNCHANGED fileVars
  BY <1>4 DEF DeadlinePasses, DeleteAccount, KillAndStart, fileVars, pikpak
<1> QED
  BY <1>1, <1>2, <1>3, <1>4 DEF FilesNext, LinkMoves, JobStep, Quiet

\* A job that has deleted its files had them so when it did, and still has the same
\* records.
LEMMA ReconcileStep ==
    ASSUME JobsTyped, [FilesNext]_fileVars, NEW k \in Jobs, at'[k] = "reconcile"
    PROVE  Own(k)' = Own(k) /\ (at[k] = "reconcile" \/ files' = Without(Own(k)))
<1>1. ASSUME NEW j \in Jobs, Cleanup(j)
      PROVE  Own(k)' = Own(k) /\ (at[k] = "reconcile" \/ files' = Without(Own(k)))
  <2>1. UNCHANGED <<on, tempAccount, tempIDs>>
    BY <1>1 DEF Cleanup
  <2>2. at[k] = "reconcile" \/ files' = Without(Own(k))
    BY <1>1 DEF Cleanup, GoesTo, JobsTyped
  <2> QED
    BY <2>1, <2>2 DEF Own
<1>2. ASSUME NEW j \in Jobs, JobStep(j), ~ Cleanup(j)
      PROVE  /\ at'[j] # "reconcile"
             /\ \A i \in Jobs \ {j} : /\ at'[i] = at[i] /\ on'[i] = on[i]
                                      /\ tempAccount'[i] = tempAccount[i] /\ tempIDs'[i] = tempIDs[i]
  <2> USE DEF JobsTyped, Steps, GoesTo, Elsewhere
  <2>1. CASE Begin(j) \/ NextAttempt(j) \/ Refused(j) \/ CreateFolder(j) \/ RestoreShare(j)
    BY <2>1 DEF Begin, NextAttempt, Refused, CreateFolder, RestoreShare, OnlyFiles
  <2>2. CASE SourceSelection(j) \/ RecordTemp(j) \/ UndoCreate(j) \/ FilesFound(j) \/ FinishWithItems(j)
    BY <2>2 DEF SourceSelection, RecordTemp, UndoCreate, FilesFound, FinishWithItems, OnlyFiles
  <2>3. CASE Selection(j) \/ Resume(j) \/ Finalize(j) \/ Reconcile(j) \/ Detach(j)
    BY <2>3 DEF Selection, Resume, Finalize, CompletionWrites, AfterUncertainty, Reconcile, Detach, Detached
  <2> QED
    BY <1>2, <2>1, <2>2, <2>3 DEF JobStep
<1>3. CASE KillAndStart
  BY <1>3 DEF KillAndStart
<1>4. ASSUME ~ KillAndStart, \A j \in Jobs : ~ JobStep(j)
      PROVE  UNCHANGED <<at, on, tempAccount, tempIDs>>
  BY <1>4 DEF FilesNext, LinkMoves, LinksExpire, RenewLinks, RenewalExpires, OnlyRenewed,
     DeadlinePasses, ReadDue, CleanDelete, CleanFails, CleanRemove,
              NotTheCleaner, DeleteAccount, fileVars, jobVars
<1>5. CASE UNCHANGED <<at, on, tempAccount, tempIDs>>
  BY <1>5 DEF Own
<1>6. ASSUME NEW j \in Jobs, JobStep(j), ~ Cleanup(j)
      PROVE  Own(k)' = Own(k) /\ at[k] = "reconcile"
  BY <1>2, <1>6 DEF Own
<1> QED
  BY <1>1, <1>3, <1>4, <1>5, <1>6

\* The batch stays while the files of its first row are deleted.
LEMMA EmptiedStep ==
    ASSUME LedgerTyped, emptied => batch # <<>>, [FilesNext]_fileVars, emptied'
    PROVE  batch' = batch /\ batch # <<>> /\ (emptied \/ files' = Without(Head(batch).ids))
<1>1. ASSUME NEW j \in Jobs, JobStep(j) \/ LinkMoves(j)
      PROVE  UNCHANGED cleaner
  <2>1. CASE Quiet(j)
    BY <2>1, QuietKeeps
  <2>2. CASE RecordTemp(j) \/ Finalize(j) \/ Reconcile(j) \/ Detach(j)
    BY <2>2 DEF RecordTemp, Finalize, Reconcile, Detach, Elsewhere
  <2> QED
    BY <1>1, <2>1, <2>2 DEF JobStep, Quiet
<1>2. CASE ReadDue
  BY <1>2 DEF ReadDue
<1>3. CASE CleanDelete
  BY <1>3 DEF CleanDelete
<1>4. CASE CleanFails \/ CleanRemove
  BY <1>4 DEF CleanFails, CleanRemove, Handled
<1>5. CASE (\E r \in Rows : DeadlinePasses(r)) \/ (\E a \in Pikpaks : DeleteAccount(a)) \/ UNCHANGED fileVars
  BY <1>5 DEF DeadlinePasses, DeleteAccount, fileVars, cleaner
<1>6. CASE KillAndStart
  BY <1>6 DEF KillAndStart
<1> QED
  BY <1>1, <1>2, <1>3, <1>4, <1>5, <1>6 DEF FilesNext, LinkMoves, cleaner

\* What is gone stays gone: no file comes back under a name that was recorded.
LEMMA GoneStep ==
    ASSUME JobsTyped, LedgerTyped, RecordsFit, Fresh, DeletedIsGone, [FilesNext]_fileVars
    PROVE  DeletedIsGone'
<1>1. ASSUME NEW ids, \A f \in ids : f \in tracked, files = Without(ids) \/ files' = Without(ids)
      PROVE  files' = {f \in files' : f \notin ids /\ <<f[1], "folder">> \notin ids}
  <2>1. \A f \in files' \ files : f \notin tracked /\ <<f[1], "folder">> \notin tracked
    BY FilesStep
  <2> QED
    BY <1>1, <2>1 DEF Without
<1>2. ASSUME NEW k \in Jobs, at'[k] = "reconcile"
      PROVE  files' = Without(Own(k))'
  <2>1. Own(k)' = Own(k) /\ (at[k] = "reconcile" \/ files' = Without(Own(k)))
    BY <1>2, ReconcileStep
  <2>2. \A f \in Own(k) : f \in tracked
    BY OwnFits
  <2>3. files = Without(Own(k)) \/ files' = Without(Own(k))
    BY <2>1 DEF DeletedIsGone
  <2> DEFINE ids == Own(k)
  <2> HIDE DEF ids
  <2>4. files' = {f \in files' : f \notin ids /\ <<f[1], "folder">> \notin ids}
    BY <1>1, <2>2, <2>3 DEF ids
  <2> QED
    BY <2>1, <2>4 DEF Without, ids
<1>3. ASSUME emptied'
      PROVE  batch' # <<>> /\ files' = Without(Head(batch).ids)'
  <2>1. batch' = batch /\ batch # <<>> /\ (emptied \/ files' = Without(Head(batch).ids))
    BY <1>3, EmptiedStep DEF DeletedIsGone
  <2>2. Len(batch) \in Nat \ {0} /\ Head(batch) = batch[1]
    <3> DEFINE S == [row : Rows, ids : SUBSET Files]
    <3>1. batch \in Seq(S)
      BY DEF LedgerTyped
    <3> HIDE DEF S
    <3> QED
      BY <2>1, <3>1, EmptySeq
  <2>3. \A f \in Head(batch).ids : f \in tracked
    BY <2>2 DEF RecordsFit
  <2> DEFINE ids == Head(batch).ids
  <2>4. files = Without(ids) \/ files' = Without(ids)
    BY <2>1 DEF DeletedIsGone
  <2> HIDE DEF ids
  <2>5. files' = {f \in files' : f \notin ids /\ <<f[1], "folder">> \notin ids}
    BY <1>1, <2>3, <2>4 DEF ids
  <2> QED
    BY <2>1, <2>5 DEF Without, ids
<1> QED
  BY <1>2, <1>3 DEF DeletedIsGone

\* Every step keeps NothingForgotten.
LEMMA ForgottenStep ==
    ASSUME JobsTyped, LedgerTyped, RecordsFit, Fresh, DeletedIsGone, NothingForgotten, [FilesNext]_fileVars
    PROVE  NothingForgotten'
<1>1. \A f \in files' \ files : f \notin tracked /\ <<f[1], "folder">> \notin tracked
  BY FilesStep
<1>2. tracked \subseteq Files /\ \A f \in Files : f[1] \in Rows
  BY DEF LedgerTyped, Files
<1>3. ASSUME tracked' = tracked, \A r \in Rows : ledger[r].ids \subseteq ledger'[r].ids
      PROVE  NothingForgotten'
  BY <1>1, <1>2, <1>3 DEF NothingForgotten
\* Ids that join a row, and those that leave it once their files are gone.
<1>4. ASSUME NEW r \in Rows, NEW ids \in SUBSET Files, NEW deadline \in {"creation", "completion"},
             RecordTx(r, ids, deadline), \A f \in ids : f[1] = r
      PROVE  NothingForgotten'
  <2>1. /\ ledger'[r].ids = ledger[r].ids \union ids /\ tracked' = tracked \union ids
        /\ \A q \in Rows \ {r} : ledger'[q] = ledger[q]
    BY <1>4, RecordTxLeaves
  <2> QED
    BY <1>1, <1>2, <1>4, <2>1 DEF NothingForgotten
<1>5. ASSUME NEW r \in Rows, NEW ids \in SUBSET Files, RemoveIDsTx(r, ids),
             files = Without(ids), UNCHANGED <<files, tracked>>
      PROVE  NothingForgotten'
  <2>1. ledger'[r].ids = ledger[r].ids \ ids /\ \A q \in Rows \ {r} : ledger'[q] = ledger[q]
    BY <1>5, RemoveIDsLeaves
  <2>2. \A f \in files : f \notin ids /\ <<f[1], "folder">> \notin ids
    BY <1>5 DEF Without
  <2>3. ASSUME NEW f \in files \intersect tracked
        PROVE  ledger'[f[1]].ids \intersect {f, <<f[1], "folder">>} # {}
    <3>1. PICK g \in {f, <<f[1], "folder">>} : g \in ledger[f[1]].ids
      BY DEF NothingForgotten
    <3>2. g \notin ids
      BY <2>2, <3>1
    <3>3. g \in ledger'[f[1]].ids
      BY <1>2, <2>1, <3>1, <3>2
    <3> QED
      BY <3>1, <3>3
  <2> QED
    BY <1>5, <2>3 DEF NothingForgotten
<1>6. ASSUME NEW j \in Jobs, Quiet(j)
      PROVE  NothingForgotten'
  <2>1. UNCHANGED <<tracked, ledger>>
    BY <1>6, QuietKeeps DEF ledgerVars
  <2> QED
    BY <1>3, <2>1
<1>7. ASSUME NEW j \in Jobs, RecordTemp(j)
      PROVE  NothingForgotten'
  <2>1. at[j] = "record" /\ (UNCHANGED <<tracked, ledger>> \/ RecordTx(RowOf(j), {Created(j)}, "creation"))
    BY <1>7 DEF RecordTemp, Steps, ledgerVars
  <2>2. RowOf(j) \in Rows /\ Created(j) \in Files /\ Created(j)[1] = RowOf(j)
    BY <2>1, FilesOfAttempt DEF JobsTyped, OnAccount, WithFile
  <2> QED
    BY <1>3, <1>4, <2>1, <2>2
<1>8. ASSUME NEW j \in Jobs, Finalize(j)
      PROVE  NothingForgotten'
  <2> DEFINE ids == tempIDs[j] \union {Item(j)}
  <2>1. /\ at[j] \in {"finalize", "resumed"}
        /\ UNCHANGED <<tracked, ledger>> \/ /\ tempAccount[j] \in {NoPikpak, on[j]}
                                            /\ RecordTx(RowOf(j), ids, "completion")
    BY <1>8 DEF Finalize, CompletionWrites, ledgerVars
  <2>2. RowOf(j) \in Rows /\ Item(j) \in Files /\ Item(j)[1] = RowOf(j)
    BY <2>1, FilesOfAttempt DEF JobsTyped, OnAccount, WithFile
  <2>3. tempAccount[j] \in {NoPikpak, on[j]} => ids \in SUBSET Files /\ \A f \in ids : f[1] = RowOf(j)
    BY <2>2, OwnFits
  <2> HIDE DEF ids
  <2> QED
    BY <1>3, <1>4, <2>1, <2>2, <2>3
<1>9. ASSUME NEW j \in Jobs, Reconcile(j)
      PROVE  NothingForgotten'
  <2>1. /\ at[j] = "reconcile" /\ UNCHANGED <<files, tracked>>
        /\ UNCHANGED ledger \/ RemoveIDsTx(RowOf(j), Own(j))
    BY <1>9 DEF Reconcile, Steps, pikpak, ledgerVars
  <2>2. RowOf(j) \in Rows /\ Own(j) \in SUBSET Files /\ files = Without(Own(j))
    BY <2>1, FilesOfAttempt, OwnFits DEF JobsTyped, OnAccount, DeletedIsGone
  <2> QED
    BY <1>3, <1>5, <2>1, <2>2
<1>10. ASSUME NEW j \in Jobs, Detach(j)
      PROVE  NothingForgotten'
  <2>1. UNCHANGED <<tracked, ledger>>
    BY <1>10 DEF Detach, Detached, pikpak, ledgerVars
  <2> QED
    BY <1>3, <2>1
<1>11. CASE CleanFails \/ CleanRemove
  <2>1. batch # <<>> /\ Handled /\ UNCHANGED <<files, tracked>>
    BY <1>11 DEF CleanFails, CleanRemove, NotTheCleaner
  <2>2. Head(batch).row \in Rows /\ Head(batch).ids \in SUBSET Files
    BY <2>1, HandledRest
  <2>3. CASE Postpone(Head(batch).row)
    <3>1. \A q \in Rows : ledger'[q].ids = ledger[q].ids
      BY <2>2, <2>3, PostponeLeaves
    <3> QED
      BY <1>3, <2>1, <3>1
  <2>4. CASE CleanRemove /\ RemoveIDsTx(Head(batch).row, Head(batch).ids)
    <3>1. files = Without(Head(batch).ids)
      BY <2>4 DEF CleanRemove, DeletedIsGone
    <3> QED
      BY <1>5, <2>1, <2>2, <2>4, <3>1
  <2>5. CASE UNCHANGED ledgerVars
    BY <1>3, <2>1, <2>5 DEF ledgerVars
  <2> QED
    BY <1>11, <2>3, <2>4, <2>5 DEF CleanFails, CleanRemove
<1>12. CASE \/ \E r \in Rows : DeadlinePasses(r)
            \/ ReadDue \/ CleanDelete \/ KillAndStart
            \/ \E a \in Pikpaks : DeleteAccount(a)
            \/ UNCHANGED fileVars
  <2>1. UNCHANGED <<tracked, ledger>>
    BY <1>12 DEF DeadlinePasses, ReadDue, CleanDelete, NotTheCleaner, KillAndStart, DeleteAccount, fileVars,
                 pikpak, ledgerVars
  <2> QED
    BY <1>3, <2>1
<1> QED
  BY <1>6, <1>7, <1>8, <1>9, <1>10, <1>11, <1>12 DEF FilesNext, LinkMoves, JobStep, Quiet

\* Every step keeps the invariant it rests on.
LEMMA ForgetStep ==
    ASSUME ForgetInv, [FilesNext]_fileVars
    PROVE  ForgetInv'
  BY JobsTypedStep, RecordsStep, FreshStep, GoneStep, ForgottenStep DEF ForgetInv

\* Which holds when the process first starts.
LEMMA ForgetInit == FilesInit => ForgetInv
<1> SUFFICES ASSUME FilesInit
             PROVE  ForgetInv
  OBVIOUS
<1> USE CleanupAssumption DEF FilesInit
<1>1. JobsTyped
  BY DEF JobsTyped, OnAccount, WithFile, UnderWay
<1>2. LedgerTyped
  <2>1. NoRow \in [ids : SUBSET Files, deadline : {"none", "creation", "completion", "failure"}]
    BY DEF NoRow
  <2>2. dueRows \in Seq(Rows) /\ batch \in Seq([row : Rows, ids : SUBSET Files])
    OBVIOUS
  <2> QED
    BY <2>1, <2>2 DEF LedgerTyped
<1>3. RecordsFit
  <2>1. Len(batch) = 0
    OBVIOUS
  <2> QED
    BY <2>1 DEF RecordsFit, NoRow
<1> QED
  BY <1>1, <1>2, <1>3 DEF ForgetInv, Fresh, DeletedIsGone, NothingForgotten

\* Whatever deletion or transaction fails or is cut short, the ledger forgets only
\* what is gone, for any jobs, accounts, batch limit and number of mishaps
\* (completeTempResourceCleanup, detachTempResources, removeRecordIDs).  What
\* carries it: what is to leave the records next is gone already, and an attempt
\* creates nothing that was recorded before.
THEOREM LedgerForgetsNothing == FilesSpec => []NothingForgotten
<1>1. FilesInit => ForgetInv
  BY ForgetInit
<1>2. ForgetInv /\ [FilesNext]_fileVars => ForgetInv'
  BY ForgetStep
<1>3. ForgetInv => NothingForgotten
  BY DEF ForgetInv
<1> QED
  BY <1>1, <1>2, <1>3, PTL DEF FilesSpec

-----------------------------------------------------------------------------
(* That the files of valid links are there.                                *)

\* A row comes to the cleaner only when its deadline passes.
LEMMA CleanerStep ==
    ASSUME JobsTyped, LedgerTyped, RecordsFit, [FilesNext]_fileVars, NEW q \in Rows, ~ InCleaner(q), ~ DeadlinePasses(q)
    PROVE  ~ InCleaner(q)'
<1>1. ASSUME Range(dueRows') \subseteq Range(dueRows), batch' = batch
      PROVE  ~ InCleaner(q)'
  BY <1>1 DEF InCleaner
<1>2. ASSUME NEW j \in Jobs, Quiet(j)
      PROVE  ~ InCleaner(q)'
  BY <1>1, <1>2, QuietKeeps DEF ledgerVars, cleaner
<1>3. ASSUME NEW j \in Jobs, RecordTemp(j)
      PROVE  ~ InCleaner(q)'
  <2>1. at[j] = "record" /\ batch' = batch /\ (UNCHANGED dueRows \/ RecordTx(RowOf(j), {Created(j)}, "creation"))
    BY <1>3 DEF RecordTemp, Steps, ledgerVars, Elsewhere, cleaner
  <2>2. RowOf(j) \in Rows /\ Created(j) \in Files
    BY <2>1, FilesOfAttempt DEF JobsTyped, OnAccount, WithFile
  <2> QED
    BY <1>1, <2>1, <2>2, RecordTxLeaves
<1>4. ASSUME NEW j \in Jobs, Finalize(j)
      PROVE  ~ InCleaner(q)'
  <2> DEFINE ids == tempIDs[j] \union {Item(j)}
  <2>1. /\ at[j] \in {"finalize", "resumed"} /\ batch' = batch
        /\ UNCHANGED dueRows \/ /\ tempAccount[j] \in {NoPikpak, on[j]}
                                /\ RecordTx(RowOf(j), ids, "completion")
    BY <1>4 DEF Finalize, CompletionWrites, ledgerVars, Elsewhere, cleaner
  <2>2. RowOf(j) \in Rows /\ Item(j) \in Files
    BY <2>1, FilesOfAttempt DEF JobsTyped, OnAccount, WithFile
  <2>3. tempAccount[j] \in {NoPikpak, on[j]} => ids \in SUBSET Files
    BY <2>2, OwnFits
  <2> HIDE DEF ids
  <2> QED
    BY <1>1, <2>1, <2>2, <2>3, RecordTxLeaves
<1>5. ASSUME NEW j \in Jobs, Reconcile(j) \/ Detach(j)
      PROVE  ~ InCleaner(q)'
  <2>1. /\ at[j] \in {"reconcile", "detach"} /\ batch' = batch
        /\ UNCHANGED dueRows \/ RemoveIDsTx(RowOf(j), Own(j))
    BY <1>5 DEF Reconcile, Detach, Detached, Steps, ledgerVars, Elsewhere, cleaner
  <2>2. RowOf(j) \in Rows /\ Own(j) \in SUBSET Files
    BY <2>1, FilesOfAttempt, OwnFits DEF JobsTyped, OnAccount
  <2> QED
    BY <1>1, <2>1, <2>2, RemoveIDsLeaves
<1>6. CASE ReadDue
  <2>1. \A i \in 1 .. Len(batch') : batch'[i].row \in Range(dueRows)
    BY <1>6, ReadDueReads
  <2>2. dueRows' = dueRows
    BY <1>6 DEF ReadDue, ledgerVars
  <2> QED
    BY <2>1, <2>2 DEF InCleaner
<1>7. CASE CleanFails \/ CleanRemove
  <2>1. batch # <<>> /\ Handled
    BY <1>7 DEF CleanFails, CleanRemove
  <2>2. /\ Head(batch).row \in Rows /\ Head(batch).ids \in SUBSET Files
        /\ \A i \in 1 .. Len(batch') : i + 1 \in 1 .. Len(batch) /\ batch'[i] = batch[i + 1]
    BY <2>1, HandledRest
  <2>3. Range(dueRows') \subseteq Range(dueRows)
    BY <1>7, <2>2, RemoveIDsLeaves, PostponeLeaves DEF CleanFails, CleanRemove, ledgerVars
  <2> QED
    BY <2>2, <2>3 DEF InCleaner
<1>8. ASSUME NEW r \in Rows, DeadlinePasses(r)
      PROVE  ~ InCleaner(q)'
  <2>1. r # q /\ dueRows' = Append(dueRows, r) /\ batch' = batch
    BY <1>8 DEF DeadlinePasses, cleaner
  <2>2. Range(dueRows') \subseteq Range(dueRows) \union {r}
    <3>1. /\ Len(dueRows') = Len(dueRows) + 1 /\ dueRows' \in Seq(Rows)
          /\ \A i \in 1 .. Len(dueRows) : dueRows'[i] = dueRows[i]
          /\ dueRows'[Len(dueRows) + 1] = r
      BY <2>1, AppendProperties DEF LedgerTyped
    <3>2. Len(dueRows) \in Nat /\ DOMAIN dueRows = 1 .. Len(dueRows) /\ DOMAIN dueRows' = 1 .. Len(dueRows')
      BY <3>1, LenProperties DEF LedgerTyped
    <3>3. \A i \in 1 .. Len(dueRows') : i \in 1 .. Len(dueRows) \/ i = Len(dueRows) + 1
      BY <3>1, <3>2
    <3> QED
      BY <3>1, <3>2, <3>3 DEF Range
  <2> QED
    BY <2>1, <2>2 DEF InCleaner
<1>9. CASE CleanDelete \/ (\E a \in Pikpaks : DeleteAccount(a)) \/ UNCHANGED fileVars
  BY <1>1, <1>9 DEF CleanDelete, DeleteAccount, fileVars, ledgerVars, cleaner
<1>10. CASE KillAndStart
  <2>1. dueRows' = dueRows /\ Len(batch') = 0
    BY <1>10 DEF KillAndStart, ledgerVars
  <2> QED
    BY <2>1 DEF InCleaner
<1> QED
  BY <1>2, <1>3, <1>4, <1>5, <1>6, <1>7, <1>8, <1>9, <1>10 DEF FilesNext, LinkMoves, JobStep, Quiet

\* The steps of a job, as those who wait for its files see them.
LEMMA JobOfStep ==
    ASSUME JobsTyped, [FilesNext]_fileVars, NEW k \in Jobs
    PROVE  /\ at'[k] \in UnderWay => at[k] \in UnderWay
           /\ at[k] \in WithFile \/ links[k] = "valid" =>
                  on'[k] = on[k] /\ (k \in selectedIDs' <=> k \in selectedIDs)
           /\ at'[k] \in WithFile => at[k] \in WithFile \/ (at[k] = "create" /\ at'[k] = "record")
           /\ links'[k] = "valid" => links[k] = "valid" \/ (at[k] \in {"finalize", "resumed"} /\ CompletionWrites(k))
<1> USE DEF JobsTyped, GoesTo, Steps, Elsewhere, OnAccount, WithFile, UnderWay, Over
<1> DEFINE Goal == /\ at'[k] \in UnderWay => at[k] \in UnderWay
                   /\ at[k] \in WithFile \/ links[k] = "valid" =>
                         on'[k] = on[k] /\ (k \in selectedIDs' <=> k \in selectedIDs)
                   /\ at'[k] \in WithFile => at[k] \in WithFile \/ (at[k] = "create" /\ at'[k] = "record")
                   /\ links'[k] = "valid" =>
                         links[k] = "valid" \/ (at[k] \in {"finalize", "resumed"} /\ CompletionWrites(k))
<1>1. ASSUME NEW j \in Jobs, Begin(j) \/ NextAttempt(j) \/ Refused(j)
      PROVE  Goal
  BY <1>1 DEF Begin, NextAttempt, Refused
<1>2. ASSUME NEW j \in Jobs, CreateFolder(j) \/ RestoreShare(j) \/ FilesFound(j) \/ FinishWithItems(j)
      PROVE  Goal
  BY <1>2 DEF CreateFolder, RestoreShare, FilesFound, FinishWithItems, OnlyFiles
<1>3. ASSUME NEW j \in Jobs, SourceSelection(j) \/ RecordTemp(j) \/ UndoCreate(j) \/ Selection(j) \/ Resume(j)
      PROVE  Goal
  BY <1>3 DEF SourceSelection, RecordTemp, UndoCreate, Selection, Resume
<1>4. ASSUME NEW j \in Jobs, Finalize(j)
      PROVE  Goal
  BY <1>4 DEF Finalize, CompletionWrites, AfterUncertainty
<1>5. ASSUME NEW j \in Jobs, Cleanup(j) \/ Reconcile(j) \/ Detach(j) \/ LinkMoves(j)
      PROVE  Goal
  BY <1>5 DEF Cleanup, Reconcile, Detach, LinkMoves, LinksExpire, RenewLinks, RenewalExpires, OnlyRenewed,
     jobVars
<1>6. CASE \/ \E r \in Rows : DeadlinePasses(r)
           \/ ReadDue \/ CleanDelete \/ CleanFails \/ CleanRemove
           \/ \E a \in Pikpaks : DeleteAccount(a)
           \/ UNCHANGED fileVars
  BY <1>6 DEF DeadlinePasses, ReadDue, CleanDelete, CleanFails, CleanRemove, NotTheCleaner, DeleteAccount,
              fileVars, jobVars
<1>7. CASE KillAndStart
  BY <1>7 DEF KillAndStart
<1> QED
  BY <1>1, <1>2, <1>3, <1>4, <1>5, <1>6, <1>7 DEF FilesNext, LinkMoves, JobStep

\* Nobody but the job itself and a cleaner that has its row deletes its file.
LEMMA ItemStays ==
    ASSUME JobsTyped, LedgerTyped, RecordsFit, [FilesNext]_fileVars,
           NEW k \in Jobs, on[k] \in Pikpaks, Item(k) \in files, ~ InCleaner(RowOf(k)),
           ~ UndoCreate(k), ~ Cleanup(k)
    PROVE  Item(k) \in files'
<1>1. Item(k)[1] = RowOf(k) /\ Item(k)[1] = <<k, on[k]>>
  BY FilesOfAttempt
<1>2. ASSUME NEW ids, \A f \in ids : f[1] # RowOf(k)
      PROVE  Item(k) \in Without(ids)
  <2>1. <<Item(k)[1], "folder">>[1] = RowOf(k)
    BY <1>1
  <2> QED
    BY <1>1, <1>2, <2>1 DEF Without
<1>3. ASSUME NEW j \in Jobs, UndoCreate(j)
      PROVE  Item(k) \in files'
  <2>1. j # k /\ at[j] = "undo"
    BY <1>3 DEF UndoCreate, Steps
  <2>2. Created(j)[1] = <<j, on[j]>>
    BY <2>1, FilesOfAttempt DEF JobsTyped, OnAccount, RowOf
  <2>3. Item(k) \in Without({Created(j)})
    BY <1>1, <1>2, <2>1, <2>2
  <2> QED
    BY <1>3, <2>3 DEF UndoCreate
<1>4. ASSUME NEW j \in Jobs, Cleanup(j)
      PROVE  Item(k) \in files'
  <2>1. j # k
    BY <1>4
  <2>2. \A f \in Own(j) : f[1] = <<j, on[j]>>
    BY OwnFits DEF RowOf
  <2>3. Item(k) \in Without(Own(j))
    BY <1>1, <1>2, <2>1, <2>2
  <2> QED
    BY <1>4, <2>3 DEF Cleanup
<1>5. CASE CleanDelete
  <2>1. batch # <<>> /\ files' = Without(Head(batch).ids)
    BY <1>5 DEF CleanDelete
  <2>2. 1 \in 1 .. Len(batch) /\ Head(batch) = batch[1]
    <3> DEFINE S == [row : Rows, ids : SUBSET Files]
    <3>1. batch \in Seq(S)
      BY DEF LedgerTyped
    <3> HIDE DEF S
    <3>2. Len(batch) \in Nat \ {0} /\ Head(batch) = batch[1]
      BY <2>1, <3>1, EmptySeq
    <3> QED
      BY <3>2
  <2>3. \A f \in Head(batch).ids : f[1] = Head(batch).row
    BY <2>2 DEF RecordsFit
  <2>4. Head(batch).row # RowOf(k)
    BY <2>2 DEF InCleaner
  <2> QED
    BY <1>2, <2>1, <2>3, <2>4
<1>6. ASSUME NEW j \in Jobs, JobStep(j) \/ LinkMoves(j), ~ UndoCreate(j), ~ Cleanup(j)
      PROVE  files \subseteq files'
  <2>1. CASE CreateFolder(j) \/ RestoreShare(j)
    BY <2>1 DEF CreateFolder, RestoreShare
  <2>2. CASE ~ (CreateFolder(j) \/ RestoreShare(j))
    BY <1>6, <2>2 DEF JobStep, Begin, NextAttempt, Refused, SourceSelection, RecordTemp, FilesFound, FinishWithItems,
                      Selection, Resume, Finalize, Reconcile, Detach,
                         LinkMoves, LinksExpire, RenewLinks, RenewalExpires, OnlyRenewed,
                         pikpak
  <2> QED
    BY <2>1, <2>2
<1>7. CASE \/ \E r \in Rows : DeadlinePasses(r)
           \/ ReadDue \/ CleanFails \/ CleanRemove \/ KillAndStart
           \/ \E a \in Pikpaks : DeleteAccount(a)
           \/ UNCHANGED fileVars
  BY <1>7 DEF DeadlinePasses, ReadDue, CleanFails, CleanRemove, KillAndStart, DeleteAccount, fileVars, pikpak
<1> QED
  BY <1>3, <1>4, <1>5, <1>6, <1>7 DEF FilesNext, LinkMoves

\* Nor does anybody else move the deadline of its row.
LEMMA DeadlineStays ==
    ASSUME JobsTyped, LedgerTyped, RecordsFit, [FilesNext]_fileVars,
           NEW k \in Jobs, on[k] \in Pikpaks, at[k] \in Over, ~ InCleaner(RowOf(k))
    PROVE  ledger'[RowOf(k)] = ledger[RowOf(k)]
<1>1. RowOf(k) = <<k, on[k]>> /\ RowOf(k) \in Rows
  BY FilesOfAttempt
<1>2. ASSUME NEW j \in Jobs, JobStep(j)
      PROVE  j # k
  BY <1>2 DEF JobStep, Begin, NextAttempt, Refused, CreateFolder, RestoreShare, SourceSelection, RecordTemp, UndoCreate,
              FilesFound, FinishWithItems, Selection, Resume, Finalize, Cleanup, Reconcile, Detach, Steps, Over
<1>3. ASSUME NEW j \in Jobs, Quiet(j)
      PROVE  ledger' = ledger
  BY <1>3, QuietKeeps DEF ledgerVars
<1>4. ASSUME NEW j \in Jobs \ {k}, RecordTemp(j)
      PROVE  ledger'[RowOf(k)] = ledger[RowOf(k)]
  <2>1. at[j] = "record" /\ (UNCHANGED ledger \/ RecordTx(RowOf(j), {Created(j)}, "creation"))
    BY <1>4 DEF RecordTemp, Steps, ledgerVars
  <2>2. RowOf(j) \in Rows /\ RowOf(j) = <<j, on[j]>> /\ Created(j) \in Files
    BY <2>1, FilesOfAttempt DEF JobsTyped, OnAccount, WithFile
  <2>3. RowOf(k) \in Rows \ {RowOf(j)}
    BY <1>1, <1>4, <2>2
  <2> QED
    BY <2>1, <2>2, <2>3, RecordTxLeaves
<1>5. ASSUME NEW j \in Jobs \ {k}, Finalize(j)
      PROVE  ledger'[RowOf(k)] = ledger[RowOf(k)]
  <2> DEFINE ids == tempIDs[j] \union {Item(j)}
  <2>1. /\ at[j] \in {"finalize", "resumed"}
        /\ UNCHANGED ledger \/ /\ tempAccount[j] \in {NoPikpak, on[j]}
                               /\ RecordTx(RowOf(j), ids, "completion")
    BY <1>5 DEF Finalize, CompletionWrites, ledgerVars
  <2>2. RowOf(j) \in Rows /\ RowOf(j) = <<j, on[j]>> /\ Item(j) \in Files
    BY <2>1, FilesOfAttempt DEF JobsTyped, OnAccount, WithFile
  <2>3. tempAccount[j] \in {NoPikpak, on[j]} => ids \in SUBSET Files
    BY <2>2, OwnFits
  <2> HIDE DEF ids
  <2>4. RowOf(k) \in Rows \ {RowOf(j)}
    BY <1>1, <1>5, <2>2
  <2> QED
    BY <2>1, <2>2, <2>3, <2>4, RecordTxLeaves
<1>6. ASSUME NEW j \in Jobs \ {k}, Reconcile(j) \/ Detach(j)
      PROVE  ledger'[RowOf(k)] = ledger[RowOf(k)]
  <2>1. at[j] \in {"reconcile", "detach"} /\ (UNCHANGED ledger \/ RemoveIDsTx(RowOf(j), Own(j)))
    BY <1>6 DEF Reconcile, Detach, Detached, Steps, ledgerVars
  <2>2. RowOf(j) \in Rows /\ RowOf(j) = <<j, on[j]>> /\ Own(j) \in SUBSET Files
    BY <2>1, FilesOfAttempt, OwnFits DEF JobsTyped, OnAccount
  <2>3. RowOf(k) \in Rows \ {RowOf(j)}
    BY <1>1, <1>6, <2>2
  <2> QED
    BY <2>1, <2>2, <2>3, RemoveIDsLeaves
<1>7. CASE CleanFails \/ CleanRemove
  <2>1. batch # <<>> /\ Handled
    BY <1>7 DEF CleanFails, CleanRemove
  <2>2. Head(batch) = batch[1] /\ 1 \in 1 .. Len(batch) /\ Head(batch).row \in Rows /\ Head(batch).ids \in SUBSET Files
    BY <2>1, HandledRest
  <2>3. RowOf(k) \in Rows \ {Head(batch).row}
    BY <1>1, <2>2 DEF InCleaner
  <2> QED
    BY <1>7, <2>2, <2>3, RemoveIDsLeaves, PostponeLeaves DEF CleanFails, CleanRemove, ledgerVars
<1>8. CASE \/ \E r \in Rows : DeadlinePasses(r)
           \/ ReadDue \/ CleanDelete \/ KillAndStart
           \/ \E a \in Pikpaks : DeleteAccount(a)
           \/ UNCHANGED fileVars
  BY <1>8 DEF DeadlinePasses, ReadDue, CleanDelete, KillAndStart, DeleteAccount, fileVars, ledgerVars
<1> QED
  BY <1>2, <1>3, <1>4, <1>5, <1>6, <1>7, <1>8 DEF FilesNext, LinkMoves, JobStep, Quiet

\* A job that was late stays so.
LEMMA LateOnlyGrows ==
    ASSUME [FilesNext]_fileVars
    PROVE  late \subseteq late'
<1>1. ASSUME NEW j \in Jobs, JobStep(j)
      PROVE  late' = late
  <2>1. CASE SourceSelection(j)
    BY <2>1 DEF SourceSelection
  <2>2. CASE ~ SourceSelection(j)
    BY <1>1, <2>2 DEF JobStep, Begin, NextAttempt, Refused, CreateFolder, RestoreShare, RecordTemp, UndoCreate, FilesFound,
                      FinishWithItems, Selection, Resume, Finalize, Cleanup, Reconcile, Detach, Elsewhere
  <2> QED
    BY <2>1, <2>2
<1>2. ASSUME ~ \E j \in Jobs : JobStep(j)
      PROVE  late \subseteq late'
  BY <1>2 DEF FilesNext, LinkMoves, LinksExpire, RenewLinks, RenewalExpires, OnlyRenewed,
     DeadlinePasses, ReadDue, CleanDelete, CleanFails, CleanRemove, NotTheCleaner,
              DeleteAccount, KillAndStart, fileVars
<1> QED
  BY <1>1, <1>2

\* Every step keeps OutliveInv.
LEMMA OutliveStep ==
    ASSUME ForgetInv, OutliveInv, [FilesNext]_fileVars
    PROVE  OutliveInv'
<1> USE DEF ForgetInv
<1> SUFFICES ASSUME NEW k \in Jobs \ late'
             PROVE  /\ at'[k] \in UnderWay => \A a \in Pikpaks : ~ InCleaner(<<k, a>>)'
                    /\ at'[k] \in WithFile => Item(k)' \in files'
                    /\ links'[k] = "valid" =>
                          /\ Item(k)' \in files' /\ ~ InCleaner(RowOf(k))'
                          /\ ledger'[RowOf(k)'].deadline = "completion"
  BY DEF OutliveInv
<1>1. k \in Jobs \ late
  BY LateOnlyGrows
<1>2. /\ at[k] \in UnderWay => \A a \in Pikpaks : ~ InCleaner(<<k, a>>)
      /\ at[k] \in WithFile => Item(k) \in files
      /\ links[k] = "valid" => /\ Item(k) \in files /\ ~ InCleaner(RowOf(k))
                               /\ ledger[RowOf(k)].deadline = "completion"
  BY <1>1 DEF OutliveInv
<1>3. /\ at'[k] \in UnderWay => at[k] \in UnderWay
      /\ at[k] \in WithFile \/ links[k] = "valid" => on'[k] = on[k] /\ (k \in selectedIDs' <=> k \in selectedIDs)
      /\ at'[k] \in WithFile => at[k] \in WithFile \/ (at[k] = "create" /\ at'[k] = "record")
      /\ links'[k] = "valid" => links[k] = "valid" \/ (at[k] \in {"finalize", "resumed"} /\ CompletionWrites(k))
  BY JobOfStep
\* The deadline of none of its rows passes.
<1>4. ASSUME NEW a \in Pikpaks, DeadlinePasses(<<k, a>>)
      PROVE  at[k] \notin UnderWay /\ (links[k] = "valid" => <<k, a>> # RowOf(k))
  <2>1. <<k, a>>[1] = k
    OBVIOUS
  <2>2. at[k] \notin UnderWay
    BY <1>4, <2>1 DEF DeadlinePasses
  <2>3. ledger[<<k, a>>].deadline = "completion" => links[k] # "valid"
    BY <1>4, <2>1 DEF DeadlinePasses
  <2> QED
    BY <1>2, <2>2, <2>3
<1>5. ASSUME at[k] \in UnderWay, NEW a \in Pikpaks
      PROVE  ~ InCleaner(<<k, a>>)'
  <2>1. <<k, a>> \in Rows
    BY DEF Rows
  <2> QED
    BY <1>2, <1>4, <1>5, <2>1, CleanerStep
<1>6. at[k] \in WithFile => at[k] \in UnderWay /\ on[k] \in Pikpaks
  BY DEF WithFile, UnderWay, JobsTyped, OnAccount
<1>7. links[k] = "valid" => on[k] \in Pikpaks /\ at[k] \in {"completed", "uncertain"}
  BY DEF JobsTyped
<1>8. on[k] \in Pikpaks => RowOf(k) \in Rows /\ RowOf(k) = <<k, on[k]>>
  BY FilesOfAttempt
<1>9. at[k] \in WithFile \/ links[k] = "valid" => Item(k)' = Item(k) /\ RowOf(k)' = RowOf(k)
  BY <1>3 DEF Item, RowOf
<1>10. ASSUME at[k] \in WithFile \/ links[k] = "valid", ~ UndoCreate(k), ~ Cleanup(k)
       PROVE  Item(k)' \in files'
  BY <1>2, <1>6, <1>7, <1>8, <1>9, <1>10, ItemStays
<1>11. UndoCreate(k) \/ Cleanup(k) => at'[k] \notin WithFile /\ at[k] \in UnderWay /\ links'[k] = links[k]
  BY DEF UndoCreate, Cleanup, Steps, GoesTo, JobsTyped, WithFile, UnderWay
<1>12. ASSUME at[k] = "create", at'[k] = "record"
       PROVE  Item(k)' \in files'
  <2>1. CreateFolder(k) \/ RestoreShare(k)
    <3>1. ASSUME NEW j \in Jobs, JobStep(j)
          PROVE  j = k
      <4>1. at' = [at EXCEPT ![j] = at'[j]]
        <5> USE DEF Steps, GoesTo, JobsTyped
        <5>1. CASE Begin(j) \/ NextAttempt(j) \/ Refused(j) \/ CreateFolder(j) \/ RestoreShare(j)
          BY <5>1 DEF Begin, NextAttempt, Refused, CreateFolder, RestoreShare
        <5>2. CASE SourceSelection(j) \/ RecordTemp(j) \/ UndoCreate(j) \/ FilesFound(j) \/ FinishWithItems(j)
          BY <5>2 DEF SourceSelection, RecordTemp, UndoCreate, FilesFound, FinishWithItems
        <5>3. CASE Selection(j) \/ Resume(j) \/ Finalize(j) \/ Cleanup(j) \/ Reconcile(j) \/ Detach(j)
          BY <5>3 DEF Selection, Resume, Finalize, Cleanup, Reconcile, Detach
        <5> QED
          BY <3>1, <5>1, <5>2, <5>3 DEF JobStep
      <4> QED
        BY <1>12, <4>1 DEF JobsTyped
    <3>2. ASSUME JobStep(k), ~ (CreateFolder(k) \/ RestoreShare(k))
          PROVE  at[k] # "create" \/ at'[k] # "record"
      BY <3>2 DEF JobStep, Begin, NextAttempt, Refused, SourceSelection, RecordTemp, UndoCreate, FilesFound,
                  FinishWithItems, Selection, Resume, Finalize, Cleanup, Reconcile, Detach, Steps
    <3>3. ASSUME \A j \in Jobs : ~ JobStep(j)
          PROVE  at'[k] = at[k] \/ at'[k] \in Over
      BY <3>3 DEF FilesNext, LinkMoves, LinksExpire, RenewLinks, RenewalExpires, OnlyRenewed,
         DeadlinePasses, ReadDue, CleanDelete, CleanFails, CleanRemove,
                  NotTheCleaner, DeleteAccount, KillAndStart, fileVars, jobVars, Over
    <3> QED
      BY <1>12, <3>1, <3>2, <3>3 DEF Over
  <2>2. Item(k) \in files' /\ UNCHANGED <<on, selectedIDs>>
    BY <1>12, <2>1 DEF CreateFolder, RestoreShare, Steps, GoesTo, OnlyFiles, Elsewhere, JobsTyped
  <2> QED
    BY <2>2 DEF Item, RowOf
<1>13. at'[k] \in UnderWay => \A a \in Pikpaks : ~ InCleaner(<<k, a>>)'
  BY <1>3, <1>5
<1>14. at'[k] \in WithFile => Item(k)' \in files'
  BY <1>3, <1>10, <1>11, <1>12
<1>15. ASSUME links'[k] = "valid"
       PROVE  /\ Item(k)' \in files' /\ ~ InCleaner(RowOf(k))'
              /\ ledger'[RowOf(k)'].deadline = "completion"
  <2>1. CASE links[k] = "valid"
    <3>1. at[k] \in Over /\ at[k] \notin UnderWay
      BY <1>7, <2>1 DEF Over, UnderWay
    <3>2. Item(k)' \in files'
      BY <1>10, <1>11, <2>1, <3>1
    <3>3. RowOf(k) \in Rows /\ ~ DeadlinePasses(RowOf(k))
      BY <1>4, <1>7, <1>8, <2>1
    <3>4. ~ InCleaner(RowOf(k))'
      <4> DEFINE q == RowOf(k)
      <4>1. RowOf(k)' = q
        BY <1>9, <2>1
      <4>2. q \in Rows /\ ~ InCleaner(q) /\ ~ DeadlinePasses(q)
        BY <1>2, <2>1, <3>3
      <4> QED
        BY <4>1, <4>2, CleanerStep DEF InCleaner
    <3>5. ledger'[RowOf(k)].deadline = "completion"
      BY <1>2, <1>7, <2>1, <3>1, DeadlineStays
    <3> QED
      BY <1>9, <2>1, <3>2, <3>4, <3>5
  <2>2. CASE at[k] \in {"finalize", "resumed"} /\ CompletionWrites(k)
    <3>1. at[k] \in WithFile
      BY <2>2 DEF WithFile
    <3>2. ~ UndoCreate(k) /\ ~ Cleanup(k)
      BY <2>2 DEF UndoCreate, Cleanup, Steps
    <3>3. Item(k)' \in files'
      BY <1>10, <3>1, <3>2
    <3>4. RowOf(k) \in Rows /\ RowOf(k)' = <<k, on[k]>> /\ RowOf(k)' = RowOf(k) /\ on[k] \in Pikpaks
      BY <1>6, <1>8, <1>9, <3>1
    <3>5. ~ InCleaner(RowOf(k))'
      <4>1. \A a \in Pikpaks : ~ InCleaner(<<k, a>>)'
        BY <1>5, <1>6, <3>1
      <4>2. on'[k] \in Pikpaks /\ RowOf(k)' = <<k, on'[k]>>
        BY <1>3, <3>1, <3>4 DEF RowOf
      <4> QED
        BY <4>1, <4>2 DEF InCleaner
    <3>6. ledger'[RowOf(k)].deadline = "completion"
      <4> DEFINE ids == tempIDs[k] \union {Item(k)}
      <4>1. tempAccount[k] \in {NoPikpak, on[k]} /\ RecordTx(RowOf(k), ids, "completion")
        BY <2>2 DEF CompletionWrites
      <4>2. ids \in SUBSET Files
        BY <3>4, <4>1, OwnFits, FilesOfAttempt
      <4> HIDE DEF ids
      <4> QED
        BY <3>4, <4>1, <4>2, RecordTxLeaves
    <3> QED
      BY <3>3, <3>4, <3>5, <3>6
  <2> QED
    BY <1>3, <1>15, <2>1, <2>2
<1> QED
  BY <1>13, <1>14, <1>15

\* The files of a completed job are there until the links expire that its completion
\* stored, however they are renewed meanwhile, unless the job was under way when its
\* files were due, for any jobs, accounts, batch limit and number of mishaps
\* (finalizeCompletedJob, recordTx, proxyDeferredCleanupAfter).  What carries it: until
\* then the cleaner has no row of the job, and from its completion on the deadline of
\* the row is that of those links.  Links that were renewed may be valid longer.
THEOREM FilesOutliveFirstExpiry == FilesSpec => []FilesOutliveFirstLinks
<1>1. FilesInit => ForgetInv /\ OutliveInv
  <2>1. FilesInit => ForgetInv
    BY ForgetInit
  <2>2. FilesInit => OutliveInv
    <3> SUFFICES ASSUME FilesInit
                 PROVE  OutliveInv
      OBVIOUS
    <3>1. Range(dueRows) = {} /\ Len(batch) = 0
      BY DEF FilesInit, Range
    <3> QED
      BY <3>1 DEF FilesInit, OutliveInv, InCleaner, WithFile
  <2> QED
    BY <2>1, <2>2
<1>2. ForgetInv /\ OutliveInv /\ [FilesNext]_fileVars => ForgetInv' /\ OutliveInv'
  BY ForgetStep, OutliveStep
<1>3. OutliveInv => FilesOutliveFirstLinks
  BY DEF OutliveInv, FilesOutliveFirstLinks
<1> QED
  BY <1>1, <1>2, <1>3, PTL DEF FilesSpec

-----------------------------------------------------------------------------
(* LibraryTree.                                                            *)

Nodes == Entries \union {Root}
Up(par, x) == IF x = Root THEN Root ELSE par[x]

\* A walk by its steps, without the recursion.
IsWalk(f, par, p) ==
    /\ f \in [0 .. MaxDepth -> Nodes]
    /\ f[0] = p
    /\ \A n \in 0 .. MaxDepth - 1 : f[n + 1] = Up(par, f[n])

\* What the walk of validateLibraryParent computes is a walk: were there a first
\* row up to which none exists, one more step would make one.
LEMMA WalkOf ==
    ASSUME NEW par \in [Entries -> Nodes], NEW p \in Nodes
    PROVE  LET up[n \in 0 .. MaxDepth] ==
                   IF n = 0 THEN p ELSE IF up[n - 1] = Root THEN Root ELSE par[up[n - 1]]
           IN  IsWalk(up, par, p)
<1> DEFINE step(f, n) == IF n = 0 THEN p ELSE IF f[n - 1] = Root THEN Root ELSE par[f[n - 1]]
           Part(k) == {f \in [0 .. k -> Nodes] : \A n \in 0 .. k : f[n] = step(f, n)}
           Missing == {k \in 0 .. MaxDepth : Part(k) = {}}
<1>1. Missing = {}
  <2> SUFFICES ASSUME Missing # {} PROVE FALSE
    OBVIOUS
  <2>1. Missing \in SUBSET Nat
    BY TreeAssumption
  <2> DEFINE k == Min(Missing)
  <2>2. k \in 0 .. MaxDepth /\ Part(k) = {} /\ \A n \in 0 .. MaxDepth : n < k => Part(n) # {}
    <3>1. k \in Missing /\ \A n \in Missing : k <= n
      <4> HIDE DEF Missing
      <4> QED
        BY <2>1, LeastMember
    <3>2. k \in 0 .. MaxDepth /\ Part(k) = {}
      BY <3>1
    <3>3. \A n \in 0 .. MaxDepth : n < k => n \notin Missing
      <4>1. \A n \in Missing : ~ (n < k)
        <5> HIDE DEF Missing, k
        <5> QED
          BY <2>1, <3>1, <3>2
      <4> QED
        BY <4>1
    <3> HIDE DEF k
    <3> QED
      BY <3>2, <3>3
  <2> HIDE DEF k
  <2>3. k # 0
    <3>1. [n \in 0 .. 0 |-> p] \in Part(0)
      OBVIOUS
    <3> QED
      BY <3>1, <2>2
  <2>4. k - 1 \in 0 .. MaxDepth /\ k - 1 < k /\ k \in Nat /\ 0 .. (k - 1) \subseteq 0 .. k
    BY <2>2, <2>3, TreeAssumption
  <2>5. PICK f \in [0 .. (k - 1) -> Nodes] : \A n \in 0 .. (k - 1) : f[n] = step(f, n)
    BY <2>2, <2>4
  <2> DEFINE g == [n \in 0 .. k |-> IF n = k THEN Up(par, f[k - 1]) ELSE f[n]]
  <2>6. \A n \in 0 .. k : n # k => n \in 0 .. (k - 1)
    BY <2>4
  <2>7. k - 1 \in 0 .. (k - 1)
    BY <2>2, <2>3
  <2>8. g \in [0 .. k -> Nodes]
    BY <2>5, <2>6, <2>7 DEF Up, Nodes
  <2>9. \A n \in 0 .. k : g[n] = step(g, n)
    <3>1. g[k] = step(g, k)
      BY <2>2, <2>3, <2>4, <2>7 DEF Up
    <3>2. ASSUME NEW n \in 0 .. (k - 1)
          PROVE  g[n] = step(g, n)
      <4>1. g[n] = f[n] /\ n \in 0 .. k /\ n # k
        BY <2>4
      <4>2. n # 0 => n - 1 \in 0 .. k /\ n - 1 # k /\ g[n - 1] = f[n - 1]
        BY <2>4
      <4> QED
        BY <2>5, <4>1, <4>2
    <3> QED
      BY <2>6, <3>1, <3>2
  <2> QED
    BY <2>2, <2>8, <2>9
<1>2. PICK f \in [0 .. MaxDepth -> Nodes] : \A n \in 0 .. MaxDepth : f[n] = step(f, n)
  <2>1. MaxDepth \in 0 .. MaxDepth
    BY TreeAssumption
  <2> QED
    BY <1>1, <2>1
<1> DEFINE up[n \in 0 .. MaxDepth] == IF n = 0 THEN p ELSE IF up[n - 1] = Root THEN Root ELSE par[up[n - 1]]
<1>3. f = [n \in 0 .. MaxDepth |-> step(f, n)]
  BY <1>2
<1>4. up = [n \in 0 .. MaxDepth |-> step(up, n)]
  BY <1>3
<1> HIDE DEF up
<1>5. up[0] = p
  BY <1>4, TreeAssumption
<1>6. \A n \in 0 .. MaxDepth - 1 : up[n + 1] = Up(par, up[n])
  <2> SUFFICES ASSUME NEW n \in 0 .. MaxDepth - 1
               PROVE  up[n + 1] = Up(par, up[n])
    OBVIOUS
  <2>1. n + 1 \in 0 .. MaxDepth /\ n + 1 # 0 /\ n + 1 - 1 = n
    BY TreeAssumption
  <2>2. up[n + 1] = step(up, n + 1)
    BY <1>4, <2>1
  <2> QED
    BY <2>1, <2>2 DEF Up
<1>7. \A n \in 0 .. MaxDepth : up[n] \in Nodes
  <2> DEFINE Outside == {n \in 0 .. MaxDepth : up[n] \notin Nodes}
  <2> SUFFICES ASSUME Outside # {} PROVE FALSE
    OBVIOUS
  <2>1. Outside \in SUBSET Nat
    BY TreeAssumption
  <2>2. PICK k \in Outside : \A n \in Outside : k <= n
    <3> HIDE DEF Outside
    <3> QED
      BY <2>1, LeastMember
  <2>3. k # 0 /\ k \in 0 .. MaxDepth /\ up[k] \notin Nodes
    BY <1>5
  <2>4. k - 1 \in 0 .. MaxDepth - 1 /\ k - 1 \in 0 .. MaxDepth /\ ~ (k <= k - 1) /\ k - 1 + 1 = k
    BY <2>3, TreeAssumption
  <2>5. up[k - 1] \in Nodes
    BY <2>2, <2>4
  <2>6. up[k] = Up(par, up[k - 1])
    BY <1>6, <2>4
  <2> QED
    BY <2>3, <2>5, <2>6 DEF Up, Nodes
<1>8. up \in [0 .. MaxDepth -> Nodes]
  BY <1>4, <1>7
<1> QED
  BY <1>5, <1>6, <1>8 DEF IsWalk, up

\* The walk of an entry follows its parents.
LEMMA WalkIs == TreeTypeOK => \A p \in Nodes : IsWalk(Walk(p), parent, p)
  BY WalkOf DEF TreeTypeOK, Walk, Nodes

\* After a step it follows the parents there are then.
LEMMA WalkIsThen == TreeTypeOK' => \A p \in Nodes : IsWalk(Walk(p)', parent', p)
  BY WalkOf DEF TreeTypeOK, Walk, Nodes

\* There is one walk only.
LEMMA WalkUnique ==
    ASSUME NEW par, NEW p, NEW f, IsWalk(f, par, p), NEW g, IsWalk(g, par, p)
    PROVE  f = g
<1> DEFINE Differ == {n \in 0 .. MaxDepth : f[n] # g[n]}
<1>1. Differ = {}
  <2> SUFFICES ASSUME Differ # {} PROVE FALSE
    OBVIOUS
  <2>1. Differ \in SUBSET Nat
    BY TreeAssumption
  <2>2. PICK k \in Differ : \A n \in Differ : k <= n
    <3> HIDE DEF Differ
    <3> QED
      BY <2>1, LeastMember
  <2>3. k # 0 /\ k \in 0 .. MaxDepth /\ f[k] # g[k]
    BY DEF IsWalk
  <2>4. k - 1 \in 0 .. MaxDepth - 1 /\ k - 1 \in 0 .. MaxDepth /\ ~ (k <= k - 1) /\ k - 1 + 1 = k
    BY <2>3, TreeAssumption
  <2>5. f[k - 1] = g[k - 1]
    BY <2>2, <2>4
  <2> QED
    BY <2>3, <2>4, <2>5 DEF IsWalk
<1>2. \A n \in 0 .. MaxDepth : f[n] = g[n]
  BY <1>1
<1>3. f = [n \in 0 .. MaxDepth |-> f[n]] /\ g = [n \in 0 .. MaxDepth |-> g[n]]
  BY DEF IsWalk
<1> HIDE DEF Differ
<1> QED
  BY <1>2, <1>3

\* From any of its rows a walk goes on as the walk that begins there, at the top
\* for ever.
LEMMA WalkGoesOn ==
    ASSUME NEW par, NEW p, NEW f, IsWalk(f, par, p), NEW n \in 0 .. MaxDepth, NEW g, IsWalk(g, par, f[n])
    PROVE  \A k \in 0 .. MaxDepth : n + k <= MaxDepth => f[n + k] = g[k]
<1> DEFINE Differ == {k \in 0 .. MaxDepth : n + k <= MaxDepth /\ f[n + k] # g[k]}
<1>1. Differ = {}
  <2> SUFFICES ASSUME Differ # {} PROVE FALSE
    OBVIOUS
  <2>1. Differ \in SUBSET Nat
    BY TreeAssumption
  <2>2. PICK k \in Differ : \A m \in Differ : k <= m
    <3> HIDE DEF Differ
    <3> QED
      BY <2>1, LeastMember
  <2>3. k # 0 /\ k \in 0 .. MaxDepth /\ n + k <= MaxDepth /\ f[n + k] # g[k]
    BY TreeAssumption DEF IsWalk
  <2>4. /\ k - 1 \in 0 .. MaxDepth - 1 /\ k - 1 \in 0 .. MaxDepth /\ ~ (k <= k - 1) /\ k - 1 + 1 = k
        /\ n + (k - 1) \in 0 .. MaxDepth - 1 /\ n + (k - 1) <= MaxDepth /\ n + (k - 1) + 1 = n + k
    BY <2>3, TreeAssumption
  <2>5. f[n + (k - 1)] = g[k - 1]
    BY <2>2, <2>4
  <2>6. f[n + k] = Up(par, f[n + (k - 1)])
    BY <2>4 DEF IsWalk
  <2>7. g[k] = Up(par, g[k - 1])
    BY <2>4 DEF IsWalk
  <2> QED
    BY <2>3, <2>5, <2>6, <2>7
<1> QED
  BY <1>1

\* A walk that is at the root stays there.
LEMMA TopIsTheEnd ==
    ASSUME NEW par, NEW p, NEW f, IsWalk(f, par, p), NEW n \in 0 .. MaxDepth, f[n] = Root
    PROVE  \A m \in 0 .. MaxDepth : n <= m => f[m] = Root
<1> DEFINE g == [k \in 0 .. MaxDepth |-> Root]
<1>1. IsWalk(g, par, f[n])
  BY TreeAssumption DEF IsWalk, Up, Nodes
<1>2. \A k \in 0 .. MaxDepth : n + k <= MaxDepth => f[n + k] = g[k]
  <2> HIDE DEF g
  <2> QED
    BY <1>1, WalkGoesOn
<1>3. \A m \in 0 .. MaxDepth : n <= m => m - n \in 0 .. MaxDepth /\ n + (m - n) = m
  BY TreeAssumption
<1> QED
  BY <1>2, <1>3

\* The number of rows a walk passes is the place of the top.
LEMMA AboveIs ==
    ASSUME NEW par, NEW p, NEW f, IsWalk(f, par, p), f[MaxDepth] = Root
    PROVE  LET above == Cardinality({n \in 0 .. MaxDepth : f[n] # Root})
           IN  above \in 0 .. MaxDepth /\ f[above] = Root
<1> DEFINE Tops == {n \in 0 .. MaxDepth : f[n] = Root}
<1>1. Tops \in SUBSET Nat /\ MaxDepth \in Tops
  BY TreeAssumption
<1>2. PICK k \in Tops : \A n \in Tops : k <= n
  <2> HIDE DEF Tops
  <2> QED
    BY <1>1, LeastMember
<1>3. k \in 0 .. MaxDepth /\ f[k] = Root /\ k \in Nat
  BY TreeAssumption
<1>4. \A n \in 0 .. MaxDepth : f[n] # Root <=> n < k
  <2>1. \A n \in 0 .. MaxDepth : k <= n => f[n] = Root
    BY <1>3, TopIsTheEnd
  <2>2. \A n \in 0 .. MaxDepth : n < k => n \notin Tops
    <3> HIDE DEF Tops
    <3> QED
      BY <1>1, <1>2
  <2> QED
    BY <1>3, <2>1, <2>2
<1>5. {n \in 0 .. MaxDepth : f[n] # Root} = 0 .. k - 1
  BY <1>3, <1>4, TreeAssumption
<1>6. Cardinality(0 .. k - 1) = k
  <2>1. 0 \in Int /\ k - 1 \in Int
    BY <1>3
  <2>2. Cardinality(0 .. k - 1) = IF 0 > k - 1 THEN 0 ELSE k - 1 - 0 + 1
    BY <2>1, FS_Interval
  <2> QED
    BY <1>3, <2>2
<1> QED
  BY <1>3, <1>5, <1>6

\* The height of an entry bounds the walks from what is under it.
LEMMA HeightIs ==
    ASSUME TreeTypeOK, NEW e \in Entries
    PROVE  /\ Height(e) \in Nat /\ Height(e) >= 1
           /\ \A d \in Under(e) :
                 \E l \in 0 .. MaxDepth :
                    /\ Walk(d)[l] = e /\ l + 1 <= Height(e)
                    /\ \A n \in 0 .. MaxDepth : n < l => Walk(d)[n] # e
<1> DEFINE Levels == {0} \union {Level(e, d) : d \in Under(e)}
<1>1. \A d \in Under(e) : Level(e, d) \in 0 .. MaxDepth /\ Walk(d)[Level(e, d)] = e
  BY DEF Under, Level
<1>2. Levels \in SUBSET (0 .. MaxDepth) /\ Levels # {} /\ 0 \in Levels /\ MaxDepth \in Nat
  BY <1>1, TreeAssumption
<1>3. Max(Levels) \in Levels /\ \A k \in Levels : k <= Max(Levels)
  <2> HIDE DEF Levels
  <2> QED
    BY <1>2, GreatestMember
<1>4. PICK top \in 0 .. MaxDepth : Height(e) = 1 + top /\ \A k \in Levels : k <= top
  <2>1. Height(e) = 1 + Max(Levels)
    BY DEF Height
  <2> HIDE DEF Levels
  <2> QED
    BY <1>2, <1>3, <2>1
<1>5. ASSUME NEW d \in Under(e)
      PROVE  \E l \in 0 .. MaxDepth :
                /\ Walk(d)[l] = e /\ l + 1 <= Height(e)
                /\ \A n \in 0 .. MaxDepth : n < l => Walk(d)[n] # e
  <2> DEFINE Meets == {n \in 0 .. MaxDepth : Walk(d)[n] = e}
  <2>1. Meets \in SUBSET Nat /\ Level(e, d) \in Meets
    BY <1>1, TreeAssumption
  <2>2. PICK l \in Meets : \A n \in Meets : l <= n
    <3> HIDE DEF Meets
    <3> QED
      BY <2>1, LeastMember
  <2>3. l \in 0 .. MaxDepth /\ Walk(d)[l] = e
    OBVIOUS
  <2>4. l <= Level(e, d) /\ Level(e, d) <= top /\ Level(e, d) \in 0 .. MaxDepth
    BY <1>1, <1>4, <2>1, <2>2
  <2>5. \A n \in 0 .. MaxDepth : n < l => n \notin Meets
    <3> HIDE DEF Meets
    <3> QED
      BY <2>1, <2>2
  <2> HIDE DEF Levels
  <2> QED
    BY <1>2, <1>4, <2>3, <2>4, <2>5
<1> HIDE DEF Levels
<1> QED
  BY <1>4, <1>5, <1>2

\* A walk that meets no row whose parent changes is the same walk.
LEMMA SameWalk ==
    ASSUME TreeTypeOK, TreeTypeOK', NEW d \in Nodes,
           \A n \in 0 .. MaxDepth : Walk(d)[n] # Root => parent'[Walk(d)[n]] = parent[Walk(d)[n]]
    PROVE  Walk(d)' = Walk(d)
<1>1. IsWalk(Walk(d), parent, d) /\ IsWalk(Walk(d)', parent', d)
  BY WalkIs, WalkIsThen
<1>2. IsWalk(Walk(d), parent', d)
  BY <1>1, TreeAssumption DEF IsWalk, Up
<1> QED
  BY <1>1, <1>2, WalkUnique

\* A valid parent: the walk from it does not meet the entry, and ends.
LEMMA ValidParent ==
    ASSUME TreeTypeOK, TreeTypeOK', NEW p \in Nodes, NEW e \in Entries, ParentIsValid(p, e),
           parent' = [parent EXCEPT ![e] = p]
    PROVE  /\ \A n \in 0 .. MaxDepth : Walk(p)[n] # Root => Walk(p)[n] # e /\ kind[Walk(p)[n]] = "folder"
           /\ Above(p) \in 0 .. MaxDepth /\ Walk(p)[Above(p)] = Root
           /\ Above(p) + Height(e) <= MaxDepth
           /\ Walk(p)' = Walk(p)
<1>1. IsWalk(Walk(p), parent, p) /\ Walk(p)[MaxDepth] = Root
  BY WalkIs DEF ParentIsValid
<1>2. \A n \in 0 .. MaxDepth : n = MaxDepth \/ n \in 0 .. MaxDepth - 1
  BY TreeAssumption
<1>3. \A n \in 0 .. MaxDepth : Walk(p)[n] # Root => Walk(p)[n] # e /\ kind[Walk(p)[n]] = "folder"
  BY <1>1, <1>2 DEF ParentIsValid
<1>4. Above(p) \in 0 .. MaxDepth /\ Walk(p)[Above(p)] = Root
  BY <1>1, AboveIs DEF Above
<1>5. \A n \in 0 .. MaxDepth : Walk(p)[n] # Root => parent'[Walk(p)[n]] = parent[Walk(p)[n]]
  BY <1>1, <1>3 DEF IsWalk, TreeTypeOK, Nodes
<1>6. Walk(p)' = Walk(p)
  BY <1>5, SameWalk
<1> QED
  BY <1>3, <1>4, <1>6 DEF ParentIsValid

\* An entry whose walk meets e goes, after e was put under p, to e and on from p.
LEMMA MovedWalk ==
    ASSUME TreeTypeOK, TreeTypeOK', NEW p \in Nodes, NEW e \in Entries, ParentIsValid(p, e),
           parent' = [parent EXCEPT ![e] = p],
           NEW d \in Entries, NEW l \in 0 .. MaxDepth, Walk(d)[l] = e, l + 1 <= Height(e),
           \A n \in 0 .. MaxDepth : n < l => Walk(d)[n] # e
    PROVE  /\ Walk(d)'[MaxDepth] = Root
           /\ \A n \in 1 .. MaxDepth : Walk(d)'[n] # Root =>
                 \/ n <= l /\ Walk(d)'[n] = Walk(d)[n]
                 \/ kind[Walk(d)'[n]] = "folder" /\ Walk(d)'[n] # e
<1> DEFINE f == Walk(d)
           w == Walk(p)
           g == [n \in 0 .. MaxDepth |-> IF n <= l THEN f[n] ELSE w[n - l - 1]]
           above == Above(p)
<1>1. IsWalk(f, parent, d) /\ IsWalk(w, parent, p)
  BY WalkIs DEF Nodes
<1>2. /\ \A n \in 0 .. MaxDepth : w[n] # Root => w[n] # e /\ kind[w[n]] = "folder"
      /\ above \in 0 .. MaxDepth /\ w[above] = Root /\ above + Height(e) <= MaxDepth
  BY ValidParent
<1>3. Height(e) \in Nat
  BY HeightIs
<1>4. l + 1 + above <= MaxDepth
  BY <1>2, <1>3, TreeAssumption
<1>5. IsWalk(Walk(d)', parent', d)
  BY WalkIsThen DEF Nodes
<1>6. parent' \in [Entries -> Nodes] /\ parent'[e] = p /\ \A x \in Entries \ {e} : parent'[x] = parent[x]
  BY DEF TreeTypeOK, Nodes
<1> HIDE DEF f, w, above
<1>7. IsWalk(g, parent', d)
  <2>1. /\ f \in [0 .. MaxDepth -> Nodes] /\ f[0] = d
        /\ w \in [0 .. MaxDepth -> Nodes] /\ w[0] = p
        /\ \A n \in 0 .. MaxDepth - 1 : f[n + 1] = Up(parent, f[n]) /\ w[n + 1] = Up(parent, w[n])
    BY <1>1 DEF IsWalk
  <2>2. \A n \in 0 .. MaxDepth : ~ (n <= l) => n - l - 1 \in 0 .. MaxDepth
    BY TreeAssumption
  <2>3. g \in [0 .. MaxDepth -> Nodes]
    BY <2>1, <2>2
  <2>4. g[0] = d
    BY <2>1, TreeAssumption
  <2>5. ASSUME NEW n \in 0 .. MaxDepth - 1
        PROVE  g[n + 1] = Up(parent', g[n])
    <3>1. n \in 0 .. MaxDepth /\ n + 1 \in 0 .. MaxDepth /\ n \in Nat /\ l \in Nat
      BY TreeAssumption
    <3>2. CASE n < l
      <4>1. g[n + 1] = f[n + 1] /\ g[n] = f[n]
        BY <3>1, <3>2
      <4>2. f[n] # e /\ f[n] \in Nodes
        BY <2>1, <3>1, <3>2 DEF f
      <4> QED
        BY <1>6, <2>1, <4>1, <4>2 DEF Up, Nodes
    <3>3. CASE n = l
      <4>1. g[n + 1] = w[0] /\ g[n] = e
        BY <3>1, <3>3 DEF f
      <4> QED
        BY <1>6, <2>1, <4>1, TreeAssumption DEF Up
    <3>4. CASE n > l
      <4> DEFINE m == n - l - 1
      <4>1. m \in 0 .. MaxDepth - 1 /\ m \in 0 .. MaxDepth /\ n + 1 - l - 1 = m + 1
        BY <3>1, <3>4, TreeAssumption
      <4>2. g[n + 1] = w[m + 1] /\ g[n] = w[m]
        BY <3>1, <3>4, <4>1
      <4> HIDE DEF m, g
      <4>3. w[m] # Root => w[m] # e /\ w[m] \in Entries
        BY <1>2, <2>1, <4>1 DEF Nodes
      <4> QED
        BY <1>6, <2>1, <4>1, <4>2, <4>3 DEF Up
    <3> QED
      BY <3>1, <3>2, <3>3, <3>4
  <2> HIDE DEF g
  <2> QED
    BY <2>3, <2>4, <2>5 DEF IsWalk
<1>8. Walk(d)' = g
  <2> HIDE DEF g
  <2> QED
    BY <1>5, <1>7, WalkUnique
<1>9. g[MaxDepth] = Root
  <2>1. MaxDepth - l - 1 \in 0 .. MaxDepth /\ above <= MaxDepth - l - 1 /\ ~ (MaxDepth <= l)
    BY <1>2, <1>4, TreeAssumption
  <2>2. w[MaxDepth - l - 1] = Root
    BY <1>1, <1>2, <2>1, TopIsTheEnd
  <2> QED
    BY <2>1, <2>2, TreeAssumption
<1>10. ASSUME NEW n \in 1 .. MaxDepth, g[n] # Root
       PROVE  (n <= l /\ g[n] = f[n]) \/ (kind[g[n]] = "folder" /\ g[n] # e)
  <2>1. n \in 0 .. MaxDepth /\ (~ (n <= l) => n - l - 1 \in 0 .. MaxDepth)
    BY TreeAssumption
  <2> QED
    BY <1>2, <1>10, <2>1
<1> QED
  BY <1>8, <1>9, <1>10 DEF f

\* The walk of an entry of the catalog meets stored entries only.
LEMMA StoredWalk ==
    ASSUME TreeTypeOK, CatalogIsATree, NEW d \in Stored, NEW n \in 0 .. MaxDepth, Walk(d)[n] # Root
    PROVE  Walk(d)[n] \in Stored
<1>1. IsWalk(Walk(d), parent, d)
  BY WalkIs DEF Stored, Nodes
<1>2. n = 0 \/ n \in 1 .. MaxDepth
  BY TreeAssumption
<1> QED
  BY <1>1, <1>2 DEF IsWalk, CatalogIsATree, Stored, Nodes

TreeInv == TreeTypeOK /\ CatalogIsATree

\* A new entry under an old one keeps the tree.
LEMMA CreateKeepsTree ==
    ASSUME TreeInv, CreateEntry
    PROVE  TreeInv'
<1>1. PICK e \in Entries \ Stored, p \in Nodes, k \in {"folder", "resource"} :
        ParentIsValid(p, e) /\ kind' = [kind EXCEPT ![e] = k] /\ parent' = [parent EXCEPT ![e] = p]
  BY DEF CreateEntry, Nodes
<1>2. TreeTypeOK /\ TreeTypeOK' /\ CatalogIsATree
  BY <1>1 DEF TreeInv, TreeTypeOK, Nodes
<1>3. /\ \A x \in Entries \ {e} : kind'[x] = kind[x] /\ parent'[x] = parent[x]
      /\ kind[e] = "none" /\ Stored' = Stored \union {e}
  BY <1>1, <1>2 DEF TreeTypeOK, Stored
<1>4. ASSUME NEW d \in Stored
      PROVE  Walk(d)' = Walk(d)
  <2>1. \A n \in 0 .. MaxDepth : Walk(d)[n] # Root => parent'[Walk(d)[n]] = parent[Walk(d)[n]]
    BY <1>1, <1>2, <1>3, StoredWalk DEF Stored
  <2> QED
    BY <1>2, <2>1, SameWalk DEF Stored, Nodes
<1>5. ASSUME NEW d \in Stored
      PROVE  /\ Walk(d)'[MaxDepth] = Root
             /\ \A n \in 1 .. MaxDepth : Walk(d)'[n] # Root => kind'[Walk(d)'[n]] = "folder"
  <2>1. /\ Walk(d)[MaxDepth] = Root
        /\ \A n \in 1 .. MaxDepth : Walk(d)[n] # Root => kind[Walk(d)[n]] = "folder"
    BY <1>2 DEF CatalogIsATree
  <2>2. \A n \in 1 .. MaxDepth : Walk(d)[n] # Root => Walk(d)[n] \in Stored
    BY <1>2, StoredWalk, TreeAssumption
  <2> QED
    BY <1>3, <1>4, <2>1, <2>2 DEF Stored
<1>6. /\ Walk(e)'[MaxDepth] = Root
      /\ \A n \in 1 .. MaxDepth : Walk(e)'[n] # Root => kind'[Walk(e)'[n]] = "folder"
  <2>1. IsWalk(Walk(e), parent, e) /\ IsWalk(Walk(e)', parent', e)
    BY <1>2, WalkIs, WalkIsThen DEF Nodes
  <2>2. 0 \in 0 .. MaxDepth /\ Walk(e)[0] = e /\ 0 + 1 <= Height(e)
    BY <1>2, <2>1, HeightIs, TreeAssumption DEF IsWalk
  <2>3. \A n \in 0 .. MaxDepth : n < 0 => Walk(e)[n] # e
    BY TreeAssumption
  <2>4. /\ Walk(e)'[MaxDepth] = Root
        /\ \A n \in 1 .. MaxDepth : Walk(e)'[n] # Root =>
              \/ n <= 0 /\ Walk(e)'[n] = Walk(e)[n]
              \/ kind[Walk(e)'[n]] = "folder" /\ Walk(e)'[n] # e
    BY <1>1, <1>2, <2>2, <2>3, MovedWalk
  <2>5. \A n \in 1 .. MaxDepth : ~ (n <= 0) /\ Walk(e)'[n] \in Nodes
    BY <2>1, TreeAssumption DEF IsWalk
  <2> QED
    BY <1>3, <2>4, <2>5 DEF Nodes
<1> QED
  BY <1>2, <1>3, <1>5, <1>6 DEF TreeInv, CatalogIsATree

\* So does a move that is not under itself and not too deep.
LEMMA MoveKeepsTree ==
    ASSUME TreeInv, MoveEntry
    PROVE  TreeInv'
<1>1. PICK e \in Stored, p \in Nodes :
        ParentIsValid(p, e) /\ parent' = [parent EXCEPT ![e] = p] /\ kind' = kind
  BY DEF MoveEntry, Nodes
<1>2. TreeTypeOK /\ TreeTypeOK' /\ CatalogIsATree /\ Stored' = Stored /\ e \in Entries
  BY <1>1 DEF TreeInv, TreeTypeOK, Nodes, Stored
<1>3. ASSUME NEW d \in Stored
      PROVE  /\ Walk(d)'[MaxDepth] = Root
             /\ \A n \in 1 .. MaxDepth : Walk(d)'[n] # Root => kind[Walk(d)'[n]] = "folder"
  <2>1. /\ Walk(d)[MaxDepth] = Root
        /\ \A n \in 1 .. MaxDepth : Walk(d)[n] # Root => kind[Walk(d)[n]] = "folder"
    BY <1>2 DEF CatalogIsATree
  <2>2. CASE d \in Under(e)
    <3>1. PICK l \in 0 .. MaxDepth :
             /\ Walk(d)[l] = e /\ l + 1 <= Height(e)
             /\ \A n \in 0 .. MaxDepth : n < l => Walk(d)[n] # e
      BY <1>2, <2>2, HeightIs
    <3>2. /\ Walk(d)'[MaxDepth] = Root
          /\ \A n \in 1 .. MaxDepth : Walk(d)'[n] # Root =>
                \/ n <= l /\ Walk(d)'[n] = Walk(d)[n]
                \/ kind[Walk(d)'[n]] = "folder" /\ Walk(d)'[n] # e
      BY <1>1, <1>2, <3>1, MovedWalk DEF Stored
    <3> QED
      BY <2>1, <3>2
  <2>3. CASE d \notin Under(e)
    <3>1. \A n \in 0 .. MaxDepth : Walk(d)[n] # e
      BY <2>3 DEF Under
    <3>2. \A n \in 0 .. MaxDepth : Walk(d)[n] # Root => parent'[Walk(d)[n]] = parent[Walk(d)[n]]
      BY <1>1, <1>2, <3>1, StoredWalk DEF Stored, TreeTypeOK
    <3>3. Walk(d)' = Walk(d)
      BY <1>2, <3>2, SameWalk DEF Stored, Nodes
    <3> QED
      BY <2>1, <3>3
  <2> QED
    BY <2>2, <2>3
<1> QED
  BY <1>1, <1>2, <1>3 DEF TreeInv, CatalogIsATree

\* So does a removal of all that is under an entry.
LEMMA RemoveKeepsTree ==
    ASSUME TreeInv, RemoveEntry
    PROVE  TreeInv'
<1>1. PICK e \in Stored :
        /\ kind' = [d \in Entries |-> IF d \in Under(e) THEN "none" ELSE kind[d]]
        /\ parent' = [d \in Entries |-> IF d \in Under(e) THEN Root ELSE parent[d]]
  BY DEF RemoveEntry
<1>2. /\ TreeTypeOK /\ TreeTypeOK' /\ CatalogIsATree /\ e \in Entries
      /\ Stored' = Stored \ Under(e)
  BY <1>1 DEF TreeInv, TreeTypeOK, Stored, Nodes
<1>3. ASSUME NEW d \in Stored \ Under(e), NEW n \in 0 .. MaxDepth, Walk(d)[n] \in Under(e)
      PROVE  FALSE
  <2> DEFINE x == Walk(d)[n]
  <2>1. PICK m \in 0 .. MaxDepth : Walk(x)[m] = e
    BY <1>3 DEF Under
  <2>2. IsWalk(Walk(d), parent, d) /\ IsWalk(Walk(x), parent, x)
    BY <1>2, <1>3, WalkIs DEF Under, Stored, Nodes
  <2>3. \A k \in 0 .. MaxDepth : n + k <= MaxDepth => Walk(d)[n + k] = Walk(x)[k]
    BY <2>2, WalkGoesOn
  <2>4. CASE n + m <= MaxDepth
    <3>1. n + m \in 0 .. MaxDepth /\ Walk(d)[n + m] = e
      BY <2>1, <2>3, <2>4, TreeAssumption
    <3> QED
      BY <3>1 DEF Under
  <2>5. CASE n + m > MaxDepth
    <3>1. MaxDepth - n \in 0 .. MaxDepth /\ n + (MaxDepth - n) = MaxDepth /\ MaxDepth - n <= m
      BY <2>5, TreeAssumption
    <3>2. Walk(x)[MaxDepth - n] = Root
      BY <1>2, <2>3, <3>1 DEF CatalogIsATree
    <3>3. Walk(x)[m] = Root
      BY <2>2, <3>1, <3>2, TopIsTheEnd
    <3> QED
      BY <1>2, <2>1, <3>3, TreeAssumption
  <2> QED
    BY <2>4, <2>5, TreeAssumption
<1>4. ASSUME NEW d \in Stored \ Under(e)
      PROVE  /\ Walk(d)'[MaxDepth] = Root
             /\ \A n \in 1 .. MaxDepth : Walk(d)'[n] # Root => kind'[Walk(d)'[n]] = "folder"
  <2>1. /\ Walk(d)[MaxDepth] = Root
        /\ \A n \in 1 .. MaxDepth : Walk(d)[n] # Root => kind[Walk(d)[n]] = "folder"
    BY <1>2 DEF CatalogIsATree
  <2>2. \A n \in 0 .. MaxDepth : Walk(d)[n] # Root => Walk(d)[n] \in Stored \ Under(e)
    BY <1>2, <1>3, StoredWalk
  <2>3. \A x \in Stored \ Under(e) : kind'[x] = kind[x] /\ parent'[x] = parent[x]
    BY <1>1 DEF Stored
  <2>4. Walk(d)' = Walk(d)
    <3>1. d \in Nodes
      BY DEF Stored, Nodes
    <3> QED
      BY <1>2, <2>2, <2>3, <3>1, SameWalk
  <2>5. \A n \in 1 .. MaxDepth : n \in 0 .. MaxDepth
    BY TreeAssumption
  <2> QED
    BY <2>1, <2>2, <2>3, <2>4, <2>5
<1> QED
  BY <1>2, <1>4 DEF TreeInv, CatalogIsATree

\* Whatever moves of whole folders follow one another, with any number of entries
\* and any depth: every entry is reached from the top through folders, in at most
\* MaxDepth rows (validateLibraryParent).
THEOREM CatalogStaysATree == TreeSpec => [](TreeTypeOK /\ CatalogIsATree)
<1>1. TreeInit => TreeInv
  BY DEF TreeInit, TreeInv, TreeTypeOK, CatalogIsATree, Stored
<1>2. TreeInv /\ [TreeNext]_treeVars => TreeInv'
  <2>1. TreeInv /\ UNCHANGED treeVars => TreeInv'
    BY DEF treeVars, TreeInv, TreeTypeOK, CatalogIsATree, Stored, Walk
  <2> QED
    BY <2>1, CreateKeepsTree, MoveKeepsTree, RemoveKeepsTree DEF TreeNext
<1> QED
  BY <1>1, <1>2, PTL DEF TreeSpec, TreeInv

=============================================================================
