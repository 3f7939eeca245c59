---------------------------- MODULE ProxyStream ----------------------------
(***************************************************************************)
(* A download through the server (handleProxy).  A plain request is served *)
(* from parallel fetches of ranges, put in order in a window; anything     *)
(* that goes wrong before the first byte leads to another way: a new link, *)
(* the ranges once more, one upstream stream, that once more, an error.    *)
(* After the first byte there is no other way.                             *)
(*                                                                         *)
(* A chunk is a range, or what one read of a single upstream stream gives; *)
(* `sent' is what the response writer was given: a header, the chunks, or  *)
(* an error.  The counters of proxyLimiter are the numbers of the          *)
(* downloads that hold a place: each is given back by a defer.  Workers of *)
(* an attempt by ranges that has ended are forgotten: they fail, and leave *)
(* their results in a channel of their own that nobody reads.              *)
(***************************************************************************)
EXTENDS Integers, SequencesExt

CONSTANTS
    Downloads,
    ProxyTokens,
    NumChunks,        \* chunks of the file
    Concurrency,      \* proxyMultipartConfig.Concurrency
    WindowChunks,     \* proxyMultipartConfig.WindowChunks
    MaxActive,        \* maxProxyActiveRequests
    MaxPerToken,      \* maxProxyRequestsPerToken
    MaxMultipart,     \* maxProxyMultipartRequests
    MaxBuffered       \* maxProxyBufferedBytes, in chunks

ASSUME ProxyAssumption ==
    /\ {NumChunks, Concurrency, WindowChunks, MaxActive, MaxPerToken,
        MaxMultipart, MaxBuffered} \subseteq Nat \ {0}
    /\ ProxyTokens # {}

VARIABLES
    \* where each download is, the token of its link, and if its link is new
    place, proxyToken, refreshed,
    \* clients that have left: the context of their request is done
    gone,
    \* the response, and if PikPak or the client cut it short
    sent, cutShort,
    \* of a download by ranges: `next', `nextDispatch' (here those dispatched), the
    \* ranges being fetched, the channel `results', and `pending'
    parts,
    \* proxyFailures
    failures

proxyVars == <<place, proxyToken, refreshed, gone, sent, cutShort, parts, failures>>

Chunks == 1 .. NumChunks
HeaderItem == 0
ErrorItem == -1
NoParts == [next |-> 1, dispatched |-> 0, fetching |-> {}, results |-> <<>>, pending |-> {}]

ProxyTypeOK ==
    /\ place \in [Downloads -> {"new", "limit", "source", "multipart", "probe", "stream", "renew",
                                "single", "retry", "again", "copy", "done"}]
    /\ proxyToken \in [Downloads -> ProxyTokens]
    /\ refreshed \subseteq Downloads /\ gone \subseteq Downloads /\ cutShort \subseteq Downloads
    /\ sent \in [Downloads -> Seq(Chunks \union {HeaderItem, ErrorItem})]
    /\ parts \in [Downloads -> [next : 1 .. NumChunks + 1, dispatched : 0 .. NumChunks,
                                fetching : SUBSET Chunks, pending : SUBSET Chunks,
                                results : Seq([chunk : Chunks, ok : BOOLEAN])]]
    /\ failures \subseteq ProxyTokens

ProxyInit ==
    /\ place = [d \in Downloads |-> "new"]
    /\ proxyToken = [d \in Downloads |-> CHOOSE t \in ProxyTokens : TRUE]
    /\ refreshed = {} /\ gone = {} /\ cutShort = {}
    /\ sent = [d \in Downloads |-> <<>>]
    /\ parts = [d \in Downloads |-> NoParts]
    /\ failures = {}

-----------------------------------------------------------------------------
(* The request.                                                            *)

To(d, where) == place' = [place EXCEPT ![d] = where]

Tells(d, what) == sent' = [sent EXCEPT ![d] = @ \o what]

\* rememberProxyFailure, writeProxyFailure
FailsWith(d) ==
    /\ To(d, "done")
    /\ Tells(d, <<ErrorItem>>)
    /\ failures' = failures \union {proxyToken[d]}

\* clearProxyFailure, after a response that was begun.
Serves(d) ==
    /\ To(d, "done")
    /\ failures' = failures \ {proxyToken[d]}

ClientLeaves(d) ==
    /\ place[d] \notin {"new", "done"} /\ d \notin gone
    /\ gone' = gone \union {d}
    /\ UNCHANGED <<place, proxyToken, refreshed, sent, cutShort, parts, failures>>

\* handleProxy: refused for a failure that is remembered (cachedProxyFailure), or
\* without permission, a job, a token of it or a file.
Arrives(d) ==
    /\ place[d] = "new"
    /\ \E t \in ProxyTokens :
          /\ proxyToken' = [proxyToken EXCEPT ![d] = t]
          /\ \/ To(d, "done") /\ Tells(d, <<ErrorItem>>)
             \/ t \notin failures /\ To(d, "limit") /\ UNCHANGED sent
    /\ UNCHANGED <<refreshed, gone, cutShort, parts, failures>>

FailureLapses(t) ==
    /\ t \in failures
    /\ failures' = failures \ {t}
    /\ UNCHANGED <<place, proxyToken, refreshed, gone, sent, cutShort, parts>>

Admitted == {d \in Downloads : place[d] \notin {"new", "limit", "done"}}

\* tryAcquire
AcquirePlace(d) ==
    /\ place[d] = "limit"
    /\ IF \/ Cardinality({o \in Admitted : proxyToken[o] = proxyToken[d]}) >= MaxPerToken
          \/ Cardinality(Admitted) >= MaxActive
       THEN To(d, "done") /\ Tells(d, <<ErrorItem>>)
       ELSE To(d, "source") /\ UNCHANGED sent
    /\ UNCHANGED <<proxyToken, refreshed, gone, cutShort, parts, failures>>

\* refreshProxyDirectLink; what it stores is in JobStore.
Renews(d, to) == d \notin gone /\ To(d, to) /\ refreshed' = refreshed \union {d}

\* The link serves, or is about to expire or missing and is asked for; one that is
\* about to expire serves when it cannot be renewed.  Only a request of the
\* whole file, without conditions, is served by ranges.
FindSource(d) ==
    /\ place[d] = "source"
    /\ \/ /\ \E to \in {"multipart", "single"} : Renews(d, to) \/ (To(d, to) /\ UNCHANGED refreshed)
          /\ UNCHANGED <<sent, failures>>
       \/ FailsWith(d) /\ UNCHANGED refreshed
    /\ UNCHANGED <<proxyToken, gone, cutShort, parts>>

-----------------------------------------------------------------------------
(* Ranges: serveProxyMultipart.                                            *)

InMultipart == {d \in Downloads : place[d] \in {"probe", "stream"}}

\* tryAcquireMultipart
AcquireMultipart(d) ==
    /\ place[d] = "multipart"
    /\ IF /\ Cardinality(InMultipart) < MaxMultipart
          /\ (Cardinality(InMultipart) + 1) * WindowChunks <= MaxBuffered
          THEN To(d, "probe") ELSE To(d, "single")
    /\ UNCHANGED <<proxyToken, refreshed, gone, sent, cutShort, parts, failures>>

NumWorkers == Min({Concurrency, NumChunks, WindowChunks})
InFlight(p) == Cardinality(p.fetching) + Len(p.results)

\* dispatch
Dispatched(d, p) ==
    LET room == Min({NumWorkers - InFlight(p), NumChunks - p.dispatched, WindowChunks - (p.dispatched + 1 - p.next)})
    IN  IF d \in gone \/ room <= 0 THEN p
        ELSE [p EXCEPT !.fetching = @ \union (p.dispatched + 1 .. p.dispatched + room),
                       !.dispatched = @ + room]

\* serveProxyMultipart returns an error that a new link may mend, or not.
MultipartFails(d, mendable) ==
    To(d, IF mendable /\ d \notin refreshed \union gone THEN "renew" ELSE "single")

\* probeProxyRangeSupport
Probe(d) ==
    /\ place[d] = "probe"
    /\ \/ d \notin gone /\ To(d, "stream") /\ parts' = [parts EXCEPT ![d] = Dispatched(d, NoParts)]
       \/ \E mendable \in BOOLEAN : MultipartFails(d, mendable) /\ UNCHANGED parts
    /\ UNCHANGED <<proxyToken, refreshed, gone, sent, cutShort, failures>>

\* fetchProxyRange, with its attempts
FetchEnds(d, c) ==
    /\ c \in parts[d].fetching
    /\ \E ok \in BOOLEAN :
          parts' = [parts EXCEPT ![d].fetching = @ \ {c}, ![d].results = Append(@, [chunk |-> c, ok |-> ok])]
    /\ UNCHANGED <<place, proxyToken, refreshed, gone, sent, cutShort, failures>>

Begun(d) == sent[d] # <<>>
HeaderFor(d) == IF Begun(d) THEN <<>> ELSE <<HeaderItem>>

\* Mutant: another way is tried whatever was written.
RangeFailedAnyway(d) ==
    MultipartFails(d, TRUE) /\ UNCHANGED <<sent, cutShort, failures>>

\* A range has failed: another way, unless the response has begun.
RangeFailed(d) ==
    /\ IF Begun(d) THEN Serves(d) /\ cutShort' = cutShort \union {d}
       ELSE MultipartFails(d, TRUE) /\ UNCHANGED <<cutShort, failures>>
    /\ UNCHANGED sent

\* The chunks that can be written, and where the first that cannot is.
NextAfter(p) == CHOOSE n \in p.next .. NumChunks + 1 :
    n \notin p.pending /\ \A c \in p.next .. n - 1 : c \in p.pending

Written(p) ==
    LET n == NextAfter(p)
    IN  [p EXCEPT !.pending = @ \ (p.next .. n - 1), !.next = n]

Ready(p) == [i \in 1 .. NextAfter(p) - p.next |-> p.next + i - 1]

\* The loop: a result is received; chunks are written in order; more ranges are
\* fetched.  The writer fails only when the client has left.
Receive(d) ==
    /\ place[d] = "stream"
    /\ parts[d].results # <<>>
    /\ LET p == [parts[d] EXCEPT !.results = Tail(@), !.pending = @ \union {Head(parts[d].results).chunk}]
       IN  IF ~Head(parts[d].results).ok
              THEN RangeFailed(d) /\ parts' = [parts EXCEPT ![d] = NoParts]
              ELSE \/ /\ Tells(d, IF Ready(p) = <<>> THEN <<>> ELSE HeaderFor(d) \o Ready(p))
                      /\ IF Written(p).next > NumChunks
                            THEN Serves(d) /\ parts' = [parts EXCEPT ![d] = NoParts]
                            ELSE /\ parts' = [parts EXCEPT ![d] = Dispatched(d, Written(p))]
                                 /\ UNCHANGED <<place, failures>>
                      /\ UNCHANGED cutShort
                   \/ /\ d \in gone /\ Ready(p) # <<>>
                      /\ \E n \in 0 .. Len(Ready(p)) - 1 : Tells(d, HeaderFor(d) \o SubSeq(Ready(p), 1, n))
                      /\ Serves(d) /\ cutShort' = cutShort \union {d}
                      /\ parts' = [parts EXCEPT ![d] = NoParts]
    /\ UNCHANGED <<proxyToken, refreshed, gone>>

\* ctx.Done
Abandon(d) ==
    /\ place[d] = "stream" /\ d \in gone
    /\ Serves(d) /\ cutShort' = cutShort \union {d}
    /\ parts' = [parts EXCEPT ![d] = NoParts]
    /\ UNCHANGED <<proxyToken, refreshed, gone, sent>>

RenewForRanges(d) ==
    /\ place[d] = "renew"
    /\ Renews(d, "multipart") \/ (To(d, "single") /\ UNCHANGED refreshed)
    /\ UNCHANGED <<proxyToken, gone, sent, cutShort, parts, failures>>

-----------------------------------------------------------------------------
(* One upstream stream: serveProxySingleStream.                            *)

\* The first read decides: a response is begun, or the error is returned.
OpenSingle(d) ==
    /\ place[d] \in {"single", "again"}
    /\ \/ /\ d \notin gone
          /\ To(d, "copy")
          /\ Tells(d, <<HeaderItem>>)
          /\ UNCHANGED failures
       \/ IF place[d] = "single" /\ d \notin refreshed \union gone
             THEN To(d, "retry") /\ UNCHANGED <<sent, failures>>
             ELSE FailsWith(d)
       \/ FailsWith(d)
    /\ UNCHANGED <<proxyToken, refreshed, gone, cutShort, parts>>

RenewForSingle(d) ==
    /\ place[d] = "retry"
    /\ \/ Renews(d, "again") /\ UNCHANGED <<sent, failures>>
       \/ FailsWith(d) /\ UNCHANGED refreshed
    /\ UNCHANGED <<proxyToken, gone, cutShort, parts>>

Cut(d) == Serves(d) /\ cutShort' = cutShort \union {d} /\ UNCHANGED sent

\* Chunk after chunk, to the end of the upstream body or until either side fails.
CopySingle(d) ==
    /\ place[d] = "copy"
    /\ \/ /\ Len(sent[d]) <= NumChunks
          /\ Tells(d, <<Len(sent[d])>>)
          /\ UNCHANGED <<place, cutShort, failures>>
       \/ Len(sent[d]) > NumChunks /\ Serves(d) /\ UNCHANGED <<sent, cutShort>>
       \/ Cut(d)
    /\ UNCHANGED <<proxyToken, refreshed, gone, parts>>

ProxyNext ==
    \/ \E t \in ProxyTokens : FailureLapses(t)
    \/ \E d \in Downloads :
          \/ Arrives(d) \/ AcquirePlace(d) \/ FindSource(d) \/ ClientLeaves(d)
          \/ AcquireMultipart(d) \/ Probe(d) \/ Receive(d) \/ Abandon(d) \/ RenewForRanges(d)
          \/ \E c \in Chunks : FetchEnds(d, c)
          \/ OpenSingle(d) \/ RenewForSingle(d) \/ CopySingle(d)

ProxySpec == ProxyInit /\ [][ProxyNext]_proxyVars

-----------------------------------------------------------------------------
\* A client is given one response: an error, or one header and the chunks of the
\* file in their order, none missing and none twice, whichever ranges come first
\* or fail, whatever is tried again with a new link, and wherever the ways
\* change; and all of them unless PikPak or the client cut the response short.
ClientGetsTheFile ==
    \A d \in Downloads :
        /\ \/ sent[d] \in {<<>>, <<ErrorItem>>}
           \/ \E n \in 0 .. NumChunks : sent[d] = <<HeaderItem>> \o [i \in 1 .. n |-> i]
        /\ place[d] = "done" /\ d \notin cutShort => sent[d] = <<ErrorItem>> \/ Len(sent[d]) = NumChunks + 1

=============================================================================
