---------------------------- MODULE AuthLimiter ----------------------------
(***************************************************************************)
(* The limiter in front of the sign-in of the administrator, the sign-in   *)
(* of users and the registration by e-mail: a window of failures for the   *)
(* address and one for the identity, in a map of bounded size, with the    *)
(* attempts in flight counted in both while the password is hashed outside *)
(* the lock.  The change of a password, which needs a session, checks the  *)
(* current one without it.                                                 *)
(*                                                                         *)
(* A moment is its age, in sweep intervals, kept up to the length of the   *)
(* longest window: time passes without a bound and nothing older is told   *)
(* apart.                                                                  *)
(***************************************************************************)
EXTENDS Integers, SequencesExt

CONSTANTS
    Ips, Identities,       \* the keys of windows
    Attempts,              \* requests, one attempt at a time each
    IpLimit, IpWindow,     \* authIPFailureLimit, authIPFailureWindow
    IdLimit, IdWindow,     \* authIdentityFailureLimit, authIdentityFailureWindow
    MaxWindows             \* defaultAuthLimiterMaxEntries

ASSUME LimiterAssumption ==
    /\ Ips \intersect Identities = {}
    /\ {IpLimit, IpWindow, IdLimit, IdWindow} \subseteq Nat \ {0}
    /\ MaxWindows \in Nat \ {0, 1}

VARIABLES
    \* authLimiter.windows
    windows,
    \* the clock has reached nextSweep
    sweepDue,
    \* authAdmission of each request: its keys while it is active
    attempt,
    \* the failures of a key that were not cleared by a success, and not
    \* forgotten with a window that made room for another
    counted

limiterVars == <<windows, sweepDue, attempt, counted>>

Keys == Ips \union Identities
RuleLimit(k) == IF k \in Ips THEN IpLimit ELSE IdLimit
RuleWindow(k) == IF k \in Ips THEN IpWindow ELSE IdWindow
Longest == Max({IpWindow, IdWindow})

NoWindow == [failures |-> <<>>, inFlight |-> -1, seen |-> 0]
Fresh == [failures |-> <<>>, inFlight |-> 0, seen |-> 0]
NotActive == {}

Held(w) == {k \in Keys : w[k] # NoWindow}
Active(k) == {a \in Attempts : k \in attempt[a]}

LimiterTypeOK ==
    /\ windows \in [Keys -> [failures : SeqOf(0 .. Longest, Max({IpLimit, IdLimit})),
                             inFlight : 0 .. Cardinality(Attempts),
                             seen : 0 .. Longest] \union {NoWindow}]
    /\ Cardinality(Held(windows)) <= MaxWindows
    /\ sweepDue \in BOOLEAN
    /\ \A a \in Attempts : attempt[a] = NotActive
                           \/ \E i \in Ips, d \in Identities : attempt[a] = {i, d}
    /\ counted \in [Keys -> Seq(0 .. Longest)]

LimiterInit ==
    /\ windows = [k \in Keys |-> NoWindow]
    /\ sweepDue = TRUE
    /\ attempt = [a \in Attempts |-> NotActive]
    /\ counted = [k \in Keys |-> <<>>]

-----------------------------------------------------------------------------
\* pruneAuthFailures; the oldest failure comes first.
Recent(f, k) ==
    LET first == Min({n \in 1 .. Len(f) : f[n] < RuleWindow(k)} \union {Len(f) + 1})
    IN  SubSeq(f, first, Len(f))

\* deleteWindowIfIdleLocked.
UnlessIdle(e) == IF e.inFlight = 0 /\ e.failures = <<>> THEN NoWindow ELSE e

\* sweepLocked and the first half of windowRetryAfterLocked, for the keys ks.
Pruned(w, ks) ==
    [k \in Keys |-> IF k \in ks \intersect Held(w)
                    THEN UnlessIdle([w[k] EXCEPT !.failures = Recent(@, k)])
                    ELSE w[k]]

\* Mutant: the attempts in flight do not count.
FullWithoutFlights(w, k) == w[k] # NoWindow /\ Len(w[k].failures) >= RuleLimit(k)

\* windowRetryAfterLocked of a pruned window.
Full(w, k) == w[k] # NoWindow /\ Len(w[k].failures) + w[k].inFlight >= RuleLimit(k)

\* makeRoomLocked: the windows that may go, none with an attempt in flight, the
\* one seen longest ago.
Victims(w) ==
    LET idle == {k \in Held(w) : w[k].inFlight = 0}
    IN  {k \in idle : \A j \in idle : w[j].seen <= w[k].seen}

\* ensureWindowLocked and inFlight++: the maps it may leave, none when there is no
\* room, each with the key it forgot.
Ensured(w, k) ==
    LET entry == IF w[k] = NoWindow THEN Fresh ELSE w[k]
        used == [failures |-> entry.failures, inFlight |-> entry.inFlight + 1, seen |-> 0]
        gone == IF k \in Held(w) \/ Cardinality(Held(w)) < MaxWindows
                THEN {{}} ELSE {{v} : v \in Victims(w)}
    IN  {[map |-> [j \in Keys |-> IF j = k THEN used ELSE IF j \in out THEN NoWindow ELSE w[j]],
          forgot |-> out] : out \in gone}

Leave(w, k) == [w EXCEPT ![k] = UnlessIdle([w[k] EXCEPT !.inFlight = @ - 1])]

Forget(ks) == counted' = [k \in Keys |-> IF k \in ks THEN <<>> ELSE counted[k]]

\* admit: refused when a window is full, or when there is no room for one.
Admit(a, i, d) ==
    /\ attempt[a] = NotActive
    /\ LET w == Pruned(windows, IF sweepDue THEN Keys ELSE {i, d}) IN
          \/ /\ Full(w, i) \/ Full(w, d) \/ Ensured(w, i) = {}
             /\ windows' = w /\ UNCHANGED <<attempt, counted>>
          \/ /\ ~Full(w, i) /\ ~Full(w, d)
             /\ \E e \in Ensured(w, i) :
                   \/ /\ Ensured(e.map, d) = {}
                      /\ windows' = Leave(e.map, i)
                      /\ Forget(e.forgot) /\ UNCHANGED attempt
                   \/ \E g \in Ensured(e.map, d) :
                         /\ windows' = g.map
                         /\ attempt' = [attempt EXCEPT ![a] = {i, d}]
                         /\ Forget(e.forgot \union g.forgot)
    /\ sweepDue' = FALSE

\* recordFailureLocked keeps the latest failures, as many as the limit.
Recorded(f, k) ==
    LET all == Append(Recent(f, k), 0)
    IN  SubSeq(all, Max({0, Len(all) - RuleLimit(k)}) + 1, Len(all))

\* finishWindowLocked.
Finished(e, k, counts, clears) ==
    LET after == IF clears THEN <<>>
                 ELSE IF counts THEN Recorded(e.failures, k) ELSE e.failures
    IN  UnlessIdle([failures |-> after, inFlight |-> Max({0, e.inFlight - 1}), seen |-> 0])

\* finishAdmission: fail and consume count, succeed clears the identity, cancel
\* (busy hashing, a client that left, an error) does neither.
FinishAttempt(a, counts, clears) ==
    /\ attempt[a] # NotActive
    /\ ~(counts /\ clears)
    /\ windows' = [k \in Keys |->
          IF k \in attempt[a] \intersect Held(windows)
          THEN Finished(windows[k], k, counts, clears /\ k \in Identities)
          ELSE windows[k]]
    /\ counted' = [k \in Keys |->
          IF k \notin attempt[a] THEN counted[k]
          ELSE IF clears /\ k \in Identities THEN <<>>
          ELSE IF counts THEN Append(counted[k], 0) ELSE counted[k]]
    /\ attempt' = [attempt EXCEPT ![a] = NotActive]
    /\ UNCHANGED sweepDue

Older(age) == IF age < Longest THEN age + 1 ELSE age
Aged(f) == [n \in 1 .. Len(f) |-> Older(f[n])]

TimePasses ==
    /\ windows' = [k \in Keys |->
          IF windows[k] = NoWindow THEN NoWindow
          ELSE [failures |-> Aged(windows[k].failures), inFlight |-> windows[k].inFlight,
                seen |-> Older(windows[k].seen)]]
    /\ counted' = [k \in Keys |-> Recent(Aged(counted[k]), k)]
    /\ sweepDue' = TRUE
    /\ UNCHANGED attempt

LimiterNext ==
    \/ \E a \in Attempts :
          \/ \E i \in Ips, d \in Identities : Admit(a, i, d)
          \/ \E counts, clears \in BOOLEAN : FinishAttempt(a, counts, clears)
    \/ TimePasses

LimiterSpec == LimiterInit /\ [][LimiterNext]_limiterVars

-----------------------------------------------------------------------------
\* However many attempts run at once, whatever is pruned, swept, rolled back or
\* cut to the limit: the failures of a key within its window and the attempts
\* still being checked are never more than its limit, so that of a burst of
\* guesses no more are checked than one after the other would be (admit, "atomically
\* checks both rate-limit windows and reserves one in-flight attempt in each").
\* A success clears an identity; a full map may forget a window without attempts.
GuessesAreBounded ==
    \A k \in Keys : Len(counted[k]) + Cardinality(Active(k)) <= RuleLimit(k)
=============================================================================
