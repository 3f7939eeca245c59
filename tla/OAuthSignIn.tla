---------------------------- MODULE OAuthSignIn ----------------------------
(***************************************************************************)
(* Signing in through LinuxDo: a start stores a state with the nonce it    *)
(* gives the browser as a cookie; a callback hands both in, then asks      *)
(* LinuxDo who it is, looks the identity up, stores the user and opens a   *)
(* session.  The states live in memory, with a time and a bound.           *)
(*                                                                         *)
(* A flow is the number of its start: its state, and its nonce, which one  *)
(* start draws together.                                                   *)
(***************************************************************************)
EXTENDS Integers, SequencesExt, FiniteSetsExt

CONSTANTS
    Browsers,
    Callbacks,   \* requests to the callback, one at a time each
    Profiles,    \* identities at LinuxDo
    MaxFlows,    \* starts of a sign-in
    MaxStates    \* oauthStateMaxEntries

ASSUME OAuthAssumption == MaxFlows \in Nat /\ MaxStates \in Nat \ {0}

VARIABLES
    \* the browser that began each flow
    begun,
    \* oauthStateStore.states, those of them whose time has passed, and whether the
    \* clock has reached nextSweep
    states, lapsed, sweepTime,
    \* the flow whose nonce a browser holds, 0 for none
    cookie,
    callback,
    \* settingKeyLinuxDoRegistrationEnabled
    registration,
    \* user_identities of the provider
    identities,
    \* how often a callback of a browser went on past the state of a flow
    passed

oauthVars == <<begun, states, lapsed, sweepTime, cookie, callback, registration, identities, passed>>

Flows == 1 .. Len(begun)
NoCallback == [at |-> "idle"]

OAuthTypeOK ==
    /\ begun \in Seq(Browsers)
    /\ lapsed \subseteq states /\ states \subseteq Flows /\ Cardinality(states) <= MaxStates
    /\ {sweepTime, registration} \subseteq BOOLEAN
    /\ cookie \in [Browsers -> {0} \union Flows]
    /\ callback \in [Callbacks -> [at : {"idle"}]
           \union [at : {"sent", "passed"}, browser : Browsers, flow : Flows, nonce : {0} \union Flows]
           \union [at : {"known"}, browser : Browsers, profile : Profiles]]
    /\ identities \subseteq Profiles
    /\ passed \in [(1 .. MaxFlows) \X Browsers -> 0 .. Cardinality(Callbacks)]

OAuthInit ==
    /\ begun = <<>> /\ states = {} /\ lapsed = {} /\ sweepTime = TRUE
    /\ cookie = [b \in Browsers |-> 0]
    /\ callback = [c \in Callbacks |-> NoCallback]
    /\ registration = TRUE /\ identities = {}
    /\ passed = [fb \in (1 .. MaxFlows) \X Browsers |-> 0]

\* sweepLocked.
SweptStates(force) == IF force \/ sweepTime THEN states \ lapsed ELSE states

\* handleLinuxDoAuthStart, oauthStateStore.create: at the bound the oldest state
\* makes room.
BeginFlow(b) ==
    /\ Len(begun) < MaxFlows
    /\ LET kept == SweptStates(Cardinality(states) >= MaxStates)
           room == IF Cardinality(kept) >= MaxStates THEN kept \ {Min(kept)} ELSE kept
       IN  /\ states' = room \union {Len(begun) + 1}
           /\ lapsed' = lapsed \intersect room
    /\ sweepTime' = FALSE
    /\ begun' = Append(begun, b)
    /\ cookie' = [cookie EXCEPT ![b] = Len(begun')]
    /\ UNCHANGED <<callback, registration, identities, passed>>

\* A browser comes back from LinuxDo, or is sent there with a flow of another; two
\* requests may carry the same cookie.
SendCallback(c, b, f) ==
    /\ callback[c] = NoCallback
    /\ callback' = [callback EXCEPT ![c] = [at |-> "sent", browser |-> b, flow |-> f, nonce |-> cookie[b]]]
    /\ UNCHANGED <<begun, states, lapsed, sweepTime, cookie, registration, identities, passed>>

\* The response, which takes the cookie of the browser.
Respond(c) ==
    /\ callback' = [callback EXCEPT ![c] = NoCallback]
    /\ cookie' = [cookie EXCEPT ![callback[c].browser] = 0]

\* Mutant: a state is left until its time has passed.
TakenNot(f) == {}

\* delete(s.states, state), before the nonce is looked at.
Taken(f) == {f}

\* oauthStateStore.consume: known, taken, of this browser, in time.
Consume(c) ==
    /\ callback[c].at = "sent"
    /\ LET f == callback[c].flow
           kept == SweptStates(FALSE)
           good == f \in kept /\ callback[c].nonce = f /\ f \notin lapsed
       IN  /\ states' = kept \ Taken(f)
           /\ lapsed' = lapsed \intersect states'
           /\ \/ /\ good
                 /\ passed' = [passed EXCEPT ![<<f, callback[c].browser>>] = @ + 1]
                 /\ callback' = [callback EXCEPT ![c].at = "passed"] /\ UNCHANGED cookie
              \/ /\ ~good /\ Respond(c) /\ UNCHANGED passed
    /\ sweepTime' = FALSE
    /\ UNCHANGED <<begun, registration, identities>>

\* fetchLinuxDoProfile and linuxDoIdentityExists, or an error of either; an unknown
\* profile is turned away while registration is closed.
AskProfile(c) ==
    /\ callback[c].at = "passed"
    /\ \/ Respond(c)
       \/ \E p \in Profiles :
             /\ p \in identities \/ registration
             /\ callback' = [callback EXCEPT ![c] = [at |-> "known", profile |-> p,
                                                     browser |-> callback[c].browser]]
             /\ UNCHANGED cookie
    /\ UNCHANGED <<begun, states, lapsed, sweepTime, registration, identities, passed>>

\* upsertLinuxDoUser and the session, or an error.
StoreUser(c) ==
    /\ callback[c].at = "known"
    /\ identities' \in {identities, identities \union {callback[c].profile}}
    /\ Respond(c)
    /\ UNCHANGED <<begun, states, lapsed, sweepTime, registration, passed>>

SetRegistration ==
    /\ registration' = ~registration
    /\ UNCHANGED <<begun, states, lapsed, sweepTime, cookie, callback, identities, passed>>

\* The time of a state passes, and that of every older one; a minute passes.
StateLapses ==
    /\ \E f \in states \ lapsed : lapsed' = {g \in states : g <= f}
    /\ UNCHANGED <<begun, states, sweepTime, cookie, callback, registration, identities, passed>>

SweepComes ==
    /\ ~sweepTime /\ sweepTime' = TRUE
    /\ UNCHANGED <<begun, states, lapsed, cookie, callback, registration, identities, passed>>

\* A new process knows no state.
Restart ==
    /\ states' = {} /\ lapsed' = {} /\ sweepTime' = TRUE
    /\ callback' = [c \in Callbacks |-> NoCallback]
    /\ UNCHANGED <<begun, cookie, registration, identities, passed>>

OAuthNext ==
    \/ \E b \in Browsers : BeginFlow(b)
    \/ \E c \in Callbacks :
          \/ \E b \in Browsers, f \in Flows : SendCallback(c, b, f)
          \/ Consume(c) \/ AskProfile(c) \/ StoreUser(c)
    \/ SetRegistration \/ StateLapses \/ SweepComes \/ Restart

OAuthSpec == OAuthInit /\ [][OAuthNext]_oauthVars

-----------------------------------------------------------------------------
\* A sign-in that was begun is finished at most once, and by the browser that began
\* it, whatever callbacks are doubled, mixed up, late or cut by a restart, and
\* whatever other flows evict or sweep.
FlowEndsOnce ==
    \A f \in Flows, b \in Browsers : passed[<<f, b>>] <= IF b = begun[f] THEN 1 ELSE 0
=============================================================================
