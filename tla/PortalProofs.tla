---------------------------- MODULE PortalProofs ----------------------------
(***************************************************************************)
(* Proofs about what users and administrators go through before a job:     *)
(* vouchers, the sessions of the administrator, the sign-in through        *)
(* LinuxDo and the limiter of sign-ins and registrations, for every number *)
(* of requests, codes, passwords, flows and keys, and every limit.         *)
(***************************************************************************)
EXTENDS Vouchers, AdminSessions, OAuthSignIn, AuthLimiter, DataLemmas

-----------------------------------------------------------------------------
(* Vouchers.                                                               *)

Made(v) == {g \in grants : g.code = v}

\* A voucher that is redeemed has its one grant, another has none; a revocation
\* that is about to answer, or has, left the voucher redeemed or revoked.
VouchersInv ==
    /\ \A v \in Codes :
          /\ voucher[v].state # "redeemed" => Made(v) = {}
          /\ voucher[v].state = "redeemed" => \E g \in grants : Made(v) = {g} /\ g.terms = voucher[v].terms
          /\ v \in revoked => voucher[v].state = "revoked"
    /\ \A e \in Editors :
          editor[e].at = "revoking" => voucher[editor[e].code].state \in {"redeemed", "revoked"}

\* Every voucher, grant and edit has its form (cdks, user_subscriptions).
THEOREM VouchersTypeCorrect == VouchersSpec => []VouchersTypeOK
<1>1. VouchersInit => VouchersTypeOK
  BY VouchersAssumption DEF VouchersInit, VouchersTypeOK, NoVoucher, NoEdit
<1>2. VouchersTypeOK /\ [VouchersNext]_voucherVars => VouchersTypeOK'
  <2> SUFFICES ASSUME VouchersTypeOK, [VouchersNext]_voucherVars
               PROVE  VouchersTypeOK'
    OBVIOUS
  <2> USE VouchersAssumption DEF VouchersTypeOK, NoVoucher, NoEdit
  <2>1. CASE Issue
    BY <2>1 DEF Issue
  <2>2. ASSUME NEW e \in Editors, NEW v \in Codes, Revoke(e, v)
        PROVE  VouchersTypeOK'
    BY <2>2 DEF Revoke
  <2>3. ASSUME NEW e \in Editors, NEW v \in Codes, NEW t \in Terms, Edit(e, v, t)
        PROVE  VouchersTypeOK'
    BY <2>3 DEF Edit
  <2>4. ASSUME NEW e \in Editors, AnswerEditor(e)
        PROVE  VouchersTypeOK'
    BY <2>4 DEF AnswerEditor
  <2>5. ASSUME NEW u \in Redeemers, NEW v \in Codes, Redeem(u, v)
        PROVE  VouchersTypeOK'
    BY <2>5 DEF Redeem
  <2>6. CASE UNCHANGED voucherVars
    BY <2>6 DEF voucherVars
  <2> QED
    BY <2>1, <2>2, <2>3, <2>4, <2>5, <2>6 DEF VouchersNext
<1> QED
  BY <1>1, <1>2, PTL DEF VouchersSpec

\* Of one voucher one user gets one subscription, on the terms it shows ever after,
\* and nobody does once it was said to be revoked, for any number of codes, users
\* and administrators (cdk.go).
THEOREM VouchersGrantOnce == VouchersSpec => []GrantsMatchVouchers
<1>1. VouchersInit => VouchersInv
  BY DEF VouchersInit, VouchersInv, Made, NoVoucher, NoEdit
<1>2. VouchersTypeOK /\ VouchersInv /\ [VouchersNext]_voucherVars => VouchersInv'
  <2> SUFFICES ASSUME VouchersTypeOK, VouchersInv, [VouchersNext]_voucherVars
               PROVE  VouchersInv'
    OBVIOUS
  <2> USE DEF VouchersTypeOK, NoVoucher, NoEdit
  <2>1. CASE Issue
    <3>1. PICK some \in SUBSET Codes, t \in Terms :
             /\ \A v \in some : voucher[v].state = "none"
             /\ voucher' = [v \in Codes |-> IF v \in some THEN [state |-> "open", terms |-> t]
                                            ELSE voucher[v]]
             /\ UNCHANGED <<grants, editor, revoked>>
      <4>1. PICK some \in SUBSET {v \in Codes : voucher[v] = NoVoucher}, t \in Terms :
               /\ voucher' = [v \in Codes |-> IF v \in some THEN [state |-> "open", terms |-> t]
                                              ELSE voucher[v]]
               /\ UNCHANGED <<grants, editor, revoked>>
        BY <2>1 DEF Issue
      <4>2. some \in SUBSET Codes /\ \A v \in some : voucher[v].state = "none"
        OBVIOUS
      <4> QED
        BY <4>1, <4>2
    <3> QED
      BY <3>1 DEF VouchersInv, Made
  <2>2. ASSUME NEW e \in Editors, NEW v \in Codes, Revoke(e, v)
        PROVE  VouchersInv'
    BY <2>2 DEF Revoke, VouchersInv, Made
  <2>3. ASSUME NEW e \in Editors, NEW v \in Codes, NEW t \in Terms, Edit(e, v, t)
        PROVE  VouchersInv'
    BY <2>3 DEF Edit, Editable, VouchersInv, Made
  <2>4. ASSUME NEW e \in Editors, AnswerEditor(e)
        PROVE  VouchersInv'
    BY <2>4 DEF AnswerEditor, SaysRevoked, VouchersInv, Made
  <2>5. ASSUME NEW u \in Redeemers, NEW v \in Codes, Redeem(u, v)
        PROVE  VouchersInv'
    <3>1. /\ voucher[v].state = "open" /\ v \notin revoked /\ Made(v) = {}
          /\ voucher' = [voucher EXCEPT ![v].state = "redeemed"]
          /\ UNCHANGED <<editor, revoked>>
      BY <2>5 DEF Redeem, VouchersInv
    <3>2. PICK g \in [code : Codes, user : Redeemers, terms : Terms] :
             /\ g.code = v /\ g.terms = voucher[v].terms
             /\ grants' = grants \union {g}
      BY <2>5 DEF Redeem
    <3>3. Made(v)' = {g} /\ \A w \in Codes \ {v} : Made(w)' = Made(w)
      BY <3>1, <3>2 DEF Made
    <3>4. \A w \in Codes : /\ voucher'[w].terms = voucher[w].terms
                           /\ voucher'[w].state = IF w = v THEN "redeemed" ELSE voucher[w].state
      BY <3>1
    <3> QED
      BY <3>1, <3>2, <3>3, <3>4 DEF VouchersInv
  <2>6. CASE UNCHANGED voucherVars
    BY <2>6 DEF voucherVars, VouchersInv, Made
  <2> QED
    BY <2>1, <2>2, <2>3, <2>4, <2>5, <2>6 DEF VouchersNext
<1>3. VouchersInv => GrantsMatchVouchers
  <2>1. /\ Cardinality({}) = 0
        /\ \A g : Cardinality({g}) = 1
    BY FS_EmptySet, FS_Singleton
  <2>2. ASSUME VouchersInv, NEW v \in Codes
        PROVE  /\ Cardinality(Made(v)) = IF voucher[v].state = "redeemed" THEN 1 ELSE 0
               /\ \A g \in Made(v) : g.terms = voucher[v].terms
               /\ v \in revoked => Made(v) = {}
    <3>1. CASE voucher[v].state = "redeemed"
      BY <2>1, <2>2, <3>1 DEF VouchersInv
    <3>2. CASE voucher[v].state # "redeemed"
      BY <2>1, <2>2, <3>2 DEF VouchersInv
    <3> QED
      BY <3>1, <3>2
  <2> QED
    BY <2>2 DEF GrantsMatchVouchers, Made
<1> QED
  BY <1>1, <1>2, <1>3, VouchersTypeCorrect, PTL DEF VouchersSpec

-----------------------------------------------------------------------------
(* The sessions of the administrator.                                      *)

\* What is opened with, or about to be opened with, is p or newer, or is known to
\* have come too late for the removal.
NoneOlder(p, c) ==
    /\ p <= rec
    /\ \A s \in sessions : s.password >= p \/ s.missed
    /\ \A d \in Requesters \ {c} :
          caller[d].at # "idle" => caller[d].password >= p \/ caller[d].late

SessionsInv ==
    /\ rec <= row /\ row <= settings /\ acknowledged <= settings /\ pinned <= row
    /\ \A c \in Requesters : caller[c].at # "idle" => caller[c].password \in 1 .. settings
    /\ server # "up" => \A c \in Requesters : caller[c].at = "idle"
    /\ row = 0 => sessions = {} /\ \A c \in Requesters : caller[c].at = "idle"
    /\ \A c \in Requesters : caller[c].at = "set" => caller[c].password <= rec
    /\ \A c \in Requesters : caller[c].at = "removed" => NoneOlder(caller[c].password, c)
    /\ acknowledged <= rec
    /\ \A s \in sessions : s.password >= acknowledged \/ s.missed
    /\ \A c \in Requesters :
          caller[c].at # "idle" => caller[c].password >= acknowledged \/ caller[c].late
    /\ server # "down" => pinned <= rec
    /\ \A s \in sessions : s.password >= pinned \/ s.missed \/ server = "pinning"
    /\ \A c \in Requesters : caller[c].at # "idle" => caller[c].password >= pinned

\* The sessions that outlive a removal are known to have been missed.
LEMMA AllAreMissed ==
    ASSUME SessionsTypeOK, AllMissed
    PROVE  sessions' \subseteq [password : 1 .. MaxPasswords, missed : {TRUE}]
<1>1. \A s \in [password : 1 .. MaxPasswords, missed : BOOLEAN] :
         [s EXCEPT !.missed = TRUE] \in [password : 1 .. MaxPasswords, missed : {TRUE}]
  OBVIOUS
<1> QED
  BY <1>1 DEF SessionsTypeOK, AllMissed

LEMMA RemovalMarksAll ==
    ASSUME SessionsTypeOK, RemovesAll
    PROVE  /\ sessions' \subseteq [password : 1 .. MaxPasswords, missed : {TRUE}]
           /\ keptAfterRemoval' \in 0 .. MaxKept
<1>1. CASE sessions' = {} /\ UNCHANGED keptAfterRemoval
  BY <1>1 DEF SessionsTypeOK
<1>2. CASE keptAfterRemoval < MaxKept /\ keptAfterRemoval' = keptAfterRemoval + 1 /\ AllMissed
  <2>1. keptAfterRemoval \in 0 .. MaxKept /\ MaxKept \in Nat
    BY SessionsAssumption DEF SessionsTypeOK
  <2>2. keptAfterRemoval' \in 0 .. MaxKept
    BY <1>2, <2>1
  <2> QED
    BY <1>2, <2>2, AllAreMissed
<1> QED
  BY <1>1, <1>2 DEF RemovesAll

Callers == [at : {"idle", "checked", "proved", "set", "removed"}, password : Passwords, late : BOOLEAN]

\* A requester without a request.
LEMMA NoCallerType == 0 \in Passwords /\ NoCaller \in Callers
  BY SessionsAssumption DEF NoCaller, Callers, Passwords

\* A requester that goes on is one.
LEMMA CallerGoes ==
    ASSUME caller \in [Requesters -> Callers], NEW c \in Requesters,
           NEW at \in {"checked", "proved", "set"}, NEW p \in Passwords, Goes(c, at, p)
    PROVE  caller' \in [Requesters -> Callers]
  BY DEF Goes, Callers

\* A start that sets its password goes on with all sessions, or fails with the row
\* as it was, or with it written and all sessions missed.
LEMMA PinningOutcomes ==
    ASSUME SessionsTypeOK, PinPassword
    PROVE  /\ server = "down" /\ fixed' = TRUE /\ settings' = settings + 1 /\ settings' \in Passwords
           /\ UNCHANGED <<caller, acknowledged, keptAfterRemoval>>
           /\ \/ /\ server' = "pinning" /\ pinned' = settings' /\ row' = settings' /\ rec' = settings'
                 /\ UNCHANGED sessions
              \/ UNCHANGED <<server, row, rec, pinned, sessions>>
              \/ /\ row' = settings' /\ pinned' = settings' /\ UNCHANGED <<server, rec>>
                 /\ sessions' \subseteq [password : 1 .. MaxPasswords, missed : {TRUE}]
<1>1. settings' = settings + 1
  BY DEF PinPassword, StoredPassword, StoredInDoubt
<1>2. settings' \in Passwords
  BY <1>1, SessionsAssumption DEF PinPassword, SessionsTypeOK, Passwords
<1>3. CASE server' = "pinning" /\ StoredPassword /\ pinned' = settings' /\ UNCHANGED sessions
  BY <1>1, <1>2, <1>3 DEF PinPassword, StoredPassword
<1>4. CASE /\ StoredInDoubt
           /\ IF row' = row THEN UNCHANGED <<pinned, sessions>> ELSE pinned' = settings' /\ AllMissed
           /\ UNCHANGED server
  <2>1. CASE row' = row
    BY <1>1, <1>2, <1>4, <2>1 DEF PinPassword, StoredInDoubt
  <2>2. CASE row' # row
    <3>1. AllMissed /\ pinned' = settings' /\ row' = settings' /\ UNCHANGED <<server, rec>>
      BY <1>4, <2>2 DEF StoredInDoubt
    <3> QED
      BY <1>1, <1>2, <3>1, AllAreMissed DEF PinPassword
  <2> QED
    BY <2>1, <2>2
<1> QED
  BY <1>3, <1>4 DEF PinPassword

\* Every step keeps the types of the sessions.
LEMMA SessionsTypeStep ==
    ASSUME SessionsTypeOK, SessionsInv, [SessionsNext]_sessionVars
    PROVE  SessionsTypeOK'
<1> USE SessionsAssumption DEF SessionsTypeOK, SessionsInv, Passwords, NoCaller, Goes, Ends
<1>1. ASSUME NEW c \in Requesters, SetUp(c)
      PROVE  SessionsTypeOK'
  BY <1>1 DEF SetUp, StoredPassword, StoredInDoubt
<1>2. ASSUME NEW c \in Requesters, Prove(c) \/ CheckCurrent(c)
      PROVE  SessionsTypeOK'
  BY <1>2 DEF Prove, CheckCurrent
<1>3. ASSUME NEW c \in Requesters, OpenSession(c)
      PROVE  SessionsTypeOK'
  BY <1>3 DEF OpenSession
<1>4. ASSUME NEW c \in Requesters, SetPassword(c)
      PROVE  SessionsTypeOK'
  <2>1. settings' \in Passwords /\ {rec', row'} \subseteq Passwords
    BY <1>4 DEF SetPassword, StoredPassword, StoredInDoubt
  <2>2. caller' \in [Requesters -> Callers]
    <3>1. CASE Goes(c, "set", settings')
      <4>1. caller \in [Requesters -> Callers]
        BY DEF Callers
      <4> QED
        BY <2>1, <3>1, <4>1, CallerGoes
    <3>2. CASE Ends(c)
      BY <3>2, NoCallerType DEF Callers
    <3> QED
      BY <1>4, <3>1, <3>2 DEF SetPassword
  <2>3. UNCHANGED <<server, fixed, sessions, acknowledged, pinned, keptAfterRemoval>>
    BY <1>4 DEF SetPassword
  <2> QED
    BY <2>1, <2>2, <2>3 DEF Callers
<1>5. ASSUME NEW c \in Requesters, RemoveSessions(c)
      PROVE  SessionsTypeOK'
  BY <1>5, RemovalMarksAll DEF RemoveSessions
<1>6. CASE CloseSession \/ UNCHANGED sessionVars
  BY <1>6 DEF CloseSession, sessionVars
<1>7. CASE StopServer
  <2>1. caller' \in [Requesters -> Callers]
    BY <1>7, NoCallerType DEF StopServer
  <2>2. sessions' \subseteq [password : 1 .. MaxPasswords, missed : BOOLEAN]
    BY <1>7, AllAreMissed DEF StopServer
  <2> QED
    BY <1>7, <2>1, <2>2 DEF StopServer, Callers
<1>8. CASE StartServer
  <2>1. fixed' \in BOOLEAN
    BY <1>8 DEF StartServer
  <2> QED
    BY <1>8, <2>1 DEF StartServer
<1>9. CASE PinPassword
  BY <1>9, PinningOutcomes
<1>10. CASE EndPinning
  BY <1>10, RemovalMarksAll DEF EndPinning
<1> QED
  BY <1>1, <1>2, <1>3, <1>4, <1>5, <1>6, <1>7, <1>8, <1>9, <1>10 DEF SessionsNext

\* Every step keeps SessionsInv.
LEMMA SessionsStep ==
    ASSUME SessionsTypeOK, SessionsInv, [SessionsNext]_sessionVars
    PROVE  SessionsInv'
<1> USE SessionsAssumption DEF SessionsTypeOK, SessionsInv, NoneOlder, Passwords, NoCaller, Goes, Ends
<1>1. ASSUME NEW c \in Requesters, SetUp(c)
      PROVE  SessionsInv'
  BY <1>1 DEF SetUp, StoredPassword, StoredInDoubt
<1>2. ASSUME NEW c \in Requesters, Prove(c) \/ CheckCurrent(c)
      PROVE  SessionsInv'
  BY <1>2 DEF Prove, CheckCurrent
<1>3. ASSUME NEW c \in Requesters, OpenSession(c)
      PROVE  SessionsInv'
  BY <1>3 DEF OpenSession
<1>4. ASSUME NEW c \in Requesters, SetPassword(c)
      PROVE  SessionsInv'
  BY <1>4 DEF SetPassword, StoredPassword, StoredInDoubt
<1>5. ASSUME NEW c \in Requesters, RemoveSessions(c)
      PROVE  SessionsInv'
  <2>1. \A s \in sessions' : s.missed
    BY <1>5, RemovalMarksAll DEF RemoveSessions
  <2>2. row = 0 => sessions' = {}
    BY <1>5 DEF RemoveSessions, RemovesAll, AllMissed
  <2>3. \A d \in Requesters :
           /\ caller'[d].password = caller[d].password
           /\ caller'[d].at = IF d = c THEN "removed" ELSE caller[d].at
           /\ d # c => caller'[d].late = (caller[d].at # "idle")
           /\ d = c => caller'[d].late = caller[d].late
    BY <1>5 DEF RemoveSessions
  <2>4. caller[c].at = "set" /\ UNCHANGED <<server, rec, row, settings, acknowledged, pinned>>
    BY <1>5 DEF RemoveSessions
  <2> HIDE DEF SessionsTypeOK, Goes, Ends, NoCaller, Passwords
  <2> QED
    BY <2>1, <2>2, <2>3, <2>4
<1>6. CASE CloseSession \/ UNCHANGED sessionVars
  BY <1>6 DEF CloseSession, sessionVars
<1>7. CASE StartServer
  BY <1>7 DEF StartServer
<1>8. CASE PinPassword
  <2> USE SessionsTypeOK
  <2> HIDE DEF SessionsTypeOK
  <2>1. caller' = caller /\ \A c \in Requesters : caller[c].at = "idle"
    BY <1>8 DEF PinPassword
  <2>2. {rec, row, acknowledged, pinned, settings} \subseteq Nat
    BY DEF SessionsTypeOK
  <2>3. CASE /\ server' = "pinning" /\ pinned' = settings' /\ row' = settings' /\ rec' = settings'
             /\ settings' = settings + 1 /\ UNCHANGED <<acknowledged, sessions>>
    BY <2>1, <2>2, <2>3
  <2>4. CASE settings' = settings + 1 /\ UNCHANGED <<acknowledged, server, row, rec, pinned, sessions>>
    BY <2>1, <2>2, <2>4
  <2>5. CASE /\ settings' = settings + 1 /\ row' = settings' /\ pinned' = settings'
             /\ server = "down" /\ UNCHANGED <<acknowledged, server, rec>>
             /\ \A s \in sessions' : s.missed
    BY <2>1, <2>2, <2>5
  <2> QED
    <3> HIDE DEF SessionsInv
    <3> QED
      BY <1>8, <2>3, <2>4, <2>5, PinningOutcomes
<1>9. CASE EndPinning
  <2> USE SessionsTypeOK
  <2> HIDE DEF SessionsTypeOK
  <2>1. \A s \in sessions' : s.missed
    BY <1>9, RemovalMarksAll DEF EndPinning
  <2>2. caller' = caller /\ \A c \in Requesters : caller[c].at = "idle"
    BY <1>9 DEF EndPinning
  <2>3. {rec, row, acknowledged, pinned, settings} \subseteq Nat
    BY DEF SessionsTypeOK
  <2>4. row = 0 => sessions' = {}
    BY <1>9 DEF EndPinning, RemovesAll, AllMissed
  <2> QED
    BY <1>9, <2>1, <2>2, <2>3, <2>4 DEF EndPinning
<1>10. CASE StopServer
  <2>1. \A c \in Requesters : caller'[c].at = "idle"
    BY <1>10 DEF StopServer
  <2>2. CASE server = "pinning"
    <3>1. \A s \in sessions' : s.missed
      BY <1>10, <2>2, AllAreMissed DEF StopServer
    <3>2. row = 0 => sessions' = {}
      BY <1>10, <2>2 DEF StopServer, AllMissed
    <3> QED
      BY <1>10, <2>1, <2>2, <3>1, <3>2 DEF StopServer
  <2>3. CASE server # "pinning"
    BY <1>10, <2>1, <2>3 DEF StopServer
  <2> QED
    BY <2>2, <2>3
<1> QED
  BY <1>1, <1>2, <1>3, <1>4, <1>5, <1>6, <1>7, <1>8, <1>9, <1>10 DEF SessionsNext

LEMMA SessionsBegin == SessionsInit => SessionsTypeOK /\ SessionsInv
<1>1. ASSUME SessionsInit
      PROVE  SessionsTypeOK
  <2>1. caller \in [Requesters -> Callers]
    BY <1>1, NoCallerType DEF SessionsInit
  <2>2. 0 \in Passwords /\ keptAfterRemoval \in 0 .. MaxKept
    BY <1>1, NoCallerType, SessionsAssumption DEF SessionsInit
  <2> QED
    BY <1>1, <2>1, <2>2 DEF SessionsInit, SessionsTypeOK, Callers
<1>2. SessionsInit => SessionsInv
  BY DEF SessionsInit, SessionsInv, NoCaller
<1> QED
  BY <1>1, <1>2

\* A session older than an acknowledged change, or than the password a start has
\* set, belonged to a call under way at the removal, or outlived a removal that
\* failed, or a start that ended before its removal: there is no other way, for any
\* number of requests, passwords and restarts (handleChangePassword, NewServer).
THEOREM OnlyMissedOutlive == SessionsSpec => [](SessionsTypeOK /\ OnlyMissedOutliveChange)
<1>1. SessionsTypeOK /\ SessionsInv /\ [SessionsNext]_sessionVars => SessionsTypeOK' /\ SessionsInv'
  BY SessionsTypeStep, SessionsStep
<1>2. SessionsTypeOK /\ SessionsInv => OnlyMissedOutliveChange
  BY DEF SessionsInv, OnlyMissedOutliveChange
<1> QED
  BY SessionsBegin, <1>1, <1>2, PTL DEF SessionsSpec

\* A password that is older than an acknowledged change, or than the one a start has
\* set, is accepted by no call begun after it: where no session and no call has it,
\* none ever will, through every failure and restart (setLocked, Verify,
\* newDatabaseCredentialStore).
THEOREM OldPasswordsDie == SessionsSpec => OldPasswordsStayDead
<1> DEFINE Dead == \A p \in 1 .. MaxPasswords :
                      (p < acknowledged \/ p < pinned) /\ ~InUse(p) => ~InUse(p)'
<1>1. SessionsTypeOK /\ SessionsInv /\ [SessionsNext]_sessionVars => SessionsTypeOK' /\ SessionsInv'
  BY SessionsTypeStep, SessionsStep
<1>2. ASSUME SessionsTypeOK, SessionsInv, SessionsNext
      PROVE  Dead
  <2> SUFFICES ASSUME NEW p \in 1 .. MaxPasswords, p < acknowledged \/ p < pinned, ~InUse(p)
               PROVE  ~InUse(p)'
    OBVIOUS
  <2> USE SessionsAssumption DEF Passwords, InUse
  <2>1. {rec, row, acknowledged, pinned, settings} \subseteq Nat
    BY <1>2 DEF SessionsTypeOK
  <2>2. p <= settings /\ (server # "down" => p < rec)
    BY <1>2, <2>1 DEF SessionsInv
  <2>3. ASSUME NEW c \in Requesters, SetUp(c) \/ Prove(c) \/ CheckCurrent(c) \/ SetPassword(c)
        PROVE  ~InUse(p)'
    <3>1. sessions' = sessions
      BY <2>3 DEF SetUp, Prove, CheckCurrent, SetPassword
    <3>2. \A d \in Requesters : caller'[d].at # "idle" =>
             \/ caller[d].at # "idle" /\ caller'[d].password = caller[d].password
             \/ server = "up" /\ caller'[d].password = rec
             \/ caller'[d].password = settings + 1
      BY <1>2, <2>3
      DEF SetUp, Prove, CheckCurrent, SetPassword, StoredPassword, Goes, Ends, NoCaller, SessionsTypeOK
    <3> QED
      BY <2>1, <2>2, <3>1, <3>2
  <2>4. ASSUME NEW c \in Requesters, OpenSession(c)
        PROVE  ~InUse(p)'
    BY <1>2, <2>4 DEF OpenSession, Ends, NoCaller, SessionsTypeOK
  <2>5. ASSUME NEW c \in Requesters, RemoveSessions(c)
        PROVE  ~InUse(p)'
    BY <1>2, <2>5 DEF RemoveSessions, RemovesAll, AllMissed, SessionsTypeOK
  <2>6. CASE CloseSession \/ StartServer
    BY <2>6 DEF CloseSession, StartServer
  <2>7. ASSUME UNCHANGED sessions \/ sessions' = {} \/ AllMissed
        PROVE  ~\E s \in sessions' : s.password = p
    BY <1>2, <2>7 DEF AllMissed, SessionsTypeOK
  <2>8. CASE PinPassword \/ EndPinning
    <3>1. caller' = caller
      BY <2>8 DEF PinPassword, EndPinning
    <3>2. UNCHANGED sessions \/ sessions' = {} \/ AllMissed
      BY <2>8 DEF PinPassword, EndPinning, RemovesAll
    <3> QED
      BY <2>7, <3>1, <3>2
  <2>9. CASE StopServer
    <3>1. \A c \in Requesters : caller'[c].at = "idle"
      BY <2>9 DEF StopServer, NoCaller
    <3>2. UNCHANGED sessions \/ AllMissed
      BY <2>9 DEF StopServer
    <3> QED
      BY <2>7, <3>1, <3>2
  <2> QED
    BY <1>2, <2>3, <2>4, <2>5, <2>6, <2>8, <2>9 DEF SessionsNext
<1>3. SessionsTypeOK /\ SessionsInv /\ [SessionsNext]_sessionVars => [Dead]_sessionVars
  BY <1>2
<1> QED
  BY SessionsBegin, <1>1, <1>3, PTL DEF SessionsSpec, OldPasswordsStayDead

-----------------------------------------------------------------------------
(* The sign-in through LinuxDo.                                            *)

CallbackForms ==
    [at : {"idle"}]
      \union [at : {"sent", "passed"}, browser : Browsers, flow : Nat, nonce : Nat]
      \union [at : {"known"}, browser : Browsers, profile : Profiles]

OAuthForms ==
    /\ begun \in Seq(Browsers) /\ Len(begun) <= MaxFlows
    /\ states \subseteq Flows
    /\ cookie \in [Browsers -> Nat]
    /\ callback \in [Callbacks -> CallbackForms]
    /\ passed \in [(1 .. MaxFlows) \X Browsers -> Nat]

BegunBy(f, b) == f \in Flows /\ begun[f] = b

\* The nonce a browser holds, or a callback carries, is of a flow that browser
\* began; a flow whose state is kept, or that was not begun, was not passed.
OAuthInv ==
    /\ \A b \in Browsers : cookie[b] # 0 => BegunBy(cookie[b], b)
    /\ \A c \in Callbacks :
          callback[c].at = "sent" /\ callback[c].nonce # 0 => BegunBy(callback[c].nonce, callback[c].browser)
    /\ \A f \in 1 .. MaxFlows, b \in Browsers :
          /\ f \in states \/ f \notin Flows => passed[<<f, b>>] = 0
          /\ passed[<<f, b>>] <= IF BegunBy(f, b) THEN 1 ELSE 0

\* A response frees the request and takes the cookie.
LEMMA Responses ==
    ASSUME OAuthForms, OAuthInv, NEW c \in Callbacks, callback[c].at # "idle", Respond(c)
    PROVE  /\ cookie' \in [Browsers -> Nat] /\ callback' \in [Callbacks -> CallbackForms]
           /\ \A b \in Browsers : cookie'[b] # 0 => BegunBy(cookie[b], b) /\ cookie'[b] = cookie[b]
           /\ \A d \in Callbacks : callback'[d] = callback[d] \/ callback'[d].at = "idle"
<1>1. callback[c].browser \in Browsers
  BY DEF OAuthForms, CallbackForms
<1>2. cookie' = [cookie EXCEPT ![callback[c].browser] = 0]
  BY DEF Respond
<1>3. callback' = [callback EXCEPT ![c] = [at |-> "idle"]]
  BY DEF Respond, NoCallback
<1>4. [at |-> "idle"] \in CallbackForms
  BY DEF CallbackForms
<1>5. callback' \in [Callbacks -> CallbackForms] /\ \A d \in Callbacks : callback'[d] = callback[d] \/ callback'[d].at = "idle"
  BY <1>3, <1>4 DEF OAuthForms
<1>6. cookie' \in [Browsers -> Nat] /\ \A b \in Browsers : cookie'[b] \in {0, cookie[b]}
  BY <1>1, <1>2 DEF OAuthForms
<1> QED
  BY <1>5, <1>6 DEF OAuthInv

\* A response to a callback keeps OAuthInv.
LEMMA ResponseKeeps ==
    ASSUME OAuthForms, OAuthInv, NEW c \in Callbacks, callback[c].at # "idle", Respond(c),
           UNCHANGED <<begun, passed>>, states' \subseteq states
    PROVE  OAuthForms' /\ OAuthInv'
<1>1. /\ cookie' \in [Browsers -> Nat] /\ callback' \in [Callbacks -> CallbackForms]
      /\ \A d \in Browsers : cookie'[d] # 0 => BegunBy(cookie[d], d) /\ cookie'[d] = cookie[d]
      /\ \A d \in Callbacks : callback'[d] = callback[d] \/ callback'[d].at = "idle"
  BY Responses
<1>2. OAuthForms'
  BY <1>1 DEF OAuthForms, Flows
<1>3. \A d \in Callbacks : callback'[d].at = "sent" => callback'[d] = callback[d]
  BY <1>1
<1>4. \A g \in 1 .. MaxFlows, d \in Browsers :
         /\ g \in states' \/ g \notin Flows' => passed'[<<g, d>>] = 0
         /\ passed'[<<g, d>>] <= IF BegunBy(g, d)' THEN 1 ELSE 0
  BY DEF OAuthInv, Flows, BegunBy
<1>5. \A d \in Browsers : cookie'[d] # 0 => BegunBy(cookie[d], d)'
  BY <1>1 DEF BegunBy, Flows
<1>6. \A d \in Callbacks : callback'[d].at = "sent" /\ callback'[d].nonce # 0 =>
         BegunBy(callback[d].nonce, callback[d].browser)'
  BY <1>3 DEF OAuthInv, BegunBy, Flows
<1> QED
  BY <1>2, <1>4, <1>5, <1>6 DEF OAuthInv

\* A sign-in that was begun ends at most once, and at the browser that began it, for
\* any number of browsers, requests, flows and restarts (linuxdo.go,
\* oauthStateStore).
THEOREM OAuthFlowEndsOnce == OAuthSpec => []FlowEndsOnce
<1>1. OAuthInit => OAuthForms /\ OAuthInv
  BY EmptySeq, OAuthAssumption
     DEF OAuthInit, OAuthForms, OAuthInv, NoCallback, CallbackForms, Flows, BegunBy
<1>2. OAuthForms /\ OAuthInv /\ [OAuthNext]_oauthVars => OAuthForms' /\ OAuthInv'
  <2> SUFFICES ASSUME OAuthForms, OAuthInv, [OAuthNext]_oauthVars
               PROVE  OAuthForms' /\ OAuthInv'
    OBVIOUS
  <2>1. ASSUME NEW b \in Browsers, BeginFlow(b)
        PROVE  OAuthForms' /\ OAuthInv'
    <3>1. /\ begun' = Append(begun, b) /\ Len(begun) < MaxFlows
          /\ cookie' = [cookie EXCEPT ![b] = Len(begun')]
          /\ UNCHANGED <<callback, passed>>
      BY <2>1 DEF BeginFlow
    <3>2. states' \subseteq states \union {Len(begun) + 1}
      <4>1. \A force : SweptStates(force) \subseteq states
        BY DEF SweptStates
      <4> QED
        BY <2>1, <4>1 DEF BeginFlow
    <3>3. /\ begun' \in Seq(Browsers) /\ Len(begun') = Len(begun) + 1 /\ Len(begun) \in Nat
          /\ \A f \in Flows : begun'[f] = begun[f]
          /\ begun'[Len(begun) + 1] = b
      BY <3>1, AppendProperties DEF OAuthForms, Flows
    <3>4. Flows' = Flows \union {Len(begun) + 1} /\ Len(begun) + 1 \notin Flows
      BY <3>3 DEF Flows
    <3>5. \A f, d : BegunBy(f, d)' <=> IF f = Len(begun) + 1 THEN d = b ELSE BegunBy(f, d)
      BY <3>3, <3>4 DEF BegunBy
    <3>6. OAuthForms'
      BY <3>1, <3>2, <3>3, <3>4, OAuthAssumption DEF OAuthForms
    <3>7. \A d \in Browsers : cookie'[d] = IF d = b THEN Len(begun) + 1 ELSE cookie[d]
      BY <3>1, <3>3 DEF OAuthForms
    <3>8. \A d \in Browsers : cookie'[d] # 0 => BegunBy(cookie[d], d)'
      BY <3>5, <3>7, <3>3 DEF OAuthInv, BegunBy, Flows
    <3>9. ASSUME NEW c \in Callbacks, callback[c].at = "sent", callback[c].nonce # 0
          PROVE  BegunBy(callback[c].nonce, callback[c].browser)'
      <4>1. BegunBy(callback[c].nonce, callback[c].browser)
        BY <3>9 DEF OAuthInv
      <4>2. callback[c].nonce # Len(begun) + 1
        BY <3>4, <4>1 DEF BegunBy
      <4> QED
        BY <3>1, <3>5, <4>1, <4>2
    <3>10. ASSUME NEW f \in 1 .. MaxFlows, NEW d \in Browsers
           PROVE  /\ f \in states' \/ f \notin Flows' => passed[<<f, d>>] = 0
                  /\ passed[<<f, d>>] <= IF BegunBy(f, d)' THEN 1 ELSE 0
      BY <3>2, <3>4, <3>5 DEF OAuthInv
    <3> QED
      BY <3>1, <3>6, <3>8, <3>9, <3>10 DEF OAuthInv
  <2>2. ASSUME NEW c \in Callbacks, NEW b \in Browsers, NEW f \in Flows, SendCallback(c, b, f)
        PROVE  OAuthForms' /\ OAuthInv'
    <3>1. f \in Nat /\ cookie[b] \in Nat
      BY DEF OAuthForms, Flows
    <3>2. [at |-> "sent", browser |-> b, flow |-> f, nonce |-> cookie[b]] \in CallbackForms
      BY <3>1 DEF CallbackForms
    <3>3. \A d \in Callbacks :
             callback'[d] = IF d = c THEN [at |-> "sent", browser |-> b, flow |-> f, nonce |-> cookie[b]]
                            ELSE callback[d]
      BY <2>2 DEF SendCallback, OAuthForms
    <3>4. OAuthForms'
      BY <2>2, <3>2 DEF SendCallback, OAuthForms, Flows
    <3> QED
      BY <2>2, <3>3, <3>4 DEF SendCallback, OAuthInv, BegunBy, Flows
  <2>3. ASSUME NEW c \in Callbacks, Consume(c)
        PROVE  OAuthForms' /\ OAuthInv'
    <3> DEFINE f == callback[c].flow
               b == callback[c].browser
    <3>1. /\ callback[c].at = "sent" /\ b \in Browsers /\ f \in Nat
          /\ UNCHANGED begun /\ states' \subseteq states \ {f}
      BY <2>3 DEF Consume, OAuthForms, CallbackForms, SweptStates, Taken
    <3>2. \A g, d : BegunBy(g, d)' <=> BegunBy(g, d)
      BY <3>1 DEF BegunBy, Flows
    <3>3. CASE /\ f \in states /\ callback[c].nonce = f
               /\ passed' = [passed EXCEPT ![<<f, b>>] = @ + 1]
               /\ callback' = [callback EXCEPT ![c].at = "passed"] /\ UNCHANGED cookie
      <4>1. f \in Flows /\ f # 0 /\ f \in 1 .. MaxFlows
        BY <3>3, OAuthAssumption DEF OAuthForms, Flows
      <4>2. BegunBy(f, b) /\ passed[<<f, b>>] = 0
        BY <3>1, <3>3, <4>1 DEF OAuthInv
      <4>3. /\ passed' \in [(1 .. MaxFlows) \X Browsers -> Nat]
            /\ \A g \in 1 .. MaxFlows, d \in Browsers :
                  passed'[<<g, d>>] = IF g = f /\ d = b THEN 1 ELSE passed[<<g, d>>]
        BY <3>1, <3>3, <4>1, <4>2 DEF OAuthForms
      <4>4. callback'[c] \in CallbackForms /\ callback'[c].at = "passed"
        BY <3>1, <3>3 DEF OAuthForms, CallbackForms
      <4>5. /\ callback' \in [Callbacks -> CallbackForms]
            /\ \A d \in Callbacks : callback'[d].at = "sent" => callback'[d] = callback[d]
        BY <3>3, <4>4 DEF OAuthForms
      <4>6. OAuthForms'
        BY <3>1, <3>3, <4>3, <4>5 DEF OAuthForms, Flows
      <4> QED
        BY <3>1, <3>2, <3>3, <4>1, <4>2, <4>3, <4>5, <4>6 DEF OAuthInv, Flows
    <3>4. CASE Respond(c) /\ UNCHANGED passed
      BY <3>1, <3>4, ResponseKeeps
    <3> QED
      BY <2>3, <3>3, <3>4 DEF Consume, SweptStates
  <2>4. ASSUME NEW c \in Callbacks, AskProfile(c)
        PROVE  OAuthForms' /\ OAuthInv'
    <3>1. callback[c].at = "passed" /\ UNCHANGED <<begun, states, passed>>
      BY <2>4 DEF AskProfile
    <3>2. CASE Respond(c)
      BY <3>1, <3>2, ResponseKeeps
    <3>3. ASSUME NEW p \in Profiles, UNCHANGED cookie,
                 callback' = [callback EXCEPT ![c] = [at |-> "known", profile |-> p,
                                                      browser |-> callback[c].browser]]
          PROVE  OAuthForms' /\ OAuthInv'
      <4>1. [at |-> "known", profile |-> p, browser |-> callback[c].browser] \in CallbackForms
        BY <3>1 DEF OAuthForms, CallbackForms
      <4>2. /\ callback' \in [Callbacks -> CallbackForms]
            /\ \A d \in Callbacks : callback'[d].at = "sent" => callback'[d] = callback[d]
        BY <3>3, <4>1 DEF OAuthForms
      <4> QED
        BY <3>1, <3>3, <4>2 DEF OAuthForms, OAuthInv, Flows, BegunBy
    <3> QED
      BY <2>4, <3>2, <3>3 DEF AskProfile
  <2>5. ASSUME NEW c \in Callbacks, StoreUser(c)
        PROVE  OAuthForms' /\ OAuthInv'
    BY <2>5, ResponseKeeps DEF StoreUser
  <2>6. CASE SetRegistration \/ StateLapses \/ SweepComes \/ UNCHANGED oauthVars
    <3>1. UNCHANGED <<begun, states, cookie, callback, passed>>
      BY <2>6 DEF SetRegistration, StateLapses, SweepComes, oauthVars
    <3> QED
      BY <3>1 DEF OAuthForms, OAuthInv, Flows, BegunBy
  <2>7. CASE Restart
    <3>1. [at |-> "idle"] \in CallbackForms
      BY DEF CallbackForms
    <3> QED
      BY <2>7, <3>1 DEF Restart, OAuthForms, OAuthInv, Flows, BegunBy, NoCallback
  <2> QED
    BY <2>1, <2>2, <2>3, <2>4, <2>5, <2>6, <2>7 DEF OAuthNext
<1>3. OAuthForms /\ OAuthInv => FlowEndsOnce
  <2> SUFFICES ASSUME OAuthForms, OAuthInv, NEW f \in Flows, NEW b \in Browsers
               PROVE  passed[<<f, b>>] <= IF b = begun[f] THEN 1 ELSE 0
    BY DEF FlowEndsOnce
  <2>1. f \in 1 .. MaxFlows
    BY OAuthAssumption DEF OAuthForms, Flows
  <2> QED
    BY <2>1 DEF OAuthInv, BegunBy
<1> QED
  BY <1>1, <1>2, <1>3, PTL DEF OAuthSpec

-----------------------------------------------------------------------------
(* The limiter.                                                            *)

\* c is what f ends with.
EndOf(c, f) ==
    /\ Len(c) <= Len(f)
    /\ \A n \in 1 .. Len(c) : c[n] = f[Len(f) - Len(c) + n]

\* The window e of a key accounts for the failures c and the attempts in A.
Fits(e, c, A) ==
    /\ c \in Seq(Nat) /\ IsFiniteSet(A)
    /\ e = NoWindow => c = <<>> /\ A = {}
    /\ e # NoWindow => /\ e \in [failures : Seq(Nat), inFlight : Nat, seen : Nat]
                       /\ e.inFlight = Cardinality(A)
                       /\ EndOf(c, e.failures)

\* The failures that count are recent and in the order of time.
InWindow(c, k) ==
    /\ \A n \in 1 .. Len(c) : c[n] < RuleWindow(k)
    /\ \A n, m \in 1 .. Len(c) : n < m => c[n] >= c[m]

LimiterInv ==
    /\ windows = [k \in Keys |-> windows[k]]
    /\ counted = [k \in Keys |-> counted[k]]
    /\ attempt = [a \in Attempts |-> attempt[a]]
    /\ \A a \in Attempts : attempt[a] = {} \/ \E i \in Ips, d \in Identities : attempt[a] = {i, d}
    /\ \A k \in Keys : /\ Fits(windows[k], counted[k], Active(k))
                       /\ InWindow(counted[k], k)
                       /\ Len(counted[k]) + Cardinality(Active(k)) <= RuleLimit(k)

\* Every rule has a limit and a window.
LEMMA RuleNumbers ==
    ASSUME NEW k \in Keys
    PROVE  RuleLimit(k) \in Nat \ {0} /\ RuleWindow(k) \in Nat \ {0} /\ Longest \in Nat /\ RuleWindow(k) <= Longest
<1>1. {IpLimit, IpWindow, IdLimit, IdWindow} \subseteq Nat \ {0}
  BY LimiterAssumption
<1>2. Longest = IF IpWindow > IdWindow THEN IpWindow ELSE IdWindow
  BY <1>1 DEF Longest, Max
<1> QED
  BY <1>1, <1>2 DEF RuleLimit, RuleWindow

\* What is pruned are the failures before the first recent one.
LEMMA RecentIsTheRest ==
    ASSUME NEW f \in Seq(Nat), NEW k \in Keys
    PROVE  \E first \in 1 .. Len(f) + 1 :
              /\ \A n \in 1 .. first - 1 : f[n] >= RuleWindow(k)
              /\ first <= Len(f) => f[first] < RuleWindow(k)
              /\ Recent(f, k) \in Seq(Nat) /\ Len(Recent(f, k)) = Len(f) + 1 - first
              /\ \A n \in 1 .. Len(f) + 1 - first : Recent(f, k)[n] = f[first + n - 1]
<1> DEFINE S == {n \in 1 .. Len(f) : f[n] < RuleWindow(k)} \union {Len(f) + 1}
           first == Min(S)
<1>1. /\ Len(f) \in Nat /\ RuleWindow(k) \in Nat
      /\ \A n \in 1 .. Len(f) : f[n] \in Nat
  BY RuleNumbers
<1>2. S \in SUBSET Nat /\ S # {} /\ S \subseteq 1 .. Len(f) + 1
  BY <1>1
<1>3. first \in S /\ \A n \in S : first <= n
  <2> HIDE DEF S
  <2> QED
    BY <1>2, LeastMember
<1>4. Recent(f, k) = SubSeq(f, first, Len(f))
  BY DEF Recent
<1>5. first \in 1 .. Len(f) + 1 /\ (first <= Len(f) => f[first] < RuleWindow(k))
  BY <1>1, <1>2, <1>3
<1>6. \A n \in 1 .. first - 1 : n \notin S /\ n \in 1 .. Len(f)
  <2> HIDE DEF S
  <2> QED
    BY <1>1, <1>3, <1>5
<1>7. \A n \in 1 .. first - 1 : f[n] >= RuleWindow(k)
  BY <1>1, <1>6
<1> HIDE DEF first
<1>8. /\ Recent(f, k) \in Seq(Nat) /\ Len(Recent(f, k)) = Len(f) + 1 - first
      /\ \A n \in 1 .. Len(f) + 1 - first : Recent(f, k)[n] = f[first + n - 1]
  BY <1>1, <1>4, <1>5, SubSeqProperties
<1> QED
  BY <1>5, <1>7, <1>8

\* A recent end of the failures survives the pruning.
LEMMA RecentKeepsEnd ==
    ASSUME NEW f \in Seq(Nat), NEW c \in Seq(Nat), NEW k \in Keys, EndOf(c, f), InWindow(c, k)
    PROVE  Recent(f, k) \in Seq(Nat) /\ EndOf(c, Recent(f, k))
<1>1. PICK first \in 1 .. Len(f) + 1 :
         /\ \A n \in 1 .. first - 1 : f[n] >= RuleWindow(k)
         /\ Recent(f, k) \in Seq(Nat) /\ Len(Recent(f, k)) = Len(f) + 1 - first
         /\ \A n \in 1 .. Len(f) + 1 - first : Recent(f, k)[n] = f[first + n - 1]
  BY RecentIsTheRest
<1>2. /\ Len(f) \in Nat /\ Len(c) \in Nat /\ RuleWindow(k) \in Nat /\ Len(c) <= Len(f)
      /\ \A n \in 1 .. Len(c) : c[n] = f[Len(f) - Len(c) + n] /\ c[n] \in Nat
  BY RuleNumbers DEF EndOf
<1>3. Len(c) <= Len(f) + 1 - first
  <2>1. CASE Len(c) = 0
    BY <1>1, <1>2, <2>1
  <2>2. CASE Len(c) > 0
    <3>1. c[1] = f[Len(f) - Len(c) + 1] /\ c[1] < RuleWindow(k) /\ c[1] \in Nat
      BY <1>2, <2>2 DEF InWindow
    <3>2. Len(f) - Len(c) + 1 \notin 1 .. first - 1
      BY <1>1, <1>2, <3>1
    <3> QED
      BY <1>2, <2>2, <3>2
  <2> QED
    BY <1>2, <2>1, <2>2
<1>4. ASSUME NEW n \in 1 .. Len(c)
      PROVE  c[n] = Recent(f, k)[Len(Recent(f, k)) - Len(c) + n]
  <2>1. Len(Recent(f, k)) - Len(c) + n \in 1 .. Len(f) + 1 - first
    BY <1>1, <1>2, <1>3
  <2>2. first + (Len(Recent(f, k)) - Len(c) + n) - 1 = Len(f) - Len(c) + n
    BY <1>1, <1>2
  <2> QED
    BY <1>1, <1>2, <2>1, <2>2
<1> QED
  BY <1>1, <1>2, <1>3, <1>4 DEF EndOf

\* What is recent of an end is an end, recent, and in the order of time as it was.
LEMMA RecentOfEnd ==
    ASSUME NEW f \in Seq(Nat), NEW c \in Seq(Nat), NEW k \in Keys, EndOf(c, f),
           \A n, m \in 1 .. Len(c) : n < m => c[n] >= c[m]
    PROVE  /\ Recent(c, k) \in Seq(Nat) /\ Len(Recent(c, k)) <= Len(c)
           /\ EndOf(Recent(c, k), f) /\ InWindow(Recent(c, k), k)
<1>1. PICK first \in 1 .. Len(c) + 1 :
         /\ first <= Len(c) => c[first] < RuleWindow(k)
         /\ Recent(c, k) \in Seq(Nat) /\ Len(Recent(c, k)) = Len(c) + 1 - first
         /\ \A n \in 1 .. Len(c) + 1 - first : Recent(c, k)[n] = c[first + n - 1]
  BY RecentIsTheRest
<1>2. /\ Len(f) \in Nat /\ Len(c) \in Nat /\ RuleWindow(k) \in Nat /\ Len(c) <= Len(f)
      /\ \A n \in 1 .. Len(c) : c[n] = f[Len(f) - Len(c) + n] /\ c[n] \in Nat
  BY RuleNumbers DEF EndOf
<1>3. Len(Recent(c, k)) <= Len(c)
  BY <1>1, <1>2
<1>4. ASSUME NEW n \in 1 .. Len(Recent(c, k))
      PROVE  /\ first + n - 1 \in 1 .. Len(c) /\ Recent(c, k)[n] = c[first + n - 1]
             /\ Recent(c, k)[n] = f[Len(f) - Len(Recent(c, k)) + n]
  <2>1. first + n - 1 \in 1 .. Len(c) /\ Recent(c, k)[n] = c[first + n - 1]
    BY <1>1, <1>2
  <2>2. c[first + n - 1] = f[Len(f) - Len(c) + (first + n - 1)]
    BY <1>2, <2>1
  <2>3. Len(f) - Len(c) + (first + n - 1) = Len(f) - Len(Recent(c, k)) + n
    BY <1>1, <1>2
  <2> QED
    BY <2>1, <2>2, <2>3
<1>5. EndOf(Recent(c, k), f)
  BY <1>2, <1>3, <1>4 DEF EndOf
<1>6. ASSUME NEW n \in 1 .. Len(Recent(c, k))
      PROVE  Recent(c, k)[n] < RuleWindow(k)
  <2>1. PICK m \in 1 .. Len(c) : m = first + n - 1 /\ Recent(c, k)[n] = c[m]
    BY <1>4
  <2>2. Len(c) \in Nat /\ RuleWindow(k) \in Nat
    BY <1>2
  <2>3. n \in Nat /\ n >= 1
    BY <1>1, <2>2
  <2>4. first \in 1 .. Len(c) /\ (first = m \/ first < m)
    BY <2>1, <2>2, <2>3
  <2>5. c[first] < RuleWindow(k) /\ c[first] \in Nat /\ c[m] \in Nat
    BY <1>1, <1>2, <2>4
  <2>6. c[first] >= c[m]
    BY <2>4, <2>5
  <2>7. c[m] < RuleWindow(k)
    BY <2>2, <2>5, <2>6
  <2> QED
    BY <2>1, <2>7
<1>7. ASSUME NEW n \in 1 .. Len(Recent(c, k)), NEW m \in 1 .. Len(Recent(c, k)), n < m
      PROVE  Recent(c, k)[n] >= Recent(c, k)[m]
  <2>1. first + n - 1 < first + m - 1
    BY <1>7
  <2> QED
    BY <1>4, <2>1
<1> QED
  BY <1>1, <1>3, <1>5, <1>6, <1>7 DEF InWindow

\* A failure that is recorded is the last of an end that stays within the limit.
LEMMA RecordedKeepsEnd ==
    ASSUME NEW f \in Seq(Nat), NEW c \in Seq(Nat), NEW k \in Keys, EndOf(c, f), InWindow(c, k),
           Len(c) + 1 <= RuleLimit(k)
    PROVE  /\ Recorded(f, k) \in Seq(Nat) /\ Append(c, 0) \in Seq(Nat)
           /\ Len(Append(c, 0)) = Len(c) + 1
           /\ EndOf(Append(c, 0), Recorded(f, k)) /\ InWindow(Append(c, 0), k)
<1> DEFINE r == Recent(f, k)
           all == Append(r, 0)
           from == Max({0, Len(all) - RuleLimit(k)}) + 1
           kept == SubSeq(all, from, Len(all))
           d == Append(c, 0)
<1>1. r \in Seq(Nat) /\ EndOf(c, r)
  BY RecentKeepsEnd
<1>2. Len(r) \in Nat /\ Len(c) \in Nat /\ RuleLimit(k) \in Nat /\ RuleWindow(k) \in Nat \ {0}
  <2> HIDE DEF r
  <2> QED
    BY <1>1, RuleNumbers
<1>3. Len(c) <= Len(r) /\ \A n \in 1 .. Len(c) : c[n] = r[Len(r) - Len(c) + n]
  BY <1>1 DEF EndOf
<1>4. \A n \in 1 .. Len(c) : c[n] \in Nat
  OBVIOUS
<1>5. d \in Seq(Nat) /\ Len(d) = Len(c) + 1 /\ d[Len(c) + 1] = 0 /\ \A n \in 1 .. Len(c) : d[n] = c[n]
  BY AppendProperties
<1> HIDE DEF r, d
<1>6. all \in Seq(Nat) /\ Len(all) = Len(r) + 1 /\ all[Len(r) + 1] = 0 /\ \A n \in 1 .. Len(r) : all[n] = r[n]
  BY <1>1, AppendProperties
<1> HIDE DEF all
<1>7. from \in 1 .. Len(all) /\ Len(all) + 1 - from >= Len(d)
  <2>1. Len(all) - RuleLimit(k) \in Int
    BY <1>2, <1>6
  <2>2. from = IF Len(all) - RuleLimit(k) > 0 THEN Len(all) - RuleLimit(k) + 1 ELSE 1
    BY <2>1, MaxWithZero
  <2> HIDE DEF from
  <2>3. /\ Len(all) \in Nat /\ Len(c) + 1 <= Len(all) /\ Len(d) = Len(c) + 1
        /\ Len(c) \in Nat /\ RuleLimit(k) \in Nat /\ Len(c) + 1 <= RuleLimit(k)
    BY <1>2, <1>3, <1>5, <1>6
  <2>4. from \in 1 .. Len(all) /\ from <= Len(all) - Len(c)
    BY <2>2, <2>3
  <2> QED
    BY <2>3, <2>4
<1> HIDE DEF from
<1>8. from \in 1 .. Len(all) + 1 /\ Len(all) \in Nat
  BY <1>2, <1>6, <1>7
<1>9. /\ kept \in Seq(Nat) /\ Len(kept) = Len(all) + 1 - from
      /\ \A n \in 1 .. Len(all) + 1 - from : kept[n] = all[from + n - 1]
  BY <1>6, <1>8, SubSeqProperties
<1> HIDE DEF kept
<1>10. ASSUME NEW n \in 1 .. Len(d)
      PROVE  d[n] = kept[Len(kept) - Len(d) + n]
  <2>1. Len(kept) - Len(d) + n \in 1 .. Len(all) + 1 - from
    <3>1. /\ Len(kept) = Len(all) + 1 - from /\ Len(all) + 1 - from >= Len(d)
          /\ Len(all) \in Nat /\ from \in Nat /\ Len(d) \in Nat
      BY <1>2, <1>5, <1>7, <1>9, <1>8
    <3> QED
      BY <3>1
  <2>2. kept[Len(kept) - Len(d) + n] = all[Len(r) - Len(c) + n]
    <3>1. from + (Len(kept) - Len(d) + n) - 1 = Len(r) - Len(c) + n
      BY <1>2, <1>5, <1>6, <1>7, <1>9, <1>3
    <3> QED
      BY <1>9, <2>1, <3>1
  <2>3. CASE n = Len(c) + 1
    BY <1>2, <1>5, <1>6, <2>2, <2>3
  <2>4. CASE n \in 1 .. Len(c)
    <3>1. Len(r) - Len(c) + n \in 1 .. Len(r)
      BY <1>2, <1>3, <2>4
    <3> QED
      BY <1>2, <1>5, <1>6, <1>3, <2>2, <2>4, <3>1
  <2> QED
    BY <1>2, <1>5, <2>3, <2>4
<1>11. EndOf(d, kept)
  BY <1>2, <1>5, <1>6, <1>7, <1>9, <1>10 DEF EndOf
<1>12. InWindow(d, k)
  <2>1. \A n \in 1 .. Len(d) : n \in 1 .. Len(c) \/ n = Len(c) + 1
    BY <1>2, <1>5
  <2>2. /\ \A n \in 1 .. Len(c) : c[n] < RuleWindow(k)
        /\ \A n, m \in 1 .. Len(c) : n < m => c[n] >= c[m]
    BY DEF InWindow
  <2>3. \A n \in 1 .. Len(d) : d[n] < RuleWindow(k)
    <3> SUFFICES ASSUME NEW n \in 1 .. Len(d)
                 PROVE  d[n] < RuleWindow(k)
      OBVIOUS
    <3>1. CASE n = Len(c) + 1
      BY <1>2, <1>5, <3>1
    <3>2. CASE n \in 1 .. Len(c)
      BY <1>5, <2>2, <3>2
    <3> QED
      BY <2>1, <3>1, <3>2
  <2>4. ASSUME NEW n \in 1 .. Len(d), NEW m \in 1 .. Len(d), n < m
        PROVE  d[n] >= d[m]
    <3>1. n \in 1 .. Len(c)
      BY <1>2, <1>5, <2>4
    <3> QED
      <4>1. CASE m = Len(c) + 1
        BY <1>5, <1>4, <3>1, <4>1
      <4>2. CASE m \in 1 .. Len(c)
        BY <1>5, <2>4, <2>2, <3>1, <4>2
      <4> QED
        BY <2>1, <4>1, <4>2
  <2> QED
    BY <2>3, <2>4 DEF InWindow
<1> QED
  BY <1>5, <1>9, <1>11, <1>12 DEF Recorded, kept, from, all, r, d

\* Time leaves an end an end, and the order as it is.
LEMMA AgedKeepsEnd ==
    ASSUME NEW f \in Seq(Nat), NEW c \in Seq(Nat), EndOf(c, f),
           \A n, m \in 1 .. Len(c) : n < m => c[n] >= c[m]
    PROVE  /\ Aged(f) \in Seq(Nat) /\ Aged(c) \in Seq(Nat)
           /\ Len(Aged(c)) = Len(c) /\ EndOf(Aged(c), Aged(f))
           /\ \A n, m \in 1 .. Len(Aged(c)) : n < m => Aged(c)[n] >= Aged(c)[m]
<1>1. Longest \in Nat /\ \A age \in Nat : Older(age) \in Nat
  <2>1. {IpWindow, IdWindow} \subseteq Nat
    BY LimiterAssumption
  <2>2. Longest = IF IpWindow > IdWindow THEN IpWindow ELSE IdWindow
    BY <2>1 DEF Longest, Max
  <2>3. Longest \in Nat
    BY <2>1, <2>2
  <2> QED
    BY <2>3 DEF Older
<1>2. ASSUME NEW g \in Seq(Nat)
      PROVE  /\ Aged(g) \in Seq(Nat) /\ Len(Aged(g)) = Len(g)
             /\ \A n \in 1 .. Len(g) : Aged(g)[n] = Older(g[n])
  <2>1. Len(g) \in Nat /\ \A n \in 1 .. Len(g) : g[n] \in Nat
    OBVIOUS
  <2>2. Aged(g) \in [1 .. Len(g) -> Nat]
    BY <1>1, <2>1 DEF Aged
  <2> QED
    BY <2>1, <2>2 DEF Aged
<1>3. /\ Len(f) \in Nat /\ Len(c) \in Nat /\ Len(c) <= Len(f)
      /\ \A n \in 1 .. Len(c) : c[n] = f[Len(f) - Len(c) + n] /\ c[n] \in Nat
  BY DEF EndOf
<1>4. ASSUME NEW n \in 1 .. Len(c)
      PROVE  Aged(c)[n] = Aged(f)[Len(f) - Len(c) + n]
  <2>1. Len(f) - Len(c) + n \in 1 .. Len(f)
    BY <1>3
  <2> QED
    BY <1>2, <1>3, <2>1
<1>5. ASSUME NEW n \in 1 .. Len(c), NEW m \in 1 .. Len(c), n < m
      PROVE  Aged(c)[n] >= Aged(c)[m]
  <2>1. c[n] >= c[m] /\ c[n] \in Nat /\ c[m] \in Nat
    BY <1>3, <1>5
  <2>2. Older(c[n]) >= Older(c[m])
    BY <1>1, <2>1 DEF Older
  <2> QED
    BY <1>2, <2>2
<1> QED
  BY <1>2, <1>3, <1>4, <1>5 DEF EndOf

KeptWindows == [failures : Seq(Nat), inFlight : Nat, seen : Nat]

\* A window that is kept is one.
LEMMA KeptIsNotNone == ASSUME NEW e \in KeptWindows PROVE e # NoWindow
<1>1. e.inFlight \in Nat
  BY DEF KeptWindows
<1>2. NoWindow.inFlight \notin Nat
  BY DEF NoWindow
<1> QED
  BY <1>1, <1>2

\* No window fits no failures and no attempts.
LEMMA NoneFits == Fits(NoWindow, <<>>, {})
<1>1. <<>> \in Seq(Nat) /\ IsFiniteSet({})
  BY FS_EmptySet
<1> QED
  BY <1>1 DEF Fits

\* A window that is deleted as idle accounted for nothing.
LEMMA IdleFits ==
    ASSUME NEW e \in KeptWindows, NEW c, NEW A, Fits(e, c, A)
    PROVE  Fits(UnlessIdle(e), c, A)
<1>1. CASE e.inFlight = 0 /\ e.failures = <<>>
  <2>1. e # NoWindow
    BY KeptIsNotNone
  <2>2. c \in Seq(Nat) /\ IsFiniteSet(A) /\ Cardinality(A) = 0 /\ Len(c) <= Len(<<>>)
    BY <1>1, <2>1 DEF Fits, EndOf
  <2>3. A = {}
    BY <2>2, FS_EmptySet
  <2>4. c = <<>>
    BY <2>2, EmptySeq
  <2> QED
    BY <1>1, <2>3, <2>4, NoneFits DEF UnlessIdle
<1>2. CASE ~ (e.inFlight = 0 /\ e.failures = <<>>)
  BY <1>2 DEF UnlessIdle
<1> QED
  BY <1>1, <1>2

\* What makes a window fit: a failure more or less on both sides, an attempt more or
\* less on both sides.
LEMMA WindowFits ==
    ASSUME NEW e \in KeptWindows, NEW c \in Seq(Nat), NEW A, IsFiniteSet(A),
           e.inFlight = Cardinality(A), EndOf(c, e.failures)
    PROVE  Fits(e, c, A) /\ Fits(UnlessIdle(e), c, A)
<1>1. Fits(e, c, A)
  BY KeptIsNotNone DEF Fits, KeptWindows
<1> QED
  BY <1>1, IdleFits

\* Pruning a window forgets only what is no longer counted.
LEMMA PrunedFits ==
    ASSUME NEW e, NEW c, NEW A, NEW k \in Keys, Fits(e, c, A), e # NoWindow, InWindow(c, k)
    PROVE  Fits(UnlessIdle([e EXCEPT !.failures = Recent(@, k)]), c, A)
<1> DEFINE f == [e EXCEPT !.failures = Recent(@, k)]
<1>1. /\ e \in KeptWindows /\ e.inFlight = Cardinality(A) /\ EndOf(c, e.failures)
      /\ c \in Seq(Nat) /\ IsFiniteSet(A) /\ e.failures \in Seq(Nat)
  BY DEF Fits, KeptWindows
<1>2. Recent(e.failures, k) \in Seq(Nat) /\ EndOf(c, Recent(e.failures, k))
  BY <1>1, RecentKeepsEnd
<1>3. f \in KeptWindows /\ f.failures = Recent(e.failures, k) /\ f.inFlight = e.inFlight
  BY <1>1, <1>2 DEF KeptWindows
<1> HIDE DEF f
<1>4. Fits(UnlessIdle(f), c, A)
  BY <1>1, <1>2, <1>3, WindowFits
<1> QED
  BY <1>4 DEF f

\* An attempt that leaves is one less in flight.
LEMMA LeaveFits ==
    ASSUME NEW e, NEW c, NEW A, NEW a, Fits(e, c, A \union {a}), a \notin A
    PROVE  Fits(UnlessIdle([e EXCEPT !.inFlight = @ - 1]), c, A)
<1> DEFINE f == [e EXCEPT !.inFlight = @ - 1]
<1>1. /\ e \in KeptWindows /\ e.inFlight = Cardinality(A \union {a}) /\ EndOf(c, e.failures)
      /\ c \in Seq(Nat) /\ IsFiniteSet(A \union {a})
  BY DEF Fits, KeptWindows
<1>2. IsFiniteSet(A)
  BY <1>1, FS_Subset
<1>3. Cardinality(A) \in Nat /\ Cardinality(A \union {a}) = Cardinality(A) + 1
  BY <1>2, FS_AddElement, FS_CardinalityType
<1>4. f \in KeptWindows /\ f.failures = e.failures /\ f.inFlight = Cardinality(A)
  BY <1>1, <1>3 DEF KeptWindows
<1> HIDE DEF f
<1>5. Fits(UnlessIdle(f), c, A)
  BY <1>1, <1>2, <1>4, WindowFits
<1> QED
  BY <1>5 DEF f

\* A new window has no failures and no attempts.
LEMMA FreshIsKept == Fresh \in KeptWindows /\ Fresh.inFlight = 0 /\ Fresh.failures = <<>>
<1>1. <<>> \in Seq(Nat) /\ 0 \in Nat
  OBVIOUS
<1> QED
  BY <1>1 DEF Fresh, KeptWindows

AllFit(w, C, A) == \A j \in Keys : Fits(w[j], C[j], A[j])

UsedBy(e, C, A, k, a) ==
    /\ e.map = [j \in Keys |-> e.map[j]]
    /\ e.forgot \subseteq Keys \ {k}
    /\ \A j \in e.forgot : A[j] = {}
    /\ \A j \in Keys \ {k} : Fits(e.map[j], IF j \in e.forgot THEN <<>> ELSE C[j], A[j])
    /\ Fits(e.map[k], C[k], A[k] \union {a})

\* The window of a key gets an attempt more; one that makes room for it had none.
LEMMA EnsuredFits ==
    ASSUME NEW w, NEW C, NEW A, AllFit(w, C, A),
           NEW k \in Keys, NEW a, a \notin A[k], NEW e \in Ensured(w, k)
    PROVE  UsedBy(e, C, A, k, a)
<1> DEFINE entry == IF w[k] = NoWindow THEN Fresh ELSE w[k]
           more == [failures |-> entry.failures, inFlight |-> entry.inFlight + 1, seen |-> 0]
<1>1. PICK out : /\ out = {} \/ (k \notin Held(w) /\ \E v \in Victims(w) : out = {v})
                 /\ e = [map |-> [j \in Keys |-> IF j = k THEN more
                                                 ELSE IF j \in out THEN NoWindow ELSE w[j]],
                         forgot |-> out]
  BY DEF Ensured
<1>2. out \subseteq Keys \ {k} /\ \A j \in out : w[j] # NoWindow /\ w[j].inFlight = 0
  BY <1>1 DEF Victims, Held
<1>3. \A j \in out : A[j] = {}
  BY <1>2, FS_EmptySet DEF AllFit, Fits
<1>4. entry \in KeptWindows /\ entry.inFlight = Cardinality(A[k]) /\ EndOf(C[k], entry.failures)
  <2>1. CASE w[k] = NoWindow
    <3>1. C[k] = <<>> /\ A[k] = {}
      BY <2>1 DEF AllFit, Fits
    <3>2. Cardinality({}) = 0 /\ Len(<<>>) = 0 /\ <<>> \in Seq(Nat)
      BY FS_EmptySet
    <3>3. entry = Fresh
      BY <2>1
    <3>4. EndOf(<<>>, <<>>)
      BY <3>2 DEF EndOf
    <3>5. entry \in KeptWindows /\ entry.inFlight = 0 /\ entry.failures = <<>>
      BY <3>3, FreshIsKept
    <3> QED
      BY <3>1, <3>2, <3>4, <3>5
  <2>2. CASE w[k] # NoWindow
    BY <2>2 DEF AllFit, Fits, KeptWindows
  <2> QED
    BY <2>1, <2>2
<1> HIDE DEF entry
<1>5. C[k] \in Seq(Nat) /\ IsFiniteSet(A[k]) /\ Cardinality(A[k]) \in Nat
  BY FS_CardinalityType DEF AllFit, Fits
<1>6. IsFiniteSet(A[k] \union {a}) /\ Cardinality(A[k] \union {a}) = Cardinality(A[k]) + 1
  BY <1>5, FS_AddElement
<1>7. more \in KeptWindows /\ more.failures = entry.failures /\ more.inFlight = entry.inFlight + 1
  BY <1>4 DEF KeptWindows
<1> HIDE DEF more
<1>8. Fits(more, C[k], A[k] \union {a})
  BY <1>4, <1>5, <1>6, <1>7, WindowFits
<1>9. \A j \in Keys \ {k} : Fits(e.map[j], IF j \in e.forgot THEN <<>> ELSE C[j], A[j])
  BY <1>1, <1>3, NoneFits DEF AllFit
<1> QED
  BY <1>1, <1>2, <1>3, <1>8, <1>9 DEF UsedBy

\* An attempt that ends turns its place in flight into a failure, or none.
LEMMA FinishedFits ==
    ASSUME NEW e, NEW c, NEW A, NEW k \in Keys, NEW a \in A, Fits(e, c, A), InWindow(c, k),
           Len(c) + Cardinality(A) <= RuleLimit(k),
           NEW counts \in BOOLEAN, NEW clears \in BOOLEAN, ~ (counts /\ clears),
           NEW d, d = IF clears THEN <<>> ELSE IF counts THEN Append(c, 0) ELSE c
    PROVE  /\ Fits(Finished(e, k, counts, clears), d, A \ {a})
           /\ InWindow(d, k)
           /\ Len(d) + Cardinality(A \ {a}) <= RuleLimit(k)
<1> DEFINE after == IF clears THEN <<>> ELSE IF counts THEN Recorded(e.failures, k) ELSE e.failures
           f == [failures |-> after, inFlight |-> Max({0, e.inFlight - 1}), seen |-> 0]
<1>1. /\ e \in KeptWindows /\ e.inFlight = Cardinality(A) /\ EndOf(c, e.failures)
      /\ c \in Seq(Nat) /\ IsFiniteSet(A) /\ e.failures \in Seq(Nat)
  BY DEF Fits, KeptWindows
<1>2. /\ IsFiniteSet(A \ {a}) /\ Cardinality(A \ {a}) = Cardinality(A) - 1
      /\ Cardinality(A) \in Nat /\ Cardinality(A \ {a}) \in Nat
      /\ Len(c) \in Nat /\ RuleLimit(k) \in Nat
  BY <1>1, FS_RemoveElement, FS_CardinalityType, RuleNumbers
<1>3. Max({0, e.inFlight - 1}) = Cardinality(A \ {a})
  <2>1. e.inFlight - 1 = Cardinality(A \ {a}) /\ e.inFlight - 1 \in Int
    BY <1>1, <1>2
  <2> QED
    BY <1>2, <2>1, MaxWithZero
<1>4. /\ after \in Seq(Nat) /\ d \in Seq(Nat) /\ EndOf(d, after) /\ InWindow(d, k)
      /\ Len(d) <= Len(c) + 1
  <2>1. CASE clears
    <3>1. <<>> \in Seq(Nat) /\ Len(<<>>) = 0
      OBVIOUS
    <3> QED
      BY <1>2, <2>1, <3>1 DEF EndOf, InWindow
  <2>2. CASE counts /\ ~clears
    <3>1. Len(c) + 1 <= RuleLimit(k)
      BY <1>2
    <3> QED
      BY <1>1, <1>2, <2>2, <3>1, RecordedKeepsEnd
  <2>3. CASE ~counts /\ ~clears
    BY <1>1, <1>2, <2>3
  <2> QED
    BY <2>1, <2>2, <2>3
<1>5. f \in KeptWindows /\ f.inFlight = Cardinality(A \ {a}) /\ f.failures = after
  BY <1>2, <1>3, <1>4 DEF KeptWindows
<1>6. Finished(e, k, counts, clears) = UnlessIdle(f)
  BY DEF Finished
<1> HIDE DEF f, after
<1>7. Fits(UnlessIdle(f), d, A \ {a})
  BY <1>2, <1>4, <1>5, WindowFits
<1>8. Len(d) \in Nat
  BY <1>4
<1> QED
  BY <1>2, <1>4, <1>6, <1>7, <1>8

\* What a step of an attempt does to one key is enough.
LEMMA LimiterKeeps ==
    ASSUME windows' = [k \in Keys |-> windows'[k]], counted' = [k \in Keys |-> counted'[k]],
           attempt' = [a \in Attempts |-> attempt'[a]],
           \A a \in Attempts : attempt'[a] = {} \/ \E i \in Ips, d \in Identities : attempt'[a] = {i, d},
           \A k \in Keys : /\ Fits(windows'[k], counted'[k], Active(k)')
                           /\ InWindow(counted'[k], k)
                           /\ Len(counted'[k]) + Cardinality(Active(k)') <= RuleLimit(k)
    PROVE  LimiterInv'
  BY DEF LimiterInv

\* Pruning all windows keeps each of them fitting.
LEMMA PrunedAll ==
    ASSUME LimiterInv, NEW ks
    PROVE  /\ Pruned(windows, ks) = [k \in Keys |-> Pruned(windows, ks)[k]]
           /\ \A k \in Keys : Fits(Pruned(windows, ks)[k], counted[k], Active(k))
<1>1. ASSUME NEW k \in Keys
      PROVE  Fits(Pruned(windows, ks)[k], counted[k], Active(k))
  <2>1. Fits(windows[k], counted[k], Active(k)) /\ InWindow(counted[k], k)
    BY DEF LimiterInv
  <2>2. CASE k \in ks /\ windows[k] # NoWindow
    <3>1. Pruned(windows, ks)[k] = UnlessIdle([windows[k] EXCEPT !.failures = Recent(@, k)])
      BY <2>2 DEF Pruned, Held
    <3> QED
      BY <2>1, <2>2, <3>1, PrunedFits
  <2>3. CASE ~ (k \in ks /\ windows[k] # NoWindow)
    <3>1. Pruned(windows, ks)[k] = windows[k]
      BY <2>3 DEF Pruned, Held
    <3> QED
      BY <2>1, <3>1
  <2> QED
    BY <2>2, <2>3
<1> QED
  BY <1>1 DEF Pruned

\* Admitting or refusing an attempt keeps LimiterInv.
LEMMA AdmitKeeps ==
    ASSUME LimiterInv, NEW a \in Attempts, NEW i \in Ips, NEW d \in Identities, Admit(a, i, d)
    PROVE  LimiterInv'
<1>1. PICK ks : LET w == Pruned(windows, ks) IN
          \/ windows' = w /\ UNCHANGED <<attempt, counted>>
          \/ /\ ~Full(w, i) /\ ~Full(w, d)
             /\ \E e \in Ensured(w, i) :
                   \/ windows' = Leave(e.map, i) /\ Forget(e.forgot) /\ UNCHANGED attempt
                   \/ \E g \in Ensured(e.map, d) :
                         /\ windows' = g.map
                         /\ attempt' = [attempt EXCEPT ![a] = {i, d}]
                         /\ Forget(e.forgot \union g.forgot)
  BY DEF Admit
<1> DEFINE w == Pruned(windows, ks)
           C == [k \in Keys |-> counted[k]]
           A == [k \in Keys |-> Active(k)]
<1>2. /\ w = [k \in Keys |-> w[k]]
      /\ \A k \in Keys : Fits(w[k], counted[k], Active(k))
      /\ AllFit(w, C, A)
  BY PrunedAll DEF AllFit
<1> HIDE DEF w
<1>3. /\ windows = [k \in Keys |-> windows[k]] /\ counted = [k \in Keys |-> counted[k]]
      /\ attempt = [b \in Attempts |-> attempt[b]] /\ attempt[a] = {}
      /\ \A b \in Attempts : attempt[b] = {} \/ \E m \in Ips, n \in Identities : attempt[b] = {m, n}
      /\ \A k \in Keys : /\ InWindow(counted[k], k) /\ counted[k] \in Seq(Nat)
                         /\ Len(counted[k]) + Cardinality(Active(k)) <= RuleLimit(k)
                         /\ IsFiniteSet(Active(k)) /\ Cardinality(Active(k)) \in Nat
  BY FS_CardinalityType DEF LimiterInv, Fits, Admit, NotActive
<1>4. /\ i \in Keys /\ d \in Keys /\ i # d
      /\ \A k \in Keys : C[k] = counted[k] /\ A[k] = Active(k) /\ a \notin A[k]
  BY <1>3, LimiterAssumption DEF Keys, Active
<1> HIDE DEF C, A
<1>5. CASE windows' = w /\ UNCHANGED <<attempt, counted>>
  <2>1. \A k \in Keys : Active(k)' = Active(k)
    BY <1>5 DEF Active
  <2> QED
    BY <1>2, <1>3, <1>5, <2>1, LimiterKeeps
<1>6. \A k \in Keys : /\ <<>> \in Seq(Nat) /\ Len(<<>>) = 0 /\ InWindow(<<>>, k)
                      /\ Len(counted[k]) \in Nat /\ RuleLimit(k) \in Nat \ {0}
  BY <1>3, RuleNumbers DEF InWindow
<1>7. ASSUME NEW e \in Ensured(w, i), windows' = Leave(e.map, i), Forget(e.forgot), UNCHANGED attempt
      PROVE  LimiterInv'
  <2>1. /\ e.map = [k \in Keys |-> e.map[k]] /\ e.forgot \subseteq Keys \ {i}
        /\ \A k \in Keys \ {i} : Fits(e.map[k], IF k \in e.forgot THEN <<>> ELSE C[k], A[k])
        /\ Fits(e.map[i], C[i], A[i] \union {a})
    <3>1. UsedBy(e, C, A, i, a)
      BY <1>2, <1>4, EnsuredFits
    <3> QED
      BY <3>1 DEF UsedBy
  <2>2. counted' = [k \in Keys |-> IF k \in e.forgot THEN <<>> ELSE counted[k]]
    BY <1>7 DEF Forget
  <2> DEFINE left == UnlessIdle([e.map[i] EXCEPT !.inFlight = @ - 1])
  <2>3. windows' = [e.map EXCEPT ![i] = left]
    BY <1>7 DEF Leave
  <2> HIDE DEF left
  <2>4. /\ windows' = [k \in Keys |-> windows'[k]]
        /\ windows'[i] = left
        /\ \A k \in Keys \ {i} : windows'[k] = e.map[k]
    BY <1>4, <2>1, <2>3
  <2>5. Fits(windows'[i], C[i], A[i])
    BY <1>4, <2>1, <2>4, LeaveFits DEF left
  <2>6. \A k \in Keys : Active(k)' = Active(k)
    BY <1>7 DEF Active
  <2>7. ASSUME NEW k \in Keys
        PROVE  /\ Fits(windows'[k], counted'[k], Active(k)')
               /\ InWindow(counted'[k], k)
               /\ Len(counted'[k]) + Cardinality(Active(k)') <= RuleLimit(k)
    <3>1. counted'[k] = IF k \in e.forgot THEN <<>> ELSE counted[k]
      BY <2>2
    <3>2. CASE k = i
      <4>1. counted'[k] = C[k] /\ Active(k)' = A[k]
        BY <1>4, <2>1, <2>6, <3>1, <3>2
      <4> QED
        BY <1>3, <1>4, <2>5, <3>2, <4>1
    <3>3. CASE k # i
      <4>1. Fits(windows'[k], counted'[k], Active(k)')
        BY <1>4, <2>1, <2>4, <2>6, <3>1, <3>3
      <4>2. Active(k)' = Active(k)
        BY <2>6
      <4>3. CASE counted'[k] = <<>>
        <5>1. 0 + Cardinality(Active(k)) <= RuleLimit(k)
          BY <1>3, <1>6
        <5> QED
          BY <1>6, <4>1, <4>2, <4>3, <5>1
      <4>4. CASE counted'[k] = counted[k]
        BY <1>3, <4>1, <4>2, <4>4
      <4> QED
        BY <3>1, <4>3, <4>4
    <3> QED
      BY <3>2, <3>3
  <2> QED
    BY <1>3, <1>7, <2>2, <2>4, <2>7, LimiterKeeps
<1>8. ASSUME NEW k \in Keys, ~Full(w, k)
      PROVE  Len(counted[k]) + Cardinality(Active(k)) < RuleLimit(k)
  <2>1. Fits(w[k], counted[k], Active(k))
    BY <1>2
  <2>2. CASE w[k] = NoWindow
    <3>1. counted[k] = <<>> /\ Active(k) = {}
      BY <2>1, <2>2 DEF Fits
    <3> QED
      BY <1>6, <3>1, FS_EmptySet
  <2>3. CASE w[k] # NoWindow
    <3>1. /\ Len(counted[k]) <= Len(w[k].failures) /\ w[k].inFlight = Cardinality(Active(k))
          /\ w[k].failures \in Seq(Nat)
      BY <2>1, <2>3 DEF Fits, EndOf
    <3>2. Len(w[k].failures) \in Nat
      BY <3>1
    <3>3. ~ (Len(w[k].failures) + w[k].inFlight >= RuleLimit(k))
      BY <1>8, <2>3 DEF Full
    <3> QED
      BY <1>3, <1>6, <3>1, <3>2, <3>3
  <2> QED
    BY <2>2, <2>3
<1>9. ASSUME ~Full(w, i), ~Full(w, d), NEW e \in Ensured(w, i), NEW g \in Ensured(e.map, d),
             windows' = g.map, attempt' = [attempt EXCEPT ![a] = {i, d}],
             Forget(e.forgot \union g.forgot)
      PROVE  LimiterInv'
  <2>1. /\ e.map = [k \in Keys |-> e.map[k]] /\ e.forgot \subseteq Keys \ {i}
        /\ \A k \in Keys \ {i} : Fits(e.map[k], IF k \in e.forgot THEN <<>> ELSE C[k], A[k])
        /\ Fits(e.map[i], C[i], A[i] \union {a})
    <3>1. UsedBy(e, C, A, i, a)
      BY <1>2, <1>4, EnsuredFits
    <3> QED
      BY <3>1 DEF UsedBy
  <2> DEFINE C1 == [k \in Keys |-> IF k \in e.forgot THEN <<>> ELSE counted[k]]
             A1 == [k \in Keys |-> IF k = i THEN Active(k) \union {a} ELSE Active(k)]
  <2>2. AllFit(e.map, C1, A1)
    BY <1>4, <2>1 DEF AllFit
  <2>3. a \notin A1[d]
    BY <1>4
  <2>4. /\ \A k \in Keys : C1[k] = IF k \in e.forgot THEN <<>> ELSE counted[k]
        /\ \A k \in Keys : A1[k] = IF k = i THEN Active(k) \union {a} ELSE Active(k)
    OBVIOUS
  <2> HIDE DEF C1, A1
  <2>5. /\ g.map = [k \in Keys |-> g.map[k]] /\ g.forgot \subseteq Keys \ {d}
        /\ \A k \in g.forgot : A1[k] = {}
        /\ \A k \in Keys \ {d} : Fits(g.map[k], IF k \in g.forgot THEN <<>> ELSE C1[k], A1[k])
        /\ Fits(g.map[d], C1[d], A1[d] \union {a})
    <3>1. UsedBy(g, C1, A1, d, a)
      BY <1>4, <2>2, <2>3, EnsuredFits
    <3> QED
      BY <3>1 DEF UsedBy
  <2>6. counted' = [k \in Keys |-> IF k \in e.forgot \union g.forgot THEN <<>> ELSE counted[k]]
    BY <1>9 DEF Forget
  <2>7. \A b \in Attempts : attempt'[b] = IF b = a THEN {i, d} ELSE attempt[b]
    BY <1>3, <1>9
  <2>8. \A k \in Keys : Active(k)' = IF k \in {i, d} THEN Active(k) \union {a} ELSE Active(k)
    BY <1>3, <2>7 DEF Active
  <2>9. ASSUME NEW k \in Keys
        PROVE  Fits(windows'[k], counted'[k], Active(k)')
    <3>1. counted'[k] = IF k \in g.forgot THEN <<>> ELSE C1[k]
      BY <2>4, <2>6
    <3>2. windows'[k] = g.map[k]
      BY <1>9
    <3>3. CASE k = d
      <4>1. counted'[k] = C1[d] /\ Active(k)' = A1[d] \union {a}
        BY <1>4, <2>4, <2>5, <2>8, <3>1, <3>3
      <4> QED
        BY <2>5, <3>2, <3>3, <4>1
    <3>4. CASE k # d
      <4>1. Active(k)' = A1[k]
        BY <2>4, <2>8, <3>4
      <4> QED
        BY <2>5, <3>1, <3>2, <3>4, <4>1
    <3> QED
      BY <3>3, <3>4
  <2>10. ASSUME NEW k \in Keys
         PROVE  /\ InWindow(counted'[k], k)
                /\ Len(counted'[k]) + Cardinality(Active(k)') <= RuleLimit(k)
    <3>1. counted'[k] \in {<<>>, counted[k]}
      BY <2>6
    <3>2. Len(counted'[k]) \in Nat /\ Len(counted'[k]) <= Len(counted[k]) /\ InWindow(counted'[k], k)
      BY <1>3, <1>6, <3>1
    <3>3. CASE k \in {i, d}
      <4>1. Len(counted[k]) + Cardinality(Active(k)) < RuleLimit(k)
        BY <1>8, <1>9, <3>3
      <4>2. Cardinality(Active(k)') = Cardinality(Active(k)) + 1
        <5>1. Active(k)' = Active(k) \union {a} /\ a \notin Active(k) /\ IsFiniteSet(Active(k))
          BY <1>3, <1>4, <2>8, <3>3
        <5> QED
          BY <5>1, FS_AddElement
      <4> QED
        BY <1>3, <1>6, <3>2, <4>1, <4>2
    <3>4. CASE k \notin {i, d}
      BY <1>3, <1>6, <2>8, <3>2, <3>4
    <3> QED
      BY <3>3, <3>4
  <2> QED
    BY <1>3, <1>9, <2>5, <2>6, <2>7, <2>9, <2>10, LimiterKeeps
<1> QED
  BY <1>1, <1>5, <1>7, <1>9 DEF w

\* So does the end of one.
LEMMA FinishKeeps ==
    ASSUME LimiterInv, NEW a \in Attempts, NEW counts \in BOOLEAN, NEW clears \in BOOLEAN,
           FinishAttempt(a, counts, clears)
    PROVE  LimiterInv'
<1>1. /\ attempt = [b \in Attempts |-> attempt[b]]
      /\ \A b \in Attempts : attempt[b] = {} \/ \E i \in Ips, d \in Identities : attempt[b] = {i, d}
      /\ \A k \in Keys : /\ Fits(windows[k], counted[k], Active(k)) /\ InWindow(counted[k], k)
                         /\ Len(counted[k]) + Cardinality(Active(k)) <= RuleLimit(k)
  BY DEF LimiterInv
<1>2. /\ ~ (counts /\ clears)
      /\ windows' = [k \in Keys |->
            IF k \in attempt[a] \intersect Held(windows)
            THEN Finished(windows[k], k, counts, clears /\ k \in Identities)
            ELSE windows[k]]
      /\ counted' = [k \in Keys |->
            IF k \notin attempt[a] THEN counted[k]
            ELSE IF clears /\ k \in Identities THEN <<>>
            ELSE IF counts THEN Append(counted[k], 0) ELSE counted[k]]
      /\ attempt' = [attempt EXCEPT ![a] = {}]
  BY DEF FinishAttempt, NotActive
<1>3. \A b \in Attempts : attempt'[b] = IF b = a THEN {} ELSE attempt[b]
  BY <1>1, <1>2
<1>4. \A k \in Keys : /\ a \in Active(k) <=> k \in attempt[a]
                      /\ Active(k)' = Active(k) \ {a}
  BY <1>3 DEF Active
<1>5. ASSUME NEW k \in Keys
      PROVE  /\ Fits(windows'[k], counted'[k], Active(k)')
             /\ InWindow(counted'[k], k)
             /\ Len(counted'[k]) + Cardinality(Active(k)') <= RuleLimit(k)
  <2>1. CASE k \in attempt[a]
    <3>1. a \in Active(k) /\ windows[k] # NoWindow
      BY <1>1, <1>4, <2>1 DEF Fits
    <3>2. PICK cl \in BOOLEAN : cl = (clears /\ k \in Identities)
      OBVIOUS
    <3>3. windows'[k] = Finished(windows[k], k, counts, cl)
      BY <1>2, <2>1, <3>1, <3>2 DEF Held
    <3>4. counted'[k] = IF cl THEN <<>> ELSE IF counts THEN Append(counted[k], 0) ELSE counted[k]
      BY <1>2, <2>1, <3>2
    <3>5. ~ (counts /\ cl)
      BY <1>2, <3>2
    <3>6. /\ Fits(Finished(windows[k], k, counts, cl), counted'[k], Active(k) \ {a})
          /\ InWindow(counted'[k], k)
          /\ Len(counted'[k]) + Cardinality(Active(k) \ {a}) <= RuleLimit(k)
      BY <1>1, <3>1, <3>4, <3>5, FinishedFits
    <3> QED
      BY <1>4, <3>3, <3>6
  <2>2. CASE k \notin attempt[a]
    <3>1. windows'[k] = windows[k] /\ counted'[k] = counted[k] /\ Active(k)' = Active(k)
      BY <1>2, <1>4, <2>2
    <3> QED
      BY <1>1, <3>1
  <2> QED
    BY <2>1, <2>2
<1> QED
  BY <1>1, <1>2, <1>3, <1>5, LimiterKeeps

\* So does the passage of time.
LEMMA TimeKeeps ==
    ASSUME LimiterInv, TimePasses
    PROVE  LimiterInv'
<1>1. /\ attempt = [b \in Attempts |-> attempt[b]]
      /\ \A b \in Attempts : attempt[b] = {} \/ \E i \in Ips, d \in Identities : attempt[b] = {i, d}
      /\ \A k \in Keys : /\ Fits(windows[k], counted[k], Active(k)) /\ InWindow(counted[k], k)
                         /\ Len(counted[k]) + Cardinality(Active(k)) <= RuleLimit(k)
  BY DEF LimiterInv
<1>2. /\ windows' = [k \in Keys |->
            IF windows[k] = NoWindow THEN NoWindow
            ELSE [failures |-> Aged(windows[k].failures), inFlight |-> windows[k].inFlight,
                  seen |-> Older(windows[k].seen)]]
      /\ counted' = [k \in Keys |-> Recent(Aged(counted[k]), k)]
      /\ attempt' = attempt
  BY DEF TimePasses
<1>3. \A k \in Keys : Active(k)' = Active(k)
  BY <1>2 DEF Active
<1>4. ASSUME NEW k \in Keys
      PROVE  /\ Fits(windows'[k], counted'[k], Active(k)')
             /\ InWindow(counted'[k], k)
             /\ Len(counted'[k]) + Cardinality(Active(k)') <= RuleLimit(k)
  <2> DEFINE c == counted[k]
             now == Recent(Aged(c), k)
  <2>1. c \in Seq(Nat) /\ IsFiniteSet(Active(k)) /\ Cardinality(Active(k)) \in Nat /\ RuleLimit(k) \in Nat
    BY <1>1, FS_CardinalityType, RuleNumbers DEF Fits
  <2>2. \A n, m \in 1 .. Len(c) : n < m => c[n] >= c[m]
    BY <1>1 DEF InWindow
  <2>3. ASSUME NEW f \in Seq(Nat), EndOf(c, f)
        PROVE  /\ Aged(f) \in Seq(Nat) /\ now \in Seq(Nat) /\ Len(now) <= Len(c)
               /\ EndOf(now, Aged(f)) /\ InWindow(now, k)
    <3>1. /\ Aged(f) \in Seq(Nat) /\ Aged(c) \in Seq(Nat)
          /\ Len(Aged(c)) = Len(c) /\ EndOf(Aged(c), Aged(f))
          /\ \A n, m \in 1 .. Len(Aged(c)) : n < m => Aged(c)[n] >= Aged(c)[m]
      BY <2>1, <2>2, <2>3, AgedKeepsEnd
    <3> QED
      BY <3>1, RecentOfEnd
  <2>4. counted'[k] = now
    BY <1>2
  <2> HIDE DEF c, now
  <2>5. CASE windows[k] = NoWindow
    <3>1. c = <<>> /\ Active(k) = {} /\ Len(c) = 0 /\ EndOf(c, c)
      BY <1>1, <2>5 DEF Fits, EndOf, c
    <3>2. now \in Seq(Nat) /\ Len(now) <= Len(c) /\ InWindow(now, k)
      BY <2>1, <2>3, <3>1
    <3>3. now = <<>> /\ Len(now) = 0
      BY <3>1, <3>2, EmptySeq
    <3>4. windows'[k] = NoWindow /\ Cardinality({}) = 0
      BY <1>2, <2>5, FS_EmptySet
    <3>5. Active(k)' = {} /\ counted'[k] = <<>>
      BY <1>3, <2>4, <3>1, <3>3
    <3>6. Fits(windows'[k], counted'[k], Active(k)')
      BY <3>4, <3>5, NoneFits
    <3>7. InWindow(counted'[k], k)
      BY <2>4, <3>2
    <3>8. Len(counted'[k]) = 0 /\ Cardinality(Active(k)') = 0 /\ RuleLimit(k) >= 0
      BY <2>1, <2>4, <3>3, <3>4, <3>5
    <3> QED
      BY <2>1, <3>6, <3>7, <3>8
  <2>6. CASE windows[k] # NoWindow
    <3>1. /\ windows[k] \in KeptWindows /\ windows[k].inFlight = Cardinality(Active(k))
          /\ windows[k].failures \in Seq(Nat) /\ EndOf(c, windows[k].failures)
      BY <1>1, <2>6 DEF Fits, KeptWindows, c
    <3>2. /\ Aged(windows[k].failures) \in Seq(Nat) /\ now \in Seq(Nat) /\ Len(now) <= Len(c)
          /\ EndOf(now, Aged(windows[k].failures)) /\ InWindow(now, k)
      BY <2>3, <3>1
    <3>3. windows[k].seen \in Nat /\ Older(windows[k].seen) \in Nat
      BY <3>1 DEF KeptWindows, Older
    <3>4. /\ windows'[k] \in KeptWindows /\ windows'[k].inFlight = Cardinality(Active(k))
          /\ windows'[k].failures = Aged(windows[k].failures)
      BY <1>2, <2>6, <3>1, <3>2, <3>3 DEF KeptWindows
    <3>5. Fits(windows'[k], now, Active(k))
      BY <2>1, <3>2, <3>4, WindowFits
    <3>6. Len(now) \in Nat /\ Len(c) \in Nat /\ Len(c) + Cardinality(Active(k)) <= RuleLimit(k)
      BY <1>1, <2>1, <3>2 DEF c
    <3> QED
      BY <1>3, <2>1, <2>4, <3>2, <3>5, <3>6
  <2> QED
    BY <2>5, <2>6
<1> QED
  BY <1>1, <1>2, <1>4, LimiterKeeps

\* Of a burst of guesses no more are checked than one after the other would be, for
\* any keys, requests, limits, windows and size of the map (admit,
\* finishAdmission).
THEOREM GuessesBounded == LimiterSpec => []GuessesAreBounded
<1>1. LimiterInit => LimiterInv
  <2> SUFFICES ASSUME LimiterInit
               PROVE  LimiterInv
    OBVIOUS
  <2>1. \A k \in Keys : Active(k) = {} /\ windows[k] = NoWindow /\ counted[k] = <<>>
    BY DEF LimiterInit, Active, NotActive
  <2>2. \A k \in Keys : RuleLimit(k) \in Nat /\ InWindow(<<>>, k) /\ Len(<<>>) + Cardinality({}) <= RuleLimit(k)
    BY RuleNumbers, FS_EmptySet DEF InWindow
  <2> QED
    BY <2>1, <2>2, NoneFits DEF LimiterInit, LimiterInv, NotActive
<1>2. LimiterInv /\ [LimiterNext]_limiterVars => LimiterInv'
  <2> SUFFICES ASSUME LimiterInv, [LimiterNext]_limiterVars
               PROVE  LimiterInv'
    OBVIOUS
  <2>1. CASE UNCHANGED limiterVars
    BY <2>1 DEF limiterVars, LimiterInv, Active
  <2> QED
    BY <2>1, AdmitKeeps, FinishKeeps, TimeKeeps DEF LimiterNext
<1>3. LimiterInv => GuessesAreBounded
  BY DEF LimiterInv, GuessesAreBounded
<1> QED
  BY <1>1, <1>2, <1>3, PTL DEF LimiterSpec
=============================================================================
