--------------------------- MODULE AdminSessions ---------------------------
(***************************************************************************)
(* The password of the administrator and the sessions it opens.  The       *)
(* record is kept in memory and in a table; it is read under a lock, the   *)
(* password is checked against it outside, and a session is inserted last. *)
(* A change checks, sets, removes every session and inserts one, in four   *)
(* steps, while others sign in, change, set up or leave.  A start that     *)
(* finds another password than the one it is given sets it and removes     *)
(* every session, in two commits, before the server listens.               *)
(*                                                                         *)
(* A password is the number of the setting that stored it.  A session is   *)
(* the password its opener proved; two of the same password are told apart *)
(* only by what is said of them below.                                     *)
(***************************************************************************)
EXTENDS Integers

CONSTANTS
    Requesters,   \* requests, one call at a time each
    MaxPasswords, \* settings of a password
    MaxKept       \* removals of sessions that fail

ASSUME SessionsAssumption == MaxPasswords \in Nat \ {0} /\ MaxKept \in Nat

VARIABLES
    \* down, up, or starting: a password was set and the sessions are not removed yet
    server,
    \* ACCESS_PASSWORD is set for this process
    fixed,
    \* databaseCredentialStore.rec and the row of admin_credentials, 0 for none
    rec, row,
    \* the rows of admin_sessions: the password proved, and whether a removal that
    \* was to end it is known to have missed it (see OnlyMissedOutliveChange)
    sessions,
    \* where each request is, and the password it has proved or set
    caller,
    settings,
    \* the latest password whose setting was acknowledged to who asked for it, and
    \* the latest that a start has written into the row, 0 for none
    acknowledged, pinned,
    keptAfterRemoval

sessionVars == <<server, fixed, rec, row, sessions, caller, settings, acknowledged, pinned, keptAfterRemoval>>

Passwords == 0 .. MaxPasswords
NoCaller == [at |-> "idle", password |-> 0, late |-> FALSE]

SessionsTypeOK ==
    /\ server \in {"down", "pinning", "up"} /\ fixed \in BOOLEAN
    /\ {rec, row, acknowledged, pinned, settings} \subseteq Passwords
    /\ sessions \subseteq [password : 1 .. MaxPasswords, missed : BOOLEAN]
    /\ caller \in [Requesters -> [at : {"idle", "checked", "proved", "set", "removed"},
                               password : Passwords, late : BOOLEAN]]
    /\ keptAfterRemoval \in 0 .. MaxKept

SessionsInit ==
    /\ server = "down" /\ fixed = FALSE
    /\ rec = 0 /\ row = 0 /\ settings = 0 /\ acknowledged = 0 /\ pinned = 0
    /\ sessions = {}
    /\ caller = [c \in Requesters |-> NoCaller]
    /\ keptAfterRemoval = 0

-----------------------------------------------------------------------------
\* Mutant: the record in memory is not replaced.
StoredInTable == settings' = settings + 1 /\ row' = settings' /\ UNCHANGED rec

\* setLocked: the row, then the record in memory.
StoredPassword == settings' = settings + 1 /\ row' = settings' /\ rec' = settings'

\* A statement that fails, or was executed and reports an error, leaves the record
\* in memory alone.
StoredInDoubt ==
    /\ settings' = settings + 1 /\ row' \in {row, settings'}
    /\ UNCHANGED rec

\* Every session outlives a removal that was to end it.
AllMissed == sessions' = {[s EXCEPT !.missed = TRUE] : s \in sessions}

\* Mutant: the sessions stay.
RemovesNone == UNCHANGED <<sessions, keptAfterRemoval>>

\* DELETE FROM admin_sessions, whose error nobody reads.
RemovesAll ==
    \/ /\ sessions' = {} /\ UNCHANGED keptAfterRemoval
    \/ /\ keptAfterRemoval < MaxKept /\ keptAfterRemoval' = keptAfterRemoval + 1
       /\ AllMissed

Goes(c, at, p) == caller' = [caller EXCEPT ![c].at = at, ![c].password = p]
Ends(c) == caller' = [caller EXCEPT ![c] = NoCaller]

-----------------------------------------------------------------------------
\* handleAuthSetup, SetInitial: the token is valid for a while after a start that
\* found no password, INSERT OR IGNORE decides.
SetUp(c) ==
    /\ server = "up" /\ caller[c].at = "idle" /\ rec = 0 /\ settings < MaxPasswords
    /\ \/ /\ row = 0 /\ StoredPassword /\ Goes(c, "proved", settings')
          /\ acknowledged' = settings'
       \/ /\ row = 0 /\ StoredInDoubt /\ UNCHANGED <<caller, acknowledged>>
    /\ UNCHANGED <<server, fixed, sessions, pinned, keptAfterRemoval>>

\* handleAuthLogin: the record is read and the password is right.
Prove(c) ==
    /\ server = "up" /\ caller[c].at = "idle" /\ rec # 0
    /\ Goes(c, "proved", rec)
    /\ UNCHANGED <<server, fixed, rec, row, sessions, settings, acknowledged, pinned, keptAfterRemoval>>

\* issueSession, and the answer; or its error, of a statement that may have been
\* executed.
OpenSession(c) ==
    /\ caller[c].at \in {"proved", "removed"}
    /\ \/ /\ sessions' = sessions \union {[password |-> caller[c].password, missed |-> caller[c].late]}
          /\ acknowledged' = IF caller[c].at = "removed" /\ caller[c].password > acknowledged
                             THEN caller[c].password ELSE acknowledged
       \/ /\ sessions' \in {sessions, sessions \union {[password |-> caller[c].password, missed |-> caller[c].late]}}
          /\ UNCHANGED acknowledged
    /\ Ends(c)
    /\ UNCHANGED <<server, fixed, rec, row, settings, pinned, keptAfterRemoval>>

\* handleChangePassword: a session lets it in, the current password is checked.
CheckCurrent(c) ==
    /\ server = "up" /\ caller[c].at = "idle" /\ sessions # {} /\ rec # 0 /\ ~fixed
    /\ Goes(c, "checked", rec)
    /\ UNCHANGED <<server, fixed, rec, row, sessions, settings, acknowledged, pinned, keptAfterRemoval>>

\* ... the new one is another than the record's (another change may have come
\* between), and is stored.
SetPassword(c) ==
    /\ caller[c].at = "checked" /\ settings < MaxPasswords
    /\ \/ StoredPassword /\ Goes(c, "set", settings')
       \/ StoredInDoubt /\ Ends(c)
    /\ UNCHANGED <<server, fixed, sessions, acknowledged, pinned, keptAfterRemoval>>

\* The calls under way insert their sessions after the removal that was to end them.
RemoveSessions(c) ==
    /\ caller[c].at = "set"
    /\ RemovesAll
    /\ caller' = [d \in Requesters |->
          IF d = c THEN [caller[d] EXCEPT !.at = "removed"]
          ELSE [caller[d] EXCEPT !.late = caller[d].at # "idle"]]
    /\ UNCHANGED <<server, fixed, rec, row, settings, acknowledged, pinned>>

\* handleAuthLogout, or a session that is found expired.
CloseSession ==
    /\ server = "up"
    /\ \E s \in sessions : sessions' = sessions \ {s}
    /\ UNCHANGED <<server, fixed, rec, row, caller, settings, acknowledged, pinned, keptAfterRemoval>>

-----------------------------------------------------------------------------
(* NewServer.                                                              *)

\* The record is read from its row; a fixed password, if there is one, is the one
\* stored.
StartServer ==
    /\ server = "down" /\ server' = "up"
    /\ fixed' \in {FALSE} \union {TRUE : r \in {row} \ {0}}
    /\ rec' = row
    /\ UNCHANGED <<row, sessions, caller, settings, acknowledged, pinned, keptAfterRemoval>>

\* A fixed password that is not the one stored is set.  An error ends the start,
\* also one of a statement that was executed.
PinPassword ==
    /\ server = "down" /\ settings < MaxPasswords
    /\ \/ /\ server' = "pinning" /\ StoredPassword
          /\ pinned' = settings'
          /\ UNCHANGED sessions
       \/ /\ StoredInDoubt
          /\ IF row' = row THEN UNCHANGED <<pinned, sessions>> ELSE pinned' = settings' /\ AllMissed
          /\ UNCHANGED server
    /\ fixed' = TRUE
    /\ UNCHANGED <<caller, acknowledged, keptAfterRemoval>>

\* ... and ends every session before the server listens.
EndPinning ==
    /\ server = "pinning" /\ server' = "up"
    /\ RemovesAll
    /\ UNCHANGED <<fixed, rec, row, caller, settings, acknowledged, pinned>>

\* The process ends, between the two statements of a start too: the next one finds
\* the password it is given and removes nothing.
StopServer ==
    /\ server # "down" /\ server' = "down"
    /\ IF server = "pinning" THEN AllMissed ELSE UNCHANGED sessions
    /\ caller' = [c \in Requesters |-> NoCaller]
    /\ UNCHANGED <<fixed, rec, row, settings, acknowledged, pinned, keptAfterRemoval>>

SessionsNext ==
    \/ \E c \in Requesters :
          \/ SetUp(c) \/ Prove(c) \/ OpenSession(c)
          \/ CheckCurrent(c) \/ SetPassword(c) \/ RemoveSessions(c)
    \/ CloseSession \/ StartServer \/ PinPassword \/ EndPinning \/ StopServer

SessionsSpec == SessionsInit /\ [][SessionsNext]_sessionVars

-----------------------------------------------------------------------------
(* Properties.                                                             *)

\* What the code gives of "changing it logs out every other session": a session
\* opened with a password older than an acknowledged change, or than the one a
\* start has set, is one of three kinds and no other.  Its call was under way when
\* the sessions were removed, the error of the removal was dropped, or a start that
\* set its password was cut short, or refused, before it removed them.  Without these
\* exceptions the promise fails: OthersLoggedOut is the first of them.
OnlyMissedOutliveChange ==
    \A s \in sessions : ~s.missed =>
        s.password >= acknowledged /\ (server # "pinning" => s.password >= pinned)

\* A session, or a call that will open one, has password p.
InUse(p) ==
    \/ \E s \in sessions : s.password = p
    \/ \E c \in Requesters : caller[c].at # "idle" /\ caller[c].password = p

\* Once a change was acknowledged, or a start has set its password, no call accepts
\* an older one, whatever fails or restarts afterwards: when the last session and
\* the last call that have it are gone, none comes back (setLocked, Verify,
\* newDatabaseCredentialStore).
OldPasswordsStayDead ==
    [][\A p \in 1 .. MaxPasswords :
          (p < acknowledged \/ p < pinned) /\ ~InUse(p) => ~InUse(p)']_sessionVars

\* "changing it logs out every other session" (the comment of handleChangePassword):
\* after the answer no session is left that an older password has opened.
OthersLoggedOut == \A s \in sessions : s.password >= acknowledged
=============================================================================
