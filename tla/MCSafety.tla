------------------------------ MODULE MCSafety ------------------------------
(***************************************************************************)
(* Parts around the core, side by side: the pool of PikPak accounts, the   *)
(* limiter, the administrator's sessions, the sign-in through LinuxDo, the *)
(* vouchers, the catalog and the links of the library, downloads through   *)
(* the server, and the files in PikPak accounts.                           *)
(*                                                                         *)
(* They share no variable, and no property speaks of two of them: a        *)
(* behaviour of all is an interleaving of a behaviour of each, and what    *)
(* one does is the same whether the others move or not.  So one of them is *)
(* chosen at the beginning and the others stay where they begin.           *)
(***************************************************************************)
EXTENDS AccountPool, AuthLimiter, AdminSessions, OAuthSignIn, Vouchers, LibraryTree, LibraryLinks,
        ProxyStream, TempCleanup

VARIABLE chosen

mcVars == <<chosen, poolVars, limiterVars, sessionVars, oauthVars, voucherVars, treeVars, linksVars, proxyVars, fileVars>>

\* Rows of a former process and jobs for shares only where they matter.
MCInit ==
    /\ chosen \in {"pool", "limiter", "sessions", "oauth", "vouchers", "tree", "links", "proxy", "files"}
    /\ PoolInit /\ LimiterInit /\ SessionsInit /\ OAuthInit /\ VouchersInit /\ TreeInit /\ LinksInit
    /\ ProxyInit /\ FilesInit
    /\ chosen # "pool" => rows = <<>>
    /\ chosen # "files" => shares = {}

Moves(component) == chosen = component /\ UNCHANGED chosen

MCNext ==
    \/ /\ Moves("pool") /\ PoolNext
       /\ UNCHANGED <<limiterVars, sessionVars, oauthVars, voucherVars, treeVars, linksVars, proxyVars, fileVars>>
    \/ /\ Moves("limiter") /\ LimiterNext
       /\ UNCHANGED <<poolVars, sessionVars, oauthVars, voucherVars, treeVars, linksVars, proxyVars, fileVars>>
    \/ /\ Moves("sessions") /\ SessionsNext
       /\ UNCHANGED <<poolVars, limiterVars, oauthVars, voucherVars, treeVars, linksVars, proxyVars, fileVars>>
    \/ /\ Moves("oauth") /\ OAuthNext
       /\ UNCHANGED <<poolVars, limiterVars, sessionVars, voucherVars, treeVars, linksVars, proxyVars, fileVars>>
    \/ /\ Moves("vouchers") /\ VouchersNext
       /\ UNCHANGED <<poolVars, limiterVars, sessionVars, oauthVars, treeVars, linksVars, proxyVars, fileVars>>
    \/ /\ Moves("tree") /\ TreeNext
       /\ UNCHANGED <<poolVars, limiterVars, sessionVars, oauthVars, voucherVars, linksVars, proxyVars, fileVars>>
    \/ /\ Moves("links") /\ LinksNext
       /\ UNCHANGED <<poolVars, limiterVars, sessionVars, oauthVars, voucherVars, treeVars, proxyVars, fileVars>>
    \/ /\ Moves("proxy") /\ ProxyNext
       /\ UNCHANGED <<poolVars, limiterVars, sessionVars, oauthVars, voucherVars, treeVars, linksVars, fileVars>>
    \/ /\ Moves("files") /\ FilesNext
       /\ UNCHANGED <<poolVars, limiterVars, sessionVars, oauthVars, voucherVars, treeVars, linksVars, proxyVars>>

MCSpec == MCInit /\ [][MCNext]_mcVars
=============================================================================
