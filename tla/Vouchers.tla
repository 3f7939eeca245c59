------------------------------ MODULE Vouchers ------------------------------
(***************************************************************************)
(* Vouchers (CDK): the administrator issues, edits and revokes them, a     *)
(* user redeems one for a subscription.  A redemption is one transaction   *)
(* that holds the writer lock from its first read; an edit and a           *)
(* revocation are a conditional UPDATE and then a read that decides the    *)
(* answer, with others in between.                                         *)
(***************************************************************************)
EXTENDS Integers, FiniteSets

CONSTANTS
    Codes,       \* codes of vouchers, drawn at random
    Redeemers,   \* users
    Terms,       \* grants: bytes, days, proxying
    NoGrant,     \* the terms of zero bytes
    Editors      \* requests of administrators, one at a time each

ASSUME VouchersAssumption == NoGrant \in Terms

VARIABLES
    \* the rows of cdks
    voucher,
    \* user_subscriptions as redemptions made them
    grants,
    \* the edits and revocations under way
    editor,
    \* the vouchers whose revocation was answered as made
    revoked

voucherVars == <<voucher, grants, editor, revoked>>

NoVoucher == [state |-> "none", terms |-> NoGrant]
NoEdit == [at |-> "idle"]

VouchersTypeOK ==
    /\ voucher \in [Codes -> [state : {"none", "open", "redeemed", "revoked"}, terms : Terms]]
    /\ grants \subseteq [code : Codes, user : Redeemers, terms : Terms]
    /\ editor \in [Editors -> [at : {"idle"}] \union [at : {"edited", "revoking"}, code : Codes]]
    /\ revoked \subseteq Codes

VouchersInit ==
    /\ voucher = [v \in Codes |-> NoVoucher]
    /\ grants = {}
    /\ editor = [e \in Editors |-> NoEdit]
    /\ revoked = {}

\* createBatch: all of a batch or none of it; the handler wants at least 1 GB.
Issue ==
    /\ \E some \in SUBSET {v \in Codes : voucher[v] = NoVoucher}, t \in Terms \ {NoGrant} :
          /\ some # {}
          /\ voucher' = [v \in Codes |-> IF v \in some THEN [state |-> "open", terms |-> t]
                                         ELSE voucher[v]]
    /\ UNCHANGED <<grants, editor, revoked>>

\* Mutant: a redeemed voucher can be edited.
EditableAny(v) == voucher[v].state # "revoked"

\* The condition of the UPDATE in cdkStore.update.
Editable(v) == voucher[v].state = "open"

\* handleUpdateCDK, cdkStore.update; the terms may become a grant of nothing.
Edit(e, v, t) ==
    /\ editor[e] = NoEdit /\ voucher[v] # NoVoucher
    /\ voucher' = IF Editable(v) THEN [voucher EXCEPT ![v].terms = t] ELSE voucher
    /\ editor' = [editor EXCEPT ![e] = [at |-> "edited", code |-> v]]
    /\ UNCHANGED <<grants, revoked>>

\* handleDeleteCDK, cdkStore.revoke: the UPDATE.
Revoke(e, v) ==
    /\ editor[e] = NoEdit /\ voucher[v] # NoVoucher
    /\ voucher' = IF voucher[v].state = "redeemed" THEN voucher
                  ELSE [voucher EXCEPT ![v].state = "revoked"]
    /\ editor' = [editor EXCEPT ![e] = [at |-> "revoking", code |-> v]]
    /\ UNCHANGED <<grants, revoked>>

\* The read after the UPDATE of a revocation.
SaysRevoked(v) == voucher[v].state # "redeemed"

\* The read and the answer, or the end of the process before it; that of an edit
\* (readOnlyResult) changes nothing.
AnswerEditor(e) ==
    /\ editor[e] # NoEdit
    /\ editor' = [editor EXCEPT ![e] = NoEdit]
    /\ \/ /\ editor[e].at = "revoking" /\ SaysRevoked(editor[e].code)
          /\ revoked' = revoked \union {editor[e].code}
       \/ UNCHANGED revoked
    /\ UNCHANGED <<voucher, grants>>

\* redeemCDK: refused unless open and of some grant; the subscription is inserted
\* and the voucher marked in one transaction.  The user may never learn of it.
Redeem(u, v) ==
    /\ voucher[v].state = "open" /\ voucher[v].terms # NoGrant
    /\ grants' = grants \union {[code |-> v, user |-> u, terms |-> voucher[v].terms]}
    /\ voucher' = [voucher EXCEPT ![v].state = "redeemed"]
    /\ UNCHANGED <<editor, revoked>>

VouchersNext ==
    \/ Issue
    \/ \E e \in Editors :
          \/ \E v \in Codes : Revoke(e, v) \/ \E t \in Terms : Edit(e, v, t)
          \/ AnswerEditor(e)
    \/ \E u \in Redeemers, v \in Codes : Redeem(u, v)

VouchersSpec == VouchersInit /\ [][VouchersNext]_voucherVars

-----------------------------------------------------------------------------
\* Whatever redemptions, edits and revocations of a voucher meet: one user gets one
\* subscription of it, exactly when the voucher says redeemed and on the terms it
\* shows ever after ("an immutable grant snapshot once redeemed", cdk.go), and none
\* does once an administrator was told that it is revoked.
GrantsMatchVouchers ==
    \A v \in Codes :
       LET made == {g \in grants : g.code = v} IN
          /\ Cardinality(made) = (IF voucher[v].state = "redeemed" THEN 1 ELSE 0)
          /\ \A g \in made : g.terms = voucher[v].terms
          /\ v \in revoked => made = {}
=============================================================================
