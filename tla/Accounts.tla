------------------------------ MODULE Accounts ------------------------------
(***************************************************************************)
(* Passwords, recovery codes and sessions (node06_service/auth.py).        *)
(*                                                                         *)
(* A login and a recovery work in two steps: what the caller knows is      *)
(* compared with what was read without a lock, slowly, and the transaction *)
(* that follows trusts nothing of it.  The other operations decide in the  *)
(* one transaction that writes; what they read before is immutable or is   *)
(* read again under the locks user, credential, session, in this order.    *)
(*                                                                         *)
(* A password and a recovery code are numbered: the n-th recovery of an    *)
(* account stores the n-th of each.  A revoked session is as dead as an    *)
(* expired one.  Rate limits only refuse requests: see RateLimit.  Nothing *)
(* in the service disables an account.                                     *)
(***************************************************************************)
EXTENDS Integers, FiniteSets

CONSTANTS
    Users, Tokens, Slots,   \* accounts, session tokens, request threads
    SessionLife,            \* session_hours
    MaxRecoveries,          \* bound: recoveries of one account
    None

ASSUME AccountsAssumption ==
    /\ SessionLife \in Nat \ {0} /\ MaxRecoveries \in Nat
    /\ None \notin Users \cup Tokens

VARIABLES
    cred,       \* account_credentials: the current password and recovery code
    sess,       \* sessions, with the password they were opened under
    op          \* what each thread has read so far

Versions == 0..MaxRecoveries

Session == [user: Users, left: 0..SessionLife, opened: Versions]

LoginOp == [kind: {"login"}, user: Users, stored: Versions, old: Tokens \cup {None}]
RecoverOp == [kind: {"recover"}, user: Users, code: Versions]

ASSUME NoRecordAssumption == None \notin Session \cup LoginOp \cup RecoverOp

AccountsOK ==
    /\ cred \in [Users -> [pw: Versions, code: Versions]]
    /\ sess \in [Tokens -> Session \cup {None}]

Idle(w) == op[w] = None

(* The row authenticate and authorize_session find: unrevoked and unexpired. *)
Authentic(t) == sess[t] # None /\ sess[t].left > 0

(* authorize_session, inside the transaction that it authorizes. *)
Authorized(t, u) == Authentic(t) /\ sess[t].user = u

Revoked(s, R) == [t \in Tokens |-> IF t \in R /\ s[t] # None THEN [s[t] EXCEPT !.left = 0] ELSE s[t]]

Of(u) == {t \in Tokens : sess[t] # None /\ sess[t].user = u}
-----------------------------------------------------------------------------
AccountsInit ==
    /\ cred = [u \in Users |-> [pw |-> 0, code |-> 0]]
    /\ sess = [t \in Tokens |-> None]
    /\ op = [w \in Slots |-> None]

(* The password is right for the hash that was read. *)
StartLogin(w, u, v, old) ==
    /\ Idle(w)
    /\ v = cred[u].pw
    /\ op' = [op EXCEPT ![w] = [kind |-> "login", user |-> u, stored |-> cred[u].pw, old |-> old]]
    /\ UNCHANGED <<cred, sess>>

(* Fault: the transaction relies on the comparison made before it. *)
StillStoredUnread(o) == TRUE

(* The hash is still the one the password was compared with. *)
StillStored(o) == cred[o.user].pw = o.stored

(* The session the browser came with ends, if it belongs to the account. *)
FinishLogin(w, t) ==
    /\ op[w] # None /\ op[w].kind = "login"
    /\ StillStored(op[w])
    /\ sess[t] = None
    /\ LET u == op[w].user IN
       sess' = [Revoked(sess, {op[w].old} \cap Of(u)) EXCEPT
                   ![t] = [user |-> u, left |-> SessionLife, opened |-> op[w].stored]]
    /\ op' = [op EXCEPT ![w] = None]
    /\ UNCHANGED cred

StartRecover(w, u, c) ==
    /\ Idle(w)
    /\ c = cred[u].code
    /\ op' = [op EXCEPT ![w] = [kind |-> "recover", user |-> u, code |-> c]]
    /\ UNCHANGED <<cred, sess>>

CodeStands(o) == cred[o.user].code = o.code

(* Everyone who was logged in has to log in again. *)
Recovered(s, u) == Revoked(s, Of(u))

FinishRecover(w) ==
    /\ op[w] # None /\ op[w].kind = "recover"
    /\ CodeStands(op[w])
    /\ LET u == op[w].user IN
       /\ cred[u].pw < MaxRecoveries
       /\ cred' = [cred EXCEPT ![u] = [pw |-> @.pw + 1, code |-> @.code + 1]]
       /\ sess' = Recovered(sess, u)
    /\ op' = [op EXCEPT ![w] = None]

(* Refused in the second step, or the client or the process is gone. *)
Drop(w) ==
    /\ ~Idle(w)
    /\ op' = [op EXCEPT ![w] = None]
    /\ UNCHANGED <<cred, sess>>

Logout(t, all) ==
    /\ Authentic(t)
    /\ sess' = Revoked(sess, IF all THEN Of(sess[t].user) ELSE {t})
    /\ UNCHANGED <<cred, op>>

Aged(s) == [t \in Tokens |->
    IF s[t] # None /\ s[t].left > 0 THEN [s[t] EXCEPT !.left = @ - 1] ELSE s[t]]

AccountsStep ==
    \/ \E w \in Slots, u \in Users :
        \/ \E v \in Versions, old \in Tokens \cup {None} : StartLogin(w, u, v, old)
        \/ \E c \in Versions : StartRecover(w, u, c)
    \/ \E w \in Slots : FinishRecover(w) \/ \E t \in Tokens : FinishLogin(w, t)
    \/ \E w \in Slots : Drop(w)
    \/ \E t \in Tokens, all \in BOOLEAN : Logout(t, all)
-----------------------------------------------------------------------------
(* Whoever is logged in knows the current password: a recovery evicts all  *)
(* others for good, also a login with the former password that was being   *)
(* verified while it took place (login, recover).                          *)
SessionsCurrent ==
    \A t \in Tokens : Authentic(t) => sess[t].opened = cred[sess[t].user].pw
=============================================================================
