---------------------------- MODULE EmbedGrants ----------------------------
(***************************************************************************)
(* The widget of a static site acts for a logged-in person                 *)
(* (node06_service/embed_subscriptions.py, embed_subscription_api.py).     *)
(*                                                                         *)
(* The widget prepares a request, the person's browser approves it on the  *)
(* server's own origin under a session, and the widget, which alone holds  *)
(* the verifier of the request, fetches a token: with the code the browser *)
(* hands over (redeem) or without it (complete).  The token changes the    *)
(* person's subscription as long as the approving session lives.           *)
(*                                                                         *)
(* redeem, complete and the operations of a token read the row without a   *)
(* lock and then take the locks user, session, site, row.  approve reads   *)
(* only what never changes before its transaction.  The flag `consented'   *)
(* is set where the person is set and nowhere else, so it is left out.     *)
(***************************************************************************)
EXTENDS Accounts

CONSTANTS
    Sites, Requests,
    PendingLife, CodeLife,  \* of a request, of a code
    Room,                   \* requests a site may have pending
    MaxCodes,               \* bound: approvals of one request
    Gone                    \* the row of a request that was pruned

VARIABLES
    row,        \* embed_subscriptions
    open,       \* sites that are active on the origin the request names
    applied,    \* point_operations: how often the request with a key took effect
    agreed      \* what persons approved, by session and site, and did not revoke

vars == <<cred, sess, op, row, open, applied, agreed>>
accounts == <<cred, sess>>

Row == [site: Sites, user: Users \cup {None}, session: Tokens \cup {None},
        pending: 0..PendingLife, approved: 0..SessionLife,
        code: 0..MaxCodes,              \* approvals so far: the latest code
        fresh: 0..CodeLife,             \* what is left of code_until
        unused: BOOLEAN,                \* code_digest is there
        tokens: 0..2,                   \* tokens handed out; the last one works
        revoked: BOOLEAN]

(* What redeem, complete and lookup have read of the row. *)
ConnectOp == [kind: {"redeem", "complete"}, row: Requests, user: Users, session: Tokens,
              code: 0..MaxCodes]
UseOp == [kind: {"use"}, row: Requests, user: Users, session: Tokens]

ASSUME EmbedAssumption ==
    /\ PendingLife \in Nat /\ CodeLife \in Nat /\ MaxCodes \in Nat /\ Room \in Nat
    /\ {None, Gone} \cap (Row \cup ConnectOp \cup UseOp) = {} /\ None # Gone

TypeOK ==
    /\ AccountsOK
    /\ op \in [Slots -> LoginOp \cup RecoverOp \cup ConnectOp \cup UseOp \cup {None}]
    /\ row \in [Requests -> Row \cup {None, Gone}]
    /\ open \subseteq Sites
    /\ applied \in [Users -> 0..1]
    /\ agreed \subseteq Users \X Tokens \X Sites

Known(r) == row[r] \notin {None, Gone}
Awaited(r) == Known(r) /\ ~row[r].revoked /\ row[r].pending > 0
-----------------------------------------------------------------------------
Init ==
    /\ AccountsInit
    /\ row = [r \in Requests |-> None]
    /\ open = Sites
    /\ applied = [u \in Users |-> 0]
    /\ agreed = {}

(* Requests that ended a day ago are pruned; days are not counted. *)
Lapsed == {r \in Requests : Known(r) /\ row[r].pending = 0 /\ row[r].approved = 0}

Prepare(r, s) ==
    /\ row[r] = None /\ s \in open
    /\ \E P \in SUBSET Lapsed :
        /\ Cardinality({q \in Requests : Known(q) /\ row[q].site = s /\ row[q].pending > 0}) < Room
        /\ row' = [q \in Requests |->
             IF q = r THEN [site |-> s, user |-> None, session |-> None,
                            pending |-> PendingLife, approved |-> 0, code |-> 0, fresh |-> 0,
                            unused |-> FALSE, tokens |-> 0, revoked |-> FALSE]
             ELSE IF q \in P THEN Gone ELSE row[q]]
    /\ UNCHANGED <<accounts, op, open, applied, agreed>>

(* The same person allowed this site in the same session before. *)
Reusable(r, u, t) ==
    {row[q].approved : q \in {q \in Requests :
        Known(q) /\ row[q].user = u /\ row[q].session = t /\ row[q].site = row[r].site
        /\ ~row[q].revoked /\ row[q].approved > 0}}

(* A resumed approval lasts as long as an earlier one, any other as the session. *)
Deadlines(r, u, t, resume) ==
    IF resume THEN {x \in Reusable(r, u, t) : \A y \in Reusable(r, u, t) : y <= x}
    ELSE {sess[t].left}

Approve(r, u, t, resume) ==
    /\ Authorized(t, u)
    /\ Awaited(r) /\ row[r].site \in open
    /\ row[r].tokens = 0 /\ row[r].user \in {None, u}
    /\ row[r].code < MaxCodes
    /\ \E x \in Deadlines(r, u, t, resume) :
        row' = [row EXCEPT ![r].user = u, ![r].session = t, ![r].approved = x,
                           ![r].code = @ + 1, ![r].fresh = CodeLife, ![r].unused = TRUE]
    /\ agreed' = IF resume THEN agreed ELSE agreed \cup {<<u, t, row[r].site>>}
    /\ UNCHANGED <<accounts, op, open, applied>>

Withdrawn(u, S) ==
    /\ row' = [q \in Requests |->
         IF Known(q) /\ row[q].user = u /\ row[q].site \in S
           THEN [row[q] EXCEPT !.revoked = TRUE] ELSE row[q]]
    /\ agreed' = {a \in agreed : a[1] # u \/ a[3] \notin S}

(* For the site and origin of one request, in every session of the person. *)
Revoke(r, u, t) ==
    /\ Authorized(t, u)
    /\ Known(r) /\ ~row[r].revoked /\ (row[r].pending > 0 \/ row[r].approved > 0)
    /\ Withdrawn(u, {row[r].site})
    /\ UNCHANGED <<accounts, op, open, applied>>

RevokeAll(u, t) ==
    /\ Authorized(t, u)
    /\ Withdrawn(u, Sites)
    /\ UNCHANGED <<accounts, op, open, applied>>

(* The row is read without a lock. *)
StartRedeem(w, r, c) ==
    /\ Idle(w)
    /\ Known(r) /\ row[r].user # None
    /\ c \in 1..row[r].code
    /\ op' = [op EXCEPT ![w] = [kind |-> "redeem", row |-> r, user |-> row[r].user,
                                session |-> row[r].session, code |-> c]]
    /\ UNCHANGED <<accounts, row, open, applied, agreed>>

StartComplete(w, r) ==
    /\ Idle(w)
    /\ Awaited(r) /\ row[r].user # None
    /\ op' = [op EXCEPT ![w] = [kind |-> "complete", row |-> r, user |-> row[r].user,
                                session |-> row[r].session, code |-> 0]]
    /\ UNCHANGED <<accounts, row, open, applied, agreed>>

(* Fault: the session that approved is looked at when it is read only. *)
OwnerLockUnlocked(o) ==
    LET r == o.row IN
    /\ row[r].site \in open
    /\ row[r].user = o.user /\ row[r].session = o.session
    /\ ~row[r].revoked /\ row[r].approved > 0

(* Session, site and row, again, under their locks. *)
OwnerLock(o) ==
    LET r == o.row IN
    /\ Authorized(o.session, o.user)
    /\ row[r].site \in open
    /\ row[r].user = o.user /\ row[r].session = o.session
    /\ ~row[r].revoked /\ row[r].approved > 0

(* Fault: the answer of the first read settles whether there was a token. *)
ExchangeableTwice(o) ==
    LET r == o.row IN
    /\ row[r].fresh > 0
    /\ o.kind = "complete" => row[r].pending > 0

(* The code is there, in time and, in a redemption, the latest. *)
Exchangeable(o) ==
    LET r == o.row IN
    /\ row[r].tokens = 0
    /\ row[r].unused /\ row[r].fresh > 0
    /\ o.kind = "redeem" => row[r].code = o.code
    /\ o.kind = "complete" => row[r].pending > 0

FinishConnect(w) ==
    /\ op[w] # None /\ op[w].kind \in {"redeem", "complete"}
    /\ Known(op[w].row)
    /\ OwnerLock(op[w]) /\ Exchangeable(op[w])
    /\ row' = [row EXCEPT ![op[w].row].tokens = @ + 1, ![op[w].row].unused = FALSE]
    /\ op' = [op EXCEPT ![w] = None]
    /\ UNCHANGED <<accounts, open, applied, agreed>>

(* lookup finds the row of a token. *)
StartUse(w, r) ==
    /\ Idle(w)
    /\ Known(r) /\ row[r].tokens > 0
    /\ op' = [op EXCEPT ![w] = [kind |-> "use", row |-> r, user |-> row[r].user,
                                session |-> row[r].session]]
    /\ UNCHANGED <<accounts, row, open, applied, agreed>>

(* The first request with its key; a repetition gets the answer of the first. *)
Unrepeated(u) == applied[u] = 0

(* A person's requests carry one key: repetitions of one request. *)
FinishUse(w) ==
    /\ op[w] # None /\ op[w].kind = "use"
    /\ Known(op[w].row) /\ OwnerLock(op[w])
    /\ LET u == op[w].user IN
       applied' = IF Unrepeated(u) THEN [applied EXCEPT ![u] = @ + 1] ELSE applied
    /\ op' = [op EXCEPT ![w] = None]
    /\ UNCHANGED <<accounts, row, open, agreed>>

(* The site is purged. *)
Close(s) ==
    /\ s \in open
    /\ open' = open \ {s}
    /\ UNCHANGED <<accounts, op, row, applied, agreed>>

Less(n) == IF n > 0 THEN n - 1 ELSE 0

(* One unit of time: codes last less than requests, requests less than sessions. *)
Tick ==
    /\ sess' = Aged(sess)
    /\ row' = [r \in Requests |->
         IF Known(r) THEN [row[r] EXCEPT !.pending = Less(@), !.approved = Less(@),
                                         !.fresh = Less(@)] ELSE row[r]]
    /\ UNCHANGED <<cred, op, open, applied, agreed>>

Next ==
    \/ AccountsStep /\ UNCHANGED <<row, open, applied, agreed>>
    \/ \E r \in Requests :
        \/ \E s \in Sites : Prepare(r, s)
        \/ \E u \in Users, t \in Tokens :
            Revoke(r, u, t) \/ \E resume \in BOOLEAN : Approve(r, u, t, resume)
        \/ \E w \in Slots :
            \/ StartComplete(w, r) \/ StartUse(w, r)
            \/ \E c \in 1..MaxCodes : StartRedeem(w, r, c)
    \/ \E w \in Slots : FinishConnect(w) \/ FinishUse(w)
    \/ \E u \in Users, t \in Tokens : RevokeAll(u, t)
    \/ \E s \in Sites : Close(s)
    \/ Tick

Spec == Init /\ [][Next]_vars
-----------------------------------------------------------------------------
(* A request gives one token, whether the code is redeemed, the rendezvous *)
(* completed, or both at once and again (redeem, complete).                *)
ConnectsOnce == \A r \in Requests : Known(r) => row[r].tokens <= 1

(* A widget acts for a person only under a session of theirs, opened with  *)
(* the password that is current, and after they approved that site in that *)
(* session and did not revoke it: logout, recovery and revocation take     *)
(* effect even on a request of the widget that is under way (owner_lock).  *)
WidgetObeys ==
    [][\A w \in Slots : op[w] # None /\ op[w].kind = "use" /\ op'[w] = None /\ applied' # applied =>
          LET o == op[w] IN
          /\ Authorized(o.session, o.user) /\ sess[o.session].opened = cred[o.user].pw
          /\ <<o.user, o.session, row[o.row].site>> \in agreed]_vars
=============================================================================
