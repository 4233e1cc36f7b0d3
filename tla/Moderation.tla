----------------------------- MODULE Moderation -----------------------------
(***************************************************************************)
(* Roles, hides and bans in the scope of the server or of a site           *)
(* (node06_service/moderation.py, bans.py, visibility.py, and sweep of     *)
(* purge.py).  Every decision is one transaction under lock_graph that     *)
(* checks the session and the role again before it looks for a receipt, so *)
(* a repeated request is refused, answered from the receipt, or applied:   *)
(* what remains of it here is nothing or one step.                         *)
(*                                                                         *)
(* Times are absolute; the clock stops at MaxNow.                          *)
(***************************************************************************)
EXTENDS Integers

CONSTANTS
    Server, SiteScopes,      \* the scopes
    Members, Points,      \* accounts, points written by users
    Owner, Author,      \* of each site, of each point
    Reporters,          \* accounts that report points
    Retention,          \* the thirty days after which a hidden point is purged
    Durations,          \* of a ban; zero is "until lifted"
    Grants,             \* roles that are handed out
    MaxNow              \* bound

Scopes == {Server} \cup SiteScopes
Roles == {"none", "moderator", "admin"}
Modes == {"block", "quarantine"}
Time == 0..MaxNow
Horizon == 0..(2 * MaxNow + 1)

ASSUME ModerationAssumption ==
    /\ Server \notin SiteScopes
    /\ Reporters \subseteq Members
    /\ Owner \in [SiteScopes -> Members] /\ Author \in [Points -> Members]
    /\ Retention \in Nat \ {0} /\ Durations \subseteq 0..MaxNow
    /\ Grants \subseteq Roles /\ MaxNow \in Nat

VARIABLES
    role,       \* moderation_roles
    hide,       \* point_hides
    case,       \* moderation_cases and who reported
    ban,        \* moderation_bans
    changed,    \* content_updated_at of each point
    purged,     \* point_tombstones
    now,
    streak      \* history: how long a point has been hidden everywhere

moderation == <<role, hide, case, ban, changed, purged, now, streak>>

Hide == [active: BOOLEAN, since: Time]
Case == [status: {"none", "open", "closed"}, by: SUBSET Members]
Ban == [active: BOOLEAN, mode: Modes, start: Time, until: Horizon]

ModerationOK ==
    /\ role \in [Scopes -> [Members -> Roles]]
    /\ hide \in [Scopes -> [Points -> Hide]]
    /\ case \in [Scopes -> [Points -> Case]]
    /\ ban \in [Scopes -> [Members -> Ban]]
    /\ changed \in [Points -> Time] /\ purged \subseteq Points
    /\ now \in Time /\ streak \in [Points -> Time]

(* A ban that is not lifted, until it expires (bans.live). *)
Forever == 2 * MaxNow + 1
LiveBan(s, u) == ban[s][u].active /\ ban[s][u].until > now

(* bans.mask: a block masks all points of the author, a quarantine those *)
(* written or changed since the ban began.                               *)
Masked(s, p) ==
    LET b == ban[s][Author[p]] IN
    LiveBan(s, Author[p]) /\ (b.mode = "block" \/ changed[p] >= b.start)

(* visibility.visible, on the pages of a site or of the server. *)
Visible(s, p) ==
    /\ p \notin purged
    /\ \A a \in {Server, s} : ~hide[a][p].active /\ ~Masked(a, p)

(* The owner of a site is its administrator; the server's role holds everywhere. *)
RoleOn(u, s) ==
    IF role[Server][u] = "admin" THEN "admin"
    ELSE IF s # Server /\ Owner[s] = u THEN "admin"
    ELSE IF s # Server /\ role[s][u] # "none" THEN role[s][u]
    ELSE role[Server][u]

May(u, s) == RoleOn(u, s) # "none"
MayAppoint(u, s) == RoleOn(u, s) = "admin"
-----------------------------------------------------------------------------
ModerationInit ==
    /\ role = [s \in Scopes |-> [u \in Members |-> "none"]]
    /\ hide = [s \in Scopes |-> [p \in Points |-> [active |-> FALSE, since |-> 0]]]
    /\ case = [s \in Scopes |-> [p \in Points |-> [status |-> "none", by |-> {}]]]
    /\ ban = [s \in Scopes |-> [u \in Members |->
                [active |-> FALSE, mode |-> "block", start |-> 0, until |-> 0]]]
    /\ changed = [p \in Points |-> 0] /\ purged = {}
    /\ now = 0 /\ streak = [p \in Points |-> 0]

(* moderation_admin.grant: the operator appoints the first administrator. *)
Bootstrap(u, r) ==
    /\ r \in Grants \ {"none"}
    /\ role' = [role EXCEPT ![Server][u] = r]
    /\ UNCHANGED <<hide, case, ban, changed, purged, now, streak>>

(* Only a new reporter opens a closed case again. *)
Report(u, s, p) ==
    /\ Visible(s, p)
    /\ u \notin case[s][p].by
    /\ case' = [case EXCEPT ![s][p] = [status |-> "open", by |-> @.by \cup {u}]]
    /\ UNCHANGED <<role, hide, ban, changed, purged, now, streak>>

CloseCase(u, s, p) ==
    /\ May(u, s)
    /\ case[s][p].status # "none"
    /\ case' = [case EXCEPT ![s][p].status = "closed"]
    /\ UNCHANGED <<role, hide, ban, changed, purged, now, streak>>

(* Fault: hiding again counts from now. *)
HiddenSinceNow(h) == now

(* A repeated hide keeps the date of the first. *)
HiddenSince(h) == IF h.active THEN h.since ELSE now

HidePoint(u, s, p) ==
    /\ May(u, s) /\ p \notin purged
    /\ hide' = [hide EXCEPT ![s][p] = [active |-> TRUE, since |-> HiddenSince(@)]]
    /\ UNCHANGED <<role, case, ban, changed, purged, now, streak>>

(* hidden_since is cleared. *)
Restore(u, s, p) ==
    /\ May(u, s) /\ p \notin purged
    /\ hide' = [hide EXCEPT ![s][p] = [active |-> FALSE, since |-> 0]]
    /\ streak' = IF s = Server THEN [streak EXCEPT ![p] = 0] ELSE streak
    /\ UNCHANGED <<role, case, ban, changed, purged, now>>

(* Fault: administrators may give up their own role. *)
MayChangeAny(u, t) == TRUE

MayChange(u, t) == u # t

SetRole(u, s, t, r) ==
    /\ MayAppoint(u, s) /\ MayChange(u, t)
    /\ role' = [role EXCEPT ![s][t] = r]
    /\ UNCHANGED <<hide, case, ban, changed, purged, now, streak>>

(* Fault: each decision starts the ban anew. *)
StartOfEach(s, t) == now

(* A ban that is renewed or changes its mode keeps its start. *)
StartOf(s, t) == IF LiveBan(s, t) THEN ban[s][t].start ELSE now

SetBan(u, s, t, m, d) ==
    /\ May(u, s)
    /\ u # t /\ RoleOn(t, s) = "none"
    /\ ban' = [ban EXCEPT ![s][t] =
         [active |-> TRUE, mode |-> m, start |-> StartOf(s, t),
          until |-> IF d = 0 THEN Forever ELSE now + d]]
    /\ UNCHANGED <<role, hide, case, changed, purged, now, streak>>

Unban(u, s, t) ==
    /\ May(u, s)
    /\ u # t /\ RoleOn(t, s) = "none"
    /\ ban' = [ban EXCEPT ![s][t] =
         [active |-> FALSE, mode |-> "block", start |-> StartOf(s, t), until |-> Forever]]
    /\ UNCHANGED <<role, hide, case, changed, purged, now, streak>>

(* authoring.save on a page of s, after bans.publication. *)
Edit(s, p) ==
    /\ p \notin purged
    /\ \A a \in {Server, s} : ~(LiveBan(a, Author[p]) /\ ban[a][Author[p]].mode = "block")
    /\ changed' = [changed EXCEPT ![p] = now]
    /\ UNCHANGED <<role, hide, case, ban, purged, now, streak>>

Due(p) == hide[Server][p].active /\ hide[Server][p].since + Retention <= now /\ p \notin purged

(* The point hidden longest goes first. *)
Sweep(p) ==
    /\ Due(p)
    /\ \A q \in Points : Due(q) => hide[Server][p].since <= hide[Server][q].since
    /\ purged' = purged \cup {p}
    /\ UNCHANGED <<role, hide, case, ban, changed, now, streak>>

DayPasses ==
    /\ now < MaxNow
    /\ now' = now + 1
    /\ streak' = [p \in Points |-> IF hide[Server][p].active THEN streak[p] + 1 ELSE 0]
    /\ UNCHANGED <<role, hide, case, ban, changed, purged>>

ModerationNext ==
    \/ \E u \in Members, r \in Roles : Bootstrap(u, r)
    \/ \E u \in Members, s \in Scopes :
        \/ \E p \in Points : CloseCase(u, s, p) \/ HidePoint(u, s, p) \/ Restore(u, s, p)
        \/ \E t \in Members :
            \/ \E r \in Grants : SetRole(u, s, t, r)
            \/ \E m \in Modes, d \in Durations : SetBan(u, s, t, m, d)
            \/ Unban(u, s, t)
    \/ \E s \in Scopes, p \in Points :
        Edit(s, p) \/ \E u \in Reporters : Report(u, s, p)
    \/ \E p \in Points : Sweep(p)
    \/ DayPasses

ModerationSpec == ModerationInit /\ [][ModerationNext]_moderation
-----------------------------------------------------------------------------
Admins == {u \in Members : role[Server][u] = "admin"}

AdminKept ==
    Admins # {} => Admins' # {} \/ \E u \in Members : Bootstrap(u, "moderator")

(* Once appointed, the server always has an administrator, unless the      *)
(* operator replaces one: however administrators dismiss each other, the   *)
(* last cannot go (_role).                                                 *)
AdminRemains == [][AdminKept]_moderation

(* The date from which the purge counts is the one since which the point   *)
(* has been hidden everywhere without a break: a repeated hide does not    *)
(* postpone it, a restoration starts it anew (_visibility).                *)
RetentionCounts ==
    \A p \in Points : hide[Server][p].active => now - hide[Server][p].since = streak[p]

StaysMasked ==
    \A s \in Scopes, p \in Points :
        LiveBan(s, Author[p]) /\ changed[p] >= ban[s][Author[p]].start
        /\ LiveBan(s, Author[p])' => Masked(s, p)'

(* What an author published under a ban stays masked as long as the ban    *)
(* goes on, whoever renews it or changes its mode (_ban, bans.mask).       *)
QuarantineHolds == [][StaysMasked]_moderation
=============================================================================
