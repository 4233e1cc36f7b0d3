-------------------------- MODULE ManagementProofs --------------------------
(***************************************************************************)
(* Proofs about those in charge and those who are logged in: Moderation,   *)
(* SiteSettings, EmbedGrants with the Accounts below it and RateLimit, for *)
(* any number of people, sites, points, pages, sessions, requests and      *)
(* threads, and any limit.                                                 *)
(***************************************************************************)
EXTENDS EmbedGrants, Moderation, SiteSettings, RateLimit, TLAPS, WellFoundedInduction

-----------------------------------------------------------------------------
(* Moderation.  Hides and bans are dated with the clock, so what they say  *)
(* of a period is inductive once it is known that dates lie in the past    *)
(* and that a point that is shown has not been hidden for any time.        *)

ShownAtOnce == \A p \in Points : ~hide[Server][p].active => streak[p] = 0

Dated ==
    /\ \A s \in Scopes, p \in Points : hide[s][p].since <= now
    /\ \A s \in Scopes, u \in Members : ban[s][u].start <= now

ModerationIInv == ModerationOK /\ RetentionCounts /\ ShownAtOnce /\ Dated

LEMMA ModerationShape ==
    /\ MaxNow \in Nat /\ Server \in Scopes /\ Forever \in Horizon
    /\ Author \in [Points -> Members] /\ Durations \subseteq 0..MaxNow
  BY ModerationAssumption DEF Scopes, Forever, Horizon

THEOREM ModerationInitially == ModerationInit => ModerationIInv
  <1> SUFFICES ASSUME ModerationInit PROVE ModerationIInv
    OBVIOUS
  <1>1. MaxNow \in Nat /\ 0 \in Time /\ 0 \in Horizon /\ Server \in Scopes
    BY ModerationShape DEF Time, Horizon
  <1>2. ModerationOK
    BY <1>1 DEF ModerationInit, ModerationOK, Roles, Hide, Case, Ban, Modes
  <1>3. RetentionCounts /\ ShownAtOnce /\ Dated
    BY <1>1 DEF ModerationInit, RetentionCounts, ShownAtOnce, Dated
  <1> QED BY <1>2, <1>3 DEF ModerationIInv

-----------------------------------------------------------------------------
LEMMA HidePointKeeps ==
    ASSUME ModerationIInv, NEW u \in Members, NEW s \in Scopes, NEW p \in Points,
           HidePoint(u, s, p)
    PROVE  ModerationIInv'
  <1> DEFINE h == hide[s][p]
             new == [active |-> TRUE, since |-> HiddenSince(h)]
  <1>1. /\ hide \in [Scopes -> [Points -> Hide]] /\ h \in Hide /\ now \in Time /\ h.since <= now
        /\ Server \in Scopes /\ streak \in [Points -> Time] /\ MaxNow \in Nat
    BY ModerationShape DEF ModerationIInv, ModerationOK, Dated
  <1>2. new \in Hide /\ new.active /\ new.since = (IF h.active THEN h.since ELSE now)
    BY <1>1 DEF Hide, HiddenSince
  <1>3. /\ hide' = [hide EXCEPT ![s][p] = new]
        /\ UNCHANGED <<role, case, ban, changed, purged, now, streak>>
    BY DEF HidePoint
  <1> HIDE DEF new
  <1>4. /\ hide' \in [Scopes -> [Points -> Hide]] /\ hide'[s][p] = new
        /\ \A x \in Scopes, q \in Points : x # s \/ q # p => hide'[x][q] = hide[x][q]
    BY <1>1, <1>2, <1>3
  <1>5. ModerationOK'
    BY <1>3, <1>4 DEF ModerationIInv, ModerationOK
  <1>6. ASSUME NEW x \in Scopes, NEW q \in Points PROVE hide'[x][q].since <= now
    <2>1. new.since <= now
      BY <1>1, <1>2 DEF Time
    <2>2. hide[x][q].since <= now
      BY DEF ModerationIInv, Dated
    <2> QED BY <1>4, <2>1, <2>2
  <1>7. ASSUME NEW q \in Points
        PROVE  /\ hide'[Server][q].active => now - hide'[Server][q].since = streak[q]
               /\ ~hide'[Server][q].active => streak[q] = 0
    <2>1. CASE s = Server /\ q = p
      BY <2>1, <1>1, <1>2, <1>4 DEF ModerationIInv, RetentionCounts, ShownAtOnce, Time
    <2>2. CASE ~(s = Server /\ q = p)
      BY <2>2, <1>1, <1>4 DEF ModerationIInv, RetentionCounts, ShownAtOnce
    <2> QED BY <2>1, <2>2
  <1> QED BY <1>3, <1>5, <1>6, <1>7 DEF ModerationIInv, RetentionCounts, ShownAtOnce, Dated

LEMMA RestoreKeeps ==
    ASSUME ModerationIInv, NEW u \in Members, NEW s \in Scopes, NEW p \in Points,
           Restore(u, s, p)
    PROVE  ModerationIInv'
  <1> DEFINE new == [active |-> FALSE, since |-> 0]
  <1>1. /\ hide \in [Scopes -> [Points -> Hide]] /\ now \in Time
        /\ Server \in Scopes /\ streak \in [Points -> Time] /\ MaxNow \in Nat
    BY ModerationShape DEF ModerationIInv, ModerationOK
  <1>2. new \in Hide /\ ~new.active /\ new.since = 0 /\ 0 \in Time /\ 0 <= now
    BY <1>1 DEF Hide, Time
  <1>3. /\ hide' = [hide EXCEPT ![s][p] = new]
        /\ streak' = IF s = Server THEN [streak EXCEPT ![p] = 0] ELSE streak
        /\ UNCHANGED <<role, case, ban, changed, purged, now>>
    BY DEF Restore
  <1> HIDE DEF new
  <1>4. /\ hide' \in [Scopes -> [Points -> Hide]] /\ hide'[s][p] = new
        /\ \A x \in Scopes, q \in Points : x # s \/ q # p => hide'[x][q] = hide[x][q]
    BY <1>1, <1>2, <1>3
  <1>5. ModerationOK'
    BY <1>1, <1>2, <1>3, <1>4 DEF ModerationIInv, ModerationOK
  <1>6. ASSUME NEW x \in Scopes, NEW q \in Points PROVE hide'[x][q].since <= now
    BY <1>1, <1>2, <1>4 DEF ModerationIInv, Dated
  <1>7. ASSUME NEW q \in Points
        PROVE  /\ hide'[Server][q].active => now - hide'[Server][q].since = streak'[q]
               /\ ~hide'[Server][q].active => streak'[q] = 0
    <2>1. CASE s = Server /\ q = p
      BY <2>1, <1>1, <1>2, <1>3, <1>4
    <2>2. CASE ~(s = Server /\ q = p)
      BY <2>2, <1>1, <1>3, <1>4 DEF ModerationIInv, RetentionCounts, ShownAtOnce
    <2> QED BY <2>1, <2>2
  <1> QED BY <1>3, <1>5, <1>6, <1>7 DEF ModerationIInv, RetentionCounts, ShownAtOnce, Dated

(* A decision on a ban, whichever. *)
LEMMA BanKeeps ==
    ASSUME ModerationIInv, NEW s \in Scopes, NEW t \in Members, NEW b \in Ban,
           b.start = StartOf(s, t), ban' = [ban EXCEPT ![s][t] = b],
           UNCHANGED <<role, hide, case, changed, purged, now, streak>>
    PROVE  ModerationIInv'
  <1>1. ban \in [Scopes -> [Members -> Ban]] /\ now \in Nat
    BY ModerationShape DEF ModerationIInv, ModerationOK, Time
  <1>2. b.start <= now
    BY <1>1 DEF StartOf, ModerationIInv, Dated
  <1>3. /\ ban' \in [Scopes -> [Members -> Ban]] /\ ban'[s][t] = b
        /\ \A x \in Scopes, u \in Members : x # s \/ u # t => ban'[x][u] = ban[x][u]
    BY <1>1
  <1>4. ModerationOK'
    BY <1>3 DEF ModerationIInv, ModerationOK
  <1>5. RetentionCounts' /\ ShownAtOnce'
    BY DEF ModerationIInv, RetentionCounts, ShownAtOnce
  <1>6. Dated'
    BY <1>2, <1>3 DEF ModerationIInv, Dated
  <1> QED BY <1>4, <1>5, <1>6 DEF ModerationIInv

LEMMA StartOfTime ==
    ASSUME ModerationIInv, NEW s \in Scopes, NEW t \in Members
    PROVE  StartOf(s, t) \in Time
  BY DEF ModerationIInv, ModerationOK, StartOf, Ban

LEMMA SetBanKeeps ==
    ASSUME ModerationIInv, NEW u \in Members, NEW s \in Scopes, NEW t \in Members,
           NEW m \in Modes, NEW d \in Durations, SetBan(u, s, t, m, d)
    PROVE  ModerationIInv'
  <1> DEFINE b == [active |-> TRUE, mode |-> m, start |-> StartOf(s, t),
                   until |-> IF d = 0 THEN Forever ELSE now + d]
  <1>1. now + d \in Horizon /\ Forever \in Horizon
    BY ModerationShape DEF ModerationIInv, ModerationOK, Time, Horizon
  <1>2. b \in Ban /\ b.start = StartOf(s, t)
    BY <1>1, StartOfTime DEF Ban
  <1>3. ban' = [ban EXCEPT ![s][t] = b] /\ UNCHANGED <<role, hide, case, changed, purged, now, streak>>
    BY DEF SetBan
  <1> HIDE DEF b
  <1> QED BY <1>2, <1>3, BanKeeps

LEMMA UnbanKeeps ==
    ASSUME ModerationIInv, NEW u \in Members, NEW s \in Scopes, NEW t \in Members,
           Unban(u, s, t)
    PROVE  ModerationIInv'
  <1> DEFINE b == [active |-> FALSE, mode |-> "block", start |-> StartOf(s, t), until |-> Forever]
  <1>1. b \in Ban /\ b.start = StartOf(s, t)
    BY ModerationShape, StartOfTime DEF Ban, Modes
  <1>2. ban' = [ban EXCEPT ![s][t] = b] /\ UNCHANGED <<role, hide, case, changed, purged, now, streak>>
    BY DEF Unban
  <1> HIDE DEF b
  <1> QED BY <1>1, <1>2, BanKeeps

(* The longest a point can have been hidden is since the beginning. *)
LEMMA DayKeeps ==
    ASSUME ModerationIInv, DayPasses
    PROVE  ModerationIInv'
  <1>1. /\ now \in 0..MaxNow /\ now < MaxNow /\ now' = now + 1 /\ MaxNow \in Nat /\ Server \in Scopes
        /\ streak' = [p \in Points |-> IF hide[Server][p].active THEN streak[p] + 1 ELSE 0]
        /\ UNCHANGED <<role, hide, case, ban, changed, purged>>
    BY ModerationShape DEF DayPasses, ModerationIInv, ModerationOK, Time
  <1>2. ASSUME NEW p \in Points
        PROVE  /\ streak'[p] \in Time
               /\ hide'[Server][p].active => now' - hide'[Server][p].since = streak'[p]
               /\ ~hide'[Server][p].active => streak'[p] = 0
    <2>1. /\ hide[Server][p].since \in 0..MaxNow /\ hide[Server][p].since <= now
          /\ streak[p] \in 0..MaxNow
          /\ hide[Server][p].active => now - hide[Server][p].since = streak[p]
      BY <1>1 DEF ModerationIInv, ModerationOK, Hide, Time, Dated, RetentionCounts
    <2>2. streak'[p] = IF hide[Server][p].active THEN streak[p] + 1 ELSE 0
      BY <1>1
    <2> QED BY <1>1, <2>1, <2>2 DEF Time
  <1>3. ModerationOK'
    BY <1>1, <1>2 DEF ModerationIInv, ModerationOK, Time
  <1>4. RetentionCounts' /\ ShownAtOnce'
    BY <1>2 DEF RetentionCounts, ShownAtOnce
  <1>5. Dated'
    BY <1>1 DEF ModerationIInv, ModerationOK, Hide, Ban, Time, Dated
  <1> QED BY <1>3, <1>4, <1>5 DEF ModerationIInv

(* Nothing that is dated changes. *)
LEMMA ElseKeeps ==
    ASSUME ModerationIInv, UNCHANGED <<hide, ban, now, streak>>,
           role' \in [Scopes -> [Members -> Roles]],
           case' \in [Scopes -> [Points -> Case]],
           changed' \in [Points -> Time], purged' \subseteq Points
    PROVE  ModerationIInv'
  <1>1. ModerationOK'
    BY DEF ModerationIInv, ModerationOK
  <1>2. RetentionCounts' /\ ShownAtOnce' /\ Dated'
    BY DEF ModerationIInv, RetentionCounts, ShownAtOnce, Dated
  <1> QED BY <1>1, <1>2 DEF ModerationIInv

THEOREM ModerationInductive == ModerationIInv /\ [ModerationNext]_moderation => ModerationIInv'
  <1> SUFFICES ASSUME ModerationIInv, [ModerationNext]_moderation PROVE ModerationIInv'
    OBVIOUS
  <1>0. /\ Server \in Scopes /\ now \in Time
        /\ role \in [Scopes -> [Members -> Roles]] /\ case \in [Scopes -> [Points -> Case]]
        /\ changed \in [Points -> Time] /\ purged \subseteq Points
    BY ModerationShape DEF ModerationIInv, ModerationOK
  <1>1. ASSUME NEW u \in Members, NEW r \in Roles, Bootstrap(u, r) PROVE ModerationIInv'
    BY <1>0, <1>1, ElseKeeps DEF Bootstrap
  <1>2. ASSUME NEW u \in Members, NEW s \in Scopes, NEW p \in Points,
               CloseCase(u, s, p) \/ HidePoint(u, s, p) \/ Restore(u, s, p)
        PROVE  ModerationIInv'
    <2>1. CASE CloseCase(u, s, p)
      <3>1. case' \in [Scopes -> [Points -> Case]]
        <4>1. [case[s][p] EXCEPT !.status = "closed"] \in Case
          <5>1. case[s][p] \in Case
            BY <1>0
          <5> QED BY <5>1 DEF Case
        <4>2. case' = [case EXCEPT ![s][p] = [case[s][p] EXCEPT !.status = "closed"]]
          BY <2>1 DEF CloseCase
        <4> QED BY <1>0, <4>1, <4>2
      <3> QED BY <1>0, <2>1, <3>1, ElseKeeps DEF CloseCase
    <2> QED BY <1>2, <2>1, HidePointKeeps, RestoreKeeps
  <1>3. ASSUME NEW u \in Members, NEW s \in Scopes, NEW t \in Members, NEW r \in Grants,
               SetRole(u, s, t, r)
        PROVE  ModerationIInv'
    <2>1. r \in Roles
      BY ModerationAssumption
    <2>2. role' \in [Scopes -> [Members -> Roles]]
      BY <1>0, <1>3, <2>1 DEF SetRole
    <2> QED BY <1>0, <1>3, <2>2, ElseKeeps DEF SetRole
  <1>4. ASSUME NEW u \in Members, NEW s \in Scopes, NEW t \in Members,
               Unban(u, s, t) \/ \E m \in Modes, d \in Durations : SetBan(u, s, t, m, d)
        PROVE  ModerationIInv'
    BY <1>4, UnbanKeeps, SetBanKeeps
  <1>5. ASSUME NEW s \in Scopes, NEW p \in Points, Edit(s, p) PROVE ModerationIInv'
    BY <1>0, <1>5, ElseKeeps DEF Edit
  <1>6. ASSUME NEW s \in Scopes, NEW p \in Points, NEW u \in Reporters, Report(u, s, p) PROVE ModerationIInv'
    <2>1. case[s][p] \in Case /\ u \in Members
      BY <1>0, ModerationAssumption
    <2>2. [status |-> "open", by |-> case[s][p].by \cup {u}] \in Case
      BY <2>1 DEF Case
    <2>3. case' \in [Scopes -> [Points -> Case]]
      BY <1>0, <1>6, <2>2 DEF Report
    <2> QED BY <1>0, <1>6, <2>3, ElseKeeps DEF Report
  <1>7. ASSUME NEW p \in Points, Sweep(p) PROVE ModerationIInv'
    BY <1>0, <1>7, ElseKeeps DEF Sweep
  <1>8. CASE DayPasses
    BY <1>8, DayKeeps
  <1>9. CASE UNCHANGED moderation
    BY <1>0, <1>9, ElseKeeps DEF moderation
  <1> QED BY <1>1, <1>2, <1>3, <1>4, <1>5, <1>6, <1>7, <1>8, <1>9 DEF ModerationNext

THEOREM ModerationInvariant == ModerationSpec => []ModerationIInv
  <1>1. ModerationInit => ModerationIInv
    BY ModerationInitially
  <1>2. ModerationIInv /\ [ModerationNext]_moderation => ModerationIInv'
    BY ModerationInductive
  <1> QED BY <1>1, <1>2, PTL DEF ModerationSpec

(* The shapes of roles, hides, cases and bans. *)
THEOREM ModerationTypeCorrect == ModerationSpec => []ModerationOK
  <1>1. ModerationIInv => ModerationOK
    BY DEF ModerationIInv
  <1>2. ModerationSpec => []ModerationIInv
    BY ModerationInvariant
  <1> QED BY <1>1, <1>2, PTL

(* hidden_since tells for how long a point has been hidden without a break *)
(* (_visibility).                                                          *)
THEOREM HiddenSinceHolds == ModerationSpec => []RetentionCounts
  <1>1. ModerationIInv => RetentionCounts
    BY DEF ModerationIInv
  <1>2. ModerationSpec => []ModerationIInv
    BY ModerationInvariant
  <1> QED BY <1>1, <1>2, PTL

(* No point is purged before it was hidden for the whole retention (sweep). *)
PurgesWait == [][\A p \in purged' \ purged : streak[p] >= Retention]_moderation

(* A point that is purged has been hidden everywhere for the whole         *)
(* retention, whatever was restored and hidden again before (sweep).       *)
THEOREM PurgeAfterRetention == ModerationSpec => PurgesWait
  <1>1. ModerationIInv /\ [ModerationNext]_moderation => [\A p \in purged' \ purged : streak[p] >= Retention]_moderation
    <2> SUFFICES ASSUME ModerationIInv, [ModerationNext]_moderation, NEW p \in purged' \ purged
                 PROVE  streak[p] >= Retention
      OBVIOUS
    <2>1. PICK q \in Points : Sweep(q)
      BY DEF ModerationNext, moderation, Bootstrap, CloseCase, HidePoint, Restore, SetRole, SetBan, Unban,
             Edit, Report, DayPasses
    <2>2. p = q /\ Due(p) /\ p \in Points
      BY <2>1 DEF Sweep
    <2>3. now - hide[Server][p].since = streak[p] /\ hide[Server][p].since + Retention <= now
      BY <2>2 DEF Due, ModerationIInv, RetentionCounts
    <2>4. now \in Nat /\ hide[Server][p].since \in Nat /\ streak[p] \in Nat /\ Retention \in Nat
      BY <2>2, ModerationShape, ModerationAssumption DEF ModerationIInv, ModerationOK, Time, Hide
    <2> QED BY <2>3, <2>4
  <1>2. ModerationSpec => []ModerationIInv
    BY ModerationInvariant
  <1> QED BY <1>1, <1>2, PTL DEF ModerationSpec, PurgesWait

(* What an author published under a ban stays masked as long as the ban    *)
(* goes on (_ban, bans.mask).                                              *)
THEOREM BansMask == ModerationSpec => QuarantineHolds
  <1>1. ModerationIInv /\ [ModerationNext]_moderation => [StaysMasked]_moderation
    <2> SUFFICES ASSUME ModerationIInv, [ModerationNext]_moderation, NEW s \in Scopes, NEW p \in Points,
                        LiveBan(s, Author[p]), changed[p] >= ban[s][Author[p]].start,
                        LiveBan(s, Author[p])'
                 PROVE  changed'[p] >= ban'[s][Author[p]].start
      BY DEF StaysMasked, Masked
    <2> DEFINE a == Author[p]
    <2>1. /\ a \in Members /\ now \in Nat /\ ban \in [Scopes -> [Members -> Ban]]
          /\ changed \in [Points -> Time] /\ ban[s][a].start <= now
      BY ModerationShape DEF ModerationIInv, ModerationOK, Time, Dated
    <2>2. ASSUME NEW u \in Members, NEW x \in Scopes, NEW t \in Members,
                 Unban(u, x, t) \/ \E m \in Modes, d \in Durations : SetBan(u, x, t, m, d)
          PROVE  changed'[p] >= ban'[s][a].start
      <3>1. PICK b : b.start = StartOf(x, t) /\ ban' = [ban EXCEPT ![x][t] = b]
        <4>1. CASE Unban(u, x, t)
          <5> DEFINE b == [active |-> FALSE, mode |-> "block", start |-> StartOf(x, t), until |-> Forever]
          <5>1. b.start = StartOf(x, t) /\ ban' = [ban EXCEPT ![x][t] = b]
            BY <4>1 DEF Unban
          <5> HIDE DEF b
          <5> QED BY <5>1
        <4>2. ASSUME NEW m \in Modes, NEW d \in Durations, SetBan(u, x, t, m, d)
              PROVE  \E b : b.start = StartOf(x, t) /\ ban' = [ban EXCEPT ![x][t] = b]
          <5> DEFINE b == [active |-> TRUE, mode |-> m, start |-> StartOf(x, t),
                           until |-> IF d = 0 THEN Forever ELSE now + d]
          <5>1. b.start = StartOf(x, t) /\ ban' = [ban EXCEPT ![x][t] = b]
            BY <4>2 DEF SetBan
          <5> HIDE DEF b
          <5> QED BY <5>1
        <4> QED BY <2>2, <4>1, <4>2
      <3>2. changed' = changed
        BY <2>2 DEF Unban, SetBan
      <3>3. CASE x = s /\ t = a
        <4>1. StartOf(x, t) = ban[s][a].start
          BY <3>3 DEF StartOf
        <4>2. ban'[s][a] = b
          BY <2>1, <3>1, <3>3
        <4> QED BY <3>1, <3>2, <4>1, <4>2
      <3>4. CASE ~(x = s /\ t = a)
        <4>1. ban'[s][a] = ban[s][a]
          BY <2>1, <3>1, <3>4
        <4> QED BY <3>2, <4>1
      <3> QED BY <3>3, <3>4
    <2>3. ASSUME NEW x \in Scopes, NEW q \in Points, Edit(x, q)
          PROVE  changed'[p] >= ban'[s][a].start
      <3>1. ban' = ban /\ changed'[p] \in {now, changed[p]}
        BY <2>1, <2>3 DEF Edit
      <3>2. ban[s][a].start \in Nat
        BY <2>1, ModerationShape DEF Ban, Time
      <3> QED BY <2>1, <3>1, <3>2
    <2>4. CASE UNCHANGED <<ban, changed>>
      BY <2>4
    <2> QED BY <2>2, <2>3, <2>4
        DEF ModerationNext, moderation, Bootstrap, Report, CloseCase, HidePoint, Restore, SetRole, Sweep, DayPasses
  <1>2. ModerationSpec => []ModerationIInv
    BY ModerationInvariant
  <1> QED BY <1>1, <1>2, PTL DEF ModerationSpec, QuarantineHolds

(* However administrators dismiss each other, one remains (_role). *)
THEOREM LastAdminStays == ModerationSpec => AdminRemains
  <1>1. ModerationIInv /\ [ModerationNext]_moderation => [AdminKept]_moderation
    <2> SUFFICES ASSUME ModerationIInv, [ModerationNext]_moderation, Admins # {}
                 PROVE  Admins' # {} \/ \E u \in Members : Bootstrap(u, "moderator")
      BY DEF AdminKept
    <2>1. role \in [Scopes -> [Members -> Roles]] /\ Server \in Scopes
      BY ModerationShape DEF ModerationIInv, ModerationOK
    <2>2. ASSUME NEW u \in Members, NEW r \in Roles, Bootstrap(u, r)
          PROVE  Admins' # {} \/ \E x \in Members : Bootstrap(x, "moderator")
      <3>1. CASE r = "moderator"
        BY <2>2, <3>1
      <3>2. CASE r # "moderator"
        <4>1. r = "admin" /\ role'[Server][u] = r
          BY <2>1, <2>2, <3>2 DEF Bootstrap, Roles
        <4> QED BY <4>1 DEF Admins
      <3> QED BY <3>1, <3>2
    <2>3. ASSUME NEW u \in Members, NEW s \in Scopes, NEW t \in Members, NEW r \in Grants,
                 SetRole(u, s, t, r)
          PROVE  Admins' # {}
      <3>1. CASE s = Server
        <4>1. role[Server][u] = "admin" /\ u # t
          BY <2>3, <3>1 DEF SetRole, MayAppoint, MayChange, RoleOn
        <4>2. role'[Server][u] = "admin"
          BY <2>1, <2>3, <3>1, <4>1 DEF SetRole
        <4> QED BY <4>2 DEF Admins
      <3>2. CASE s # Server
        <4>1. role'[Server] = role[Server]
          BY <2>1, <2>3, <3>2 DEF SetRole
        <4> QED BY <4>1 DEF Admins
      <3> QED BY <3>1, <3>2
    <2>4. CASE role' = role
      BY <2>4 DEF Admins
    <2> QED BY <2>2, <2>3, <2>4
        DEF ModerationNext, moderation, Report, CloseCase, HidePoint, Restore, SetBan, Unban, Edit, Sweep, DayPasses
  <1>2. ModerationSpec => []ModerationIInv
    BY ModerationInvariant
  <1> QED BY <1>1, <1>2, PTL DEF ModerationSpec, AdminRemains

-----------------------------------------------------------------------------
(* The settings of a site.  Whatever changes them raises their revision, so *)
(* a page with the current revision shows the current settings.             *)

ShowsCurrent(e) ==
    form[e] # Unloaded =>
        form[e].rev <= site.rev /\ (form[e].rev = site.rev => form[e] = site)

SettingsIInv == SettingsOK /\ \A e \in Editors : ShowsCurrent(e)

LEMMA SavedKeeps ==
    ASSUME SettingsIInv, NEW e \in Editors, NEW s \in Loaded, s.rev = site.rev + 1, Saved(e, s)
    PROVE  /\ site' \in Loaded /\ form' \in [Editors -> Loaded \cup {Unloaded}]
           /\ \A x \in Editors : ShowsCurrent(x)'
  <1>1. /\ site' = s /\ form \in [Editors -> Loaded \cup {Unloaded}]
        /\ form' = [form EXCEPT ![e] = s]
    BY DEF Saved, SettingsIInv, SettingsOK
  <1>2. site.rev \in Int
    BY DEF SettingsIInv, SettingsOK, Loaded
  <1>3. ASSUME NEW x \in Editors PROVE ShowsCurrent(x)'
    <2>1. CASE x = e
      <3>1. form'[x] = s /\ s.rev \in Int
        BY <1>1, <1>2, <2>1
      <3> QED BY <1>1, <3>1 DEF ShowsCurrent
    <2>2. CASE x # e
      <3>1. form'[x] = form[x] /\ (form[x] # Unloaded => form[x].rev \in Int)
        BY <1>1, <2>2 DEF Loaded
      <3> QED BY <1>1, <1>2, <3>1 DEF SettingsIInv, ShowsCurrent
    <2> QED BY <2>1, <2>2
  <1> QED BY <1>1, <1>3

(* A vote or a source raises the revision under every page. *)
LEMMA RaisedKeeps ==
    ASSUME SettingsIInv, form' = form, site' \in Loaded, site'.rev = site.rev + 1
    PROVE  \A x \in Editors : ShowsCurrent(x)'
  <1> SUFFICES ASSUME NEW x \in Editors, form[x] # Unloaded
               PROVE  form[x].rev <= site'.rev /\ form[x].rev # site'.rev
    BY DEF ShowsCurrent
  <1>1. form[x].rev \in Int /\ site.rev \in Int /\ form[x].rev <= site.rev
    BY DEF SettingsIInv, SettingsOK, Loaded, ShowsCurrent
  <1> QED BY <1>1

LEMMA SettingsInductive == SettingsIInv /\ [SettingsNext]_settings => SettingsIInv'
  <1> SUFFICES ASSUME SettingsIInv, [SettingsNext]_settings PROVE SettingsIInv'
    OBVIOUS
  <1>1. /\ site \in Loaded /\ site.rev \in 1..MaxRevisions /\ site.welcome \in 1..MaxTexts
        /\ site.rev < MaxRevisions => site.rev + 1 \in 1..MaxRevisions
        /\ texts \in 1..MaxTexts /\ MaxRevisions \in Nat /\ MaxTexts \in Nat
        /\ git \in BOOLEAN /\ supported \in BOOLEAN
        /\ form \in [Editors -> Loaded \cup {Unloaded}]
    BY SettingsAssumption DEF SettingsIInv, SettingsOK, Loaded
  <1>2. ASSUME NEW e \in Editors, Load(e) PROVE SettingsIInv'
    <2>1. /\ form' = [form EXCEPT ![e] = site] /\ UNCHANGED <<site, texts, git, supported>>
      BY <1>2 DEF Load
    <2>2. SettingsOK'
      BY <1>1, <2>1 DEF SettingsOK
    <2>3. ASSUME NEW x \in Editors PROVE ShowsCurrent(x)'
      BY <1>1, <2>1 DEF SettingsIInv, ShowsCurrent
    <2> QED BY <2>2, <2>3 DEF SettingsIInv
  <1>3. ASSUME NEW e \in Editors, NEW v \in Values, NEW edited \in BOOLEAN,
               UpdateSettings(e, v, edited)
        PROVE  SettingsIInv'
    <2>1. PICK s : s = [site EXCEPT !.look = v, !.rev = @ + 1, !.welcome = texts']
      OBVIOUS
    <2>2. texts' \in 1..MaxTexts
      BY <1>1, <1>3 DEF UpdateSettings
    <2>3. s \in Loaded /\ s.rev = site.rev + 1
      <3>1. site.rev + 1 \in 1..MaxRevisions
        BY <1>1, <1>3 DEF UpdateSettings
      <3> QED BY <1>1, <2>1, <2>2, <3>1 DEF Loaded
    <2>4. Saved(e, s) /\ UNCHANGED <<git, supported>>
      BY <1>3, <2>1 DEF UpdateSettings
    <2>5. /\ site' \in Loaded /\ form' \in [Editors -> Loaded \cup {Unloaded}]
          /\ \A x \in Editors : ShowsCurrent(x)'
      BY <2>3, <2>4, SavedKeeps
    <2> QED BY <1>1, <2>2, <2>4, <2>5 DEF SettingsIInv, SettingsOK
  <1>4. ASSUME NEW e \in Editors, NEW v \in Values, UpdateHomePage(e, v)
        PROVE  SettingsIInv'
    <2>1. PICK s : s = WithHome(site, v)
      OBVIOUS
    <2>2. s \in Loaded /\ s.rev = site.rev + 1
      <3>1. site.rev + 1 \in 1..MaxRevisions
        BY <1>1, <1>4 DEF UpdateHomePage
      <3> QED BY <1>1, <2>1, <3>1 DEF WithHome, Loaded
    <2>3. Saved(e, s) /\ UNCHANGED <<texts, git, supported>>
      BY <1>4, <2>1 DEF UpdateHomePage
    <2>4. /\ site' \in Loaded /\ form' \in [Editors -> Loaded \cup {Unloaded}]
          /\ \A x \in Editors : ShowsCurrent(x)'
      BY <2>2, <2>3, SavedKeeps
    <2> QED BY <1>1, <2>3, <2>4 DEF SettingsIInv, SettingsOK
  <1>5. CASE Adopt \/ Publish
    <2>1. /\ texts' \in 1..MaxTexts /\ git' \in BOOLEAN /\ site.rev < MaxRevisions
          /\ site' = [site EXCEPT !.welcome = texts', !.rev = @ + 1]
          /\ UNCHANGED <<supported, form>>
      <3>1. CASE Adopt
        BY <1>1, <3>1 DEF Adopt
      <3>2. CASE Publish
        <4>1. texts' \in {texts, texts + 1} /\ texts < MaxTexts /\ git' = TRUE
          BY <3>2 DEF Publish
        <4> QED BY <1>1, <3>2, <4>1 DEF Publish
      <3> QED BY <1>5, <3>1, <3>2
    <2>2. site.rev + 1 \in 1..MaxRevisions
      BY <1>1, <2>1
    <2>3. site' \in Loaded /\ site'.rev = site.rev + 1
      BY <1>1, <2>1, <2>2 DEF Loaded
    <2>4. \A x \in Editors : ShowsCurrent(x)'
      BY <2>1, <2>3, RaisedKeeps
    <2> QED BY <1>1, <2>1, <2>3, <2>4 DEF SettingsIInv, SettingsOK
  <1>6. CASE Support
    BY <1>6 DEF Support, SettingsIInv, SettingsOK, ShowsCurrent
  <1>7. CASE UNCHANGED settings
    BY <1>7 DEF settings, SettingsIInv, SettingsOK, ShowsCurrent
  <1> QED BY <1>2, <1>3, <1>4, <1>5, <1>6, <1>7 DEF SettingsNext

THEOREM SettingsInvariant == SettingsSpec => []SettingsIInv
  <1>1. SettingsInit => SettingsIInv
    <2> SUFFICES ASSUME SettingsInit PROVE SettingsIInv
      OBVIOUS
    <2>1. SettingsOK
      <3>1. 1 \in 1..MaxRevisions /\ 1 \in 1..MaxTexts /\ 0 \in Values
        BY SettingsAssumption DEF Values
      <3> QED BY <3>1 DEF SettingsInit, SettingsOK, Loaded
    <2> QED BY <2>1 DEF SettingsInit, SettingsIInv, ShowsCurrent
  <1> QED BY <1>1, SettingsInductive, PTL DEF SettingsSpec

(* Whoever saves has seen what is replaced (update_settings,               *)
(* update_home_page).                                                      *)
THEOREM SavesWhatIsShown == SettingsSpec => NothingOverwritten
  <1> DEFINE Seen(e) ==
        form'[e] # form[e] /\ site' # site =>
          /\ site'.look # site.look => form[e].look = site.look
          /\ site'.home # site.home => form[e].home = site.home
          /\ site'.welcome # site.welcome => form[e].welcome = site.welcome
  <1>1. ASSUME SettingsIInv, SettingsNext, NEW e \in Editors, form'[e] # form[e], site' # site
        PROVE  form[e] = site
    <2>1. form \in [Editors -> Loaded \cup {Unloaded}]
      BY <1>1 DEF SettingsIInv, SettingsOK
    <2>2. ASSUME NEW x \in Editors, NEW s, Saved(x, s), form[x] # Unloaded,
                 form[x].rev = site.rev
          PROVE  form[e] = site
      <3>1. x = e
        BY <1>1, <2>1, <2>2 DEF Saved
      <3> QED BY <1>1, <2>2, <3>1 DEF SettingsIInv, ShowsCurrent
    <2>3. ASSUME NEW x \in Editors, NEW v \in Values, UpdateHomePage(x, v)
          PROVE  form[e] = site
      BY <2>2, <2>3 DEF UpdateHomePage
    <2>4. ASSUME NEW x \in Editors, NEW v \in Values, NEW edited \in BOOLEAN,
                 UpdateSettings(x, v, edited)
          PROVE  form[e] = site
      BY <2>2, <2>4 DEF UpdateSettings, Current
    <2> QED BY <1>1, <2>3, <2>4 DEF SettingsNext, Load, Adopt, Publish, Support
  <1>2. SettingsIInv /\ [SettingsNext]_settings => [\A e \in Editors : Seen(e)]_settings
    BY <1>1
  <1> QED BY <1>2, SettingsInvariant, PTL DEF SettingsSpec, NothingOverwritten

-----------------------------------------------------------------------------
(* EmbedGrants and Accounts.  What a thread has read is never relied on, so *)
(* the invariant says nothing of op beyond its type.  A token is only given *)
(* for a request that a person approved in a session of theirs.  The        *)
(* approval of a request that is in force is one its person gave and did    *)
(* not take back: a withdrawal revokes all requests it removes the          *)
(* agreement of, and a resumed approval rests on another request that is in *)
(* force.                                                                   *)

InForce(r) == Known(r) /\ ~row[r].revoked /\ row[r].approved > 0 /\ row[r].user # None

ApprovalsAgreed ==
    \A r \in Requests : InForce(r) => <<row[r].user, row[r].session, row[r].site>> \in agreed

(* The n-th recovery stores the n-th password with the n-th code. *)
SameNumber == \A u \in Users : cred[u].pw = cred[u].code

HasPerson(r) ==
    Known(r) => /\ row[r].user # None => row[r].session # None
                /\ row[r].tokens > 0 => row[r].user # None

IInv ==
    /\ TypeOK
    /\ SameNumber
    /\ SessionsCurrent
    /\ ConnectsOnce
    /\ ApprovalsAgreed
    /\ \A r \in Requests : HasPerson(r)

USE AccountsAssumption, NoRecordAssumption, EmbedAssumption

requests == <<row, open, applied, agreed>>

(* What is in the table is a row, and nothing else is. *)
LEMMA KnownIsRow ==
    ASSUME TypeOK, NEW r \in Requests
    PROVE  /\ Known(r) <=> row[r] \in Row
           /\ Known(r) \/ row[r] \in {None, Gone}
  BY DEF TypeOK, Known

THEOREM Initially == Init => IInv
  <1> SUFFICES ASSUME Init PROVE IInv
    OBVIOUS
  <1>1. TypeOK
    BY DEF Init, AccountsInit, TypeOK, AccountsOK, Versions
  <1>2. SameNumber /\ SessionsCurrent
    BY DEF Init, AccountsInit, SameNumber, SessionsCurrent, Authentic
  <1>3. ConnectsOnce /\ ApprovalsAgreed /\ \A r \in Requests : HasPerson(r)
    BY DEF Init, HasPerson, ConnectsOnce, ApprovalsAgreed, InForce, Known
  <1> QED BY <1>1, <1>2, <1>3 DEF IInv

-----------------------------------------------------------------------------
(* Accounts and sessions. *)

LEMMA RevokedFacts ==
    ASSUME NEW s \in [Tokens -> Session \cup {None}], NEW R
    PROVE  /\ Revoked(s, R) \in [Tokens -> Session \cup {None}]
           /\ \A t \in Tokens : Revoked(s, R)[t] # None /\ Revoked(s, R)[t].left > 0
                => t \notin R /\ Revoked(s, R)[t] = s[t]
  <1> SUFFICES ASSUME NEW t \in Tokens
      PROVE  /\ Revoked(s, R)[t] \in Session \cup {None}
             /\ Revoked(s, R)[t] # None /\ Revoked(s, R)[t].left > 0
                  => t \notin R /\ Revoked(s, R)[t] = s[t]
    BY DEF Revoked
  <1>1. CASE t \in R /\ s[t] # None
    <2>1. s[t] \in Session /\ Revoked(s, R)[t] = [s[t] EXCEPT !.left = 0]
      BY <1>1 DEF Revoked
    <2>2. Revoked(s, R)[t] \in Session /\ Revoked(s, R)[t].left = 0
      BY <2>1 DEF Session
    <2> QED BY <2>2
  <1>2. CASE ~(t \in R /\ s[t] # None)
    BY <1>2 DEF Revoked
  <1> QED BY <1>1, <1>2

(* A step that only ends sessions keeps the rest current. *)
LEMMA FewerSessions ==
    ASSUME IInv, cred' = cred, sess' \in [Tokens -> Session \cup {None}],
           \A t \in Tokens : sess'[t] # None /\ sess'[t].left > 0
                => /\ sess[t] # None /\ sess[t].left > 0
                   /\ sess'[t].user = sess[t].user /\ sess'[t].opened = sess[t].opened
    PROVE  AccountsOK' /\ SameNumber' /\ SessionsCurrent'
  BY DEF IInv, TypeOK, AccountsOK, SameNumber, SessionsCurrent, Authentic

(* A step of the accounts keeps the invariant if it keeps what is about them. *)
LEMMA AccountsApart ==
    ASSUME IInv, UNCHANGED requests, AccountsOK', SameNumber', SessionsCurrent',
           op' \in [Slots -> LoginOp \cup RecoverOp \cup ConnectOp \cup UseOp \cup {None}]
    PROVE  IInv'
  <1>1. TypeOK'
    BY DEF IInv, TypeOK, requests
  <1>2. ConnectsOnce' /\ ApprovalsAgreed' /\ \A r \in Requests : HasPerson(r)'
    BY DEF IInv, HasPerson, ConnectsOnce, ApprovalsAgreed, InForce, Known, requests
  <1> QED BY <1>1, <1>2 DEF IInv

LEMMA FinishLoginKeeps ==
    ASSUME IInv, NEW w \in Slots, NEW t \in Tokens, FinishLogin(w, t), UNCHANGED requests
    PROVE  IInv'
  <1> DEFINE u == op[w].user
             new == [user |-> u, left |-> SessionLife, opened |-> op[w].stored]
             rest == Revoked(sess, {op[w].old} \cap Of(u))
  <1>1. op[w] \in LoginOp
    BY DEF IInv, TypeOK, FinishLogin, RecoverOp, ConnectOp, UseOp
  <1>2. u \in Users /\ op[w].stored \in Versions /\ cred[u].pw = op[w].stored
    BY <1>1 DEF LoginOp, FinishLogin, StillStored
  <1>3. new \in Session
    BY <1>2 DEF Session
  <1>4. /\ rest \in [Tokens -> Session \cup {None}]
        /\ \A x \in Tokens : rest[x] # None /\ rest[x].left > 0 => rest[x] = sess[x]
    BY RevokedFacts DEF IInv, TypeOK, AccountsOK
  <1>5. sess' = [rest EXCEPT ![t] = new] /\ cred' = cred
    BY DEF FinishLogin
  <1> HIDE DEF new, rest
  <1>6. sess' \in [Tokens -> Session \cup {None}]
    BY <1>3, <1>4, <1>5
  <1>7. SessionsCurrent'
    <2> SUFFICES ASSUME NEW x \in Tokens, sess'[x] # None, sess'[x].left > 0
                 PROVE  sess'[x].opened = cred[sess'[x].user].pw
      BY <1>5 DEF SessionsCurrent, Authentic
    <2>1. CASE x = t
      BY <2>1, <1>2, <1>4, <1>5 DEF new
    <2>2. CASE x # t
      BY <2>2, <1>4, <1>5 DEF IInv, SessionsCurrent, Authentic
    <2> QED BY <2>1, <2>2
  <1>8. op' \in [Slots -> LoginOp \cup RecoverOp \cup ConnectOp \cup UseOp \cup {None}]
    BY DEF IInv, TypeOK, FinishLogin
  <1>9. AccountsOK' /\ SameNumber'
    BY <1>5, <1>6 DEF IInv, TypeOK, AccountsOK, SameNumber
  <1> QED BY <1>7, <1>8, <1>9, AccountsApart

LEMMA FinishRecoverKeeps ==
    ASSUME IInv, NEW w \in Slots, FinishRecover(w), UNCHANGED requests
    PROVE  IInv'
  <1> DEFINE u == op[w].user
  <1>1. op[w] \in RecoverOp
    BY DEF IInv, TypeOK, FinishRecover, LoginOp, ConnectOp, UseOp
  <1>2. u \in Users /\ cred[u].pw < MaxRecoveries
    BY <1>1 DEF RecoverOp, FinishRecover
  <1>3. /\ cred[u].code = cred[u].pw /\ cred[u].pw \in Versions
        /\ cred \in [Users -> [pw: Versions, code: Versions]]
    BY <1>2 DEF IInv, TypeOK, AccountsOK, SameNumber
  <1>4. cred' = [cred EXCEPT ![u] = [pw |-> cred[u].pw + 1, code |-> cred[u].code + 1]]
    BY DEF FinishRecover
  <1>5. cred[u].pw + 1 \in Versions
    BY <1>2, <1>3 DEF Versions
  <1>6. cred' \in [Users -> [pw: Versions, code: Versions]] /\ SameNumber'
    BY <1>2, <1>3, <1>4, <1>5 DEF IInv, SameNumber
  <1>7. /\ sess' \in [Tokens -> Session \cup {None}]
        /\ \A t \in Tokens : sess'[t] # None /\ sess'[t].left > 0 => t \notin Of(u) /\ sess'[t] = sess[t]
    BY RevokedFacts DEF IInv, TypeOK, AccountsOK, FinishRecover, Recovered
  <1>8. SessionsCurrent'
    <2> SUFFICES ASSUME NEW t \in Tokens, sess'[t] # None, sess'[t].left > 0
                 PROVE  sess'[t].opened = cred'[sess'[t].user].pw
      BY DEF SessionsCurrent, Authentic
    <2>1. sess[t] \in Session /\ sess[t].user # u /\ sess'[t] = sess[t]
      BY <1>7 DEF IInv, TypeOK, AccountsOK, Of
    <2>2. cred'[sess[t].user] = cred[sess[t].user]
      BY <1>3, <1>4, <2>1 DEF Session
    <2> QED BY <2>1, <2>2 DEF IInv, SessionsCurrent, Authentic
  <1>9. op' \in [Slots -> LoginOp \cup RecoverOp \cup ConnectOp \cup UseOp \cup {None}]
    BY DEF IInv, TypeOK, FinishRecover
  <1>10. AccountsOK'
    BY <1>6, <1>7 DEF AccountsOK
  <1> QED BY <1>6, <1>8, <1>9, <1>10, AccountsApart

LEMMA AccountsStepKeeps ==
    ASSUME IInv, AccountsStep, UNCHANGED requests
    PROVE  IInv'
  <1> DEFINE Ops == LoginOp \cup RecoverOp \cup ConnectOp \cup UseOp \cup {None}
  <1>0. op \in [Slots -> Ops]
    BY DEF IInv, TypeOK
  <1>1. ASSUME UNCHANGED <<cred, sess>>, op' \in [Slots -> Ops] PROVE IInv'
    <2>1. AccountsOK' /\ SameNumber' /\ SessionsCurrent'
      BY <1>1 DEF IInv, TypeOK, AccountsOK, SameNumber, SessionsCurrent, Authentic
    <2> QED BY <1>1, <2>1, AccountsApart
  <1>2. ASSUME NEW w \in Slots, NEW u \in Users, NEW v \in Versions, NEW old \in Tokens \cup {None},
               StartLogin(w, u, v, old)
        PROVE  IInv'
    <2>1. [kind |-> "login", user |-> u, stored |-> cred[u].pw, old |-> old] \in LoginOp
      BY DEF IInv, TypeOK, AccountsOK, LoginOp
    <2> QED BY <1>0, <1>1, <1>2, <2>1 DEF StartLogin
  <1>3. ASSUME NEW w \in Slots, NEW u \in Users, NEW c \in Versions, StartRecover(w, u, c)
        PROVE  IInv'
    <2>1. [kind |-> "recover", user |-> u, code |-> c] \in RecoverOp
      BY DEF RecoverOp
    <2> QED BY <1>0, <1>1, <1>3, <2>1 DEF StartRecover
  <1>4. ASSUME NEW w \in Slots, Drop(w) PROVE IInv'
    BY <1>0, <1>1, <1>4 DEF Drop
  <1>5. ASSUME NEW t \in Tokens, NEW all \in BOOLEAN, Logout(t, all) PROVE IInv'
    <2>1. /\ sess' \in [Tokens -> Session \cup {None}]
          /\ \A x \in Tokens : sess'[x] # None /\ sess'[x].left > 0 => sess'[x] = sess[x]
      BY <1>5, RevokedFacts DEF IInv, TypeOK, AccountsOK, Logout
    <2>2. AccountsOK' /\ SameNumber' /\ SessionsCurrent'
      BY <1>5, <2>1, FewerSessions DEF Logout
    <2> QED BY <1>0, <1>5, <2>2, AccountsApart DEF Logout
  <1> QED BY <1>2, <1>3, <1>4, <1>5, FinishLoginKeeps, FinishRecoverKeeps DEF AccountsStep
-----------------------------------------------------------------------------
(* The table of requests. *)

(* A step of the requests keeps the invariant if it keeps what is about them. *)
LEMMA RequestsApart ==
    ASSUME IInv, UNCHANGED accounts, UNCHANGED <<op, applied>>,
           row' \in [Requests -> Row \cup {None, Gone}], open' \subseteq Sites,
           agreed' \subseteq Users \X Tokens \X Sites,
           ConnectsOnce', ApprovalsAgreed', \A r \in Requests : HasPerson(r)'
    PROVE  IInv'
  <1>1. TypeOK' /\ SameNumber'
    BY DEF IInv, TypeOK, AccountsOK, SameNumber, accounts
  <1>2. SessionsCurrent'
    BY DEF IInv, SessionsCurrent, Authentic, accounts
  <1> QED BY <1>1, <1>2 DEF IInv

LEMMA PrepareKeeps ==
    ASSUME IInv, NEW r \in Requests, NEW s \in Sites, Prepare(r, s)
    PROVE  IInv'
  <1> DEFINE new == [site |-> s, user |-> None, session |-> None,
                     pending |-> PendingLife, approved |-> 0, code |-> 0, fresh |-> 0,
                     unused |-> FALSE, tokens |-> 0, revoked |-> FALSE]
  <1>1. new \in Row
    BY DEF Row
  <1>2. PICK P \in SUBSET Lapsed :
          row' = [q \in Requests |-> IF q = r THEN new ELSE IF q \in P THEN Gone ELSE row[q]]
    BY DEF Prepare
  <1>3. new.approved = 0 /\ new.tokens = 0 /\ new.user = None
    OBVIOUS
  <1> HIDE DEF new
  <1>4. \A q \in Requests : Known(q)' => row'[q] = new \/ (row'[q] = row[q] /\ Known(q))
    BY <1>2 DEF Known
  <1>5. row' \in [Requests -> Row \cup {None, Gone}]
    BY <1>1, <1>2 DEF IInv, TypeOK
  <1>6. ConnectsOnce' /\ ApprovalsAgreed' /\ \A q \in Requests : HasPerson(q)'
    BY <1>3, <1>4 DEF IInv, HasPerson, ConnectsOnce, ApprovalsAgreed, InForce, Prepare
  <1> QED BY <1>5, <1>6, RequestsApart DEF IInv, TypeOK, Prepare

LEMMA ApproveKeeps ==
    ASSUME IInv, NEW r \in Requests, NEW u \in Users, NEW t \in Tokens, NEW resume \in BOOLEAN,
           Approve(r, u, t, resume)
    PROVE  IInv'
  <1>1. row[r] \in Row /\ row[r].code < MaxCodes
    BY KnownIsRow DEF IInv, Approve, Awaited
  <1>2. PICK x \in Deadlines(r, u, t, resume) :
          row' = [row EXCEPT ![r].user = u, ![r].session = t, ![r].approved = x,
                             ![r].code = @ + 1, ![r].fresh = CodeLife, ![r].unused = TRUE]
    BY DEF Approve
  <1>3. x \in 0..SessionLife /\ <<u, t, row[r].site>> \in agreed'
    <2>1. CASE resume
      <3>1. PICK q \in Requests :
              /\ Known(q) /\ row[q].user = u /\ row[q].session = t /\ row[q].site = row[r].site
              /\ ~row[q].revoked /\ row[q].approved > 0 /\ x = row[q].approved
        BY <2>1 DEF Deadlines, Reusable
      <3>2. row[q] \in Row /\ InForce(q)
        BY <3>1, KnownIsRow DEF IInv, InForce
      <3> QED BY <2>1, <3>1, <3>2 DEF IInv, ApprovalsAgreed, Approve, Row
    <2>2. CASE ~resume
      <3>1. x = sess[t].left /\ sess[t] \in Session
        BY <2>2 DEF Deadlines, Approve, Authorized, Authentic, IInv, TypeOK, AccountsOK
      <3> QED BY <2>2, <3>1 DEF Approve, Session
    <2> QED BY <2>1, <2>2
  <1>4. /\ row'[r] \in Row /\ row'[r].tokens = 0
        /\ row'[r].user = u /\ row'[r].session = t /\ row'[r].site = row[r].site
        /\ \A q \in Requests : q # r => row'[q] = row[q]
    BY <1>1, <1>2, <1>3 DEF Approve, Row, IInv, TypeOK
  <1>5. row' \in [Requests -> Row \cup {None, Gone}]
    BY <1>1, <1>2, <1>4 DEF IInv, TypeOK
  <1>6. agreed \subseteq agreed' /\ agreed' \subseteq Users \X Tokens \X Sites
    BY <1>1 DEF Approve, IInv, TypeOK, Row
  <1>7. ConnectsOnce' /\ ApprovalsAgreed' /\ \A q \in Requests : HasPerson(q)'
    BY <1>3, <1>4, <1>6 DEF IInv, HasPerson, ConnectsOnce, ApprovalsAgreed, InForce, Known
  <1> QED BY <1>5, <1>6, <1>7, RequestsApart DEF Approve, IInv, TypeOK

LEMMA WithdrawnKeeps ==
    ASSUME IInv, NEW u \in Users, NEW S \in SUBSET Sites, Withdrawn(u, S),
           UNCHANGED <<accounts, op, open, applied>>
    PROVE  IInv'
  <1>1. ASSUME NEW q \in Requests
        PROVE  /\ row'[q] \in Row \cup {None, Gone}
               /\ Known(q)' => /\ Known(q) /\ row'[q].tokens = row[q].tokens
                               /\ row'[q].user = row[q].user /\ row'[q].session = row[q].session
               /\ InForce(q)' => InForce(q) /\ row'[q] = row[q]
                                 /\ ~(row[q].user = u /\ row[q].site \in S)
    <2>1. CASE Known(q) /\ row[q].user = u /\ row[q].site \in S
      <3>1. row'[q] = [row[q] EXCEPT !.revoked = TRUE] /\ row[q] \in Row
        BY <2>1, KnownIsRow DEF Withdrawn, IInv
      <3>2. /\ row'[q] \in Row /\ row'[q].tokens = row[q].tokens /\ row'[q].revoked
            /\ row'[q].user = row[q].user /\ row'[q].session = row[q].session
        BY <3>1 DEF Row
      <3> QED BY <2>1, <3>2 DEF InForce
    <2>2. CASE ~(Known(q) /\ row[q].user = u /\ row[q].site \in S)
      <3>1. row'[q] = row[q]
        BY <2>2 DEF Withdrawn
      <3> QED BY <2>2, <3>1 DEF InForce, Known, IInv, TypeOK
    <2> QED BY <2>1, <2>2
  <1>2. row' \in [Requests -> Row \cup {None, Gone}]
    BY <1>1 DEF Withdrawn
  <1>3. ConnectsOnce' /\ \A q \in Requests : HasPerson(q)'
    BY <1>1 DEF IInv, ConnectsOnce, HasPerson
  <1>4. ApprovalsAgreed'
    <2> SUFFICES ASSUME NEW q \in Requests, InForce(q)'
                 PROVE  <<row'[q].user, row'[q].session, row'[q].site>> \in agreed'
      BY DEF ApprovalsAgreed
    <2>1. /\ InForce(q) /\ row'[q] = row[q] /\ ~(row[q].user = u /\ row[q].site \in S)
          /\ <<row[q].user, row[q].session, row[q].site>> \in agreed
      BY <1>1 DEF IInv, ApprovalsAgreed
    <2> QED BY <2>1 DEF Withdrawn
  <1> QED BY <1>2, <1>3, <1>4, RequestsApart DEF Withdrawn, IInv, TypeOK

LEMMA OneTokenRow ==
    ASSUME NEW x \in Row
    PROVE  /\ [x EXCEPT !.tokens = 1, !.unused = FALSE] \in Row
           /\ [x EXCEPT !.tokens = 1, !.unused = FALSE].tokens = 1
  <1> DEFINE y == [x EXCEPT !.unused = FALSE]
  <1>1. y \in Row
    BY DEF Row
  <1> HIDE DEF y
  <1>2. [y EXCEPT !.tokens = 1] \in Row /\ [y EXCEPT !.tokens = 1].tokens = 1
    BY <1>1 DEF Row
  <1>3. [x EXCEPT !.tokens = 1, !.unused = FALSE] = [y EXCEPT !.tokens = 1]
    BY DEF y, Row
  <1> QED BY <1>2, <1>3

LEMMA FinishConnectKeeps ==
    ASSUME IInv, NEW w \in Slots, FinishConnect(w)
    PROVE  IInv'
  <1> DEFINE r == op[w].row
  <1>1. r \in Requests /\ op[w].user # None
    BY DEF FinishConnect, IInv, TypeOK, LoginOp, RecoverOp, ConnectOp, UseOp
  <1>2. row[r] \in Row /\ row[r].tokens = 0
    BY <1>1, KnownIsRow DEF FinishConnect, IInv, Exchangeable
  <1>3. row' = [row EXCEPT ![r].tokens = @ + 1, ![r].unused = FALSE]
    BY DEF FinishConnect
  <1>4. row'[r] \in Row /\ row'[r].tokens = 1
    <2>1. row'[r] = [row[r] EXCEPT !.tokens = row[r].tokens + 1, !.unused = FALSE]
      BY <1>1, <1>2, <1>3, ZenonT(40) DEF IInv, TypeOK, Row
    <2>2. row[r].tokens + 1 = 1
      BY <1>2
    <2>3. row'[r] = [row[r] EXCEPT !.tokens = 1, !.unused = FALSE]
      BY <2>1, <2>2
    <2> DEFINE new == [row[r] EXCEPT !.tokens = 1, !.unused = FALSE]
    <2>4. new \in Row /\ new.tokens = 1
      BY <1>2, OneTokenRow
    <2>5. row'[r] = new
      BY <2>3
    <2> HIDE DEF new
    <2> QED BY <2>4, <2>5
  <1>5. /\ row'[r].user = row[r].user /\ row'[r].session = row[r].session
        /\ row'[r].site = row[r].site /\ row'[r].revoked = row[r].revoked
        /\ row'[r].approved = row[r].approved
    BY <1>1, <1>2, <1>3 DEF Row, IInv, TypeOK
  <1>6. row' \in [Requests -> Row \cup {None, Gone}] /\ \A q \in Requests : q # r => row'[q] = row[q]
    BY <1>1, <1>3, <1>4 DEF IInv, TypeOK
  <1>7. TypeOK' /\ SameNumber'
    BY <1>6 DEF FinishConnect, IInv, TypeOK, AccountsOK, SameNumber, accounts
  <1>8. SessionsCurrent'
    BY DEF FinishConnect, IInv, SessionsCurrent, Authentic, accounts
  <1>9. ConnectsOnce'
    BY <1>4, <1>6 DEF IInv, ConnectsOnce, Known
  <1>10. ApprovalsAgreed'
    <2> SUFFICES ASSUME NEW q \in Requests, InForce(q)'
                 PROVE  <<row'[q].user, row'[q].session, row'[q].site>> \in agreed'
      BY DEF ApprovalsAgreed
    <2>1. agreed' = agreed /\ Known(r)
      BY DEF FinishConnect, OwnerLock, Exchangeable
    <2>2. /\ row'[q].user = row[q].user /\ row'[q].session = row[q].session
          /\ row'[q].site = row[q].site
      BY <1>5, <1>6
    <2>3. InForce(q)
      BY <1>5, <1>6, <2>1 DEF InForce, Known
    <2> QED BY <2>1, <2>2, <2>3 DEF IInv, ApprovalsAgreed
  <1>11. \A q \in Requests : HasPerson(q)'
    BY <1>1, <1>2, <1>5, <1>6, ZenonT(40) DEF FinishConnect, OwnerLock, IInv, HasPerson, Known
  <1> QED BY <1>7, <1>8, <1>9, <1>10, <1>11 DEF IInv

(* A thread reads a row, or a token is used. *)
LEMMA ThreadKeeps ==
    ASSUME IInv, UNCHANGED <<accounts, row, open, agreed>>,
           applied' \in [Users -> 0..1],
           op' \in [Slots -> LoginOp \cup RecoverOp \cup ConnectOp \cup UseOp \cup {None}]
    PROVE  IInv'
  <1>1. TypeOK' /\ SameNumber'
    BY DEF IInv, TypeOK, AccountsOK, SameNumber, accounts
  <1>2. SessionsCurrent'
    BY DEF IInv, SessionsCurrent, Authentic, accounts
  <1>3. ConnectsOnce' /\ ApprovalsAgreed' /\ \A r \in Requests : HasPerson(r)'
    BY DEF IInv, HasPerson, ConnectsOnce, ApprovalsAgreed, InForce, Known
  <1> QED BY <1>1, <1>2, <1>3 DEF IInv

(* Approvals only run out, and so do sessions. *)
LEMMA TickKeeps ==
    ASSUME IInv, Tick
    PROVE  IInv'
  <1>1. ASSUME NEW q \in Requests
        PROVE  /\ row'[q] \in Row \cup {None, Gone}
               /\ Known(q)' => /\ Known(q) /\ row'[q].tokens = row[q].tokens
                               /\ row'[q].user = row[q].user /\ row'[q].session = row[q].session
                               /\ row'[q].site = row[q].site
               /\ InForce(q)' => InForce(q)
    <2>1. CASE Known(q)
      <3>1. /\ row'[q] = [row[q] EXCEPT !.pending = Less(@), !.approved = Less(@), !.fresh = Less(@)]
            /\ row[q] \in Row
        BY <2>1, KnownIsRow DEF Tick, IInv
      <3>2. /\ Less(row[q].pending) \in 0..PendingLife /\ Less(row[q].fresh) \in 0..CodeLife
            /\ Less(row[q].approved) \in 0..SessionLife
            /\ Less(row[q].approved) > 0 => row[q].approved > 0
        BY <3>1 DEF Row, Less
      <3>3. /\ row'[q] \in Row /\ row'[q].tokens = row[q].tokens
            /\ row'[q].user = row[q].user /\ row'[q].session = row[q].session
            /\ row'[q].site = row[q].site /\ row'[q].revoked = row[q].revoked
            /\ row'[q].approved = Less(row[q].approved)
        BY <3>1, <3>2 DEF Row
      <3> QED BY <2>1, <3>2, <3>3 DEF InForce
    <2>2. CASE ~Known(q)
      <3>1. row'[q] = row[q]
        BY <2>2 DEF Tick
      <3> QED BY <2>2, <3>1 DEF InForce, Known, IInv, TypeOK
    <2> QED BY <2>1, <2>2
  <1>2. row' \in [Requests -> Row \cup {None, Gone}]
    BY <1>1 DEF Tick
  <1>3. ConnectsOnce' /\ \A q \in Requests : HasPerson(q)'
    BY <1>1 DEF IInv, ConnectsOnce, HasPerson
  <1>4. ApprovalsAgreed'
    <2>1. agreed' = agreed /\ \A q \in Requests : InForce(q)' => Known(q)'
      BY DEF Tick, InForce
    <2> QED BY <1>1, <2>1 DEF IInv, ApprovalsAgreed
  <1>5. /\ sess' \in [Tokens -> Session \cup {None}]
        /\ \A t \in Tokens : sess'[t] # None /\ sess'[t].left > 0
             => /\ sess[t] # None /\ sess[t].left > 0
                /\ sess'[t].user = sess[t].user /\ sess'[t].opened = sess[t].opened
    <2> SUFFICES ASSUME NEW t \in Tokens
                 PROVE  /\ sess'[t] \in Session \cup {None}
                        /\ sess'[t] # None /\ sess'[t].left > 0
                             => /\ sess[t] # None /\ sess[t].left > 0
                                /\ sess'[t].user = sess[t].user /\ sess'[t].opened = sess[t].opened
      BY DEF Tick, Aged
    <2>1. CASE sess[t] # None /\ sess[t].left > 0
      <3>1. sess[t] \in Session /\ sess'[t] = [sess[t] EXCEPT !.left = sess[t].left - 1]
        BY <2>1 DEF Tick, Aged, IInv, TypeOK, AccountsOK
      <3>2. sess[t].left - 1 \in 0..SessionLife
        BY <2>1, <3>1 DEF Session
      <3> QED BY <2>1, <3>1, <3>2 DEF Session
    <2>2. CASE ~(sess[t] # None /\ sess[t].left > 0)
      BY <2>2 DEF Tick, Aged, IInv, TypeOK, AccountsOK
    <2> QED BY <2>1, <2>2
  <1>6. AccountsOK' /\ SameNumber' /\ SessionsCurrent'
    BY <1>5, FewerSessions DEF Tick
  <1>7. TypeOK'
    BY <1>2, <1>6 DEF Tick, IInv, TypeOK
  <1> QED BY <1>3, <1>4, <1>6, <1>7 DEF IInv

THEOREM Inductive == IInv /\ [Next]_vars => IInv'
  <1> SUFFICES ASSUME IInv, [Next]_vars PROVE IInv'
    OBVIOUS
  <1> DEFINE Ops == LoginOp \cup RecoverOp \cup ConnectOp \cup UseOp \cup {None}
  <1>0. op \in [Slots -> Ops] /\ applied \in [Users -> 0..1]
    BY DEF IInv, TypeOK
  <1>1. CASE AccountsStep /\ UNCHANGED <<row, open, applied, agreed>>
    BY <1>1, AccountsStepKeeps DEF requests
  <1>2. ASSUME NEW r \in Requests, NEW s \in Sites, Prepare(r, s) PROVE IInv'
    BY <1>2, PrepareKeeps
  <1>3. ASSUME NEW r \in Requests, NEW u \in Users, NEW t \in Tokens, Revoke(r, u, t) PROVE IInv'
    <2>1. row[r] \in Row
      BY <1>3, KnownIsRow DEF IInv, Revoke
    <2> QED BY <1>3, <2>1, WithdrawnKeeps DEF Revoke, Row
  <1>4. ASSUME NEW r \in Requests, NEW u \in Users, NEW t \in Tokens, NEW resume \in BOOLEAN,
               Approve(r, u, t, resume)
        PROVE  IInv'
    BY <1>4, ApproveKeeps
  <1>5. ASSUME NEW r \in Requests, NEW w \in Slots,
               StartComplete(w, r) \/ StartUse(w, r) \/ \E c \in 1..MaxCodes : StartRedeem(w, r, c)
        PROVE  IInv'
    <2>1. row[r] \in Row /\ row[r].user # None /\ row[r].session # None
      BY <1>5, KnownIsRow DEF IInv, StartComplete, StartUse, StartRedeem, Awaited, HasPerson
    <2>2. row[r].user \in Users /\ row[r].session \in Tokens /\ row[r].code \in 0..MaxCodes
      BY <2>1 DEF Row
    <2>3. CASE StartComplete(w, r)
      <3>1. [kind |-> "complete", row |-> r, user |-> row[r].user,
             session |-> row[r].session, code |-> 0] \in ConnectOp
        BY <2>2 DEF ConnectOp
      <3> QED BY <1>0, <2>3, <3>1, ThreadKeeps DEF StartComplete
    <2>4. CASE StartUse(w, r)
      <3>1. [kind |-> "use", row |-> r, user |-> row[r].user, session |-> row[r].session] \in UseOp
        BY <2>2 DEF UseOp
      <3> QED BY <1>0, <2>4, <3>1, ThreadKeeps DEF StartUse
    <2>5. ASSUME NEW c \in 1..MaxCodes, StartRedeem(w, r, c) PROVE IInv'
      <3>1. [kind |-> "redeem", row |-> r, user |-> row[r].user,
             session |-> row[r].session, code |-> c] \in ConnectOp
        BY <2>2 DEF ConnectOp
      <3> QED BY <1>0, <2>5, <3>1, ThreadKeeps DEF StartRedeem
    <2> QED BY <1>5, <2>3, <2>4, <2>5
  <1>6. ASSUME NEW w \in Slots, FinishConnect(w) PROVE IInv'
    BY <1>6, FinishConnectKeeps
  <1>7. ASSUME NEW w \in Slots, FinishUse(w) PROVE IInv'
    <2>1. applied' \in [Users -> 0..1]
      <3>1. CASE Unrepeated(op[w].user)
        <4>1. applied' = [applied EXCEPT ![op[w].user] = applied[op[w].user] + 1]
          BY <1>7, <3>1 DEF FinishUse
        <4>2. applied[op[w].user] + 1 \in 0..1
          BY <3>1 DEF Unrepeated
        <4> QED BY <1>0, <4>1, <4>2
      <3>2. CASE ~Unrepeated(op[w].user)
        BY <1>0, <1>7, <3>2 DEF FinishUse
      <3> QED BY <3>1, <3>2
    <2> QED BY <1>0, <1>7, <2>1, ThreadKeeps DEF FinishUse
  <1>8. ASSUME NEW u \in Users, NEW t \in Tokens, RevokeAll(u, t) PROVE IInv'
    BY <1>8, WithdrawnKeeps DEF RevokeAll
  <1>9. ASSUME NEW s \in Sites, Close(s) PROVE IInv'
    <2>1. ConnectsOnce' /\ ApprovalsAgreed' /\ \A r \in Requests : HasPerson(r)'
      BY <1>9 DEF Close, IInv, ConnectsOnce, ApprovalsAgreed, InForce, Known, HasPerson
    <2> QED BY <1>9, <2>1, RequestsApart DEF Close, IInv, TypeOK
  <1>10. CASE Tick
    BY <1>10, TickKeeps
  <1>11. CASE UNCHANGED vars
    <2>1. ConnectsOnce' /\ ApprovalsAgreed' /\ \A r \in Requests : HasPerson(r)'
      BY <1>11 DEF vars, IInv, ConnectsOnce, ApprovalsAgreed, InForce, Known, HasPerson
    <2> QED BY <1>11, <2>1, RequestsApart DEF vars, accounts, IInv, TypeOK
  <1> QED
    BY <1>1, <1>2, <1>3, <1>4, <1>5, <1>6, <1>7, <1>8, <1>9, <1>10, <1>11 DEF Next

THEOREM Invariant == Spec => []IInv
  BY Initially, Inductive, PTL DEF Spec

(* The shapes of accounts, sessions and requests. *)
THEOREM TypeCorrect == Spec => []TypeOK
  <1>1. IInv => TypeOK
    BY DEF IInv
  <1> QED BY <1>1, Invariant, PTL

(* Every session in force was opened with the password that is current     *)
(* (login, recover).                                                       *)
THEOREM RecoveryEvicts == Spec => []SessionsCurrent
  <1>1. IInv => SessionsCurrent
    BY DEF IInv
  <1> QED BY <1>1, Invariant, PTL

(* A request gives one token, however redeem and complete race. *)
THEOREM OneToken == Spec => []ConnectsOnce
  <1>1. IInv => ConnectsOnce
    BY DEF IInv
  <1> QED BY <1>1, Invariant, PTL

(* A token changes subscriptions only in a current session of a person who *)
(* approved the site in that session and has not revoked it (owner_lock).  *)
THEOREM WidgetActsAsApproved == Spec => WidgetObeys
  <1>1. IInv /\ [Next]_vars =>
          [\A w \in Slots : op[w] # None /\ op[w].kind = "use" /\ op'[w] = None /\ applied' # applied =>
             LET o == op[w] IN
             /\ Authorized(o.session, o.user) /\ sess[o.session].opened = cred[o.user].pw
             /\ <<o.user, o.session, row[o.row].site>> \in agreed]_vars
    <2> DEFINE Obeys(o) == /\ Authorized(o.session, o.user)
                           /\ sess[o.session].opened = cred[o.user].pw
                           /\ <<o.user, o.session, row[o.row].site>> \in agreed
    <2> SUFFICES ASSUME IInv, [Next]_vars, NEW w \in Slots,
                        op[w] # None, op[w].kind = "use", op'[w] = None, applied' # applied
                 PROVE  Obeys(op[w])
      OBVIOUS
    <2>1. PICK v \in Slots : FinishUse(v)
      <3> SUFFICES ASSUME \A v \in Slots : ~FinishUse(v) PROVE applied' = applied
        OBVIOUS
      <3>1. CASE UNCHANGED vars
        BY <3>1 DEF vars
      <3>2. CASE AccountsStep /\ UNCHANGED <<row, open, applied, agreed>>
        BY <3>2
      <3>3. ASSUME NEW r \in Requests, NEW s \in Sites, Prepare(r, s) PROVE applied' = applied
        BY <3>3 DEF Prepare
      <3>4. ASSUME NEW r \in Requests, NEW u \in Users, NEW t \in Tokens,
                   Revoke(r, u, t) \/ RevokeAll(u, t) \/ \E resume \in BOOLEAN : Approve(r, u, t, resume)
            PROVE  applied' = applied
        BY <3>4 DEF Revoke, RevokeAll, Approve
      <3>5. ASSUME NEW r \in Requests, NEW x \in Slots,
                   StartComplete(x, r) \/ StartUse(x, r) \/ \E c \in 1..MaxCodes : StartRedeem(x, r, c)
            PROVE  applied' = applied
        BY <3>5 DEF StartComplete, StartUse, StartRedeem
      <3>6. ASSUME NEW x \in Slots, FinishConnect(x) PROVE applied' = applied
        BY <3>6 DEF FinishConnect
      <3>7. CASE (\E u \in Users, t \in Tokens : RevokeAll(u, t)) \/ (\E s \in Sites : Close(s)) \/ Tick
        BY <3>7 DEF RevokeAll, Close, Tick
      <3> QED BY <3>1, <3>2, <3>3, <3>4, <3>5, <3>6, <3>7 DEF Next
    <2>2. v = w
      BY <2>1 DEF FinishUse, IInv, TypeOK
    <2>3. op[w] \in UseOp
      BY <2>1, <2>2 DEF FinishUse, IInv, TypeOK, LoginOp, RecoverOp, ConnectOp
    <2>4. /\ op[w].row \in Requests /\ op[w].user # None /\ op[w].session \in Tokens
          /\ Known(op[w].row) /\ OwnerLock(op[w])
      BY <2>1, <2>2, <2>3 DEF FinishUse, UseOp
    <2>5. InForce(op[w].row) /\ Obeys(op[w])
      BY <2>4 DEF OwnerLock, InForce, IInv, ApprovalsAgreed, SessionsCurrent, Authorized
    <2> QED BY <2>5
  <1> QED BY <1>1, Invariant, PTL DEF Spec, WidgetObeys

-----------------------------------------------------------------------------
(* The rate limit.  What was admitted in the last n units grows with n; a  *)
(* window that is running began with a request Seconds - left units ago,   *)
(* and all that was admitted since is its count.                           *)

Adds(f, adm, m) == f[0] = 0 /\ \A n \in 1..m : f[n] = f[n - 1] + adm[n - 1]

Counts(f, adm, m) == f = [n \in 0..m |-> IF n = 0 THEN 0 ELSE f[n - 1] + adm[n - 1]]

(* A property of numbers that fails somewhere fails somewhere first. *)
LEMMA FirstFailure ==
    ASSUME NEW T \in SUBSET Nat, T # {}
    PROVE  \E n \in T : \A k \in T : n <= k
  <1>1. PICK n \in T : \A k \in T : ~(<<k, n>> \in OpToRel(<, Nat))
    BY NatLessThanWellFounded, WFMin
  <1>2. ASSUME NEW k \in T PROVE n <= k
    <2>1. ~(k < n)
      BY <1>1, <1>2 DEF OpToRel
    <2> QED BY <2>1
  <1> QED BY <1>2

LEMMA CountsOf ==
    ASSUME NEW adm, NEW m \in Nat, NEW f, Counts(f, adm, m)
    PROVE  Adds(f, adm, m)
  <1>1. \A n \in 0..m : f[n] = IF n = 0 THEN 0 ELSE f[n - 1] + adm[n - 1]
    BY DEF Counts
  <1> QED BY <1>1 DEF Adds

LEMMA CountsExist ==
    ASSUME NEW adm, NEW m \in Nat
    PROVE  \E f : Counts(f, adm, m)
  <1> DEFINE T == {n \in Nat : ~\E f : Counts(f, adm, n)}
  <1> SUFFICES ASSUME T # {} PROVE FALSE
    OBVIOUS
  <1>1. PICK n \in T : \A k \in T : n <= k
    <2> HIDE DEF T
    <2> QED BY FirstFailure DEF T
  <1>2. n \in Nat /\ ~\E f : Counts(f, adm, n)
    OBVIOUS
  <1>3. CASE n = 0
    <2>1. PICK f : f = [k \in 0..0 |-> 0]
      OBVIOUS
    <2>2. f = [k \in 0..0 |-> IF k = 0 THEN 0 ELSE f[k - 1] + adm[k - 1]]
      BY <2>1
    <2> QED BY <1>2, <1>3, <2>2 DEF Counts
  <1>4. CASE n # 0
    <2>1. n - 1 \in Nat /\ n - 1 \notin T
      BY <1>1, <1>2, <1>4
    <2>2. PICK g : Counts(g, adm, n - 1)
      BY <2>1
    <2>3. PICK f : f = [k \in 0..n |-> IF k < n THEN g[k] ELSE g[n - 1] + adm[n - 1]]
      OBVIOUS
    <2>4. ASSUME NEW k \in 0..n
          PROVE  f[k] = IF k = 0 THEN 0 ELSE f[k - 1] + adm[k - 1]
      <3>1. CASE k = n
        <4>1. f[k] = g[n - 1] + adm[n - 1] /\ f[n - 1] = g[n - 1]
          BY <1>2, <1>4, <2>3, <3>1
        <4> QED BY <1>2, <1>4, <3>1, <4>1
      <3>2. CASE k < n
        <4>1. f[k] = g[k] /\ (k # 0 => f[k - 1] = g[k - 1] /\ k \in 1..n - 1)
          BY <1>2, <2>3, <3>2
        <4>2. g[0] = 0 /\ \A i \in 1..n - 1 : g[i] = g[i - 1] + adm[i - 1]
          BY <2>1, <2>2, CountsOf DEF Adds
        <4> QED BY <4>1, <4>2
      <3> QED BY <1>2, <3>1, <3>2
    <2>5. f = [k \in 0..n |-> f[k]]
      BY <2>3
    <2>6. Counts(f, adm, n)
      BY <2>4, <2>5 DEF Counts
    <2> QED BY <1>2, <2>6
  <1> QED BY <1>3, <1>4

(* What was admitted in a longer period is more. *)
LEMMA CountsGrow ==
    ASSUME NEW m \in Nat, NEW adm \in [0..m - 1 -> Nat], NEW f, Adds(f, adm, m)
    PROVE  \A n \in 0..m : f[n] \in Nat /\ \A k \in 0..n : f[k] <= f[n]
  <1> DEFINE Fine(n) == f[n] \in Nat /\ \A k \in 0..n : f[k] <= f[n]
             T == {n \in 0..m : ~Fine(n)}
  <1> SUFFICES ASSUME T # {} PROVE FALSE
    OBVIOUS
  <1>1. PICK n \in T : \A k \in T : n <= k
    <2>1. T \in SUBSET Nat
      OBVIOUS
    <2> HIDE DEF T
    <2> QED BY <2>1, FirstFailure
  <1>2. n \in 0..m /\ ~Fine(n)
    OBVIOUS
  <1>3. f[0] = 0 /\ \A i \in 1..m : f[i] = f[i - 1] + adm[i - 1]
    BY DEF Adds
  <1>4. n # 0
    BY <1>2, <1>3
  <1>5. n - 1 \in 0..m /\ n - 1 \in 0..m - 1 /\ Fine(n - 1)
    BY <1>1, <1>2, <1>4
  <1>6. f[n] = f[n - 1] + adm[n - 1] /\ adm[n - 1] \in Nat
    BY <1>2, <1>3, <1>4, <1>5
  <1>7. ASSUME NEW k \in 0..n PROVE f[k] <= f[n]
    <2>1. k = n \/ k \in 0..n - 1
      BY <1>2
    <2>2. f[n] \in Nat /\ f[n - 1] <= f[n] /\ f[n - 1] \in Nat
      BY <1>5, <1>6
    <2>3. CASE k \in 0..n - 1
      <3>1. f[k] <= f[n - 1]
        BY <1>5, <2>3
      <3>2. k = n - 1 \/ k # n - 1
        OBVIOUS
      <3>3. f[k] \in Nat
        <4>1. k \in 0..m /\ ~(n <= k)
          BY <1>2, <2>3
        <4>2. k \notin T
          BY <1>1, <4>1
        <4> QED BY <4>1, <4>2
      <3> QED BY <2>2, <3>1, <3>3
    <2> QED BY <2>1, <2>2, <2>3
  <1> QED BY <1>2, <1>5, <1>6, <1>7

OneMore(more, adm, m) == more[0] = adm[0] + 1 /\ \A a \in 1..m - 1 : more[a] = adm[a]

(* A request that is admitted counts in every period up to now. *)
LEMMA CountsMore ==
    ASSUME NEW m \in Nat \ {0}, NEW adm \in [0..m - 1 -> Nat], NEW f, Adds(f, adm, m),
           NEW more, OneMore(more, adm, m), NEW h, Adds(h, more, m)
    PROVE  \A n \in 1..m : h[n] = f[n] + 1
  <1>0. /\ m \in Nat
        /\ f[0] = 0 /\ \A i \in 1..m : f[i] = f[i - 1] + adm[i - 1]
        /\ h[0] = 0 /\ \A i \in 1..m : h[i] = h[i - 1] + more[i - 1]
    BY DEF Adds
  <1>9. \A n \in 0..m : f[n] \in Nat
    BY <1>0, CountsGrow
  <1> DEFINE T == {n \in 1..m : h[n] # f[n] + 1}
  <1> SUFFICES ASSUME T # {} PROVE FALSE
    OBVIOUS
  <1>1. PICK n \in T : \A k \in T : n <= k
    <2>1. T \in SUBSET Nat
      OBVIOUS
    <2> HIDE DEF T
    <2> QED BY <2>1, FirstFailure
  <1>2. n \in 1..m /\ h[n] # f[n] + 1
    OBVIOUS
  <1>3. f[n] = f[n - 1] + adm[n - 1] /\ h[n] = h[n - 1] + more[n - 1] /\ f[0] = 0 /\ h[0] = 0
    BY <1>0, <1>2
  <1>4. CASE n = 1
    <2>1. more[0] = adm[0] + 1 /\ adm[0] \in Nat
      BY <1>0 DEF OneMore
    <2> QED BY <1>2, <1>3, <1>4, <2>1
  <1>5. CASE n # 1
    <2>1. n - 1 \in 1..m /\ n - 1 \in 0..m - 1 /\ n - 1 # 0 /\ n - 1 \notin T
      BY <1>1, <1>2, <1>5
    <2>2. h[n - 1] = f[n - 1] + 1 /\ more[n - 1] = adm[n - 1]
      BY <2>1 DEF OneMore
    <2>3. f[n - 1] \in Nat /\ adm[n - 1] \in Nat
      BY <1>9, <2>1
    <2> QED BY <1>2, <1>3, <2>2, <2>3
  <1> QED BY <1>4, <1>5

OneLater(old, adm, m) == old[0] = 0 /\ \A a \in 1..m - 1 : old[a] = adm[a - 1]

(* When a unit passes, a period is the one shorter by a unit before. *)
LEMMA CountsShift ==
    ASSUME NEW m \in Nat \ {0}, NEW adm \in [0..m - 1 -> Nat], NEW f, Adds(f, adm, m),
           NEW old, OneLater(old, adm, m),
           NEW h, Adds(h, old, m)
    PROVE  \A n \in 1..m : h[n] = f[n - 1]
  <1>0. /\ m \in Nat
        /\ f[0] = 0 /\ \A i \in 1..m : f[i] = f[i - 1] + adm[i - 1]
        /\ h[0] = 0 /\ \A i \in 1..m : h[i] = h[i - 1] + old[i - 1]
    BY DEF Adds
  <1>9. \A n \in 0..m : f[n] \in Nat
    BY <1>0, CountsGrow
  <1> DEFINE T == {n \in 1..m : h[n] # f[n - 1]}
  <1> SUFFICES ASSUME T # {} PROVE FALSE
    OBVIOUS
  <1>1. PICK n \in T : \A k \in T : n <= k
    <2>1. T \in SUBSET Nat
      OBVIOUS
    <2> HIDE DEF T
    <2> QED BY <2>1, FirstFailure
  <1>2. n \in 1..m /\ h[n] # f[n - 1]
    OBVIOUS
  <1>3. h[n] = h[n - 1] + old[n - 1] /\ f[0] = 0 /\ h[0] = 0
    BY <1>0, <1>2
  <1>4. CASE n = 1
    BY <1>2, <1>3, <1>4 DEF OneLater
  <1>5. CASE n # 1
    <2>1. n - 1 \in 1..m /\ n - 1 \in 0..m - 1 /\ n - 1 # 0 /\ n - 1 \notin T
      BY <1>1, <1>2, <1>5
    <2>2. h[n - 1] = f[(n - 1) - 1] /\ old[n - 1] = adm[(n - 1) - 1]
      BY <2>1 DEF OneLater
    <2>3. f[n - 1] = f[(n - 1) - 1] + adm[(n - 1) - 1]
      BY <1>0, <2>1
    <2> QED BY <1>2, <1>3, <2>2, <2>3
  <1> QED BY <1>4, <1>5

LEMMA LatelyCounts ==
    ASSUME NEW adm, NEW f,
           f = CHOOSE g : g = [n \in 0..Seconds |-> IF n = 0 THEN 0 ELSE g[n - 1] + adm[n - 1]]
    PROVE  Adds(f, adm, Seconds)
  <1>1. PICK h : Counts(h, adm, Seconds)
    BY RateLimitAssumption, CountsExist
  <1>2. h = [n \in 0..Seconds |-> IF n = 0 THEN 0 ELSE h[n - 1] + adm[n - 1]]
    BY <1>1 DEF Counts
  <1>3. f = [n \in 0..Seconds |-> IF n = 0 THEN 0 ELSE f[n - 1] + adm[n - 1]]
    BY <1>2
  <1>4. Counts(f, adm, Seconds)
    BY <1>3 DEF Counts
  <1> QED BY <1>4, RateLimitAssumption, CountsOf

-----------------------------------------------------------------------------
(* A window in progress: its first request is as old as the window, and    *)
(* what came since is its count.  Before it there was less than a window's *)
(* worth, because the first request of the window before is forgotten when *)
(* that one ends.                                                          *)
Running(lately) ==
    /\ count \in 1..Maximum /\ admitted[Seconds - left] > 0
    /\ lately[Seconds - left + 1] = count
    /\ lately[Seconds] - count < Maximum

Ended(lately) == admitted[0] = 0 /\ lately[Seconds] < Maximum

LimitIInv == LimitOK /\ IF Expired THEN Ended(Lately) ELSE Running(Lately)

LEMMA LimitShape ==
    /\ Maximum \in Nat \ {0} /\ Seconds \in Nat \ {0} /\ 0 \in 0..Seconds - 1
    /\ LimitOK => /\ admitted \in [0..Seconds - 1 -> Nat] /\ left \in Nat /\ count \in Nat
                  /\ left <= Seconds
  BY RateLimitAssumption DEF LimitOK

LEMMA LimitInitially == LimitInit => LimitIInv
  <1> SUFFICES ASSUME LimitInit PROVE LimitIInv
    OBVIOUS
  <1>1. LimitOK
    BY LimitShape DEF LimitOK, LimitInit
  <1>2. PICK f : f = Lately
    OBVIOUS
  <1>3. Adds(f, admitted, Seconds)
    BY <1>2, LatelyCounts DEF Lately
  <1>5. f[Seconds] = 0
    <2> DEFINE T == {n \in 0..Seconds : f[n] # 0}
    <2> SUFFICES ASSUME T # {} PROVE FALSE
      BY LimitShape
    <2>1. PICK n \in T : \A k \in T : n <= k
      <3>1. T \in SUBSET Nat
        BY LimitShape
      <3> HIDE DEF T
      <3> QED BY <3>1, FirstFailure
    <2>2. n \in 0..Seconds /\ f[n] # 0
      OBVIOUS
    <2>3. f[0] = 0 /\ \A i \in 1..Seconds : f[i] = f[i - 1] + admitted[i - 1]
      BY <1>3, LimitShape DEF Adds
    <2>4. n # 0 /\ n - 1 \in 0..Seconds /\ n - 1 \in 0..Seconds - 1 /\ n - 1 \notin T
      BY <2>1, <2>2, <2>3, LimitShape
    <2>5. f[n - 1] = 0 /\ admitted[n - 1] = 0
      BY <2>4 DEF LimitInit
    <2> QED BY <2>2, <2>3, <2>4, <2>5, LimitShape
  <1> QED BY <1>1, <1>2, <1>5, LimitShape DEF LimitInit, LimitIInv, Expired, Ended

LEMMA RequestKeepsLimit ==
    ASSUME LimitIInv, Request
    PROVE  LimitIInv'
  <1>1. PICK f, h : f = Lately /\ h = Lately'
    OBVIOUS
  <1>2. Adds(f, admitted, Seconds) /\ Adds(h, admitted', Seconds)
    <2>1. Adds(f, admitted, Seconds)
      BY <1>1, LatelyCounts DEF Lately
    <2>2. Adds(h, admitted', Seconds)
      BY <1>1, LatelyCounts DEF Lately
    <2> QED BY <2>1, <2>2
  <1>3. /\ LimitOK /\ admitted \in [0..Seconds - 1 -> Nat] /\ left \in 0..Seconds
        /\ count \in 0..Maximum /\ Seconds \in Nat \ {0} /\ Maximum \in Nat \ {0}
    BY LimitShape DEF LimitIInv, LimitOK
  <1>4. \A n \in 0..Seconds : f[n] \in Nat /\ \A k \in 0..n : f[k] <= f[n]
    BY <1>2, <1>3, CountsGrow
  <1>5. f[1] = admitted[0]
    <2>1. f[1] = f[1 - 1] + admitted[1 - 1] /\ f[0] = 0
      BY <1>2, <1>3 DEF Adds
    <2> QED BY <1>3, <2>1
  <1>6. CASE ~Admits
    <2>1. left' = left /\ count' = count /\ admitted' = admitted
      BY <1>6 DEF Request, Renewed
    <2>2. Lately' = Lately
      BY <2>1 DEF Lately
    <2> QED BY <2>1, <2>2 DEF LimitIInv, LimitOK, Expired, Ended, Running
  <1>7. CASE Admits
    <2>1. /\ admitted' = [admitted EXCEPT ![0] = @ + 1]
          /\ count' = (IF left = 0 THEN 1 ELSE count + 1)
          /\ left' = (IF left = 0 THEN Seconds ELSE left)
      BY <1>7 DEF Request, Expired
    <2>2. \A n \in 1..Seconds : h[n] = f[n] + 1
      <3>1. PICK more : more = admitted'
        OBVIOUS
      <3>2. /\ OneMore(more, admitted, Seconds)
            /\ Adds(h, more, Seconds)
        BY <1>2, <1>3, <2>1, <3>1 DEF OneMore
      <3>3. Adds(f, admitted, Seconds) /\ Seconds \in Nat \ {0} /\ admitted \in [0..Seconds - 1 -> Nat]
        BY <1>2, <1>3
      <3> QED BY <3>2, <3>3, CountsMore
    <2>3. /\ admitted'[0] = admitted[0] + 1
          /\ \A a \in 0..Seconds - 1 : a # 0 => admitted'[a] = admitted[a]
      BY <1>3, <2>1
    <2>4. CASE left = 0
      <3>1. admitted[0] = 0 /\ f[Seconds] < Maximum
        BY <1>1, <2>4 DEF LimitIInv, Expired, Ended
      <3>2. left' = Seconds /\ count' = 1 /\ admitted'[0] = 1 /\ h[1] = 1 /\ h[Seconds] = f[Seconds] + 1
        BY <1>3, <1>5, <2>1, <2>2, <2>3, <2>4, <3>1
      <3>3. LimitOK'
        BY <1>3, <2>1, <3>1, <3>2 DEF LimitOK
      <3>4. Running(Lately)'
        <4>1. Seconds - left' = 0 /\ Seconds - left' + 1 = 1
          BY <1>3, <3>2
        <4>2. f[Seconds] \in Nat
          BY <1>3, <1>4
        <4> QED BY <1>1, <1>3, <3>1, <3>2, <4>1, <4>2 DEF Running
      <3> QED BY <1>3, <3>2, <3>3, <3>4 DEF LimitIInv, Expired
    <2>5. CASE left # 0
      <3>1. count < Maximum
        BY <1>7, <2>5 DEF Admits, Expired
      <3>2. /\ count \in 1..Maximum /\ admitted[Seconds - left] > 0
            /\ f[Seconds - left + 1] = count /\ f[Seconds] - count < Maximum
        BY <1>1, <2>5 DEF LimitIInv, Expired, Running
      <3>3. Seconds - left + 1 \in 1..Seconds /\ Seconds - left \in 0..Seconds - 1 /\ 1 \in 0..(Seconds - left + 1)
        BY <1>3, <2>5
      <3>4. admitted[0] <= count
        BY <1>4, <1>5, <3>2, <3>3
      <3>5. LimitOK'
        <4>1. admitted[0] + 1 \in 0..Maximum
          BY <1>3, <3>1, <3>4
        <4>2. admitted' \in [0..Seconds - 1 -> 0..Maximum]
          BY <2>1, <4>1, <1>3 DEF LimitOK
        <4> QED BY <1>3, <2>1, <2>5, <3>1, <4>2 DEF LimitOK
      <3>6. left' = left /\ count' = count + 1 /\ admitted'[Seconds - left] > 0
        BY <1>3, <2>1, <2>3, <2>5, <3>2, <3>3
      <3>7. h[Seconds - left + 1] = count + 1 /\ h[Seconds] = f[Seconds] + 1 /\ f[Seconds] \in Nat
        BY <1>3, <1>4, <2>2, <3>2, <3>3
      <3>8. Running(Lately)'
        BY <1>1, <1>3, <3>1, <3>2, <3>6, <3>7 DEF Running
      <3> QED BY <2>5, <3>5, <3>6, <3>8 DEF LimitIInv, Expired
    <2> QED BY <2>4, <2>5
  <1> QED BY <1>6, <1>7

LEMMA TimeKeepsLimit ==
    ASSUME LimitIInv, TimePasses
    PROVE  LimitIInv'
  <1>1. PICK f, h : f = Lately /\ h = Lately'
    OBVIOUS
  <1>2. Adds(f, admitted, Seconds) /\ Adds(h, admitted', Seconds)
    <2>1. Adds(f, admitted, Seconds)
      BY <1>1, LatelyCounts DEF Lately
    <2>2. Adds(h, admitted', Seconds)
      BY <1>1, LatelyCounts DEF Lately
    <2> QED BY <2>1, <2>2
  <1>3. /\ LimitOK /\ admitted \in [0..Seconds - 1 -> Nat] /\ left \in 0..Seconds
        /\ count \in 0..Maximum /\ Seconds \in Nat \ {0} /\ Maximum \in Nat \ {0}
    BY LimitShape DEF LimitIInv, LimitOK
  <1>4. \A n \in 0..Seconds : f[n] \in Nat /\ \A k \in 0..n : f[k] <= f[n]
    BY <1>2, <1>3, CountsGrow
  <1>5. /\ admitted' = [a \in 0..Seconds - 1 |-> IF a = 0 THEN 0 ELSE admitted[a - 1]]
        /\ left' = (IF left > 0 THEN left - 1 ELSE 0) /\ count' = count
    BY DEF TimePasses
  <1>6. \A n \in 1..Seconds : h[n] = f[n - 1]
    <2>1. PICK old : old = admitted'
      OBVIOUS
    <2>2. /\ OneLater(old, admitted, Seconds)
          /\ Adds(h, old, Seconds)
      BY <1>2, <1>3, <1>5, <2>1 DEF OneLater
    <2>3. Adds(f, admitted, Seconds) /\ Seconds \in Nat \ {0} /\ admitted \in [0..Seconds - 1 -> Nat]
      BY <1>2, <1>3
    <2> QED BY <2>2, <2>3, CountsShift
  <1>7. h[Seconds] = f[Seconds - 1] /\ f[Seconds - 1] <= f[Seconds] /\ f[Seconds - 1] \in Nat /\ f[Seconds] \in Nat
    BY <1>3, <1>4, <1>6
  <1>8. LimitOK' /\ admitted'[0] = 0
    <2>1. ASSUME NEW a \in 0..Seconds - 1, a # 0 PROVE a - 1 \in 0..Seconds - 1
      BY <1>3, <2>1
    <2>2. admitted' \in [0..Seconds - 1 -> 0..Maximum]
      BY <1>3, <1>5, <2>1 DEF LimitOK
    <2> QED BY <1>3, <1>5, <2>2 DEF LimitOK
  <1>9. CASE left = 0
    <2>1. f[Seconds] < Maximum /\ left' = 0
      BY <1>1, <1>5, <1>9 DEF LimitIInv, Expired, Ended
    <2>2. h[Seconds] < Maximum
      BY <1>3, <1>7, <2>1
    <2> QED BY <1>1, <1>8, <2>1, <2>2 DEF LimitIInv, Expired, Ended
  <1>10. CASE left # 0
    <2>1. /\ count \in 1..Maximum /\ admitted[Seconds - left] > 0
          /\ f[Seconds - left + 1] = count /\ f[Seconds] - count < Maximum
      BY <1>1, <1>10 DEF LimitIInv, Expired, Running
    <2>2. left' = left - 1
      BY <1>3, <1>5, <1>10
    <2>3. CASE left = 1
      <3>1. f[Seconds] = count /\ f[Seconds] = f[Seconds - 1] + admitted[Seconds - 1]
        <4>1. Seconds \in 1..Seconds /\ Seconds - left + 1 = Seconds
          BY <1>3, <2>3
        <4>2. \A n \in 1..Seconds : f[n] = f[n - 1] + admitted[n - 1]
          BY <1>2, <1>3 DEF Adds
        <4> QED BY <2>1, <4>1, <4>2
      <3>2. admitted[Seconds - 1] > 0 /\ admitted[Seconds - 1] \in Nat
        BY <1>3, <2>1, <2>3
      <3>3. h[Seconds] < Maximum
        BY <1>3, <1>7, <2>1, <3>1, <3>2
      <3> QED BY <1>1, <1>8, <2>2, <2>3, <3>3 DEF LimitIInv, Expired, Ended
    <2>4. CASE left # 1
      <3>1. /\ left' # 0 /\ Seconds - left' = Seconds - left + 1
            /\ Seconds - left' \in 1..Seconds - 1 /\ Seconds - left' + 1 \in 1..Seconds
            /\ (Seconds - left') - 1 = Seconds - left /\ (Seconds - left' + 1) - 1 = Seconds - left + 1
        BY <1>3, <1>10, <2>2, <2>4
      <3>2. admitted'[Seconds - left'] = admitted[Seconds - left]
        BY <1>3, <1>5, <3>1
      <3>3. h[Seconds - left' + 1] = count
        BY <1>6, <2>1, <3>1
      <3>4. h[Seconds] - count < Maximum
        BY <1>3, <1>7, <2>1
      <3>5. Running(Lately)'
        BY <1>1, <1>5, <2>1, <3>2, <3>3, <3>4 DEF Running
      <3> QED BY <1>8, <3>1, <3>5 DEF LimitIInv, Expired
    <2> QED BY <2>3, <2>4
  <1> QED BY <1>9, <1>10

LEMMA LimitHolds == LimitIInv => LimitExact
  <1> SUFFICES ASSUME LimitIInv PROVE LimitExact
    OBVIOUS
  <1>1. PICK f : f = Lately
    OBVIOUS
  <1>2. Adds(f, admitted, Seconds)
    BY <1>1, LatelyCounts DEF Lately
  <1>3. /\ admitted \in [0..Seconds - 1 -> Nat] /\ left \in 0..Seconds
        /\ count \in 0..Maximum /\ Seconds \in Nat \ {0} /\ Maximum \in Nat \ {0}
    BY LimitShape DEF LimitIInv, LimitOK
  <1>4. \A n \in 0..Seconds : f[n] \in Nat /\ \A k \in 0..n : f[k] <= f[n]
    BY <1>2, <1>3, CountsGrow
  <1>5. f[Seconds] \in Nat
    BY <1>3, <1>4
  <1>6. CASE left = 0
    BY <1>1, <1>3, <1>5, <1>6 DEF LimitIInv, LimitExact, Admits, Expired, Ended
  <1>7. CASE left # 0
    <2>1. /\ count \in 1..Maximum /\ f[Seconds - left + 1] = count /\ f[Seconds] - count < Maximum
      BY <1>1, <1>7 DEF LimitIInv, Expired, Running
    <2>2. count <= f[Seconds]
      <3>1. Seconds \in 0..Seconds /\ Seconds - left + 1 \in 0..Seconds
        BY <1>3, <1>7
      <3> QED BY <1>4, <2>1, <3>1
    <2> QED BY <1>1, <1>3, <1>5, <1>7, <2>1, <2>2 DEF LimitExact, Admits, Expired
  <1> QED BY <1>6, <1>7

(* In no period as long as the window are twice the maximum admitted, and  *)
(* a request is refused only if the maximum was admitted in the last such  *)
(* period (AuthService._limit).                                            *)
THEOREM LimitIsExact == LimitSpec => []LimitExact
  <1>1. LimitIInv /\ [LimitNext]_limit => LimitIInv'
    <2> SUFFICES ASSUME LimitIInv, [LimitNext]_limit PROVE LimitIInv'
      OBVIOUS
    <2>1. CASE UNCHANGED limit
      <3>1. Lately' = Lately
        BY <2>1 DEF limit, Lately
      <3> QED BY <2>1, <3>1 DEF limit, LimitIInv, LimitOK, Expired, Ended, Running
    <2> QED BY <2>1, RequestKeepsLimit, TimeKeepsLimit DEF LimitNext
  <1> QED BY <1>1, LimitInitially, LimitHolds, PTL DEF LimitSpec
=============================================================================
