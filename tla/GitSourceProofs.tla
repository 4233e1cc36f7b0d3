-------------------------- MODULE GitSourceProofs --------------------------
(***************************************************************************)
(* Proofs about GitSource, for any sites, repositories, roots and numbers  *)
(* of overlapping refreshes.                                               *)
(*                                                                         *)
(* What a refresh or a preview carries was true when it was read; the      *)
(* invariant says what of it is still true now.  A generation names one    *)
(* repository; the identity a refresh has read is not older than the       *)
(* configuration and not newer than the answer, which was shown by that    *)
(* repository; and a base that still matches belongs to a commit not newer *)
(* than the one fetched, as long as the site is still published from the   *)
(* same repository.                                                        *)
(***************************************************************************)
EXTENDS GitSource, TLAPS

HeadShown(p) ==
    head[p].commit # 0 => <<p, head[p].id, head[p].commit, head[p].proof>> \in shown

(* Identities of p read for generation n are as new as its configuration.  *)
SinceHead(p, n) == since[n] <= head[p].id

SiteBehind(s) == Published(s) => site[s].commit <= head[site[s].repo].commit

(* The base of a preview or of a refresh of site s from repository p. *)
FromLiveSite(s, b) == b.commit # 0 => Published(s)
NotAfter(s, p, b, c) == site[s].repo = p => b.commit <= c

PreviewGood(s) ==
    row[s].preview # None =>
        /\ s \notin purged
        /\ Carried(row[s].repo, row[s].preview.commit) \cap purged = {}
        /\ row[s].preview.commit <= head[row[s].repo].commit
        /\ FromLiveSite(s, row[s].preview.base)
        /\ NotAfter(s, row[s].repo, row[s].preview.base, row[s].preview.commit)

RowGood(s) ==
    row[s] # None =>
        /\ row[s].gen <= gens
        /\ SinceHead(row[s].repo, row[s].gen)
        /\ row[s].id # 0 =>
               since[row[s].gen] <= row[s].id /\ ShownFrom(row[s].repo, row[s].id, row[s].gen)
        /\ PreviewGood(s)

AnswerGood(q) ==
    HasCandidate(q) =>
        /\ since[job[q].gen] <= job[q].got.id
        /\ ShownFrom(job[q].repo, job[q].got.id, job[q].got.proof)
        /\ job[q].got.commit <= head[job[q].repo].commit
        /\ NotAfter(job[q].site, job[q].repo, job[q].base, job[q].got.commit)

SameSource(q) ==
    row[job[q].site] # None /\ row[job[q].site].gen = job[q].gen
        => row[job[q].site].repo = job[q].repo

IdentityGood(q) ==
    job[q].id # 0 => since[job[q].gen] <= job[q].id /\ job[q].id <= head[job[q].repo].id

JobGood(q) ==
    job[q] # None =>
        /\ job[q].gen <= gens
        /\ SinceHead(job[q].repo, job[q].gen)
        /\ IdentityGood(q)
        /\ SameSource(q)
        /\ FromLiveSite(job[q].site, job[q].base)
        /\ NotAfter(job[q].site, job[q].repo, job[q].base, head[job[q].repo].commit)
        /\ AnswerGood(q)

IInv ==
    /\ TypeOK
    /\ \A p \in Repos : HeadShown(p)
    /\ \A s \in Sites : SiteBehind(s) /\ RowGood(s)
    /\ \A q \in Fetchers : JobGood(q)

USE RepoAssumption, NoneAssumption, NoRecordAssumption

-----------------------------------------------------------------------------
(* Facts about the operators of GitSource. *)

LEMMA CarriedType ==
    ASSUME NEW p \in Repos, NEW c \in 0..MaxCommit PROVE Carried(p, c) \subseteq Roots
  BY DEF Carried

LEMMA BaseType == ASSUME TypeOK, NEW s \in Sites PROVE BaseOf(s) \in Base
  <1>1. site[s] \in Site /\ (site[s].commit = 0 <=> site[s].repo = None)
    BY DEF TypeOK
  <1>2. LiveRoots(s) \in SUBSET Roots
    <2>1. CASE Published(s)
      <3>1. site[s].repo \in Repos /\ site[s].commit \in 0..MaxCommit
        BY <1>1, <2>1 DEF Published, Site
      <3> QED BY <2>1, <3>1, CarriedType DEF LiveRoots
    <2>2. CASE ~Published(s)
      BY <2>2 DEF LiveRoots
    <2> QED BY <2>1, <2>2
  <1>3. Entries(s) \in SUBSET Roots
    BY DEF Entries
  <1> QED BY <1>1, <1>2, <1>3 DEF BaseOf, Base, Site

(* Records of the row and of the refresh. *)
LEMMA RowType == ASSUME TypeOK, NEW s \in Sites, row[s] # None PROVE row[s] \in Row
  BY DEF TypeOK

LEMMA JobType == ASSUME TypeOK, NEW q \in Fetchers, job[q] # None PROVE job[q] \in Job
  BY DEF TypeOK

-----------------------------------------------------------------------------
(* Rows that changed only in their policy, timers and receipt, or lost     *)
(* their preview.                                                          *)
SoftRow(s) ==
    \/ row'[s] = row[s]
    \/ /\ row[s] # None /\ row'[s] # None
       /\ row'[s].gen = row[s].gen /\ row'[s].repo = row[s].repo /\ row'[s].id = row[s].id
       /\ row'[s].preview # None =>
            /\ row[s].preview # None
            /\ row'[s].preview.commit = row[s].preview.commit
            /\ row'[s].preview.base = row[s].preview.base

SoftSite(s) == site'[s].commit = site[s].commit /\ site'[s].repo = site[s].repo

LEMMA SoftRowKeeps ==
    ASSUME TypeOK, NEW s \in Sites, RowGood(s), SoftRow(s), SoftSite(s),
           UNCHANGED <<purged, head, shown, since, gens>>
    PROVE  RowGood(s)'
  BY DEF RowGood, PreviewGood, SinceHead, ShownFrom, SoftRow, SoftSite, FromLiveSite, NotAfter, Published

LEMMA SoftJobKeeps ==
    ASSUME TypeOK, NEW q \in Fetchers, JobGood(q), job'[q] \in {job[q], None},
           \A s \in Sites : SoftRow(s) /\ SoftSite(s),
           UNCHANGED <<head, shown, since, gens>>
    PROVE  JobGood(q)'
  <1> SUFFICES ASSUME job'[q] # None PROVE JobGood(q)'
    BY DEF JobGood
  <1>1. job'[q] = job[q] /\ job[q].site \in Sites
    BY JobType DEF Job
  <1>2. SoftRow(job[q].site) /\ SoftSite(job[q].site)
    BY <1>1
  <1> QED BY <1>1, <1>2 DEF JobGood, AnswerGood, SameSource, SinceHead, IdentityGood, ShownFrom,
             SoftRow, SoftSite, FromLiveSite, NotAfter, Published, HasCandidate

(* Steps that leave the texts, GitHub and the generations alone. *)
LEMMA SoftKeeps ==
    ASSUME IInv, TypeOK',
           \A s \in Sites : SoftRow(s) /\ SoftSite(s),
           \A q \in Fetchers : job'[q] \in {job[q], None},
           UNCHANGED <<purged, head, shown, since, gens>>
    PROVE  IInv'
  <1>1. \A p \in Repos : HeadShown(p)'
    BY DEF IInv, HeadShown
  <1>2. \A s \in Sites : SiteBehind(s)'
    BY DEF IInv, SiteBehind, SoftSite, Published
  <1>3. \A s \in Sites : RowGood(s)'
    BY SoftRowKeeps DEF IInv
  <1>4. \A q \in Fetchers : JobGood(q)'
    BY SoftJobKeeps DEF IInv
  <1> QED BY <1>1, <1>2, <1>3, <1>4 DEF IInv

(* A step of the owner or of a timer that touches one row only. *)
LEMMA RowStepKeeps ==
    ASSUME IInv, NEW s \in Sites, row[s] # None, NEW new \in Row, row' = [row EXCEPT ![s] = new],
           new.gen = row[s].gen, new.repo = row[s].repo, new.id = row[s].id,
           new.preview # None =>
             /\ row[s].preview # None
             /\ new.preview.commit = row[s].preview.commit
             /\ new.preview.base = row[s].preview.base,
           UNCHANGED <<site, entry, rules, job, github, seen, gens, ids>>
    PROVE  IInv'
  <1>1. TypeOK'
    BY DEF IInv, TypeOK, rules, github
  <1>2. \A x \in Sites : SoftRow(x) /\ SoftSite(x)
    BY DEF IInv, TypeOK, SoftRow, SoftSite
  <1>3. \A q \in Fetchers : job'[q] \in {job[q], None}
    OBVIOUS
  <1>4. UNCHANGED <<purged, head, shown, since, gens>>
    BY DEF rules, github
  <1> QED BY <1>1, <1>2, <1>3, <1>4, SoftKeeps

LEMMA PostponeKeeps == ASSUME IInv, NEW s \in Sites, Postpone(s) PROVE IInv'
  <1>1. row[s] # None /\ row[s] \in Row
    BY RowType DEF Postpone, Polled, IInv
  <1>2. DEFINE new == [row[s] EXCEPT !.timer = IF @ = "due" THEN "waiting" ELSE @]
  <1>3. row' = [row EXCEPT ![s] = new]
    BY DEF Postpone, Postponed
  <1>4. /\ new \in Row /\ new.gen = row[s].gen /\ new.repo = row[s].repo
        /\ new.id = row[s].id /\ new.preview = row[s].preview
    BY <1>1 DEF Row
  <1>5. UNCHANGED <<site, entry, rules, job, github, seen, gens, ids>>
    BY DEF Postpone
  <1> HIDE DEF new
  <1> QED BY <1>1, <1>3, <1>4, <1>5, RowStepKeeps

LEMMA PolicyKeeps ==
    ASSUME IInv, NEW s \in Sites, NEW auto \in BOOLEAN, Policy(s, auto) PROVE IInv'
  <1>1. row[s] # None /\ row[s] \in Row
    BY RowType DEF Policy, Managed, IInv
  <1>2. DEFINE new == [row[s] EXCEPT !.auto = auto]
  <1>3. row' = [row EXCEPT ![s] = new]
    BY DEF Policy
  <1>4. /\ new \in Row /\ new.gen = row[s].gen /\ new.repo = row[s].repo
        /\ new.id = row[s].id /\ new.preview = row[s].preview
    BY <1>1 DEF Row
  <1>5. UNCHANGED <<site, entry, rules, job, github, seen, gens, ids>>
    BY DEF Policy
  <1> HIDE DEF new
  <1> QED BY <1>1, <1>3, <1>4, <1>5, RowStepKeeps

LEMMA PassKeeps == ASSUME IInv, NEW s \in Sites, Pass(s) PROVE IInv'
  <1>1. row[s] # None /\ row[s] \in Row
    BY RowType DEF Pass, IInv
  <1>2. PICK t \in {"waiting", "due"} : row' = [row EXCEPT ![s].timer = t]
    BY DEF Pass
  <1>2a. UNCHANGED <<site, entry, rules, job, github, seen, gens, ids>>
    BY DEF Pass
  <1>3. DEFINE new == [row[s] EXCEPT !.timer = t]
  <1>4. row' = [row EXCEPT ![s] = new]
    BY <1>2
  <1>5. /\ new \in Row /\ new.gen = row[s].gen /\ new.repo = row[s].repo
        /\ new.id = row[s].id /\ new.preview = row[s].preview
    BY <1>1 DEF Row
  <1> HIDE DEF new
  <1> QED BY <1>1, <1>2a, <1>4, <1>5, RowStepKeeps

LEMMA ExpireKeeps == ASSUME IInv, NEW s \in Sites, Expire(s) PROVE IInv'
  <1>1. row[s] # None /\ row[s] \in Row
    BY RowType DEF Expire, IInv
  <1>1a. UNCHANGED <<site, entry, rules, job, github, seen, gens, ids>>
    BY DEF Expire
  <1>2. CASE row' = [row EXCEPT ![s].timely = FALSE]
    <2>1. DEFINE new == [row[s] EXCEPT !.timely = FALSE]
    <2>2. row' = [row EXCEPT ![s] = new]
      BY <1>2
    <2>3. /\ new \in Row /\ new.gen = row[s].gen /\ new.repo = row[s].repo
          /\ new.id = row[s].id /\ new.preview = row[s].preview
      BY <1>1 DEF Row
    <2> HIDE DEF new
    <2> QED BY <1>1, <1>1a, <2>2, <2>3, RowStepKeeps
  <1>3. CASE row[s].preview # None /\ row' = [row EXCEPT ![s].preview.live = FALSE]
    <2>1. DEFINE old == [row[s].preview EXCEPT !.live = FALSE]
                 new == [row[s] EXCEPT !.preview = old]
    <2>2. row' = [row EXCEPT ![s] = new]
      BY <1>3
    <2>3. row[s].preview \in Preview
      BY <1>1, <1>3 DEF Row
    <2>4. old \in Preview /\ old.commit = row[s].preview.commit /\ old.base = row[s].preview.base
      BY <2>3 DEF Preview
    <2>5. /\ new \in Row /\ new.gen = row[s].gen /\ new.repo = row[s].repo
          /\ new.id = row[s].id /\ new.preview = old
      BY <1>1, <2>4 DEF Row
    <2> HIDE DEF old, new
    <2> QED BY <1>1, <1>1a, <1>3, <2>2, <2>4, <2>5, RowStepKeeps
  <1> QED BY <1>2, <1>3 DEF Expire

LEMMA CleanupKeeps == ASSUME IInv, Cleanup PROVE IInv'
  <1>1. ASSUME NEW s \in Sites
        PROVE  SoftRow(s) /\ row'[s] \in Row \cup {None}
    <2>1. row'[s] = row[s] \/ (row[s] # None /\ row'[s] = [row[s] EXCEPT !.preview = None])
      BY DEF Cleanup
    <2>2. CASE row[s] # None /\ row'[s] = [row[s] EXCEPT !.preview = None]
      <3>1. row[s] \in Row
        BY <2>2, RowType DEF IInv
      <3>2. /\ row'[s] \in Row /\ row'[s].gen = row[s].gen /\ row'[s].repo = row[s].repo
            /\ row'[s].id = row[s].id /\ row'[s].preview = None
        BY <2>2, <3>1 DEF Row
      <3> QED BY <2>2, <3>2 DEF SoftRow
    <2> QED BY <2>1, <2>2 DEF SoftRow, IInv, TypeOK
  <1>2. row' \in [Sites -> Row \cup {None}]
    BY <1>1 DEF Cleanup
  <1>3. TypeOK'
    BY <1>2 DEF IInv, TypeOK, Cleanup, rules, github
  <1>4. UNCHANGED <<purged, head, shown, since, gens>> /\ UNCHANGED <<site, job>>
    BY DEF Cleanup, rules, github
  <1>5. \A s \in Sites : SoftRow(s) /\ SoftSite(s)
    BY <1>1, <1>4 DEF SoftSite
  <1>6. \A q \in Fetchers : job'[q] \in {job[q], None}
    BY <1>4
  <1> QED BY <1>3, <1>4, <1>5, <1>6, SoftKeeps

LEMMA ViewKeeps == ASSUME IInv, NEW s \in Sites, View(s) PROVE IInv'
  <1>1. row[s] \in Row /\ row[s].preview \in Preview
    <2>1. row[s] \in Row
      BY RowType DEF IInv, View, Managed
    <2> QED BY <2>1 DEF View, Row
  <1>2. TypeOK'
    BY <1>1 DEF IInv, TypeOK, View, rules, github, Preview
  <1> QED BY <1>2, SoftKeeps DEF View, rules, github, SoftSite, SoftRow

LEMMA BanKeeps == ASSUME IInv, NEW s \in Sites, Ban(s) PROVE IInv'
  <1>1. TypeOK'
    BY DEF IInv, TypeOK, Ban, github
  <1> QED BY <1>1, SoftKeeps DEF Ban, github, SoftSite, SoftRow

LEMMA EditKeeps == ASSUME IInv, NEW s \in Sites, Edit(s) PROVE IInv'
  <1>1. ASSUME NEW x \in Sites
        PROVE  /\ site'[x] \in Site
               /\ site'[x].commit = site[x].commit /\ site'[x].repo = site[x].repo
    <2>1. site[x] \in Site /\ site' = [site EXCEPT ![s] = [site[s] EXCEPT !.settings = @ + 1]]
      BY DEF IInv, TypeOK, Edit
    <2>2. CASE x = s
      <3>1. site'[x] = [site[x] EXCEPT !.settings = @ + 1]
        BY <2>1, <2>2 DEF IInv, TypeOK
      <3> QED BY <2>1, <3>1 DEF Site
    <2>3. CASE x # s
      BY <2>1, <2>3
    <2> QED BY <2>2, <2>3
  <1>2. TypeOK'
    BY <1>1 DEF IInv, TypeOK, Edit, rules, github
  <1> QED BY <1>1, <1>2, SoftKeeps DEF Edit, rules, github, SoftSite, SoftRow

LEMMA FailKeeps == ASSUME IInv, Fail PROVE IInv'
  <1>1. job[Worker] \in Job /\ Worker \in Fetchers
    BY JobType DEF Fail, IInv, Fetchers
  <1>2. PICK s \in Sites : row' = row \/ (row[s] # None /\ row' = Postponed(s))
    BY <1>1 DEF Fail, Job
  <1>3. job' = [job EXCEPT ![Worker] = None] /\ UNCHANGED <<site, entry, rules, github, seen, gens, ids>>
    BY DEF Fail
  <1>4. ASSUME NEW x \in Sites PROVE SoftRow(x) /\ row'[x] \in Row \cup {None}
    <2>1. CASE row'[x] = row[x]
      BY <2>1 DEF SoftRow, IInv, TypeOK
    <2>2. CASE row[x] # None /\ row'[x] = [row[x] EXCEPT !.timer = IF @ = "due" THEN "waiting" ELSE @]
      <3>1. row[x] \in Row
        BY <2>2, RowType DEF IInv
      <3>2. /\ row'[x] \in Row /\ row'[x].gen = row[x].gen /\ row'[x].repo = row[x].repo
            /\ row'[x].id = row[x].id /\ row'[x].preview = row[x].preview
        BY <2>2, <3>1 DEF Row
      <3> QED BY <2>2, <3>2 DEF SoftRow
    <2>3. \/ row'[x] = row[x]
          \/ x = s /\ row'[x] = [row[x] EXCEPT !.timer = IF @ = "due" THEN "waiting" ELSE @]
      <3>1. row \in [Sites -> Row \cup {None}]
        BY DEF IInv, TypeOK
      <3> QED BY <1>2, <3>1 DEF Postponed
    <2> QED BY <1>2, <2>1, <2>2, <2>3
  <1>5. TypeOK'
    <2>1. row' \in [Sites -> Row \cup {None}]
      BY <1>2, <1>4 DEF IInv, TypeOK, Postponed
    <2>2. job' \in [Fetchers -> Job \cup {None}]
      BY <1>3 DEF IInv, TypeOK
    <2> QED BY <1>3, <2>1, <2>2 DEF IInv, TypeOK, rules, github
  <1>6. \A x \in Sites : SoftRow(x) /\ SoftSite(x)
    BY <1>3, <1>4 DEF SoftSite
  <1>7. \A q \in Fetchers : job'[q] \in {job[q], None}
    BY <1>3 DEF IInv, TypeOK
  <1>8. UNCHANGED <<purged, head, shown, since, gens>>
    BY <1>3 DEF rules, github
  <1> QED BY <1>5, <1>6, <1>7, <1>8, SoftKeeps

LEMMA DropKeeps == ASSUME IInv, NEW q \in Fetchers, Drop(q) PROVE IInv'
  <1>1. TypeOK' /\ \A z \in Fetchers : job'[z] \in {job[z], None}
    BY DEF IInv, TypeOK, Drop, rules, github
  <1> QED BY <1>1, SoftKeeps DEF Drop, rules, github, SoftSite, SoftRow

-----------------------------------------------------------------------------
(* Steps that write a new configuration, start a refresh or answer one. *)

LEMMA ConfigureKeeps ==
    ASSUME IInv, NEW s \in Sites, NEW p \in Repos, NEW auto \in BOOLEAN, Configure(s, p, auto)
    PROVE  IInv'
  <1>1. DEFINE new == [gen |-> gens + 1, repo |-> p, auto |-> auto, timely |-> TRUE,
                       id |-> 0, preview |-> None, receipt |-> 0, timer |-> "due"]
  <1>2. row' = [row EXCEPT ![s] = new] /\ gens' = gens + 1 /\ gens < MaxGen
    BY DEF Configure, Unverified
  <1>3. new \in Row
    BY <1>2 DEF IInv, TypeOK, Row
  <1>4. row'[s] = new /\ \A x \in Sites \ {s} : row'[x] = row[x]
    BY <1>2 DEF IInv, TypeOK
  <1>5. UNCHANGED <<site, purged, job, head, shown>> /\ since' = [since EXCEPT ![gens + 1] = head[p].id]
    BY DEF Configure, rules
  <1>5a. /\ since'[gens + 1] = head[p].id /\ gens + 1 \in 1..MaxGen /\ gens \in Nat
         /\ \A n \in 1..MaxGen : n <= gens => since'[n] = since[n]
         /\ since' \in [1..MaxGen -> 0..MaxIdentity] /\ head[p].id \in 1..MaxIdentity
    <2>1. gens \in Nat /\ gens + 1 \in 1..MaxGen
      BY <1>2 DEF IInv, TypeOK
    <2>2. head[p].id \in 1..MaxIdentity /\ since \in [1..MaxGen -> 0..MaxIdentity]
      BY DEF IInv, TypeOK, Head
    <2> QED BY <1>5, <2>1, <2>2
  <1>6. TypeOK'
    <2> HIDE DEF new
    <2>1. row' \in [Sites -> Row \cup {None}]
      BY <1>2, <1>3 DEF IInv, TypeOK
    <2>2. gens' \in 0..MaxGen
      BY <1>2 DEF IInv, TypeOK
    <2>3. UNCHANGED <<site, entry, purged, banned, job, head, shown, seen, ids>>
      BY DEF Configure, rules
    <2> QED BY <1>5a, <2>1, <2>2, <2>3 DEF IInv, TypeOK
  <1>7. \A x \in Repos : HeadShown(x)'
    BY <1>5 DEF IInv, HeadShown
  <1>8. ASSUME NEW x \in Sites PROVE SiteBehind(x)' /\ RowGood(x)'
    <2>1. SiteBehind(x)'
      BY <1>5 DEF IInv, SiteBehind, Published
    <2>2. CASE x = s
      <3>1. row'[x].gen = gens + 1 /\ row'[x].id = 0 /\ row'[x].preview = None /\ row'[x].repo = p
        BY <1>4, <2>2
      <3>2. gens + 1 <= gens'
        BY <1>2 DEF IInv, TypeOK
      <3> HIDE DEF new
      <3>3. PreviewGood(x)'
        BY <3>1 DEF PreviewGood
      <3>3a. SinceHead(row[x].repo, row[x].gen)'
        BY <1>5, <1>5a, <3>1 DEF SinceHead
      <3>4. RowGood(x)'
        BY <3>1, <3>2, <3>3, <3>3a DEF RowGood
      <3> QED BY <2>1, <3>4
    <2>3. CASE x # s
      <3>1. row'[x] = row[x] /\ RowGood(x)
        BY <1>4, <2>3 DEF IInv
      <3>2. row[x] # None => row[x].gen \in 1..MaxGen
        BY RowType DEF IInv, Row
      <3>3. gens \in Nat
        BY DEF IInv, TypeOK
      <3> SUFFICES ASSUME row[x] # None PROVE RowGood(x)'
        BY <2>1, <3>1 DEF RowGood
      <3>4. row'[x].gen <= gens'
        BY <1>2, <3>1, <3>2, <3>3 DEF RowGood
      <3>5. PreviewGood(x)'
        BY <1>5, <3>1 DEF RowGood, PreviewGood, FromLiveSite, NotAfter, Published
      <3>6. since'[row[x].gen] = since[row[x].gen]
        BY <1>5a, <3>1, <3>2 DEF RowGood
      <3> QED BY <1>5, <3>1, <3>4, <3>5, <3>6 DEF RowGood, SinceHead, ShownFrom
    <2> QED BY <2>1, <2>2, <2>3
  <1>9. ASSUME NEW q \in Fetchers PROVE JobGood(q)'
    <2> SUFFICES ASSUME job[q] # None PROVE JobGood(q)'
      BY <1>5 DEF JobGood
    <2>1. job[q].site \in Sites /\ job[q].gen \in 1..MaxGen /\ gens \in Nat /\ JobGood(q)
      BY JobType, SMTT(30) DEF IInv, Job, TypeOK
    <2>2. job[q].gen <= gens /\ since'[job[q].gen] = since[job[q].gen]
      BY <1>5a, <2>1 DEF JobGood
    <2>3. SameSource(q)'
      <3>1. CASE job[q].site = s
        BY <1>2, <1>4, <1>5, <2>1, <2>2, <3>1 DEF SameSource
      <3>2. CASE job[q].site # s
        BY <1>4, <1>5, <2>1, <3>2 DEF SameSource, JobGood
      <3> QED BY <3>1, <3>2
    <2>4. SinceHead(job[q].repo, job[q].gen)' /\ IdentityGood(q)'
      BY <1>5, <2>1, <2>2 DEF JobGood, SinceHead, IdentityGood
    <2>5. AnswerGood(q)'
      BY <1>5, <2>1, <2>2 DEF JobGood, AnswerGood, HasCandidate, NotAfter, ShownFrom
    <2> QED BY <1>2, <1>5, <2>1, <2>2, <2>3, <2>4, <2>5
             DEF JobGood, FromLiveSite, NotAfter, Published
  <1> HIDE DEF new
  <1> QED BY <1>6, <1>7, <1>8, <1>9 DEF IInv

LEMMA BeginKeeps ==
    ASSUME IInv, NEW q \in Fetchers, NEW s \in Sites, NEW auto \in BOOLEAN, Begin(q, s, auto)
    PROVE  IInv'
  <1>1. row[s] # None /\ row[s] \in Row
    BY RowType DEF Begin, Managed, IInv
  <1>2. DEFINE cool == [row[s] EXCEPT !.timer = "cooling"]
               new == [site |-> s, gen |-> row[s].gen, repo |-> row[s].repo, auto |-> auto,
                       base |-> BaseOf(s), id |-> 0, got |-> None,
                       known |-> IF auto THEN row[s].receipt ELSE 0]
  <1>3. row' = [row EXCEPT ![s] = cool] /\ job' = [job EXCEPT ![q] = new]
    BY DEF Begin, Attempted
  <1>4. /\ cool \in Row /\ cool.gen = row[s].gen /\ cool.repo = row[s].repo
        /\ cool.id = row[s].id /\ cool.preview = row[s].preview
    BY <1>1 DEF Row
  <1>5. new \in Job
    BY <1>1, BaseType DEF IInv, Row, Job
  <1>6. UNCHANGED <<purged, head, shown, since, gens>> /\ site' = site
    BY DEF Begin, rules, github
  <1>7. TypeOK'
    BY <1>3, <1>4, <1>5 DEF IInv, TypeOK, Begin, rules, github
  <1> HIDE DEF cool
  <1>8. ASSUME NEW x \in Sites PROVE SoftRow(x) /\ SoftSite(x)
    BY <1>1, <1>3, <1>4, <1>6 DEF IInv, TypeOK, SoftRow, SoftSite
  <1>9. \A p \in Repos : HeadShown(p)'
    BY <1>6 DEF IInv, HeadShown
  <1>10. ASSUME NEW x \in Sites PROVE SiteBehind(x)' /\ RowGood(x)'
    <2>1. SiteBehind(x)'
      BY <1>6 DEF IInv, SiteBehind, Published
    <2>2. RowGood(x)'
      BY <1>6, <1>8, SoftRowKeeps DEF IInv
    <2> QED BY <2>1, <2>2
  <1>11. ASSUME NEW z \in Fetchers PROVE JobGood(z)'
    <2>1. CASE z # q
      <3>1. job'[z] \in {job[z], None}
        BY <1>3, <2>1 DEF IInv, TypeOK
      <3>2. UNCHANGED <<head, shown, since, gens>>
        BY <1>6
      <3> QED BY <1>8, <3>1, <3>2, SoftJobKeeps DEF IInv
    <2>2. CASE z = q
      <3>1. job'[z] = new
        BY <1>3, <2>2 DEF IInv, TypeOK
      <3>2. row'[s] = cool /\ RowGood(s) /\ SiteBehind(s)
        BY <1>3 DEF IInv, TypeOK
      <3>3. /\ job'[z].site = s /\ job'[z].gen = row[s].gen /\ job'[z].repo = row[s].repo
            /\ job'[z].base = BaseOf(s) /\ job'[z].got = None /\ job'[z].id = 0
        BY <3>1
      <3>4. /\ head' = head /\ site' = site /\ gens' = gens /\ since' = since
            /\ BaseOf(s).commit = site[s].commit
        BY <1>6 DEF BaseOf
      <3> HIDE DEF new
      <3>5. job'[z].gen <= gens'
        BY <1>1, <3>2, <3>3, <3>4 DEF RowGood
      <3>5a. SinceHead(job[z].repo, job[z].gen)' /\ IdentityGood(z)'
        BY <1>1, <3>2, <3>3, <3>4 DEF RowGood, SinceHead, IdentityGood
      <3>6. SameSource(z)'
        BY <1>4, <3>2, <3>3 DEF SameSource
      <3>7. FromLiveSite(job[z].site, job[z].base)'
        BY <3>3, <3>4 DEF FromLiveSite, Published
      <3>8. NotAfter(job[z].site, job[z].repo, job[z].base, head[job[z].repo].commit)'
        <4>1. site[s] \in Site /\ head[row[s].repo].commit \in Nat
          BY <1>1 DEF IInv, TypeOK, Row, Head
        <4>2. site[s].repo = row[s].repo => site[s].commit <= head[row[s].repo].commit
          BY <3>2, <4>1 DEF SiteBehind, Published, Site
        <4> QED BY <3>3, <3>4, <4>2 DEF NotAfter
      <3>9. AnswerGood(z)'
        BY <3>3 DEF AnswerGood, HasCandidate
      <3> QED BY <3>5, <3>5a, <3>6, <3>7, <3>8, <3>9 DEF JobGood
    <2> QED BY <2>1, <2>2
  <1> HIDE DEF new
  <1> QED BY <1>7, <1>9, <1>10, <1>11 DEF IInv

(* The two requests of a load touch nothing but their own refresh. *)
LEMMA LoadKeeps ==
    ASSUME IInv, NEW q \in Fetchers, job[q] # None, NEW new \in Job,
           job' = [job EXCEPT ![q] = new],
           new.site = job[q].site, new.gen = job[q].gen, new.repo = job[q].repo,
           new.base = job[q].base,
           IdentityGood(q)', AnswerGood(q)',
           UNCHANGED <<row, site, entry, rules, github, seen, gens, ids>>
    PROVE  IInv'
  <1>1. TypeOK'
    <2>1. job' \in [Fetchers -> Job \cup {None}]
      BY DEF IInv, TypeOK
    <2> QED BY <2>1 DEF IInv, TypeOK, rules, github
  <1>2. UNCHANGED <<purged, head, shown, since, gens>> /\ UNCHANGED <<row, site>>
    BY DEF rules, github
  <1>3. \A x \in Sites : SoftRow(x) /\ SoftSite(x)
    BY <1>2 DEF SoftRow, SoftSite
  <1>4. \A p \in Repos : HeadShown(p)'
    BY <1>2 DEF IInv, HeadShown
  <1>5. ASSUME NEW x \in Sites PROVE SiteBehind(x)' /\ RowGood(x)'
    <2>1. SiteBehind(x)'
      BY <1>2 DEF IInv, SiteBehind, Published
    <2>2. RowGood(x)'
      BY <1>2, <1>3, SoftRowKeeps DEF IInv
    <2> QED BY <2>1, <2>2
  <1>6. ASSUME NEW z \in Fetchers PROVE JobGood(z)'
    <2>1. CASE z # q
      <3>1. job'[z] \in {job[z], None} /\ UNCHANGED <<head, shown, since, gens>>
        BY <1>2, <2>1 DEF IInv, TypeOK
      <3> QED BY <1>3, <3>1, SoftJobKeeps DEF IInv
    <2>2. CASE z = q
      <3>1. job'[q] = new /\ JobGood(q)
        BY DEF IInv, TypeOK
      <3>2. SameSource(q)'
        BY <1>2, <3>1 DEF SameSource, JobGood
      <3> QED BY <1>2, <2>2, <3>1, <3>2
               DEF JobGood, SinceHead, FromLiveSite, NotAfter, Published
    <2> QED BY <2>1, <2>2
  <1> QED BY <1>1, <1>4, <1>5, <1>6 DEF IInv

LEMMA IdentifyKeeps == ASSUME IInv, NEW q \in Fetchers, Identify(q) PROVE IInv'
  <1>1. job[q] # None /\ job[q] \in Job /\ JobGood(q)
    BY JobType DEF Identify, IInv
  <1>2. DEFINE i == head[job[q].repo].id
               new == [job[q] EXCEPT !.id = i]
  <1>3. job' = [job EXCEPT ![q] = new]
    BY DEF Identify
  <1>4. UNCHANGED <<row, site, entry, rules, github, seen, gens, ids>>
    BY DEF Identify
  <1>5. i \in Nat /\ i \in 0..MaxIdentity
    BY <1>1 DEF IInv, TypeOK, Job, Head
  <1> HIDE DEF i
  <1>6. /\ new \in Job /\ new.site = job[q].site /\ new.gen = job[q].gen
        /\ new.repo = job[q].repo /\ new.base = job[q].base /\ new.id = i /\ new.got = job[q].got
    BY <1>1, <1>5 DEF Job
  <1> HIDE DEF new
  <1>7. job'[q] = new
    BY <1>3 DEF IInv, TypeOK
  <1>8. IdentityGood(q)'
    <2>1. since[job[q].gen] <= i
      BY <1>1 DEF JobGood, SinceHead, i
    <2>2. head' = head /\ since' = since /\ i <= head[job[q].repo].id
      BY <1>4, <1>5 DEF github, i
    <2> QED BY <1>6, <1>7, <2>1, <2>2 DEF IdentityGood
  <1>9. AnswerGood(q)'
    <2>1. UNCHANGED <<head, shown, since, site>>
      BY <1>4 DEF github
    <2> QED BY <1>1, <1>6, <1>7, <2>1 DEF JobGood, AnswerGood, HasCandidate, NotAfter, ShownFrom
  <1> QED BY <1>1, <1>3, <1>4, <1>6, <1>8, <1>9, LoadKeeps

LEMMA FetchKeeps == ASSUME IInv, NEW q \in Fetchers, Fetch(q) PROVE IInv'
  <1>1. job[q] # None /\ job[q] \in Job /\ JobGood(q) /\ job[q].id # 0
    BY JobType DEF Fetch, IInv
  <1>2. DEFINE f == head[job[q].repo]
               h == [f EXCEPT !.id = job[q].id]
  <1>3. /\ f \in Head /\ job[q].repo \in Repos /\ job[q].id \in 1..MaxIdentity
        /\ HeadShown(job[q].repo)
    BY <1>1 DEF IInv, TypeOK, Job
  <1>4. PICK got \in {h, [h EXCEPT !.commit = 0]} :
           job' = [job EXCEPT ![q] = [job[q] EXCEPT !.got = got]]
    BY DEF Fetch
  <1>5. UNCHANGED <<row, site, entry, rules, github, seen, gens, ids>>
    BY DEF Fetch
  <1>6. f.commit # 0
    BY <1>3 DEF Fetch, Head
  <1> HIDE DEF f
  <1>7. h \in Head /\ h.id = job[q].id /\ h.commit = f.commit /\ h.proof = f.proof
    BY <1>3 DEF Head
  <1>8. got \in Head /\ got.id = job[q].id /\ (got.commit # 0 => got = h)
    <2>1. CASE got = h
      BY <1>7, <2>1
    <2>2. CASE got = [h EXCEPT !.commit = 0]
      <3> HIDE DEF h
      <3> QED BY <1>7, <2>2 DEF Head
    <2> QED BY <1>4, <2>1, <2>2
  <1> HIDE DEF h
  <1>9. DEFINE new == [job[q] EXCEPT !.got = got]
  <1>10. /\ new \in Job /\ new.got = got /\ new.site = job[q].site /\ new.gen = job[q].gen
         /\ new.repo = job[q].repo /\ new.base = job[q].base /\ new.id = job[q].id
    BY <1>1, <1>8 DEF Job
  <1>11. job' = [job EXCEPT ![q] = new]
    BY <1>4
  <1> HIDE DEF new
  <1>12. job'[q] = new /\ UNCHANGED <<head, shown, since, site>>
    BY <1>5, <1>11 DEF IInv, TypeOK, github
  <1>13. IdentityGood(q)'
    BY <1>1, <1>10, <1>12 DEF JobGood, IdentityGood
  <1>14. AnswerGood(q)'
    <2> SUFFICES ASSUME HasCandidate(q)' PROVE AnswerGood(q)'
      BY DEF AnswerGood
    <2>1. got = h
      BY <1>8, <1>10, <1>12 DEF HasCandidate
    <2>2. since[job[q].gen] <= got.id /\ job[q].id <= f.id
      BY <1>1, <1>8 DEF JobGood, IdentityGood, f
    <2>3. ShownFrom(job[q].repo, job[q].id, f.proof)
      <3>1. <<job[q].repo, f.id, f.commit, f.proof>> \in shown
        BY <1>3, <1>6 DEF HeadShown, f
      <3>2. f.id \in job[q].id..MaxIdentity /\ f.commit \in 1..MaxCommit
        BY <1>3, <1>6, <2>2 DEF Head
      <3> QED BY <3>1, <3>2 DEF ShownFrom
    <2>4. NotAfter(job[q].site, job[q].repo, job[q].base, f.commit)
      BY <1>1 DEF JobGood, f
    <2>5. f.commit <= head[job[q].repo].commit
      BY <1>3 DEF f, Head
    <2> QED BY <1>7, <1>8, <1>10, <1>12, <2>1, <2>2, <2>3, <2>4, <2>5
             DEF AnswerGood, NotAfter, ShownFrom
  <1> QED BY <1>1, <1>5, <1>10, <1>11, <1>13, <1>14, LoadKeeps

(* What a valid answer says of the row it is for. *)
LEMMA ValidAnswer ==
    ASSUME IInv, NEW q \in Fetchers, Valid(q)
    PROVE  LET s == job[q].site g == job[q].got IN
           /\ job[q] \in Job /\ s \in Sites /\ g \in Head /\ g.commit \in 1..MaxCommit
           /\ row[s] # None /\ row[s] \in Row
           /\ row[s].repo = job[q].repo /\ row[s].gen = job[q].gen
           /\ g.commit <= head[row[s].repo].commit
           /\ job[q].base = BaseOf(s)
           /\ Publishable(s, row[s].repo, g.commit)
           /\ (row[s].id # 0 => g.id = row[s].id)
           /\ since[row[s].gen] <= g.id
           /\ ShownFrom(row[s].repo, g.id, row[s].gen)
           /\ FromLiveSite(s, job[q].base)
           /\ NotAfter(s, row[s].repo, job[q].base, g.commit)
  <1>1. job[q] \in Job /\ HasCandidate(q)
    BY JobType DEF Valid, HasCandidate, IInv
  <1>2. job[q].site \in Sites /\ job[q].got \in Head /\ job[q].got.commit \in 1..MaxCommit
    BY <1>1 DEF HasCandidate, Job, Head
  <1>3. row[job[q].site] # None /\ row[job[q].site] \in Row /\ row[job[q].site].gen = job[q].gen
    BY <1>2, RowType DEF Valid, Managed, IInv
  <1>4. JobGood(q) /\ RowGood(job[q].site)
    BY <1>2 DEF IInv
  <1>5. row[job[q].site].repo = job[q].repo
    BY <1>1, <1>3, <1>4 DEF JobGood, SameSource, HasCandidate
  <1>6. AnswerGood(q) /\ FromLiveSite(job[q].site, job[q].base)
    BY <1>1, <1>4 DEF JobGood, HasCandidate
  <1>7. /\ row[job[q].site].id # 0 => job[q].got.id = row[job[q].site].id
        /\ row[job[q].site].id = 0 => job[q].got.proof = row[job[q].site].gen
    BY DEF Valid, Verified
  <1>8. /\ since[row[job[q].site].gen] <= job[q].got.id
        /\ ShownFrom(row[job[q].site].repo, job[q].got.id, row[job[q].site].gen)
    BY <1>1, <1>3, <1>4, <1>5, <1>6, <1>7 DEF RowGood, AnswerGood
  <1> QED BY <1>1, <1>2, <1>3, <1>5, <1>6, <1>7, <1>8 DEF Valid, AnswerGood, BaseKept

LEMMA StorePreviewKeeps == ASSUME IInv, NEW q \in Fetchers, StorePreview(q) PROVE IInv'
  <1>0. Valid(q)
    BY DEF StorePreview
  <1>1. PICK s \in Sites, g \in Head :
           /\ s = job[q].site /\ g = job[q].got
           /\ job[q] \in Job /\ g.commit \in 1..MaxCommit
           /\ row[s] # None /\ row[s] \in Row
           /\ g.commit <= head[row[s].repo].commit
           /\ job[q].base = BaseOf(s)
           /\ Publishable(s, row[s].repo, g.commit)
           /\ since[row[s].gen] <= g.id
           /\ ShownFrom(row[s].repo, g.id, row[s].gen)
           /\ FromLiveSite(s, job[q].base)
           /\ NotAfter(s, row[s].repo, job[q].base, g.commit)
    BY <1>0, ValidAnswer
  <1>2. DEFINE view == [id |-> ids + 1, commit |-> g.commit, base |-> job[q].base, live |-> TRUE]
               new == [row[s] EXCEPT !.id = g.id, !.preview = view]
  <1>3. row' = [row EXCEPT ![s] = new]
    BY <1>1 DEF StorePreview
  <1>3a. job[q].base \in Base /\ ids \in Nat /\ ids' = ids + 1
    <2>1. job[q].base \in Base
      BY <1>1, BaseType DEF IInv
    <2>2. ids \in Nat /\ ids' = ids + 1
      BY DEF StorePreview, IInv, TypeOK
    <2> QED BY <2>1, <2>2
  <1>4. view \in Preview /\ view.commit = g.commit /\ view.base = job[q].base
    BY <1>1, <1>3a DEF Preview
  <1>4a. g.id \in 0..MaxIdentity /\ Preview \subseteq Preview \cup {None}
    BY DEF Head
  <1> HIDE DEF view
  <1>5. /\ new \in Row /\ new.gen = row[s].gen /\ new.repo = row[s].repo
        /\ new.id = g.id /\ new.preview = view
    BY <1>1, <1>4, <1>4a DEF Row
  <1> HIDE DEF new
  <1>6. UNCHANGED <<head, shown, since, gens>> /\ UNCHANGED <<site, purged>>
    BY DEF StorePreview, rules, github
  <1>7. job' = [job EXCEPT ![q] = None]
    BY DEF StorePreview
  <1>8. TypeOK'
    <2>1. row' \in [Sites -> Row \cup {None}]
      BY <1>3, <1>5 DEF IInv, TypeOK
    <2>2. job' \in [Fetchers -> Job \cup {None}]
      BY <1>7 DEF IInv, TypeOK
    <2>3. ids' \in Nat
      BY <1>3a
    <2>4. UNCHANGED <<site, entry, purged, banned, head, shown, since, seen, gens>>
      BY DEF StorePreview, rules, github
    <2> QED BY <2>1, <2>2, <2>3, <2>4 DEF IInv, TypeOK
  <1>9. row'[s] = new /\ \A x \in Sites \ {s} : row'[x] = row[x]
    BY <1>3 DEF IInv, TypeOK
  <1>10. \A p \in Repos : HeadShown(p)'
    BY <1>6 DEF IInv, HeadShown
  <1>11. ASSUME NEW x \in Sites PROVE SiteBehind(x)' /\ RowGood(x)'
    <2>1. SiteBehind(x)'
      BY <1>6 DEF IInv, SiteBehind, Published
    <2>2. CASE x = s
      <3>1. RowGood(s)
        BY DEF IInv
      <3>2. PreviewGood(s)'
        BY <1>1, <1>4, <1>5, <1>6, <1>9
           DEF PreviewGood, Publishable, FromLiveSite, NotAfter, Published
      <3>3. /\ row'[s].gen <= gens' /\ SinceHead(row[s].repo, row[s].gen)'
            /\ since'[row'[s].gen] <= row'[s].id /\ ShownFrom(row[s].repo, row[s].id, row[s].gen)'
        BY <1>1, <1>5, <1>6, <1>9, <3>1 DEF RowGood, SinceHead, ShownFrom
      <3> QED BY <2>1, <2>2, <3>2, <3>3 DEF RowGood
    <2>3. CASE x # s
      <3>1. SoftRow(x) /\ SoftSite(x)
        BY <1>6, <1>9, <2>3 DEF SoftRow, SoftSite
      <3>2. RowGood(x)
        BY DEF IInv
      <3>3. UNCHANGED <<purged, head, shown, since, gens>>
        BY <1>6
      <3>4. RowGood(x)'
        BY <3>1, <3>2, <3>3, SoftRowKeeps DEF IInv
      <3> QED BY <2>1, <3>4
    <2> QED BY <2>2, <2>3
  <1>12. ASSUME NEW z \in Fetchers PROVE JobGood(z)'
    <2> SUFFICES ASSUME job'[z] # None PROVE JobGood(z)'
      BY DEF JobGood
    <2>1. job'[z] = job[z] /\ JobGood(z) /\ job[z] # None /\ job[z].site \in Sites
      <3>1. job'[z] = job[z]
        BY <1>7 DEF IInv, TypeOK
      <3> QED BY <3>1, JobType DEF IInv, Job
    <2>2. SameSource(z)'
      BY <1>1, <1>5, <1>9, <2>1 DEF SameSource, JobGood
    <2> QED BY <1>6, <2>1, <2>2
             DEF JobGood, SinceHead, IdentityGood, AnswerGood, HasCandidate, ShownFrom,
                 FromLiveSite, NotAfter, Published
  <1> QED BY <1>8, <1>10, <1>11, <1>12 DEF IInv

-----------------------------------------------------------------------------
(* Publication, by whomever. *)

LEMMA PublishKeeps ==
    ASSUME IInv, TypeOK', NEW s \in Sites, NEW p \in Repos, NEW c \in 1..MaxCommit,
           Publish(s, p, c), Publishable(s, p, c), c <= head[p].commit,
           \A x \in Sites : row'[x] = row[x] \/ (SoftRow(x) /\ row'[x].preview = None),
           \A q \in Fetchers : job'[q] \in {job[q], None},
           UNCHANGED <<purged, head, shown, since, gens>>
    PROVE  IInv'
  <1>1. site[s] \in Site /\ (site[s].commit = 0 <=> site[s].repo = None)
    BY DEF IInv, TypeOK
  <1>2. /\ \A x \in Sites \ {s} : site'[x] = site[x]
        /\ site'[s] = site[s] \/ (site'[s].commit = c /\ site'[s].repo = p)
    BY <1>1 DEF Publish, IInv, TypeOK
  <1>3. \A x \in Sites : Published(x) => Published(x)' /\ site'[x].repo = site[x].repo
    BY <1>1, <1>2 DEF Published, Publishable
  <1>4. \A x \in Sites : SoftRow(x)
    BY DEF SoftRow
  <1>5. ASSUME NEW x \in Sites, NEW r \in Repos, NEW b \in Base, NEW m \in Nat,
               FromLiveSite(x, b), NotAfter(x, r, b, m)
        PROVE  (b.commit # 0 => site'[x].commit # 0) /\ (site'[x].repo = r => b.commit <= m)
    <2>1. CASE b.commit = 0
      BY <2>1
    <2>2. CASE b.commit # 0
      BY <1>3, <1>5, <2>2 DEF FromLiveSite, NotAfter, Published
    <2> QED BY <2>1, <2>2
  <1>6. \A x \in Repos : HeadShown(x)'
    BY DEF IInv, HeadShown
  <1>7. ASSUME NEW x \in Sites PROVE SiteBehind(x)'
    BY <1>2 DEF IInv, SiteBehind, Published
  <1>8. ASSUME NEW x \in Sites PROVE RowGood(x)'
    <2> SUFFICES ASSUME row'[x] # None PROVE RowGood(x)'
      BY DEF RowGood
    <2>1. row[x] # None /\ RowGood(x) /\ row[x] \in Row
      BY <1>4, RowType DEF SoftRow, IInv
    <2>2. CASE row'[x].preview = None
      BY <1>4, <2>1, <2>2 DEF RowGood, PreviewGood, SoftRow, SinceHead, ShownFrom
    <2>3. CASE row'[x] = row[x] /\ row[x].preview # None
      <3>1. row[x].preview \in Preview /\ row[x].repo \in Repos /\ PreviewGood(x)
        BY <2>1, <2>3 DEF Row, RowGood
      <3>2. row[x].preview.base \in Base /\ row[x].preview.commit \in Nat
        BY <3>1 DEF Preview
      <3>3. PreviewGood(x)'
        BY <1>5, <2>3, <3>1, <3>2 DEF PreviewGood, FromLiveSite, NotAfter, Published
      <3> QED BY <2>1, <2>3, <3>3 DEF RowGood, SinceHead, ShownFrom
    <2> QED BY <2>2, <2>3
  <1>9. ASSUME NEW q \in Fetchers PROVE JobGood(q)'
    <2> SUFFICES ASSUME job'[q] # None PROVE JobGood(q)'
      BY DEF JobGood
    <2>1. job'[q] = job[q] /\ job[q] \in Job /\ JobGood(q)
      BY JobType DEF IInv
    <2>2. /\ job[q].site \in Sites /\ job[q].repo \in Repos /\ job[q].base \in Base
          /\ head[job[q].repo].commit \in Nat
          /\ HasCandidate(q) => job[q].got.commit \in Nat
      <3>1. /\ job[q].site \in Sites /\ job[q].repo \in Repos /\ job[q].base \in Base
            /\ HasCandidate(q) => job[q].got.commit \in Nat
        BY <2>1 DEF Job, Head, HasCandidate
      <3>2. head \in [Repos -> Head]
        BY DEF IInv, TypeOK
      <3> QED BY <3>1, <3>2 DEF Head
    <2>3. SameSource(q)'
      BY <1>4, <2>1, <2>2 DEF JobGood, SameSource, SoftRow
    <2>4. FromLiveSite(job[q].site, job[q].base)'
      BY <1>5, <2>1, <2>2 DEF JobGood, FromLiveSite, Published
    <2>5. NotAfter(job[q].site, job[q].repo, job[q].base, head[job[q].repo].commit)'
      BY <1>5, <2>1, <2>2 DEF JobGood, NotAfter
    <2>6. AnswerGood(q)'
      BY <1>5, <2>1, <2>2 DEF JobGood, AnswerGood, HasCandidate, NotAfter, ShownFrom
    <2> QED BY <2>1, <2>3, <2>4, <2>5, <2>6 DEF JobGood, SinceHead, IdentityGood
  <1> QED BY <1>6, <1>7, <1>8, <1>9 DEF IInv

(* The site after a publication. *)
LEMMA PublishType ==
    ASSUME TypeOK, NEW s \in Sites, NEW p \in Repos, NEW c \in 1..MaxCommit, Publish(s, p, c)
    PROVE  /\ site' \in [Sites -> Site] /\ entry' \in [Roots -> Sites \cup {None}]
           /\ \A x \in Sites : site'[x].commit = 0 <=> site'[x].repo = None
  <1>1. CASE site[s].commit = c
    BY <1>1 DEF Publish, TypeOK
  <1>2. CASE site[s].commit # c
    <2>1. DEFINE new == [settings |-> site[s].settings + 1, commit |-> c, repo |-> p]
    <2>2. site' = [site EXCEPT ![s] = new]
      BY <1>2 DEF Publish
    <2>3. new \in Site /\ new.commit # 0 /\ new.repo # None
      BY DEF TypeOK, Site
    <2> HIDE DEF new
    <2>4. site' \in [Sites -> Site] /\ \A x \in Sites : site'[x].commit = 0 <=> site'[x].repo = None
      BY <2>2, <2>3 DEF TypeOK
    <2>5. entry' \in [Roots -> Sites \cup {None}]
      BY <1>2 DEF Publish, TypeOK
    <2> QED BY <2>4, <2>5
  <1> QED BY <1>1, <1>2

LEMMA AcceptedType ==
    ASSUME TypeOK, NEW s \in Sites, row[s] # None, NEW c \in 1..MaxCommit
    PROVE  /\ Accepted(s, c) \in Row /\ Accepted(s, c).gen = row[s].gen
           /\ Accepted(s, c).repo = row[s].repo /\ Accepted(s, c).id = row[s].id
           /\ Accepted(s, c).preview = None
  <1>1. row[s] \in Row
    BY RowType
  <1>2. c \in 0..MaxCommit
    OBVIOUS
  <1> QED BY <1>1, <1>2 DEF Accepted, Row

(* A site's own row is accepted, by its owner or by the worker. *)
LEMMA AcceptanceKeeps ==
    ASSUME IInv, NEW s \in Sites, row[s] # None, NEW c \in 1..MaxCommit,
           Publishable(s, row[s].repo, c), c <= head[row[s].repo].commit,
           row' = [row EXCEPT ![s] = Accepted(s, c)], Publish(s, row[s].repo, c),
           job' \in [Fetchers -> Job \cup {None}], \A q \in Fetchers : job'[q] \in {job[q], None},
           UNCHANGED <<rules, github, seen, gens, ids>>
    PROVE  IInv'
  <1> DEFINE new == Accepted(s, c)
  <1>1. TypeOK /\ row[s] \in Row /\ row[s].repo \in Repos
    BY RowType DEF IInv, Row
  <1>2. /\ new \in Row /\ new.gen = row[s].gen /\ new.repo = row[s].repo
        /\ new.id = row[s].id /\ new.preview = None
    BY <1>1, AcceptedType
  <1> HIDE DEF new
  <1>3. row' = [row EXCEPT ![s] = new]
    BY DEF new
  <1>4. /\ site' \in [Sites -> Site] /\ entry' \in [Roots -> Sites \cup {None}]
        /\ \A x \in Sites : site'[x].commit = 0 <=> site'[x].repo = None
    BY <1>1, PublishType
  <1>5. TypeOK'
    <2>1. row' \in [Sites -> Row \cup {None}]
      BY <1>1, <1>2, <1>3 DEF TypeOK
    <2> QED BY <1>1, <1>4, <2>1 DEF TypeOK, rules, github
  <1>6. \A x \in Sites : row'[x] = row[x] \/ (SoftRow(x) /\ row'[x].preview = None)
    BY <1>1, <1>2, <1>3 DEF TypeOK, SoftRow
  <1>7. UNCHANGED <<purged, head, shown, since, gens>>
    BY DEF rules, github
  <1> QED BY <1>1, <1>5, <1>6, <1>7, PublishKeeps

LEMMA AutoPublishKeeps == ASSUME IInv, NEW q \in Fetchers, AutoPublish(q) PROVE IInv'
  <1>1. PICK s \in Sites, c \in 1..MaxCommit :
           /\ s = job[q].site /\ c = job[q].got.commit /\ row[s] # None
           /\ Publishable(s, row[s].repo, c) /\ c <= head[row[s].repo].commit
    BY ValidAnswer DEF AutoPublish
  <1>2. /\ row' = [row EXCEPT ![s] = Accepted(s, c)] /\ Publish(s, row[s].repo, c)
        /\ job' = [job EXCEPT ![q] = None]
        /\ UNCHANGED <<rules, github, seen, gens, ids>>
    BY <1>1 DEF AutoPublish
  <1>3. job' \in [Fetchers -> Job \cup {None}] /\ \A z \in Fetchers : job'[z] \in {job[z], None}
    BY <1>2 DEF IInv, TypeOK
  <1> QED BY <1>1, <1>2, <1>3, AcceptanceKeeps

LEMMA AcceptKeeps == ASSUME IInv, NEW s \in Sites, Accept(s) PROVE IInv'
  <1>1. row[s] # None /\ row[s].preview # None /\ row[s] \in Row /\ RowGood(s)
    BY RowType DEF Accept, Managed, IInv
  <1>2. row[s].preview \in Preview /\ PreviewGood(s)
    BY <1>1 DEF Row, RowGood
  <1>3. PICK c \in 1..MaxCommit : c = row[s].preview.commit /\ c <= head[row[s].repo].commit
    BY <1>1, <1>2 DEF Preview, PreviewGood
  <1>4. /\ Publishable(s, row[s].repo, c)
        /\ row' = [row EXCEPT ![s] = Accepted(s, c)] /\ Publish(s, row[s].repo, c)
        /\ job' = job /\ UNCHANGED <<rules, github, seen, gens, ids>>
    BY <1>3 DEF Accept
  <1>5. job' \in [Fetchers -> Job \cup {None}] /\ \A z \in Fetchers : job'[z] \in {job[z], None}
    BY <1>4 DEF IInv, TypeOK
  <1> QED BY <1>1, <1>3, <1>4, <1>5, AcceptanceKeeps

LEMMA OperatorKeeps == ASSUME IInv, NEW p \in Repos, Operator(p) PROVE IInv'
  <1>1. PICK s \in Sites, c \in 1..MaxCommit :
           /\ s = For[p] /\ c = head[p].commit
           /\ Publishable(s, p, c) /\ Publish(s, p, c)
    BY DEF Operator, IInv, TypeOK, Head
  <1>2. c <= head[p].commit /\ UNCHANGED <<row, rules, job, github, seen, gens, ids>>
    BY <1>1 DEF Operator
  <1>3. /\ site' \in [Sites -> Site] /\ entry' \in [Roots -> Sites \cup {None}]
        /\ \A x \in Sites : site'[x].commit = 0 <=> site'[x].repo = None
    BY <1>1, PublishType DEF IInv
  <1>4. TypeOK'
    BY <1>2, <1>3 DEF IInv, TypeOK, rules, github
  <1>5. UNCHANGED <<purged, head, shown, since, gens>> /\ UNCHANGED <<row, job>>
    BY <1>2 DEF rules, github
  <1> QED BY <1>1, <1>2, <1>4, <1>5, PublishKeeps

-----------------------------------------------------------------------------
(* A purge, which takes previews along, and what happens at GitHub. *)

LEMMA PurgeKeeps == ASSUME IInv, NEW x \in Sites \cup Roots, Purge(x) PROVE IInv'
  <1>1. ASSUME NEW s \in Sites
        PROVE  /\ row'[s] \in Row \cup {None}
               /\ SoftRow(s)
               /\ row'[s] # None => row'[s].preview = None \/ ~Contains(s, x)
    <2>1. CASE row[s] = None
      <3>1. row'[s] = None
        BY <2>1 DEF Purge
      <3> QED BY <2>1, <3>1 DEF SoftRow
    <2>2. CASE row[s] # None
      <3>1. row[s] \in Row
        BY <2>2, RowType DEF IInv
      <3>2. PICK view \in {None, row[s].preview}, auto \in BOOLEAN :
               /\ row'[s] = [row[s] EXCEPT !.preview = view, !.auto = auto]
               /\ view = None \/ ~Contains(s, x)
        <4>1. row'[s] = [row[s] EXCEPT !.preview = IF s \in Cleared(x) THEN None ELSE @,
                                       !.auto = @ /\ s # x]
          BY <2>2 DEF Purge
        <4>2. (row[s].auto /\ s # x) \in BOOLEAN
          OBVIOUS
        <4> QED BY <4>1, <4>2 DEF Cleared
      <3>3. view \in Preview \cup {None}
        BY <3>1, <3>2 DEF Row
      <3>4. /\ row'[s] \in Row /\ row'[s].gen = row[s].gen /\ row'[s].repo = row[s].repo
            /\ row'[s].id = row[s].id /\ row'[s].preview = view
        BY <3>1, <3>2, <3>3 DEF Row
      <3> QED BY <2>2, <3>2, <3>4 DEF SoftRow
    <2> QED BY <2>1, <2>2
  <1>2. purged' = purged \cup {x} /\ UNCHANGED <<site, entry, banned, job, head, shown, since, seen, gens, ids>>
    BY DEF Purge, github
  <1>3. TypeOK'
    <2>1. row' \in [Sites -> Row \cup {None}]
      BY <1>1 DEF Purge
    <2> QED BY <1>2, <2>1 DEF IInv, TypeOK
  <1>4. ASSUME NEW s \in Sites PROVE RowGood(s)'
    <2> SUFFICES ASSUME row'[s] # None PROVE RowGood(s)'
      BY DEF RowGood
    <2>1. /\ row[s] # None /\ RowGood(s) /\ row'[s].gen = row[s].gen
          /\ row'[s].repo = row[s].repo /\ row'[s].id = row[s].id
      BY <1>1 DEF SoftRow, IInv
    <2>2. PreviewGood(s)'
      <3> SUFFICES ASSUME row'[s].preview # None PROVE PreviewGood(s)'
        BY DEF PreviewGood
      <3>1. /\ ~Contains(s, x) /\ row[s].preview # None
            /\ row'[s].preview.commit = row[s].preview.commit
            /\ row'[s].preview.base = row[s].preview.base
        BY <1>1 DEF SoftRow
      <3>2. s # x /\ x \notin Carried(row[s].repo, row[s].preview.commit)
        BY <2>1, <3>1 DEF Contains
      <3>3. PreviewGood(s)
        BY <2>1 DEF RowGood
      <3> QED BY <1>2, <2>1, <3>1, <3>2, <3>3
               DEF PreviewGood, FromLiveSite, NotAfter, Published
    <2> QED BY <1>2, <2>1, <2>2 DEF RowGood, SinceHead, ShownFrom
  <1>5. \A s \in Sites : SoftRow(s) /\ SoftSite(s)
    BY <1>1, <1>2 DEF SoftSite
  <1>6. \A q \in Fetchers : JobGood(q)'
    BY <1>2, <1>5, SoftJobKeeps DEF IInv
  <1>7. \A p \in Repos : HeadShown(p)'
    BY <1>2 DEF IInv, HeadShown
  <1>8. \A s \in Sites : SiteBehind(s)'
    BY <1>2 DEF IInv, SiteBehind, Published
  <1> QED BY <1>3, <1>4, <1>6, <1>7, <1>8 DEF IInv

LEMMA AtGitHubKeeps ==
    ASSUME IInv, NEW p \in Repos, NEW h \in Head, AtGitHub(p, h), h.commit >= head[p].commit,
           h.id >= head[p].id
    PROVE  IInv'
  <1>1. /\ head' = [head EXCEPT ![p] = h]
        /\ shown' = IF h.commit = 0 THEN shown ELSE shown \cup {<<p, h.id, h.commit, h.proof>>}
        /\ UNCHANGED <<row, site, entry, purged, banned, job, since, seen, gens, ids>>
    BY DEF AtGitHub, rules
  <1>2. TypeOK'
    <2>1. head' \in [Repos -> Head]
      BY <1>1 DEF IInv, TypeOK
    <2>2. shown' \subseteq Repos \X (1..MaxIdentity) \X (1..MaxCommit) \X (0..MaxGen)
      BY <1>1 DEF IInv, TypeOK, Head
    <2> QED BY <1>1, <2>1, <2>2 DEF IInv, TypeOK
  <1>3. ASSUME NEW x \in Repos
        PROVE  /\ head[x].commit \in Nat /\ head'[x].commit \in Nat /\ head'[x].commit >= head[x].commit
               /\ head[x].id \in Nat /\ head'[x].id \in Nat /\ head'[x].id >= head[x].id
    BY <1>1 DEF IInv, TypeOK, Head
  <1>3a. ASSUME NEW x \in Repos, NEW n \in 1..MaxGen, SinceHead(x, n) PROVE SinceHead(x, n)'
    <2>1. since[n] \in Nat
      BY DEF IInv, TypeOK
    <2> QED BY <1>1, <1>3, <1>3a, <2>1 DEF SinceHead
  <1>3b. ASSUME NEW x, NEW i, NEW n, ShownFrom(x, i, n) PROVE ShownFrom(x, i, n)'
    BY <1>1, <1>3b DEF ShownFrom
  <1>4. ASSUME NEW x \in Repos PROVE HeadShown(x)'
    BY <1>1 DEF IInv, TypeOK, HeadShown
  <1>5. ASSUME NEW s \in Sites PROVE SiteBehind(s)'
    <2>1. site[s] \in Site /\ (Published(s) => site[s].repo \in Repos) /\ SiteBehind(s)
      BY DEF IInv, TypeOK, Site, Published
    <2>2. site[s].commit \in Nat
      BY <2>1 DEF Site
    <2> QED BY <1>1, <1>3, <2>1, <2>2 DEF SiteBehind, Published
  <1>6. ASSUME NEW s \in Sites PROVE RowGood(s)'
    <2> SUFFICES ASSUME row[s] # None PROVE RowGood(s)'
      BY <1>1 DEF RowGood
    <2>1. RowGood(s) /\ row[s] \in Row
      BY RowType DEF IInv
    <2>2. row[s].repo \in Repos /\ (row[s].preview # None => row[s].preview.commit \in Nat)
      BY <2>1 DEF Row, Preview
    <2>3. PreviewGood(s)'
      BY <1>1, <1>3, <2>1, <2>2 DEF RowGood, PreviewGood, FromLiveSite, NotAfter, Published
    <2>4. row[s].gen \in 1..MaxGen
      BY <2>1 DEF Row
    <2>5. SinceHead(row[s].repo, row[s].gen)'
      BY <1>1, <1>3a, <2>1, <2>2, <2>4 DEF RowGood
    <2>6. row[s].id # 0 => ShownFrom(row[s].repo, row[s].id, row[s].gen)'
      BY <1>1, <1>3b, <2>1 DEF RowGood
    <2> QED BY <1>1, <2>1, <2>3, <2>5, <2>6 DEF RowGood
  <1>7. ASSUME NEW q \in Fetchers PROVE JobGood(q)'
    <2> SUFFICES ASSUME job[q] # None PROVE JobGood(q)'
      BY <1>1 DEF JobGood
    <2>1. JobGood(q) /\ job[q] \in Job
      BY JobType DEF IInv
    <2>2. /\ job[q].repo \in Repos /\ job[q].base.commit \in Nat
          /\ HasCandidate(q) => job[q].got.commit \in Nat
      BY <2>1 DEF Job, Base, Head, HasCandidate
    <2>3. AnswerGood(q)'
      <3> SUFFICES ASSUME HasCandidate(q) PROVE AnswerGood(q)'
        BY <1>1 DEF AnswerGood, HasCandidate
      <3>1. ShownFrom(job[q].repo, job[q].got.id, job[q].got.proof)'
        BY <1>1, <1>3b, <2>1 DEF JobGood, AnswerGood
      <3> QED BY <1>1, <1>3, <2>1, <2>2, <3>1 DEF JobGood, AnswerGood, NotAfter
    <2>4. NotAfter(job[q].site, job[q].repo, job[q].base, head[job[q].repo].commit)'
      BY <1>1, <1>3, <2>1, <2>2 DEF JobGood, NotAfter
    <2>5. job[q].gen \in 1..MaxGen /\ job[q].id \in Nat
      BY <2>1 DEF Job
    <2>6. SinceHead(job[q].repo, job[q].gen)'
      BY <1>1, <1>3a, <2>1, <2>2, <2>5 DEF JobGood
    <2>7. IdentityGood(q)'
      BY <1>1, <1>3, <2>1, <2>2, <2>5 DEF JobGood, IdentityGood
    <2> QED BY <1>1, <2>1, <2>3, <2>4, <2>6, <2>7 DEF JobGood, SameSource, FromLiveSite, Published
  <1> QED BY <1>2, <1>4, <1>5, <1>6, <1>7 DEF IInv

LEMMA PushKeeps ==
    ASSUME IInv, NEW p \in Repos, NEW n \in 0..MaxGen, Push(p, n) PROVE IInv'
  <1> DEFINE h == [head[p] EXCEPT !.commit = @ + 1, !.proof = n]
  <1>1. head[p] \in Head /\ AtGitHub(p, h) /\ head[p].commit < MaxCommit
    BY DEF Push, IInv, TypeOK
  <1>2. head[p].commit \in 0..MaxCommit /\ head[p].commit + 1 \in 0..MaxCommit
    BY <1>1 DEF Head
  <1>3. h \in Head /\ h.commit = head[p].commit + 1
    BY <1>1, <1>2 DEF Head
  <1>4. h.commit >= head[p].commit /\ h.id = head[p].id /\ head[p].id \in Nat
    BY <1>1, <1>2, <1>3 DEF Head
  <1> HIDE DEF h
  <1> QED BY <1>1, <1>3, <1>4, AtGitHubKeeps

LEMMA TransferKeeps == ASSUME IInv, NEW p \in Repos, Transfer(p) PROVE IInv'
  <1> DEFINE h == [head[p] EXCEPT !.id = @ + 1]
  <1>1. head[p] \in Head /\ AtGitHub(p, h) /\ head[p].id < MaxIdentity
    BY DEF Transfer, IInv, TypeOK
  <1>2. h \in Head /\ h.commit = head[p].commit /\ h.id = head[p].id + 1
    BY <1>1 DEF Head
  <1>3. head[p].commit >= head[p].commit /\ head[p].id + 1 >= head[p].id
    BY <1>1 DEF Head
  <1> HIDE DEF h
  <1> QED BY <1>1, <1>2, <1>3, AtGitHubKeeps

-----------------------------------------------------------------------------
LEMMA Initially == Init => IInv
  <1> SUFFICES ASSUME Init PROVE IInv
    OBVIOUS
  <1>1. TypeOK
    BY DEF Init, TypeOK, Site, Head
  <1>2. /\ \A p \in Repos : HeadShown(p)
        /\ \A s \in Sites : SiteBehind(s) /\ RowGood(s)
        /\ \A q \in Fetchers : JobGood(q)
    BY DEF Init, HeadShown, SiteBehind, Published, RowGood, JobGood
  <1> QED BY <1>1, <1>2 DEF IInv

LEMMA SiteStepKeeps == ASSUME IInv, NEW s \in Sites, SiteStep(s) PROVE IInv'
  <1>1. ASSUME NEW q \in Requests, Refresh(q, s) PROVE IInv'
    BY <1>1, BeginKeeps DEF Refresh, Fetchers
  <1>2. ASSUME Poll(s) PROVE IInv'
    BY <1>2, BeginKeeps DEF Poll, Fetchers
  <1> QED BY <1>1, <1>2, ConfigureKeeps, PolicyKeeps, PostponeKeeps, ViewKeeps, AcceptKeeps,
             EditKeeps, BanKeeps, ExpireKeeps, PassKeeps DEF SiteStep

LEMMA FetchStepKeeps == ASSUME IInv, NEW q \in Fetchers, FetchStep(q) PROVE IInv'
  BY IdentifyKeeps, FetchKeeps, StorePreviewKeeps, AutoPublishKeeps, DropKeeps DEF FetchStep

LEMMA StutterKeeps == ASSUME IInv, UNCHANGED vars PROVE IInv'
  BY DEF vars, IInv, TypeOK, HeadShown, SiteBehind, Published, RowGood, PreviewGood, JobGood,
         SameSource, AnswerGood, HasCandidate, FromLiveSite, NotAfter, SinceHead, IdentityGood,
         ShownFrom

LEMMA Inductive == IInv /\ [Next]_vars => IInv'
  <1> SUFFICES ASSUME IInv, [Next]_vars PROVE IInv'
    OBVIOUS
  <1> QED BY SiteStepKeeps, FetchStepKeeps, PushKeeps, TransferKeeps, OperatorKeeps, PurgeKeeps,
             FailKeeps, CleanupKeeps, StutterKeeps DEF Next

(* What refreshes, previews and configurations carry from one transaction  *)
(* to the next stays true of the state they come back to.                  *)
THEOREM Invariant == Spec => []IInv
  BY Initially, Inductive, PTL DEF Spec

(* The state of sources, refreshes and GitHub is well typed.               *)
THEOREM TypeCorrect == Spec => []TypeOK
  <1>1. IInv => TypeOK
    BY DEF IInv
  <1> QED BY <1>1, Invariant, PTL

(* A verified source is of a repository that has shown the nonce of this   *)
(* very configuration, under the pinned identity or a later one; and the   *)
(* pinned identity is not from before the configuration.  A load reads the *)
(* identity first and the nonce later (Sources.refresh, Snapshot).         *)
THEOREM RepositoryProven == Spec => []OwnershipProven
  <1>1. IInv => OwnershipProven
    BY DEF IInv, OwnershipProven, RowGood
  <1> QED BY <1>1, Invariant, PTL

(* No preview holds a copy of a purged point, however the purge and the    *)
(* refreshes of any site overlap (purge.sweep, publish_on).                *)
THEOREM PreviewsStayClean == Spec => []PreviewsClean
  <1>1. IInv => PreviewsClean
    BY DEF IInv, PreviewsClean, RowGood, PreviewGood
  <1> QED BY <1>1, Invariant, PTL

-----------------------------------------------------------------------------
(* No step takes a published site back. *)
Forward(s) ==
    Published(s) => site'[s].repo = site[s].repo /\ site'[s].commit >= site[s].commit

LEMMA SameIsForward == ASSUME TypeOK, \A s \in Sites : SoftSite(s) PROVE \A s \in Sites : Forward(s)
  BY DEF Forward, SoftSite, TypeOK, Site

LEMMA PublishForward ==
    ASSUME TypeOK, NEW s \in Sites, NEW p \in Repos, NEW c \in 1..MaxCommit,
           Publish(s, p, c), Publishable(s, p, c), site[s].repo = p => site[s].commit <= c
    PROVE  \A x \in Sites : Forward(x)
  <1> SUFFICES ASSUME NEW x \in Sites, Published(x) PROVE Forward(x)
    BY DEF Forward
  <1>1. site[x] \in Site /\ site[x].repo # None /\ site[x].commit \in Nat
    BY DEF TypeOK, Published, Site
  <1>2. CASE site'[x] = site[x]
    BY <1>1, <1>2 DEF Forward
  <1>3. CASE x = s /\ site'[x].commit = c /\ site'[x].repo = p
    BY <1>1, <1>3 DEF Forward, Publishable
  <1>4. site'[x] = site[x] \/ (x = s /\ site'[x].commit = c /\ site'[x].repo = p)
    BY DEF Publish, TypeOK
  <1> QED BY <1>2, <1>3, <1>4

LEMMA AutoPublishForward ==
    ASSUME IInv, NEW q \in Fetchers, AutoPublish(q) PROVE \A s \in Sites : Forward(s)
  <1>1. PICK s \in Sites, c \in 1..MaxCommit :
           /\ s = job[q].site /\ c = job[q].got.commit /\ row[s] \in Row
           /\ Publishable(s, row[s].repo, c) /\ job[q].base = BaseOf(s)
           /\ NotAfter(s, row[s].repo, job[q].base, c)
    BY ValidAnswer DEF AutoPublish
  <1>2. Publish(s, row[s].repo, c) /\ row[s].repo \in Repos
    BY <1>1 DEF AutoPublish, Row
  <1>3. site[s].repo = row[s].repo => site[s].commit <= c
    BY <1>1 DEF NotAfter, BaseOf
  <1> QED BY <1>1, <1>2, <1>3, PublishForward DEF IInv

LEMMA AcceptForward ==
    ASSUME IInv, NEW s \in Sites, Accept(s) PROVE \A x \in Sites : Forward(x)
  <1>1. row[s] # None /\ row[s].preview # None /\ row[s] \in Row /\ RowGood(s)
    BY RowType DEF Accept, Managed, IInv
  <1>2. row[s].preview \in Preview /\ PreviewGood(s) /\ row[s].repo \in Repos
    BY <1>1 DEF Row, RowGood
  <1>3. PICK c \in 1..MaxCommit : c = row[s].preview.commit
    BY <1>2 DEF Preview
  <1>4. row[s].preview.base = BaseOf(s) /\ NotAfter(s, row[s].repo, row[s].preview.base, c)
    BY <1>1, <1>2, <1>3 DEF Accept, BaseKept, PreviewGood
  <1>5. site[s].repo = row[s].repo => site[s].commit <= c
    BY <1>4 DEF NotAfter, BaseOf
  <1>6. Publish(s, row[s].repo, c) /\ Publishable(s, row[s].repo, c)
    BY <1>3 DEF Accept
  <1> QED BY <1>2, <1>5, <1>6, PublishForward DEF IInv

LEMMA OperatorForward ==
    ASSUME IInv, NEW p \in Repos, Operator(p) PROVE \A x \in Sites : Forward(x)
  <1>1. PICK s \in Sites, c \in 1..MaxCommit :
           /\ s = For[p] /\ c = head[p].commit
           /\ Publishable(s, p, c) /\ Publish(s, p, c)
    BY DEF Operator, IInv, TypeOK, Head
  <1>2. site[s].repo = p => site[s].commit <= c
    <2> SUFFICES ASSUME site[s].repo = p PROVE site[s].commit <= c
      OBVIOUS
    <2>1. Published(s) /\ SiteBehind(s)
      BY DEF IInv, TypeOK, Published
    <2> QED BY <1>1, <2>1 DEF SiteBehind
  <1> QED BY <1>1, <1>2, PublishForward DEF IInv

LEMMA EditForward == ASSUME IInv, NEW s \in Sites, Edit(s) PROVE \A x \in Sites : Forward(x)
  <1>1. site[s] \in Site /\ site' = [site EXCEPT ![s] = [site[s] EXCEPT !.settings = @ + 1]]
    BY DEF IInv, TypeOK, Edit
  <1>2. site'[s] = [site[s] EXCEPT !.settings = @ + 1]
    BY <1>1 DEF IInv, TypeOK
  <1>3. \A x \in Sites : SoftSite(x)
    BY <1>1, <1>2 DEF SoftSite, Site
  <1> QED BY <1>3, SameIsForward DEF IInv

LEMMA ElsewhereForward == ASSUME IInv, UNCHANGED site PROVE \A s \in Sites : Forward(s)
  BY SameIsForward DEF IInv, SoftSite

LEMMA StepForward == ASSUME IInv, [Next]_vars PROVE \A s \in Sites : Forward(s)
  <1>1. ASSUME NEW s \in Sites, SiteStep(s) PROVE \A x \in Sites : Forward(x)
    <2>1. Accept(s) \/ Edit(s) \/ UNCHANGED site
      BY <1>1 DEF SiteStep, Configure, Policy, Refresh, Poll, Begin, Postpone, View, Ban, Expire, Pass
    <2> QED BY <2>1, AcceptForward, EditForward, ElsewhereForward
  <1>2. ASSUME NEW q \in Fetchers, FetchStep(q) PROVE \A x \in Sites : Forward(x)
    <2>1. AutoPublish(q) \/ UNCHANGED site
      BY <1>2 DEF FetchStep, Identify, Fetch, StorePreview, Drop
    <2> QED BY <2>1, AutoPublishForward, ElsewhereForward
  <1>3. ASSUME NEW p \in Repos, NEW n \in 0..MaxGen, Push(p, n) PROVE UNCHANGED site
    BY <1>3 DEF Push, AtGitHub
  <1>4. ASSUME NEW p \in Repos, Transfer(p) \/ Operator(p) PROVE \A x \in Sites : Forward(x)
    BY <1>4, OperatorForward, ElsewhereForward DEF Transfer, AtGitHub
  <1>5. ASSUME (\E x \in Sites \cup Roots : Purge(x)) \/ Fail \/ Cleanup \/ UNCHANGED vars
        PROVE  UNCHANGED site
    BY <1>5 DEF Purge, Fail, Cleanup, vars
  <1> QED BY <1>1, <1>2, <1>3, <1>4, <1>5, ElsewhereForward DEF Next

(* However refreshes, previews, old tabs and deployments overlap, a        *)
(* published site neither returns to an earlier commit nor changes its     *)
(* repository (base in refresh and _accept, SOURCE_BINDING_CHANGED).       *)
THEOREM NeverBack == Spec => PublishedForward
  <1>1. IInv /\ [Next]_vars => [\A s \in Sites : Forward(s)]_vars
    BY StepForward
  <1>2. Spec => [][\A s \in Sites : Forward(s)]_vars
    BY <1>1, Invariant, PTL DEF Spec
  <1> QED BY <1>2 DEF PublishedForward, Forward
-----------------------------------------------------------------------------
(* Who decided.  A poll begins only with an accepted source, and only a new *)
(* configuration, whose number no refresh has, takes the receipt away.     *)

PollAccepted(q) ==
    LET s == job[q].site IN
    job[q] # None /\ job[q].auto /\ row[s] # None /\ row[s].gen = job[q].gen
        => row[s].receipt # 0

(* What a step does to a row and to a refresh, as far as this is about it. *)
KeepsReceipt(s) ==
    row'[s] # None =>
        \/ row[s] # None /\ row'[s].gen = row[s].gen /\ row'[s].receipt = row[s].receipt
        \/ row'[s].receipt # 0
        \/ row'[s].gen > gens

Started(q) == LET s == job'[q].site IN job'[q].auto => row[s] # None /\ row'[s].receipt # 0

KeepsJob(q) ==
    job'[q] # None =>
        \/ /\ job[q] # None /\ job'[q].site = job[q].site
           /\ job'[q].gen = job[q].gen /\ job'[q].auto = job[q].auto
        \/ Started(q)

LEMMA PollAcceptedKept ==
    ASSUME IInv, IInv', NEW q \in Fetchers, PollAccepted(q), KeepsJob(q),
           \A s \in Sites : KeepsReceipt(s)
    PROVE  PollAccepted(q)'
  <1> SUFFICES ASSUME job'[q] # None, job'[q].auto, row'[job'[q].site] # None,
                      row'[job'[q].site].gen = job'[q].gen
               PROVE  row'[job'[q].site].receipt # 0
    BY DEF PollAccepted
  <1>1. CASE Started(q)
    BY <1>1 DEF Started
  <1>2. CASE /\ job[q] # None /\ job'[q].site = job[q].site
             /\ job'[q].gen = job[q].gen /\ job'[q].auto = job[q].auto
    <2>1. PICK s \in Sites : s = job[q].site
      BY <1>2, JobType DEF IInv, Job
    <2>2. row'[s].gen = job[q].gen /\ job[q].gen <= gens /\ gens \in Nat /\ job[q].gen \in Nat
      BY <1>2, <2>1, JobType DEF IInv, JobGood, TypeOK, Job
    <2>3. ~(row'[s].gen > gens)
      BY <2>2
    <2>4. KeepsReceipt(s)
      OBVIOUS
    <2> QED BY <1>2, <2>1, <2>3, <2>4 DEF KeepsReceipt, PollAccepted
  <1> QED BY <1>1, <1>2 DEF KeepsJob

LEMMA AcceptedReceipt ==
    ASSUME NEW s \in Sites, NEW c \in 1..MaxCommit, TypeOK, row[s] # None,
           row' = [row EXCEPT ![s] = Accepted(s, c)]
    PROVE  \A x \in Sites : KeepsReceipt(x)
  <1>1. row[s] \in Row
    BY RowType
  <1>2. row'[s] = Accepted(s, c) /\ \A x \in Sites : x # s => row'[x] = row[x]
    BY DEF TypeOK
  <1>3. row'[s].receipt # 0
    <2>1. Accepted(s, c).receipt = c
      BY <1>1 DEF Accepted, Row
    <2>2. c # 0
      OBVIOUS
    <2> QED BY <1>2, <2>1, <2>2
  <1> QED BY <1>2, <1>3 DEF KeepsReceipt

LEMMA SameReceipts ==
    ASSUME \A s \in Sites : row'[s] = row[s] \/ (row[s] # None /\ row'[s].gen = row[s].gen
                                                 /\ row'[s].receipt = row[s].receipt)
    PROVE  \A s \in Sites : KeepsReceipt(s)
  BY DEF KeepsReceipt

LEMMA FieldKept ==
    ASSUME TypeOK, NEW s \in Sites, row[s] # None
    PROVE  /\ \A v : LET r == [row EXCEPT ![s].timer = v] IN
                 /\ r[s].gen = row[s].gen /\ r[s].receipt = row[s].receipt
                 /\ \A x \in Sites : x # s => r[x] = row[x]
           /\ \A v : LET r == [row EXCEPT ![s].auto = v] IN
                 /\ r[s].gen = row[s].gen /\ r[s].receipt = row[s].receipt
                 /\ \A x \in Sites : x # s => r[x] = row[x]
           /\ \A v : LET r == [row EXCEPT ![s].timely = v] IN
                 /\ r[s].gen = row[s].gen /\ r[s].receipt = row[s].receipt
                 /\ \A x \in Sites : x # s => r[x] = row[x]
           /\ \A v : LET r == [row EXCEPT ![s].preview.live = v] IN
                 /\ r[s].gen = row[s].gen /\ r[s].receipt = row[s].receipt
                 /\ \A x \in Sites : x # s => r[x] = row[x]
           /\ \A v, w : LET r == [row EXCEPT ![s].id = v, ![s].preview = w] IN
                 /\ r[s].gen = row[s].gen /\ r[s].receipt = row[s].receipt
                 /\ \A x \in Sites : x # s => r[x] = row[x]
  <1>1. row[s] \in Row /\ row \in [Sites -> Row \cup {None}]
    BY RowType DEF TypeOK
  <1> QED BY <1>1 DEF Row
LEMMA SiteReceipts ==
    ASSUME IInv, NEW s \in Sites, SiteStep(s)
    PROVE  \A x \in Sites : KeepsReceipt(x)
  <1>0. TypeOK /\ gens \in Nat /\ row \in [Sites -> Row \cup {None}]
    BY DEF IInv, TypeOK
  <1>1. ASSUME NEW p \in Repos, NEW auto \in BOOLEAN, Configure(s, p, auto)
        PROVE  \A x \in Sites : KeepsReceipt(x)
    <2>1. row'[s].gen = gens + 1 /\ \A x \in Sites : x # s => row'[x] = row[x]
      BY <1>0, <1>1 DEF Configure
    <2> QED BY <1>0, <2>1 DEF KeepsReceipt
  <1>2. ASSUME NEW auto \in BOOLEAN, Policy(s, auto) PROVE \A x \in Sites : KeepsReceipt(x)
    BY <1>0, <1>2, FieldKept, SameReceipts DEF Policy, Managed
  <1>3. ASSUME NEW q \in Fetchers, NEW auto \in BOOLEAN, Begin(q, s, auto)
        PROVE  \A x \in Sites : KeepsReceipt(x)
    BY <1>0, <1>3, FieldKept, SameReceipts DEF Begin, Attempted, Managed
  <1>4. CASE Postpone(s)
    BY <1>0, <1>4, FieldKept, SameReceipts DEF Postpone, Postponed, Polled
  <1>5. CASE Accept(s)
    <2>1. PICK c : c = row[s].preview.commit
      OBVIOUS
    <2>2. row[s] # None /\ row' = [row EXCEPT ![s] = Accepted(s, c)]
      BY <1>5, <2>1 DEF Accept, Managed
    <2>3. c \in 1..MaxCommit
      <3>1. row[s].preview # None /\ row[s] \in Row
        BY <1>0, <1>5, <2>2, RowType DEF Accept
      <3> QED BY <2>1, <3>1 DEF Row, Preview
    <2> QED BY <1>0, <2>2, <2>3, AcceptedReceipt
  <1>6. CASE Expire(s)
    <2>1. row[s] # None
      BY <1>6 DEF Expire
    <2>2. CASE row' = [row EXCEPT ![s].timely = FALSE]
      BY <1>0, <2>1, <2>2, FieldKept, SameReceipts
    <2>3. CASE row' = [row EXCEPT ![s].preview.live = FALSE]
      BY <1>0, <2>1, <2>3, FieldKept, SameReceipts
    <2> QED BY <1>6, <2>2, <2>3 DEF Expire
  <1>7. CASE Pass(s)
    <2>1. row[s] # None
      BY <1>7 DEF Pass
    <2>2. PICK v : row' = [row EXCEPT ![s].timer = v]
      BY <1>7 DEF Pass
    <2> QED BY <1>0, <2>1, <2>2, FieldKept, SameReceipts
  <1>8. CASE View(s) \/ Edit(s) \/ Ban(s)
    BY <1>8, SameReceipts DEF View, Edit, Ban
  <1> QED BY <1>1, <1>2, <1>3, <1>4, <1>5, <1>6, <1>7, <1>8
       DEF SiteStep, Refresh, Poll, Fetchers

LEMMA StepReceipts == ASSUME IInv, [Next]_vars PROVE \A x \in Sites : KeepsReceipt(x)
  <1>0. TypeOK /\ row \in [Sites -> Row \cup {None}]
    BY DEF IInv, TypeOK
  <1>1. ASSUME NEW q \in Fetchers, FetchStep(q) PROVE \A x \in Sites : KeepsReceipt(x)
    <2>1. CASE StorePreview(q)
      <3>1. PICK s \in Sites : s = job[q].site
        BY <1>0, <2>1, JobType DEF StorePreview, Valid, HasCandidate, Job
      <3>2. row[s] # None
        BY <2>1, <3>1 DEF StorePreview, Valid, Managed
      <3>3. \E v, w : row' = [row EXCEPT ![s].id = v, ![s].preview = w]
        BY <2>1, <3>1 DEF StorePreview
      <3> QED BY <1>0, <3>2, <3>3, FieldKept, SameReceipts
    <2>2. CASE AutoPublish(q)
      <3>1. PICK s, c : s = job[q].site /\ c = job[q].got.commit
        OBVIOUS
      <3>2. job[q] \in Job /\ job[q].got \in Head /\ c # 0
        <4>1. job[q] # None /\ job[q].got # None /\ c # 0
          BY <2>2, <3>1 DEF AutoPublish, Valid, HasCandidate
        <4>2. job[q] \in Job
          BY <1>0, <4>1, JobType
        <4> QED BY <4>1, <4>2 DEF Job
      <3>3. s \in Sites /\ c \in 1..MaxCommit
        BY <3>1, <3>2 DEF Job, Head
      <3>4. row[s] # None /\ row' = [row EXCEPT ![s] = Accepted(s, c)]
        BY <2>2, <3>1 DEF AutoPublish, Valid, Managed
      <3> QED BY <1>0, <3>3, <3>4, AcceptedReceipt
    <2>3. CASE Identify(q) \/ Fetch(q) \/ Drop(q)
      BY <2>3, SameReceipts DEF Identify, Fetch, Drop
    <2> QED BY <1>1, <2>1, <2>2, <2>3 DEF FetchStep
  <1>2. ASSUME NEW p \in Repos, Operator(p) \/ Transfer(p) \/ \E n \in 0..MaxGen : Push(p, n)
        PROVE  \A x \in Sites : KeepsReceipt(x)
    <2>1. row' = row
      BY <1>2 DEF Operator, Transfer, Push, AtGitHub
    <2> QED BY <2>1, SameReceipts
  <1>3. ASSUME NEW y \in Sites \cup Roots, Purge(y) PROVE \A x \in Sites : KeepsReceipt(x)
    <2>1. ASSUME NEW x \in Sites, row[x] # None
          PROVE  row'[x].gen = row[x].gen /\ row'[x].receipt = row[x].receipt
      <3>1. \E v, w : row'[x] = [row[x] EXCEPT !.preview = v, !.auto = w]
        BY <1>3, <2>1 DEF Purge
      <3>2. row[x] \in Row
        BY <1>0, <2>1
      <3> QED BY <3>1, <3>2 DEF Row
    <2>2. ASSUME NEW x \in Sites, row[x] = None PROVE row'[x] = row[x]
      BY <1>3, <2>2 DEF Purge
    <2> QED BY <2>1, <2>2, SameReceipts
  <1>4. CASE Fail
    <2>1. job[Worker] # None /\ Worker \in Fetchers
      BY <1>4 DEF Fail, Fetchers
    <2>2. PICK s \in Sites : s = job[Worker].site
      BY <1>0, <2>1, JobType DEF Job
    <2>3. CASE row' = row
      BY <2>3, SameReceipts
    <2>4. CASE row[s] # None /\ row' = Postponed(s)
      <3>1. PICK v : row' = [row EXCEPT ![s].timer = v]
        BY <2>4 DEF Postponed
      <3> QED BY <1>0, <2>4, <3>1, FieldKept, SameReceipts
    <2> QED BY <1>4, <2>2, <2>3, <2>4 DEF Fail
  <1>5. CASE Cleanup
    <2>1. ASSUME NEW x \in Sites
          PROVE  \/ row'[x] = row[x]
                 \/ row[x] # None /\ row'[x] = [row[x] EXCEPT !.preview = None]
      BY <1>5 DEF Cleanup
    <2>2. ASSUME NEW x \in Sites, row[x] # None, row'[x] = [row[x] EXCEPT !.preview = None]
          PROVE  row'[x].gen = row[x].gen /\ row'[x].receipt = row[x].receipt
      <3>1. row[x] \in Row
        BY <1>0, <2>2
      <3> QED BY <2>2, <3>1 DEF Row
    <2> QED BY <2>1, <2>2, SameReceipts
  <1>6. CASE UNCHANGED vars
    BY <1>6, SameReceipts DEF vars
  <1> QED BY <1>1, <1>2, <1>3, <1>4, <1>5, <1>6, SiteReceipts DEF Next

LEMMA SameJobs == ASSUME \A q \in Fetchers : job'[q] \in {job[q], None} PROVE \A q \in Fetchers : KeepsJob(q)
  BY DEF KeepsJob

LEMMA StepJobs == ASSUME IInv, [Next]_vars PROVE \A q \in Fetchers : KeepsJob(q)
  <1>0. TypeOK /\ row \in [Sites -> Row \cup {None}] /\ job \in [Fetchers -> Job \cup {None}]
    BY DEF IInv, TypeOK
  <1>1. ASSUME NEW q \in Fetchers, NEW s \in Sites, NEW auto \in BOOLEAN, Begin(q, s, auto),
               auto => row[s].receipt # 0
        PROVE  \A x \in Fetchers : KeepsJob(x)
    <2>1. /\ job'[q].site = s /\ job'[q].auto = auto /\ row[s] # None
          /\ \A x \in Fetchers : x # q => job'[x] = job[x]
      BY <1>0, <1>1 DEF Begin, Managed
    <2>2. row'[s].receipt = row[s].receipt
      BY <1>0, <1>1, <2>1, FieldKept DEF Begin, Attempted
    <2> QED BY <1>1, <2>1, <2>2 DEF KeepsJob, Started
  <1>2. ASSUME NEW s \in Sites, SiteStep(s) PROVE \A q \in Fetchers : KeepsJob(q)
    <2>1. ASSUME NEW q \in Requests, Refresh(q, s) PROVE \A x \in Fetchers : KeepsJob(x)
      BY <1>1, <2>1 DEF Refresh, Fetchers
    <2>2. CASE Poll(s)
      BY <1>1, <2>2 DEF Poll, Polled, Fetchers
    <2>3. CASE UNCHANGED job
      BY <2>3, SameJobs
    <2> QED BY <1>2, <2>1, <2>2, <2>3
         DEF SiteStep, Configure, Policy, Postpone, View, Accept, Edit, Ban, Expire, Pass
  <1>3. ASSUME NEW q \in Fetchers, FetchStep(q) PROVE \A x \in Fetchers : KeepsJob(x)
    <2>1. CASE Identify(q) \/ Fetch(q)
      <3>1. \E v : job' = [job EXCEPT ![q].got = v] \/ job' = [job EXCEPT ![q].id = v]
        BY <2>1 DEF Identify, Fetch
      <3>2. job[q] \in Job
        BY <1>0, <2>1, JobType DEF Identify, Fetch
      <3>3. /\ job'[q].site = job[q].site /\ job'[q].gen = job[q].gen /\ job'[q].auto = job[q].auto
            /\ \A x \in Fetchers : x # q => job'[x] = job[x]
        BY <1>0, <3>1, <3>2 DEF Job
      <3>4. job[q] # None
        BY <2>1 DEF Identify, Fetch
      <3> QED BY <3>3, <3>4 DEF KeepsJob
    <2>2. CASE StorePreview(q) \/ AutoPublish(q) \/ Drop(q)
      BY <1>0, <2>2, SameJobs DEF StorePreview, AutoPublish, Drop
    <2> QED BY <1>3, <2>1, <2>2 DEF FetchStep
  <1>4. CASE Fail
    BY <1>0, <1>4, SameJobs DEF Fail
  <1>5. CASE UNCHANGED job
    BY <1>5, SameJobs
  <1>6. ASSUME \/ \E p \in Repos : Operator(p) \/ Transfer(p) \/ \E n \in 0..MaxGen : Push(p, n)
               \/ \E x \in Sites \cup Roots : Purge(x)
               \/ Cleanup \/ UNCHANGED vars
        PROVE  UNCHANGED job
    BY <1>6 DEF Operator, Transfer, Push, AtGitHub, Purge, Cleanup, vars
  <1> QED BY <1>2, <1>3, <1>4, <1>5, <1>6 DEF Next

LEMMA PollsAccepted == Spec => [](\A q \in Fetchers : PollAccepted(q))
  <1>1. Init => \A q \in Fetchers : PollAccepted(q)
    BY DEF Init, PollAccepted
  <1>2. IInv /\ IInv' /\ (\A q \in Fetchers : PollAccepted(q)) /\ [Next]_vars
        => (\A q \in Fetchers : PollAccepted(q))'
    BY PollAcceptedKept, StepReceipts, StepJobs
  <1> QED BY <1>1, <1>2, Invariant, PTL DEF Spec

(* What is published anew was decided: by the operator, by the worker for  *)
(* a source that is automatic and accepted, or by the owner who has seen it.*)
Decided(s) ==
    site'[s].commit # site[s].commit =>
        \/ UNCHANGED row
        \/ job' # job /\ row[s].auto /\ row[s].receipt # 0
        \/ job' = job /\ row[s].preview.id = seen[s]

LEMMA OnlyPublished ==
    ASSUME TypeOK, NEW s \in Sites, NEW p, NEW c, Publish(s, p, c), NEW x \in Sites, x # s
    PROVE  site'[x].commit = site[x].commit
  BY DEF Publish, TypeOK

LEMMA StepDecided ==
    ASSUME IInv, \A q \in Fetchers : PollAccepted(q), [Next]_vars, NEW x \in Sites
    PROVE  Decided(x)
  <1> SUFFICES ASSUME site'[x].commit # site[x].commit PROVE Decided(x)
    BY DEF Decided
  <1>0. TypeOK /\ site \in [Sites -> Site] /\ site' # site
    BY DEF IInv, TypeOK
  <1>1. ASSUME NEW s \in Sites, SiteStep(s) PROVE Decided(x)
    <2>1. Accept(s) \/ Edit(s) \/ UNCHANGED site
      BY <1>1 DEF SiteStep, Configure, Policy, Refresh, Poll, Begin, Postpone, View, Ban, Expire, Pass
    <2>2. CASE Accept(s)
      <3>1. x = s
        BY <1>0, <2>2, OnlyPublished DEF Accept
      <3> QED BY <2>2, <3>1 DEF Accept, IsSeen, Decided
    <2>3. CASE Edit(s)
      <3>1. site'[x].commit = site[x].commit
        BY <1>0, <2>3 DEF Edit, Site
      <3> QED BY <3>1
    <2> QED BY <1>0, <2>1, <2>2, <2>3
  <1>2. ASSUME NEW q \in Fetchers, FetchStep(q) PROVE Decided(x)
    <2>1. AutoPublish(q)
      BY <1>0, <1>2 DEF FetchStep, Identify, Fetch, StorePreview, Drop
    <2>2. PICK s \in Sites : s = job[q].site
      BY <1>0, <2>1, JobType DEF AutoPublish, Valid, HasCandidate, Job
    <2>3. x = s
      BY <1>0, <2>1, <2>2, OnlyPublished DEF AutoPublish
    <2>4. row[s].auto /\ row[s] # None /\ row[s].gen = job[q].gen /\ job[q].auto /\ job[q] # None
      BY <2>1, <2>2 DEF AutoPublish, Valid, StillWanted, Managed, HasCandidate
    <2>5. row[s].receipt # 0
      BY <2>2, <2>4 DEF PollAccepted
    <2>6. job' # job
      <3>1. job'[q] = None
        BY <2>1 DEF AutoPublish, IInv, TypeOK
      <3> QED BY <2>4, <3>1
    <2> QED BY <2>3, <2>4, <2>5, <2>6 DEF Decided
  <1>3. ASSUME NEW p \in Repos, Operator(p) PROVE Decided(x)
    BY <1>3 DEF Operator, Decided
  <1>4. ASSUME \/ \E p \in Repos : Transfer(p) \/ \E n \in 0..MaxGen : Push(p, n)
               \/ \E y \in Sites \cup Roots : Purge(y)
               \/ Fail \/ Cleanup \/ UNCHANGED vars
        PROVE  FALSE
    <2>1. UNCHANGED site
      BY <1>4 DEF Transfer, Push, AtGitHub, Purge, Fail, Cleanup, vars
    <2> QED BY <1>0, <2>1
  <1> QED BY <1>1, <1>2, <1>3, <1>4 DEF Next

(* Manual publication is of the text the owner was shown, and automatic    *)
(* publication only of a source that is automatic at that very moment and  *)
(* was accepted by hand before, in this configuration (Sources.refresh,    *)
(* _accept, work).                                                         *)
THEOREM PublishedByDecision == Spec => OwnerDecides
  <1>1. IInv /\ (\A q \in Fetchers : PollAccepted(q)) /\ [Next]_vars
        => [\A s \in Sites : Decided(s)]_vars
    BY StepDecided
  <1>2. Spec => [][\A s \in Sites : Decided(s)]_vars
    BY <1>1, Invariant, PollsAccepted, PTL DEF Spec
  <1> QED BY <1>2 DEF OwnerDecides, Decided
=============================================================================
