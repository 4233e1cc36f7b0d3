----------------------------- MODULE GitSource -----------------------------
(***************************************************************************)
(* Sites published from a repository of their owner                        *)
(* (node06_service/source_service, root_publish).  The owner configures a  *)
(* source, proves it with a nonce in its manifest, looks at a preview and  *)
(* accepts it; an automatic source is then polled by a worker.  A refresh  *)
(* is two transactions with a fetch in between; the owner's other tabs,    *)
(* the operator's deployments, settings, bans and purges do not wait.      *)
(*                                                                         *)
(* Commits of a repository are numbered, every commit changes some text,   *)
(* and branches only advance.  A generation and its nonce are one number.  *)
(***************************************************************************)
EXTENDS Integers, FiniteSets

CONSTANTS
    Sites, Repos, Roots,    \* Roots: points other than the sites' welcomes
    For,            \* the site each repository's manifest names
    Carries,        \* the roots in each commit of a repository
    Requests,       \* refreshes over HTTP; their ids
    Worker,         \* the refresh of the polling worker
    MaxGen, MaxCommit, MaxIdentity, MaxPreviews, MaxSettings,   \* bounds
    None            \* no row, no refresh, no preview, no answer, no repository

ASSUME RepoAssumption ==
    /\ MaxGen \in Nat /\ MaxCommit \in Nat /\ MaxIdentity \in Nat \ {0}
    /\ MaxPreviews \in Nat /\ MaxSettings \in Nat
    /\ For \in [Repos -> Sites]
    /\ Carries \in [Repos -> [1..MaxCommit -> SUBSET Roots]]
ASSUME PurgeAssumption == Sites \cap Roots = {}
ASSUME NoneAssumption == None \notin Repos \cup Sites

Fetchers == Requests \cup {Worker}
Site == [settings: Nat, commit: 0..MaxCommit, repo: Repos \cup {None}]
Base == [settings: Nat, commit: 0..MaxCommit, entries: SUBSET Roots, live: SUBSET Roots]
Head == [commit: 0..MaxCommit, id: 1..MaxIdentity, proof: 0..MaxGen]
Preview == [id: Nat, commit: 1..MaxCommit, base: Base, live: BOOLEAN]
Row == [gen: 1..MaxGen, repo: Repos, auto: BOOLEAN, timely: BOOLEAN, id: 0..MaxIdentity,
        preview: Preview \cup {None}, receipt: 0..MaxCommit, timer: {"cooling", "waiting", "due"}]
Job == [site: Sites, gen: 1..MaxGen, repo: Repos, auto: BOOLEAN, base: Base,
        known: 0..MaxCommit, id: 0..MaxIdentity, got: Head \cup {None}]

ASSUME NoRecordAssumption == None \notin Row \cup Job \cup Preview \cup Head

VARIABLES
    row,        \* git_sources
    site,       \* sites.settings_revision and root_sources
    entry,      \* root_entries.site_id of each root
    purged,     \* point_tombstones of sites and roots
    banned,     \* sites whose owner may not publish there
    job,        \* what each refresh keeps between its transactions
    head,       \* GitHub: the branch and the identity of each repository
    shown,      \* history: <<repository, identity, commit, proof>> at GitHub
    since,      \* history: the identity there when a generation was configured
    seen,       \* the preview id in each owner's browser
    gens, ids   \* generations and previews so far

vars == <<row, site, entry, purged, banned, job, head, shown, since, seen, gens, ids>>
github == <<head, shown, since>>
rules == <<purged, banned>>

TypeOK ==
    /\ row \in [Sites -> Row \cup {None}]
    /\ site \in [Sites -> Site]
    /\ entry \in [Roots -> Sites \cup {None}]
    /\ purged \subseteq Sites \cup Roots
    /\ banned \subseteq Sites
    /\ job \in [Fetchers -> Job \cup {None}]
    /\ head \in [Repos -> Head]
    /\ shown \subseteq Repos \X (1..MaxIdentity) \X (1..MaxCommit) \X (0..MaxGen)
    /\ since \in [1..MaxGen -> 0..MaxIdentity]
    /\ seen \in [Sites -> Nat]
    /\ gens \in 0..MaxGen
    /\ ids \in Nat
    /\ \A s \in Sites : site[s].commit = 0 <=> site[s].repo = None

Init ==
    /\ row = [s \in Sites |-> None]
    /\ site = [s \in Sites |-> [settings |-> 1, commit |-> 0, repo |-> None]]
    /\ entry = [x \in Roots |-> None]
    /\ purged = {}
    /\ banned = {}
    /\ job = [q \in Fetchers |-> None]
    /\ head = [p \in Repos |-> [commit |-> 0, id |-> 1, proof |-> 0]]
    /\ shown = {}
    /\ since = [n \in 1..MaxGen |-> 0]
    /\ seen = [s \in Sites |-> 0]
    /\ gens = 0
    /\ ids = 0

-----------------------------------------------------------------------------
Published(s) == site[s].commit # 0
Carried(p, c) == IF c = 0 THEN {} ELSE Carries[p][c]
Entries(s) == {x \in Roots : entry[x] = s}
LiveRoots(s) == IF Published(s) THEN Carried(site[s].repo, site[s].commit) \ purged ELSE {}

(* What a preview is compared with, and must still be when it is accepted. *)
BaseOf(s) == [settings |-> site[s].settings, commit |-> site[s].commit,
              entries |-> Entries(s), live |-> LiveRoots(s)]

(* publish_on refuses another repository, purged points, and foreign ones. *)
Publishable(s, p, c) ==
    /\ s \notin purged
    /\ site[s].repo \in {None, p}
    /\ \A x \in Carried(p, c) : x \notin purged /\ entry[x] \in {None, s}

(* Nothing is written again for the commit that is published already. *)
Publish(s, p, c) ==
    IF site[s].commit = c THEN UNCHANGED <<site, entry>>
    ELSE /\ site' = [site EXCEPT ![s] = [settings |-> @.settings + 1, commit |-> c, repo |-> p]]
         /\ entry' = [x \in Roots |-> IF x \in Carried(p, c) THEN s ELSE entry[x]]

(* The owner of a live site that has a source. *)
Managed(s) == row[s] # None /\ s \notin purged
MayPublish(s) == s \notin banned

(* Fault: a verified repository stays verified. *)
UnverifiedKept(s) == IF row[s] = None THEN 0 ELSE row[s].id

(* A new configuration starts without a verified repository. *)
Unverified(s) == 0

Configure(s, p, auto) ==
    /\ s \notin purged /\ MayPublish(s)
    /\ gens < MaxGen
    /\ Published(s) => row[s] # None /\ site[s].repo = p
    /\ row' = [row EXCEPT ![s] = [gen |-> gens + 1, repo |-> p, auto |-> auto,
                  timely |-> TRUE, id |-> Unverified(s), preview |-> None,
                  receipt |-> 0, timer |-> "due"]]
    /\ gens' = gens + 1
    /\ since' = [since EXCEPT ![gens + 1] = head[p].id]
    /\ UNCHANGED <<site, entry, rules, job, head, shown, seen, ids>>

-----------------------------------------------------------------------------
(* Fault: an attempt does not schedule the next one. *)
AttemptedOnce(s) == [row EXCEPT ![s].timer = "stopped"]

(* last_attempt_at and next_check_at after an attempt. *)
Attempted(s) == [row EXCEPT ![s].timer = "cooling"]

(* The first transaction of a refresh. *)
Begin(q, s, auto) ==
    /\ job[q] = None
    /\ Managed(s) /\ MayPublish(s)
    /\ row[s].timer # "cooling"
    /\ job' = [job EXCEPT ![q] = [site |-> s, gen |-> row[s].gen, repo |-> row[s].repo,
                  auto |-> auto, base |-> BaseOf(s), id |-> 0, got |-> None,
                  known |-> IF auto THEN row[s].receipt ELSE 0]]
    /\ row' = Attempted(s)
    /\ UNCHANGED <<site, entry, rules, github, seen, gens, ids>>

Refresh(q, s) == q \in Requests /\ Begin(q, s, FALSE)

Polled(s) ==
    row[s] # None /\ row[s].auto /\ row[s].id # 0 /\ row[s].receipt # 0 /\ row[s].timer = "due"

Poll(s) == Polled(s) /\ Begin(Worker, s, TRUE)

(* The next attempt of the worker is in 15 minutes. *)
Postponed(s) == [row EXCEPT ![s].timer = IF @ = "due" THEN "waiting" ELSE @]

(* The worker is refused before it fetches. *)
Postpone(s) ==
    /\ job[Worker] = None
    /\ Polled(s) /\ ~(Managed(s) /\ MayPublish(s))
    /\ row' = Postponed(s)
    /\ UNCHANGED <<site, entry, rules, job, github, seen, gens, ids>>

(* The first request of a load: which repository answers to the name. *)
Identify(q) ==
    /\ job[q] # None /\ job[q].id = 0
    /\ job' = [job EXCEPT ![q].id = head[job[q].repo].id]
    /\ UNCHANGED <<row, site, entry, rules, github, seen, gens, ids>>

(* Then the branch, and all the rest by the hash of its commit; commit 0   *)
(* stands for "no change since the accepted one".                          *)
Fetch(q) ==
    /\ job[q] # None /\ job[q].id # 0 /\ job[q].got = None
    /\ LET h == [head[job[q].repo] EXCEPT !.id = job[q].id] IN
        /\ For[job[q].repo] = job[q].site /\ h.commit # 0
        /\ job' = [job EXCEPT ![q].got =
               IF h.commit = job[q].known THEN [h EXCEPT !.commit = 0] ELSE h]
    /\ UNCHANGED <<row, site, entry, rules, github, seen, gens, ids>>

(* Fault: what was read before the fetch is trusted. *)
BaseTrusted(s, b) == TRUE

BaseKept(s, b) == BaseOf(s) = b

(* The repository shows the nonce, or is still the one that did. *)
Verified(q) ==
    LET r == row[job[q].site] IN
    IF r.id = 0 THEN r.timely /\ job[q].got.proof = r.gen ELSE job[q].got.id = r.id

HasCandidate(q) == job[q] # None /\ job[q].got # None /\ job[q].got.commit # 0

(* What the second transaction of a refresh checks. *)
Valid(q) ==
    /\ HasCandidate(q)
    /\ LET s == job[q].site IN
        /\ Managed(s) /\ MayPublish(s)
        /\ row[s].gen = job[q].gen
        /\ BaseKept(s, job[q].base)
        /\ Verified(q)
        /\ Publishable(s, row[s].repo, job[q].got.commit)

(* The owner's refresh leaves a private preview. *)
StorePreview(q) ==
    /\ Valid(q) /\ ~job[q].auto
    /\ ids < MaxPreviews
    /\ row' = [row EXCEPT ![job[q].site].id = job[q].got.id,
                          ![job[q].site].preview =
                  [id |-> ids + 1, commit |-> job[q].got.commit, base |-> job[q].base, live |-> TRUE]]
    /\ ids' = ids + 1
    /\ job' = [job EXCEPT ![q] = None]
    /\ UNCHANGED <<site, entry, rules, github, seen, gens>>

(* Fault: the policy is read before the fetch only. *)
StillWantedBefore(s) == TRUE

StillWanted(s) == row[s].auto

Accepted(s, c) == [row[s] EXCEPT !.preview = None, !.receipt = c]

(* The worker's refresh accepts its own preview at once. *)
AutoPublish(q) ==
    /\ Valid(q) /\ job[q].auto
    /\ StillWanted(job[q].site)
    /\ row' = [row EXCEPT ![job[q].site] = Accepted(job[q].site, job[q].got.commit)]
    /\ Publish(job[q].site, row[job[q].site].repo, job[q].got.commit)
    /\ job' = [job EXCEPT ![q] = None]
    /\ UNCHANGED <<rules, github, seen, gens, ids>>

(* The worker's refresh fails while or after it fetches. *)
Fail ==
    /\ job[Worker] # None
    /\ LET s == job[Worker].site IN
        row' = IF row[s] # None /\ row[s].gen = job[Worker].gen THEN Postponed(s) ELSE row
    /\ job' = [job EXCEPT ![Worker] = None]
    /\ UNCHANGED <<site, entry, rules, github, seen, gens, ids>>

(* Nothing new, an answer over HTTP that is an error, or a crash. *)
Drop(q) ==
    /\ job[q] # None
    /\ job' = [job EXCEPT ![q] = None]
    /\ UNCHANGED <<row, site, entry, rules, github, seen, gens, ids>>

-----------------------------------------------------------------------------
(* The owner looks at the preview, and accepts what they have looked at. *)
View(s) ==
    /\ Managed(s) /\ row[s].preview # None /\ row[s].preview.live
    /\ seen' = [seen EXCEPT ![s] = row[s].preview.id]
    /\ UNCHANGED <<row, site, entry, rules, job, github, gens, ids>>

IsSeen(s) == row[s].preview.id = seen[s]

(* Accepting the accepted one again returns its receipt: a stutter. *)
Accept(s) ==
    /\ Managed(s) /\ MayPublish(s)
    /\ row[s].preview # None /\ row[s].preview.live /\ row[s].id # 0
    /\ IsSeen(s)
    /\ BaseKept(s, row[s].preview.base)
    /\ Publishable(s, row[s].repo, row[s].preview.commit)
    /\ row' = [row EXCEPT ![s] = Accepted(s, row[s].preview.commit)]
    /\ Publish(s, row[s].repo, row[s].preview.commit)
    /\ UNCHANGED <<rules, job, github, seen, gens, ids>>

Policy(s, auto) ==
    /\ Managed(s) /\ row[s].auto # auto
    /\ row' = [row EXCEPT ![s].auto = auto]
    /\ UNCHANGED <<site, entry, rules, job, github, seen, gens, ids>>

(* The deployment by the operator: no row, no ban, but the same publisher. *)
Operator(p) ==
    /\ head[p].commit # 0
    /\ Publishable(For[p], p, head[p].commit)
    /\ site[For[p]].commit # head[p].commit
    /\ Publish(For[p], p, head[p].commit)
    /\ UNCHANGED <<row, rules, job, github, seen, gens, ids>>

(* Settings and home page of the site. *)
Edit(s) ==
    /\ s \notin purged /\ MayPublish(s)
    /\ site[s].settings < MaxSettings
    /\ site' = [site EXCEPT ![s].settings = @ + 1]
    /\ UNCHANGED <<row, entry, rules, job, github, seen, gens, ids>>

Ban(s) ==
    /\ banned' = IF s \in banned THEN banned \ {s} ELSE banned \cup {s}
    /\ UNCHANGED <<row, site, entry, purged, job, github, seen, gens, ids>>

-----------------------------------------------------------------------------
Contains(s, x) ==
    /\ row[s] # None /\ row[s].preview # None
    /\ x = s \/ x \in Carried(row[s].repo, row[s].preview.commit)

(* Fault: only the site that published the root is looked at. *)
ClearedOfOwner(x) == {s \in Sites : Contains(s, x) /\ (x = s \/ entry[x] = s)}

(* Whose previews hold a copy of the point. *)
Cleared(x) == {s \in Sites : Contains(s, x)}

(* 30 days after a point was hidden (purge.sweep). *)
Purge(x) ==
    /\ x \in Sites \cup {y \in Roots : entry[y] # None} /\ x \notin purged
    /\ purged' = purged \cup {x}
    /\ row' = [s \in Sites |->
          IF row[s] = None THEN None
          ELSE [row[s] EXCEPT !.preview = IF s \in Cleared(x) THEN None ELSE @,
                              !.auto = @ /\ s # x]]
    /\ UNCHANGED <<site, entry, banned, job, github, seen, gens, ids>>

(* Ends of the proof's hour, of the preview's half hour, of the minute     *)
(* between two refreshes and of the 15 minutes between two polls.          *)
Expire(s) ==
    /\ row[s] # None
    /\ \/ row[s].timely /\ row' = [row EXCEPT ![s].timely = FALSE]
       \/ /\ row[s].preview # None /\ row[s].preview.live
          /\ row' = [row EXCEPT ![s].preview.live = FALSE]
    /\ UNCHANGED <<site, entry, rules, job, github, seen, gens, ids>>

Pass(s) ==
    /\ row[s] # None
    /\ \/ row[s].timer = "cooling" /\ row' = [row EXCEPT ![s].timer = "waiting"]
       \/ row[s].timer = "waiting" /\ row' = [row EXCEPT ![s].timer = "due"]
    /\ UNCHANGED <<site, entry, rules, job, github, seen, gens, ids>>

(* The worker removes previews that have expired. *)
Cleanup ==
    LET old == {s \in Sites : row[s] # None /\ row[s].preview # None /\ ~row[s].preview.live} IN
    /\ old # {}
    /\ row' = [s \in Sites |-> IF s \in old THEN [row[s] EXCEPT !.preview = None] ELSE row[s]]
    /\ UNCHANGED <<site, entry, rules, job, github, seen, gens, ids>>

(* At GitHub: a commit, with or without a nonce, and a transfer, after     *)
(* which the same name and branch are another repository's or owner's.     *)
AtGitHub(p, h) ==
    /\ head' = [head EXCEPT ![p] = h]
    /\ shown' = IF h.commit = 0 THEN shown ELSE shown \cup {<<p, h.id, h.commit, h.proof>>}
    /\ UNCHANGED <<row, site, entry, rules, job, since, seen, gens, ids>>

Push(p, n) ==
    /\ head[p].commit < MaxCommit /\ n <= gens
    /\ AtGitHub(p, [head[p] EXCEPT !.commit = @ + 1, !.proof = n])

Transfer(p) ==
    /\ head[p].id < MaxIdentity
    /\ AtGitHub(p, [head[p] EXCEPT !.id = @ + 1])

-----------------------------------------------------------------------------
SiteStep(s) ==
    \/ \E p \in Repos, auto \in BOOLEAN : Configure(s, p, auto)
    \/ \E auto \in BOOLEAN : Policy(s, auto)
    \/ \E q \in Requests : Refresh(q, s)
    \/ Poll(s) \/ Postpone(s) \/ View(s) \/ Accept(s)
    \/ Edit(s) \/ Ban(s) \/ Expire(s) \/ Pass(s)

FetchStep(q) == Identify(q) \/ Fetch(q) \/ StorePreview(q) \/ AutoPublish(q) \/ Drop(q)

Next ==
    \/ \E s \in Sites : SiteStep(s)
    \/ \E q \in Fetchers : FetchStep(q)
    \/ \E p \in Repos, n \in 0..MaxGen : Push(p, n)
    \/ \E p \in Repos : Transfer(p) \/ Operator(p)
    \/ \E x \in Sites \cup Roots : Purge(x)
    \/ Fail \/ Cleanup

(* Neither GitHub nor the worker fails every time.                         *)
Answered ==
    /\ SF_vars(Identify(Worker)) /\ SF_vars(Fetch(Worker)) /\ SF_vars(AutoPublish(Worker))
    /\ WF_vars(Drop(Worker))

(* Timers end, and sources are polled in the order of next_check_at.       *)
Fairness == Answered /\ \A s \in Sites : WF_vars(Pass(s)) /\ SF_vars(Poll(s))

Spec == Init /\ [][Next]_vars /\ Fairness

-----------------------------------------------------------------------------
ShownFrom(p, i, n) == \E j \in i..MaxIdentity, c \in 1..MaxCommit : <<p, j, c, n>> \in shown

(* A source is verified by the nonce of its very configuration, which the  *)
(* repository has shown, under the pinned identity or a later one; and     *)
(* this identity was the repository's after the owner configured it, never *)
(* one that was read for an earlier configuration (Sources.refresh).       *)
OwnershipProven ==
    \A s \in Sites : row[s] # None /\ row[s].id # 0 =>
        /\ since[row[s].gen] <= row[s].id
        /\ ShownFrom(row[s].repo, row[s].id, row[s].gen)

(* docs/GIT-SOURCES-V1.md: the identity is checked on each fetch, and a    *)
(* transfer requires renewed confirmation.  So whatever is published       *)
(* without the owner was in the repository while it was the pinned one.    *)
TransfersConfirmed ==
    [][\A s \in Sites : site'[s].commit # site[s].commit /\ job' # job =>
          \E n \in 0..MaxGen : <<site'[s].repo, row[s].id, site'[s].commit, n>> \in shown]_vars

(* However refreshes, old tabs and deployments overlap, a published site   *)
(* never returns to an earlier commit nor changes its repository           *)
(* (base in refresh and _accept, SOURCE_BINDING_CHANGED).                  *)
PublishedForward ==
    [][\A s \in Sites : Published(s) =>
          site'[s].repo = site[s].repo /\ site'[s].commit >= site[s].commit]_vars

(* Manual publication is of the text the owner was shown, automatic        *)
(* publication only of a source that is automatic at that very moment and  *)
(* was accepted by hand before (docs/GIT-SOURCES-V1.md, Owner flow).       *)
OwnerDecides ==
    [][\A s \in Sites : site'[s].commit # site[s].commit =>
          \/ UNCHANGED row
          \/ job' # job /\ row[s].auto /\ row[s].receipt # 0
          \/ job' = job /\ row[s].preview.id = seen[s]]_vars

(* No preview keeps a copy of a purged point, whichever site it is for,    *)
(* and none is stored by a refresh that was under way during the purge     *)
(* (purge.sweep, publish_on).                                              *)
PreviewsClean ==
    \A s \in Sites : row[s] # None /\ row[s].preview # None =>
        s \notin purged /\ Carried(row[s].repo, row[s].preview.commit) \cap purged = {}

(* An automatic source whose owner leaves it alone catches up with its     *)
(* branch (Sources.work, source_worker.run).                               *)
Follows(s) ==
    /\ row[s] # None /\ row[s].auto /\ row[s].receipt # 0
    /\ Managed(s) /\ MayPublish(s)
    /\ row[s].id = head[row[s].repo].id /\ For[row[s].repo] = s
    /\ Publishable(s, row[s].repo, head[row[s].repo].commit)
    /\ \A q \in Requests : job[q] = None

AutoFollows(s) ==
    <>[]Follows(s) => <>[](Follows(s) /\ site[s].commit = head[row[s].repo].commit)
=============================================================================
