# Verification of the node06 service

TLA+ models of the node06 backend (`backend/src/node06_service`), the TLC runs
that check them on small instances, and proofs checked by TLAPS.

node06 is a network of *points* (short texts with links). People subscribe to
points, block them, propose new texts and vote on proposals; the weight of a
vote is the share of one bounded influence budget that the voter spends on the
point. Texts come from three places: people write them, sites publish them from
Git, and the server carries some built-in roots. Everything is stored in
PostgreSQL; three background workers and the HTTP handlers change it.

Paths below are relative to `src/backend/src/node06_service/`.

## 1. Inventory

| Component | State | Operations | Interacts through |
|---|---|---|---|
| Reactions, proposals, voting (`social.py`) | `subscriptions`, `point_blocks`, `proposals`, `ballots`, `social_user_state`, favourites, receipts | subscribe, withdraw, block, unblock, propose, vote, favourite; re-evaluate, adopt, close | the graph lock; `event`; `influence.calculate`; public reads |
| Influence (`influence.py`) | none (pure) | `calculate` | called for every decision |
| Notices (`social.py:_deliver`, `social_common.event`) | `social_events`, `subscription_intervals`, `notification_inbox` | emit, deliver a page | written by every handler, read by the worker |
| Social worker (`social_worker.py`) | cursors in `schema_metadata` | purge, core sync, due proposals, sweep, fan-out | the graph lock, every 30 s |
| Authoring (`authoring.py`) | `points`, `authored_revisions`, `point_edges`, compose receipts | create, edit, publish a draft | graph lock, bans, support |
| Purge (`purge.py`) | `point_tombstones` | erase a point hidden for 30 days | run by the social worker |
| Moderation (`moderation.py`, `bans.py`) | `point_hides`, `moderation_bans`, roles, reports, audit | hide, restore, ban, role, report | masks what others read |
| Core roots and Git publication (`root_import.py`, `root_publish.py`, `social._sync_core`) | `core_publications`, `root_sources`, `root_entries` | import, publish, synchronize | `git_update` moves reactions |
| Site registry (`site_registry.py`, `site_claims.py`) | `sites`, `site_claims`, members | create, renew, verify, settings, home page | reads a proof file from the claimed origin |
| Verifier (`verifier.py`) | `verifier_leases` | acquire, release, child process with a deadline | admission for all outbound fetches |
| Git sources (`source_service.py`) | `git_sources` | configure, refresh, accept, policy, poll | GitHub; `publish_on` |
| Profile links (`profile_links.py`, `profile_peer.py`) | `profile_links`, tokens | invite, approve, redeem, confirm, revoke | the same code on another server |
| Profile sync (`profile_sync.py`, `profile_preferences.py`) | preference records, cursors, leases | push, pull, apply (last writer wins) | linked servers |
| Accounts (`auth.py`) | `users`, `sessions`, rate limits | register, login, recover, logout, authorize | called inside other transactions |
| Embedded subscriptions (`embed_subscriptions.py`) | requests, codes, sessions | prepare, approve, redeem, complete | third-party pages |
| Public reads (`public_points.py`, `feed.py`, `directory.py`, `geometry.py`) | none | queries | state of all the above |
| Rendering, browser code, build | none on the server | | requests |

**What is hard.** Almost every writer takes one advisory lock
(`graph_writes.lock_graph`) before anything else and holds it until its
transaction ends, so a handler is one atomic step; what is hard there is that
handlers are long compositions (react, drop ballots, re-evaluate, weigh,
adopt), that the same rows are written by five or six of them, and that
decisions depend on what others wrote in any order. Outside the lock the hard
parts are network I/O between two transactions (site verification, Git
previews, profile links), leases that outlive their holders, workers that page
through data that changes between pages, and answers that get lost.

**What makes each component correct** is listed with the hazards in
`PROJECT.json`: each hazard names the line where it bites and the properties
that would catch it.

## 2. Plan

Modules, in the order in which they are written. The order follows the weight
of the behaviour: first what decides which text the community reads, then what
lets texts in from outside, then what crosses servers.

| # | Module(s) | Subject | State |
|---|---|---|---|
| 1 | `Social` (uses `Influence`), `MCSocial`, `MCSocialScenes` | reactions, proposals, voting, moderation, purge, core roots, the worker | written, checked |
| 2 | `Mailbox` (abstract), `Outbox` | notices: what is promised, and the paged fan-out | written, checked, refinement checked |
| 3 | `SocialProofs`, `OutboxProofs` | theorems about 1, 2 and the division of influence of 10 | proved |
| 4 | `VerifierSlots`, `SiteClaims`, their `MC…` and `…Proofs` | admission to outbound fetches; verification of an origin | written, checked, proved |
| 5 | `GitSource`, `MCGitScenes`, `GitSourceProofs` | sites published from a repository | written, checked, proved |
| 6 | `ProfileLinks`, `MCProfileLinks`, `ProfileLinksProofs` | two servers and a channel that loses and delays: invite, approve, redeem, confirm, revoke and its retries | written, checked, proved |
| 7 | `ProfileSync`, `MCProfileWorker`, `ProfileSyncProofs` | records with versions, pages with a cursor, leases; both sides converge | written, checked, proved |
| 8 | `Accounts`, `EmbedGrants`, `RateLimit` | recovery racing login, sessions inside transactions, the widget's codes and tokens, rate windows | written, checked |
| 9 | `Moderation` | roles and scopes, bans that expire, the dates that drive masks and the purge | written, checked |
| 10 | `SiteSettings`, `Weights` | optimistic revisions of a site; the division of influence | written, checked |
| 11 | `ManagementProofs` | theorems about 8, 9 and `SiteSettings` | proved |
| 12 | `Authoring` | creation of points with edges and receipts | planned |

Runs are added one per question, on instances of two or three people, one to
three points, two or three overlapping requests: each property needs two or
three actors to break, and every interesting case (a tie, a stale base, a lost
lease) needs only that many. Every safety invariant and action property of a passing
run is a theorem now. Worth stating next are abstract specifications that the other
components implement, as `Outbox` implements `Mailbox`: a decided proposal as one atomic
step, and a link between two accounts as one consent of both.
`PROJECT.json` lists every hazard with the
properties that cover it, or the reason why none does.

## 3. How to read the modules

A handler that holds `lock_graph` from its first statement to its commit is one
atomic action. An operation that does I/O between two transactions is two or
more actions with a record of what the handler keeps in its local variables
(`req` of `SiteClaims`, `job` of `GitSource` and `ProfileSync`, `task` of
`ProfileLinks`, `op` of `Accounts`, `phase`/`fuel` of `VerifierSlots`), so that
everything else may happen in between. Operators that begin with the comment "Fault:" are plausible bugs; nothing uses them in the
specification, and `PROJECT.json` says which property each of them violates when
it replaces the definition that follows it.

A *scene* is a small world of its own inside one run: a variable `scene` is chosen
in the initial state and never changes, each scene runs the next-state relation of
one instance and leaves the variables of the others alone. `MCSocialScenes`,
`MCGitScenes`, `MCProfileLinks`, `MCProfileWorker` and `MCManagement` are made this
way. Scenes share no state, so a run of scenes checks what separate runs would; what
really interacts is inside one module or one scene.

### 3.1 `Social` and `Influence`

`graph` is the part of the database that one transaction rewrites in several
steps; `SetSupport`, `SetBlock`, `Cast`, `Close`, `Adopt`, `Transfer`, `Purge`,
`Finalize` are the private methods of `social.py`, operators from graphs to
graphs, and a handler composes them in the order of the code.

| Variable | Code |
|---|---|
| `graph.text`, `minted` | `points.current_revision_id` (or the build's text of a core root) and the revisions so far |
| `graph.support`, `graph.blocked` | `subscriptions`, `point_blocks`, with the pin each names |
| `graph.proposal` | the open row of `proposals` with its `ballots` and the citations of its candidate |
| `graph.purged` | `point_tombstones` |
| `graph.dirty` | `content_updated_at` later than the start of the author's ban |
| `lastProposed`, `cursor` | `social_user_state`, the sweep cursor in `schema_metadata` |
| `hiddenSince`, `ban` | server scope of `point_hides` and `moderation_bans` |
| `gitManaged`, `baseline`, `retired` | `root_sources` of sites, `core_publications`, `lifecycle` |

Actions: `Subscribe`, `Unsubscribe`, `Block`, `Unblock`, `Propose`, `Vote`
(`Social.mutate` and its private handlers), `DirectEdit` (`authoring.save`,
`site_registry.update_settings`), `GitPublish` (`root_publish.publish_on`),
`Deploy` (a new build), `Hide`, `Restore`, `Ban` (`moderation.py`), `Work` (one
pass of the worker: purge, `_sync_core`, one due proposal, one swept one), `Tick`.

Abstractions: the worker's batch of 20 is a batch of one, which is where passing
over somebody would show; an account's half of influence is a constant, only its
division over points is computed; the digests of a revision are its number;
inactive subscription rows are absent; hides and bans have server scope; a ban's
expiry is `Ban(u, "none")`; `GitPublish` names the points of a source that
changed; accounts stay active; trust edges and geometry are left out.

### 3.2 `Mailbox` and `Outbox`

`Outbox` has the numbered notices, the subscription intervals
(`social_common.event`, `social._subscription`), the page of `_deliver` with its
cursor, and the purge that leaves intervals open. Event numbers of kinds nobody
is notified of are left out. `Mailbox` is what is promised: a notice is posted
to the people subscribed at that moment and sometime each of them, and nobody
else, has it. `Implements` instantiates `Mailbox` with the mapped state.

### 3.3 `VerifierSlots`

Slots are rows of `verifier_leases`. `Ask` reads the clock, `Acquire` takes a
slot that has no row or an expired one, `Start` spawns the child with what is
left of the deadline, `Finish`/`Late`/`Release` are the ends of
`fetch_in_process` and of `release`; `Crash` ends the process anywhere and leaves
the lease and perhaps the child. Times are seconds *left*, so `Tick` decreases
them and nothing has to be bounded. The grace of 5 s in the code must cover a
late commit (`Pause`) and the killing of the child (`Kill`): this is the
assumption `Pause + Kill < Grace`, which the code relies on and states nowhere.

### 3.4 `SiteClaims`

`Create`, `Renew`, then a verification as `Attempt` (first transaction: counts
the attempt), `Read` (the fetch), `Activate` (second transaction) or `Drop`;
`Ban`, `Purge`, `Serve` (what the administrator of the origin publishes) and
`Tick` interleave. `tries` is a history beside the counter of the claim: how many
fetches were ever begun for each challenge, whichever requests began them and however
they ended. A claim's id, digest and document are drawn afresh together
and are one number. A site is `active` exactly when it has `verified_at`; no code
path makes it inactive again.

### 3.5 `GitSource`

| Variable | Code |
|---|---|
| `row` | `git_sources`: generation, repository, policy, verified identity, preview with its base, receipt, and the two timers |
| `site` | `sites.settings_revision` and `root_sources` |
| `entry` | `root_entries.site_id` |
| `job` | the local variables of `Sources.refresh` between its two transactions |
| `head`, `shown` | GitHub: the identity and the branch now, and which commit and proof were ever there under which identity |
| `since` | history: the identity at GitHub when a generation was configured |
| `seen` | the preview in the owner's browser |

`Begin` (as `Refresh` or `Poll`) is the first transaction. The loader
(`github_source.Snapshot`, `load`) is two steps: `Identify` is its first request, which
reads the identity of the repository, and `Fetch` the later ones, which read the branch
and then, by hash, what belongs to its commit. A push or a transfer may come between
them, because the identity is not read again.
`StorePreview`/`AutoPublish` the second transaction, `Fail`/`Drop` its failures;
`Accept`, `Policy`, `Configure` are the owner's other requests, `Operator` a
deployment through `root_publish.publish`, `Cleanup` and `Postpone` the rest of
the worker. `timer` is the minute between two refreshes (`"cooling"`), then the
quarter of an hour to the next poll (`"waiting"`), then `"due"`.

Abstractions: commits of a repository are numbered and its branch only advances;
every commit changes some text, so a publication always raises the settings
revision; a generation and its nonce are one number; a preview is a fresh number
and accepting the accepted one again returns its receipt, a stutter; everything read
by hash is one with the commit; of the bans only the owner's is there; which commits carry which
roots is a constant; `last_error` is left out.

### 3.6 `ProfileLinks`

| Variable | Code |
|---|---|
| `links` | the `profile_links` rows of both servers; a row's name stands for its invitation, code and token, which are drawn for it alone |
| `task` | what a request thread or the worker carries between its transactions |
| `wire` | requests under way to the other server (`profile_peer.exchange`); by `NoThread` when the sender gave up |
| `lost`, `escaped` | history: grants whose token was in a lost answer or a dead thread, and those a failing handler let go |

`Invite`, `Inspect`/`Approve`, `Confirm`/`Redeem`/`Complete` are the handshake: the
inviter's row is `exchanging` while the other server redeems the code. `Compensate`
and `Abandon` are the `except` branch of `confirm`, `Revoke`/`Withdraw`/`RevokeDone`
the revocation and its repetition by the worker, `Refresh`/`Status`/`Retire` the
status check. `Unavailable` is every transport error (`PublicPointError`), `Busy` the
error of a full verifier, which is of another class, `Crash` the end of a process.
`room` prunes old rows inside `Invite` and `Approve`.

Abstractions: one account per server; the identities shown before consent are fixed;
the consent of both sides is compared as two flags; the data key of a grant is one
flag; time advances only while nobody waits for an answer.

### 3.7 `ProfileSync`

| Variable | Code |
|---|---|
| `db` | per account `profile_preferences` (one record per key, its version `(clock, writer)`), and `profile_preference_state` |
| `shown` | own points that are public at home: what `seed` finds |
| `live`, `setting` | the link is active; `sync_enabled`, `sync_send`, `sync_receive` of each side |
| `round` | generation, lease, cursors and "done" flags of the link at A |
| `job`, `late` | a step between its two transactions; a request that arrives after its sender gave up |
| `base` | history: what both sides had when the round began |

`Start`, `Receive`, `Finish`/`Fail` are the three transactions of a step
(`ProfileSync.step`, `receive`, `step`), `Lapse` the end of a lease, `Crash` a dead
worker. `Native`, `Favorite`, `Look`, `Show`, `Settings`, `End` are what people do
meanwhile, through triggers (migration 0022) or the API. The wall clock of a server
stands still and servers differ by `Skew`: all changes happen in one instant, which
is where versions must be told apart without its help. `Old` is what an account had
before the feature: its colour, and favourites and subscriptions of points of its own
server that are not its own posts. `seed` in `profile_preferences.py` writes them with the
server itself as origin, so an account cannot start with anything of another server's
points; `ClockAssumption` says so, and `RoundDelivers` needs it.

### 3.8 `Accounts`, `EmbedGrants` and `RateLimit`

`Accounts` has the current password and recovery code of each account as numbers, the
sessions, and logins and recoveries in two steps: compare with what was read, then
lock, compare again and write. `EmbedGrants` extends it with the requests of a
widget (`embed_subscriptions`): `Prepare`, `Approve` (also to resume an earlier
consent), `StartRedeem`/`StartComplete` and `FinishConnect`, `StartUse` and
`FinishUse`, `Revoke`, `RevokeAll`. What the first, unlocked read of the row returned
is in `op`. `agreed` is a history: what persons approved, by session and site, and did
not revoke. Times are what is left of them; `Tick` decreases them all.

`RateLimit` is one row of `auth_limits`; every limited request of the service passes
such a row before anything else and independently of all others, so the other modules
leave it out: it only refuses. `admitted` is a history of the admitted requests by second;
`Lately` sums those of the last seconds, as a recursive function, not an operator, so
that a theorem can speak of it.

### 3.9 `Moderation`

`role`, `hide`, `case`, `ban` are the tables, `changed` is `content_updated_at`,
`streak` a history: for how long a point has been hidden everywhere. `RoleOn` and
`Masked` are `role_on` and `bans.mask`, with the owner of a site as its administrator.
`case` has the reports and their closing, as hides close them; no property but the type
invariant is about it. `Bootstrap` is the operator's command, `Edit` a save that `bans.publication` lets
through, `Sweep` the purge. Times are absolute, the clock stops at `MaxNow`. `Social`
has server-wide hides and bans as well, as they gate its handlers; there they have no
dates.

### 3.10 `SiteSettings` and `Weights`

`SiteSettings` is one site, the pages that have loaded it, and the three writers that
do not use a page: a vote, Git and the reactions that make a text supported. `Weights`
is the end of `influence.calculate`: quantization by largest remainder, then
`Influence.PointShare`. The weights that the trust iteration ends with are arbitrary
positive shares; people and points are finitely many.

## 4. Runs and their bounds

| Run | Question | Instance |
|---|---|---|
| `social_voting` | do ballots, pins and texts stay consistent from proposal to decision, hiding and purge, and is every proposal decided? | three people, one post, which may also be the entrance of a site that is handed over to a repository, one proposal at a time, three texts, a deadline and a retention of two days in a life of four |
| `social_rollback` | do reactions follow texts when a build may return to an earlier one? | two people, a core root, three texts; ends in a counterexample, see section 7 |
| `social_scenes` | sources: do reactions follow texts that Git and builds replace? citations: does an adoption replace exactly its base and see its targets unchanged, when its author may be banned? sweep: is every stale proposal reached? | two people, a site entrance and a core root, three texts each; two posts that cite each other, two proposals; three texts, two posts, a batch of one, no deadlines |
| `outbox_fanout` | does each notice reach its audience, and nobody else, once? | three people, pages of one, six numbers |
| `verifier_slots` | do fetches ever outnumber slots, and do slots come back? | three requests with different deadlines for two slots |
| `site_claims` | is an active site proven by its current claim, and is each challenge fetched for no more often than allowed? | one owner, two sites, two origins, two overlapping requests, three challenges of two attempts; of the six pairs of an origin and a document, three are ever served (`FewServed`) |
| `git_scenes` | does a site only move forward, only as its owner decided, and does an automatic source catch up? does verification belong to the configuration? do previews forget purged points? | following: one site, a refresh over HTTP beside the worker's, two commits, two previews, an edit, no purge; proving: two repositories of one commit, two configurations, one transfer, refreshes by hand only; purging: two sites whose repositories have the same root in their first commits, the first published by its owner or the operator, the second by the operator |
| `git_transfer` | is everything published without the owner from the repository that was verified? | as following, with a transfer and one preview; ends in a counterexample, see section 7 |
| `profile_links` | does every grant keep its token, every invitation make at most one grant, and every round carry everything? | two servers, three rows, two threads, six units of time; two keys, two overlapping steps, two changes by people, one stall |
| `profile_links_busy` | is a token given back whatever fails? | two rows; ends in a counterexample, see section 7 |
| `profile_worker` | do linked accounts converge and revocations arrive, under fairness, by records that only go forward and that both still allow? | two keys, two steps, two changes by people; two rows, two threads |
| `management` | do widgets, administrators, bans, settings, limits and weights keep what they promise? | eight scenes: two requests and two tokens of one account; three people who appoint each other; an author and a moderator over three instants; two reporters; two pages, three revisions; three people with three points and all shares up to four; a maximum of two in three units |

Why these bounds are enough: a stale answer needs one change while it is under
way, so a refresh over HTTP, the worker's and one more writer show every order of two
commits (`NeverBack` proves it for any number); a vote is decided by sums over
people, and three people with halves 3, 2 and 5 give ties and majorities; a step that
wrongly moved the pins of two silent people needs three; a page of one puts a crash
between any two recipients; two slots and three requests make somebody wait. An
invitation makes a second grant, or a step overtakes another, with two threads and
three rows; a lost update of settings needs two pages. Symmetry is used only in
`site_claims`, `profile_links`, `profile_links_busy` and `management`, which check no
liveness property. `CHECK_DEADLOCK` is off where the model really stops: in
`outbox_fanout` when its event numbers are used up and everything is delivered, in the
profile runs and in `management` when the bounded clock (`MaxNow`), the changes by
people (`MaxEdits`), the revisions or the accounts' recoveries are used up.

## 5. Fairness

Only what a worker or a clock does is fair; no user, owner, operator or repository
has to act.

- `Social`: `WF(Work)`, the thread of `social_worker.run`, which repeats every 30 s
  whatever the pass did, and `WF(Tick)`. Of the scenes only "sweep" is fair, in its
  worker (`SceneSpec`) and not in its clock: the sweep must do without deadlines.
- `Outbox`: weak fairness of the worker's page.
- `VerifierSlots`: weak fairness of time and of the ends of what a request waits for
  (a slot or a refusal, an answer, the death of its child); a crashed request does
  nothing more and its slot still has to come back.
- `SiteClaims`: none, it has safety properties only.
- `GitSource`: weak fairness of the timers and of a refresh's end. `Identify`, `Fetch`
  and `AutoPublish` of the worker have strong fairness (`Answered`): a fetch that can
  succeed does not fail every time. Without it GitHub being down for ever would be a
  counterexample. `Poll` has strong fairness too: the worker takes sources in the order
  of `next_check_at`, so a due source is taken after the finitely many before it, though
  their refreshes make `Poll` unavailable meanwhile. In `git_scenes` one source is
  polled, and weak fairness of `Poll` is enough (`SceneFairness`); `AutoFollows` is
  checked for it where it is alone (`SourceFollows`). `git_transfer` assumes none.
- `ProfileSync`: the worker's `Start`, `Receive` and `Finish` have strong fairness:
  the worker comes every two seconds, and the network, the other server and the process
  do not fail every time. Every step ends by its deadline and leases run out (weak).
  People may edit, but only `MaxEdits` times: convergence is a promise for quiet times.
- `ProfileLinks` in `profile_worker`: weak fairness of the worker's retry and of the
  ends of a handler; strong fairness of the answers, as above.
- `EmbedGrants`, `Moderation`, `SiteSettings`, `RateLimit`, `Weights`: none, they have
  safety properties only.

## 6. Proofs

Eight modules hold theorems; `tlapm` proves each from the named assumptions on the
constants only. Every safety invariant and every action property that a passing run
checks is a theorem: the run shows it on a small instance, the theorem for any number of
people, points, servers, requests and threads. Two assumptions are about numbers
of the code: `GraceAssumption` (section 3.3), and `Pending <= Lifetime` in
`PeriodsAssumption`, an invitation lives no longer than a grant (ten minutes and thirty
days in `profile_links.py`). One theorem has a hypothesis, `~Rollbacks`, without which it is
false (section 7).

- `SocialProofs`. The invariant `IInv` is `Good(graph, minted)`, a property of any graph
  and the numbers of texts so far, because a handler is a chain of graph operators: each
  keeps `Good` under the guard its handlers have checked. The strengthening is `Counted`:
  texts and candidates are numbered below `minted`, so a text that was replaced never
  returns to a proposal's base and an old ballot cannot become current again. From it
  follow `TypeCorrect`, `OneStanceAlways`, `BallotsBacked` and `PurgedStaysBare`.
  `SupportedTextIsKept` and `StancesArePersonal` describe a step by what it may change: the
  texts it writes, the persons whose reactions it moves. `AdoptionsAreFresh` adds
  `Cited`: an open proposal cites texts that exist already and no open candidate, so of two
  proposals that cite each other's points one pass adopts one: the other's citation is stale
  from then on.
  `PinsFollowSources` holds for builds that only advance: the readers of a root react to
  its newest text or to the one last published (`RootsFollow`), those of a post managed by
  Git to its text, which no open proposal has as its base (`GitFollows`).
  `EarlyDecisionsUnanimous`: before the deadline the votes for a proposal weigh all
  influence on the point, and shares of people with influence are positive, so nobody is
  missing among them.
  `InfluenceIsConserved` is about `Weights`: what quantization cuts off is less than a
  unit for each person, so the remainder is at most the number of people and the people
  ranked first get one unit each. The sums in both are folds of the community
  modules; that a fold does not depend on its order is proved with the well-foundedness
  of the subset order, from a smallest set on which it would.
- `OutboxProofs`: `TypeCorrect`, `DeliveredToAll`, `CursorParts`, `IntervalsTrack`
  (a lemma of interest, about two tables written together; no run repeats it),
  `KeepsThePromise` (the refinement of `Mailbox`: the initial state maps to its
  initial state, every step to a step or a stutter). The strengthening: a notice not
  posted has no cursor, nobody has what is not owed, and a purged point has no
  subscribers.
- `VerifierProofs`: `TypeCorrect`, `NeverTooManyFetches`. While a request may fetch
  it holds a slot whose lease lasts longer than the fetch by the grace less the
  longest pause (`Backed`); so no clock reading finds this lease expired and the
  children inject into the slots. It needs `GraceAssumption`.
- `SiteClaimsProofs`: `OnlyProvenSites`, `EveryFetchPaid`, `VerifiedForGood`. What a
  request carries: a proof it holds was served by the origin its site claims, and
  challenges under way are not newer than the last issued one. That the counter of a
  claim is the number of all fetches for its challenge needs two more facts: no two sites
  have the same challenge (`OwnChallenge`), or one would pay for the other's fetches, and
  a challenge not yet issued has not been tried (`Untried`), so a renewed claim may begin
  at 0.
- `GitSourceProofs`: `TypeCorrect`, `RepositoryProven`, `PreviewsStayClean`,
  `NeverBack`, `PublishedByDecision`. A base that still matches when a refresh or a
  preview comes back belongs to a commit not newer than the fetched one, as long as the
  site is published from the same repository (`NotAfter`); a generation names one
  repository (`SameSource`). An answer joins an identity and a branch of different moments:
  what it shows was shown under that identity or a later one, and the identity is not from
  before the configuration it answers to (`AnswerGood`), which is what `RepositoryProven`
  says of a verified source; it does not say that the nonce was shown under the pinned
  identity itself (section 7). What the worker
  publishes was decided by the owner because the refresh began with the receipt of an
  acceptance by hand, and a generation never loses it (`PollAccepted`).
- `ProfileLinksProofs`: `TypeCorrect`, `GrantsAccounted`, `PairsAgree`. A row is never
  used again and its status only goes on, so an invitation is confirmed once, by one thread,
  with one code, and every request and answer under way speaks of the same grant
  (`RowsOK`, `WireOK`, `TasksOK`). A grant whose token is stored nowhere is carried by a
  thread, was lost or escaped, or is dead. A link and its grant expire within the life
  of an invitation of each other, and rows are kept longer than that: neither is deleted
  while the other is of use, where `Pending <= Lifetime` is needed.
- `ProfileSyncProofs`: `TypeCorrect`, `ClocksCover`, `NothingTurnsBack`,
  `ConsentWhenApplied`, `RoundsDeliver`. Whatever a step does to the records of an account
  is one of a few functions; that each keeps the clock above every stamp (`Evolves`),
  replaces a record by a newer one only (`Grows`) and writes records of one server only
  (`Writes`) is proved once per function. The strengthening (`Asks`) says that a step
  that no change of settings overtook asked for kinds that are still allowed. A page
  ends at the largest of a finite set of keys.
  That a finished round delivers rests on two more parts. `Sources`: of its own
  subscriptions and posts nobody has anything newer than their server, neither in a record
  nor in a message, so their records there are never refused as old. `RoundInv`: behind
  both cursors everything the round began with is at the other side, and the step that
  holds the lease started from just these cursors, sent what A had and brings what B had,
  however many other steps stalled before it. It is stated without a link to a run, because
  `MCProfileLinks` instantiates `ProfileSync` beside another module of equal names; the
  definition is the same.
- `ManagementProofs`, about five modules.
  `Moderation`: `ModerationTypeCorrect`, `HiddenSinceHolds`, `PurgeAfterRetention`,
  `BansMask`, `LastAdminStays`; dates lie in the past (`Dated`), and a point that is shown
  has not been hidden for any time (`ShownAtOnce`).
  `SiteSettings`: `SavesWhatIsShown`; a page with the current revision shows the current
  settings (`ShowsCurrent`).
  `EmbedGrants` and `Accounts`: `TypeCorrect`, `RecoveryEvicts`, `OneToken`,
  `WidgetActsAsApproved`; the approval of a request in force is one its person gave and
  did not take back (`ApprovalsAgreed`), a row with a person has a session and one with a
  token has a person (`HasPerson`), and the n-th password is stored with the n-th code
  (`SameNumber`). What a thread has read is never relied on, so nothing but its type
  is said of a request under way.
  `RateLimit`: `LimitIsExact`; while a window runs, its count is what was admitted since
  it began, and less than the maximum was admitted in what the last period has before it
  (`Running`).

Only model-checked: the liveness properties (`ProposalsSettle`, `SweepSettles`,
`AllDelivered`, `SlotsRecover`, `SourceFollows`, `Convergence`, `RevocationDelivered`),
because TLAPS proves neither `ENABLED` nor fairness arguments. The three runs that end in a
counterexample (`SourcePinsTransferred` with rollbacks, `KnownTokenRetained`,
`TransfersConfirmed`) leave nothing to prove of their properties.

## 7. Findings

`social_rollback`: `_sync_core` compares the digest of a build's root with
`core_publications.content_digest` only. Somebody subscribes to the new text of a
build before the worker's next pass; the server is rolled back; the baseline is
still the old text, no update is seen, and the subscription stays pinned to a text
that is no longer published, although `docs/SOCIAL-V1.md:14-16` says that an accepted
source update transfers active support. With builds that only advance
(`social_scenes`) the property holds.

`profile_links_busy`: when `confirm` fails after it received a token, it gives the token
back over the network and keeps it for a retry `except PublicPointError`. The transport
first takes a verifier slot; when all are taken, `VerifierBusyError` is raised, which is
a `SiteClaimError`. The exception leaves the handler before the row is updated: the token
is kept nowhere, no retry is marked, and the other server's grant lives on, although
`docs/PROFILE-LINKS-V1.md:110-112` says that such a token is revoked or retained with a
marked retry. `GrantAccounted` names this case (`escaped`) as an exception; everything
else it says holds.

`git_transfer`: a load reads the identity of the repository by its first request and the
branch by its second, under the same name, and does not look at the identity again
(`github_source.py:82-98`). If the repository is transferred and pushed to in between,
the worker of an automatic source compares the identity of before the transfer with the
pinned one and publishes a commit that the pinned repository never had. The next load
refuses (`SOURCE_IDENTITY_CHANGED`), but this text is published, although
`docs/GIT-SOURCES-V1.md:31-32` says that the identity is checked on each fetch and that
transfers require renewed owner confirmation. In the same way the identity that a
verification pins may be the one just before a transfer; `OwnershipProven` says what
holds of it nevertheless.

## 8. Not modelled

- Rendering, browser code, the static build and the application shell have no state
  that another component depends on, or are start-up and schema.
- Public reads (`public_points.py`, `feed.py`, `directory.py`, `geometry.py`,
  `social_read.py`) appear as the visibility rule their writers share; feeds, search,
  paging and geometry are queries. The bridge is read-only.
- Profile packets are signed exports that two servers compare: a pure function over
  strings and digests.
- Creation of points with their edges (`authoring.py`) and the parsers of repositories
  and pages (`root_import.py`, `root_preflight.py`, `home_page.py`): mostly validation
  of data. What a publication does to the rest of the system is in `Social` and
  `GitSource`.
- Idempotency receipts (`point_operations`): read, used and written in the transaction
  of the operation, under the graph lock; a repeated request is a stutter of the models.
- The trust iteration of `influence.calculate`, in floating point; branches that are
  reset to an earlier commit; accounts that are disabled (nothing in the service does).
- The epoch of bans, the pages of quarantined points and the audit log of moderation.
