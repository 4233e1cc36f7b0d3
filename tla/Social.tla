------------------------------- MODULE Social -------------------------------
(***************************************************************************)
(* Subscriptions, blocks, proposals and ballots of node06_service/social.  *)
(*                                                                         *)
(* Every writer of the graph takes lock_graph first and keeps it until its *)
(* transaction ends, so a handler is one atomic action.  `graph' is the    *)
(* part of the database that one transaction rewrites in several steps: a  *)
(* handler is a composition of operators from graphs to graphs, committed  *)
(* at its end.                                                             *)
(*                                                                         *)
(* A pin is the pair (revision_id, content_digest) under which a text is   *)
(* known.  Authored revisions get fresh ids, so their pins are never       *)
(* reused; the text of a core root is known by its digest alone, and a     *)
(* later build may bring an earlier digest back.                           *)
(***************************************************************************)
EXTENDS Integers, FiniteSets, Influence

CONSTANTS
    Users,          \* active accounts
    Posts,          \* points whose text is in the database; ids are numbers
    Sites,          \* the Posts that are site entrances, which Git may take over
    CoreRoots,      \* points built into the server from its own repository
    Author,         \* the author (site owner) of each post
    Half,           \* the point half of each account's influence, in units
    ProposalIds,    \* ids an open proposal may have, numbers
    VotingDays,     \* 72 hours, in days
    ProposalGap,    \* 24 hours
    RetentionDays,  \* 30 days of server hiding before the text is purged
    MaxNow,         \* bound: days the model lives
    MaxPin,         \* bound: texts per point
    Hideable,       \* bound: points a moderator may hide
    Restrictable,   \* bound: accounts a moderator may ban
    Rollbacks,      \* whether a build may bring back an earlier text of a root
    NoProposal

Points == Posts \cup CoreRoots

NoPin == 0
NotHidden == -1
Never == -1
Pins == 1..MaxPin
OptPin == {NoPin} \cup Pins

ASSUME SetsAssumption ==
    /\ Posts \subseteq Nat /\ CoreRoots \subseteq Nat /\ ProposalIds \subseteq Nat
    /\ Posts \cap CoreRoots = {} /\ Sites \subseteq Posts
    /\ Hideable \subseteq Points /\ Restrictable \subseteq Users
    /\ Author \in [Posts -> Users] /\ Half \in [Users -> Nat]
    /\ Rollbacks \in BOOLEAN
ASSUME FiniteAssumption ==
    IsFiniteSet(Users) /\ IsFiniteSet(Posts) /\ IsFiniteSet(CoreRoots)
ASSUME BoundsAssumption ==
    /\ MaxNow \in Nat /\ MaxPin \in Nat \ {0}
    /\ VotingDays \in Nat /\ ProposalGap \in Nat /\ RetentionDays \in Nat

BallotValues == {"none", "old", "new"}

Proposal ==
    [id: ProposalIds, author: Users, base: Pins, candidate: Pins,
     closes: Nat, cites: [Points -> OptPin], ballot: [Users -> BallotValues]]

ASSUME NoProposalAssumption == NoProposal \notin Proposal

GraphType ==
    [text: [Points -> OptPin],                  \* current pin; NoPin: not in the build
     dirty: SUBSET Posts,                       \* changed since the author's ban began
     purged: SUBSET Points,                     \* point_tombstones
     support: [Users -> [Points -> OptPin]],    \* pin of the active subscription
     blocked: [Users -> [Points -> OptPin]],    \* pin of the block
     proposal: [Points -> Proposal \cup {NoProposal}]]  \* the open one

VARIABLES
    graph,
    minted,         \* texts each point has had so far
    now,            \* the day
    lastProposed,   \* social_user_state.last_proposed_at
    cursor,         \* schema_metadata "social-sweep"
    hiddenSince,    \* server scope of point_hides
    ban,            \* server scope of moderation_bans: mode of the live ban
    gitManaged,     \* sites whose welcome a Git source has taken over
    baseline,       \* core_publications.content_digest
    retired         \* core roots whose lifecycle is "retired"

vars == <<graph, minted, now, lastProposed, cursor, hiddenSince, ban,
          gitManaged, baseline, retired>>
moderation == <<hiddenSince, ban>>
sources == <<gitManaged, baseline, retired>>

TypeOK ==
    /\ graph \in GraphType
    /\ minted \in [Points -> OptPin]
    /\ now \in 0..MaxNow
    /\ lastProposed \in [Users -> {Never} \cup 0..MaxNow]
    /\ cursor \in Nat
    /\ hiddenSince \in [Points -> {NotHidden} \cup 0..MaxNow]
    /\ ban \in [Users -> {"none", "quarantine", "block"}]
    /\ gitManaged \subseteq Sites
    /\ baseline \in [CoreRoots -> OptPin]
    /\ retired \subseteq CoreRoots

-----------------------------------------------------------------------------
(* What a reader on the server sees. *)

(* bans.point_mask: entrances and Git roots are not masked. *)
Masked(g, p) ==
    /\ p \in Posts \ Sites
    /\ \/ ban[Author[p]] = "block"
       \/ ban[Author[p]] = "quarantine" /\ p \in g.dirty

(* PublicPoints.raw_on returns a point instead of raising. *)
Visible(g, p) ==
    /\ p \notin g.purged
    /\ hiddenSince[p] = NotHidden
    /\ ~Masked(g, p)
    /\ g.text[p] # NoPin

IsOpen(g, p) == g.proposal[p] # NoProposal

(* No one with an active account supports the text. *)
Unsupported(g, p) == \A u \in Users : g.support[u][p] = NoPin

-----------------------------------------------------------------------------
(* Steps of a transaction. *)

(* Fault: supporting a point does not lift the block on it. *)
SupportKeepingBlock(g, u, p, pin) == [g EXCEPT !.support[u][p] = pin]

SetSupport(g, u, p, pin) ==
    [g EXCEPT !.support[u][p] = pin, !.blocked[u][p] = NoPin]

DropSupport(g, u, p) == [g EXCEPT !.support[u][p] = NoPin]

RemoveBlock(g, u, p) == [g EXCEPT !.blocked[u][p] = NoPin]

SetBlock(g, u, p, pin) ==
    [g EXCEPT !.support[u][p] = NoPin, !.blocked[u][p] = pin]

(* Fault: withdrawing leaves the ballot in the box. *)
CastKeepingBallot(g, u, p, choice) ==
    IF IsOpen(g, p) /\ choice # "none"
    THEN [g EXCEPT !.proposal[p].ballot[u] = choice] ELSE g

Cast(g, u, p, choice) ==
    IF IsOpen(g, p) THEN [g EXCEPT !.proposal[p].ballot[u] = choice] ELSE g

Close(g, p) == [g EXCEPT !.proposal[p] = NoProposal]

(* content_updated_at moves past the start of the author's ban, if any. *)
Touched(g, p) ==
    IF ban[Author[p]] # "none" THEN g.dirty \cup {p} ELSE g.dirty

(* git_update: reactions to the points of S move to the new text. *)
Moved(reaction, S, text) ==
    [u \in Users |-> [p \in Points |->
        IF p \in S /\ reaction[u][p] # NoPin THEN text[p] ELSE reaction[u][p]]]

(* Fault: a source update forgets the blocks. *)
TransferSupportOnly(g, S) == [g EXCEPT !.support = Moved(g.support, S, g.text)]

Transfer(g, S) ==
    [g EXCEPT !.support = Moved(g.support, S, g.text),
              !.blocked = Moved(g.blocked, S, g.text)]

(* Fault: adoption enrols every supporter under the new text. *)
AdoptForEveryone(g, p) ==
    [g EXCEPT !.text[p] = g.proposal[p].candidate,
              !.support = Moved(g.support, {p}, [g.text EXCEPT ![p] = g.proposal[p].candidate])]

Adopt(g, p) ==
    [g EXCEPT !.text[p] = g.proposal[p].candidate, !.dirty = Touched(g, p)]

-----------------------------------------------------------------------------
(* The weighted decision. *)

(* Points that share u's half: visible ones u supports or blocks. *)
Slots(g, u) ==
    {p \in Points : /\ Visible(g, p)
                    /\ g.support[u][p] # NoPin \/ g.blocked[u][p] # NoPin}

Share(g, u, p) ==
    IF g.support[u][p] = NoPin \/ ~Visible(g, p) THEN 0
    ELSE PointShare(Half[u], Slots(g, u), p)

Influenced(g, p, S) == MapThenSumSet(LAMBDA u : Share(g, u, p), S)

Voters(g, p, choice) == {u \in Users : g.proposal[p].ballot[u] = choice}

NewInfluence(g, p) == Influenced(g, p, Voters(g, p, "new"))
OldInfluence(g, p) == Influenced(g, p, Voters(g, p, "old"))

Due(g, p) == now >= g.proposal[p].closes

(* The author may still publish, and the text voted on is still current. *)
Fresh(g, p) ==
    /\ ban[g.proposal[p].author] = "none"
    /\ Visible(g, p)
    /\ g.text[p] = g.proposal[p].base
    /\ p \notin gitManaged

(* Fault: nobody looks at the targets again. *)
TargetsIgnored(g, p) == IsOpen(g, p)

TargetsKept(g, p) ==
    \A t \in Points : g.proposal[p].cites[t] # NoPin =>
        Visible(g, t) /\ g.text[t] = g.proposal[p].cites[t]

(* Fault: a majority is enough to decide before the deadline. *)
EarlyByMajority(g, p, new) == new > OldInfluence(g, p)

(* Everyone with influence on the point has voted for the candidate. *)
Early(g, p, new) == new > 0 /\ new = Influenced(g, p, Users)

(* Social._finalize from the snapshot on: the ballots are weighed. *)
Decide(g, p) ==
    LET new == NewInfluence(g, p)
    IN  IF ~Early(g, p, new) /\ ~Due(g, p) THEN g
        ELSE IF new > OldInfluence(g, p) /\ TargetsKept(g, p)
             THEN Close(Adopt(g, p), p)
             ELSE Close(g, p)

(* Fault: a proposal waits until it can be adopted again. *)
FinalizeWaiting(g, p) ==
    IF IsOpen(g, p) /\ Fresh(g, p) THEN Decide(g, p) ELSE g

(* Social._finalize *)
Finalize(g, p) ==
    IF ~IsOpen(g, p) THEN g
    ELSE IF ~Fresh(g, p) THEN Close(g, p)
    ELSE Decide(g, p)

-----------------------------------------------------------------------------
Init ==
    /\ graph = [text |-> [p \in Points |-> 1], dirty |-> {}, purged |-> {},
                support |-> [u \in Users |-> [p \in Points |-> NoPin]],
                blocked |-> [u \in Users |-> [p \in Points |-> NoPin]],
                proposal |-> [p \in Points |-> NoProposal]]
    /\ minted = [p \in Points |-> 1]
    /\ now = 0
    /\ lastProposed = [u \in Users |-> Never]
    /\ cursor = 0
    /\ hiddenSince = [p \in Points |-> NotHidden]
    /\ ban = [u \in Users |-> "none"]
    /\ gitManaged = {}
    /\ baseline = [r \in CoreRoots |-> NoPin]
    /\ retired = {}

(* The first reaction to a core root records the text it was published in. *)
Baselined(p) ==
    IF p \in CoreRoots /\ baseline[p] = NoPin
    THEN [baseline EXCEPT ![p] = graph.text[p]] ELSE baseline

Subscribe(u, p) ==
    /\ Visible(graph, p)
    /\ IsOpen(graph, p) => graph.proposal[p].ballot[u] # "new"
    /\ graph' = Finalize(SetSupport(graph, u, p, graph.text[p]), p)
    /\ baseline' = Baselined(p)
    /\ UNCHANGED <<minted, now, lastProposed, cursor, moderation, gitManaged, retired>>

(* Withdrawal works on hidden points too: it needs no public reading. *)
Unsubscribe(u, p) ==
    /\ graph.support[u][p] # NoPin \/ Visible(graph, p)
    /\ graph' = Finalize(DropSupport(Cast(graph, u, p, "none"), u, p), p)
    /\ UNCHANGED <<minted, now, lastProposed, cursor, moderation, sources>>

Block(u, p) ==
    /\ Visible(graph, p)
    /\ graph.blocked[u][p] # graph.text[p]
    /\ graph' = Finalize(SetBlock(Cast(graph, u, p, "none"), u, p, graph.text[p]), p)
    /\ baseline' = Baselined(p)
    /\ UNCHANGED <<minted, now, lastProposed, cursor, moderation, gitManaged, retired>>

Unblock(u, p) ==
    /\ graph' = Finalize(RemoveBlock(graph, u, p), p)
    /\ UNCHANGED <<minted, now, lastProposed, cursor, moderation, sources>>

(* The candidate is a revision of the point as soon as it is proposed. *)
Propose(u, p, S, id) ==
    /\ p \in Posts \ gitManaged
    /\ Visible(graph, p)
    /\ ban[u] = "none"
    /\ ~IsOpen(graph, p)
    /\ lastProposed[u] # Never => now >= lastProposed[u] + ProposalGap
    /\ p \notin S /\ \A t \in S : Visible(graph, t)
    /\ \A x \in Points : IsOpen(graph, x) => graph.proposal[x].id # id
    /\ minted[p] < MaxPin
    /\ now + VotingDays <= MaxNow
    /\ graph' = [graph EXCEPT !.proposal[p] =
                    [id |-> id, author |-> u, base |-> graph.text[p],
                     candidate |-> minted[p] + 1, closes |-> now + VotingDays,
                     cites |-> [t \in Points |-> IF t \in S THEN graph.text[t] ELSE NoPin],
                     ballot |-> [x \in Users |-> "none"]]]
    /\ minted' = [minted EXCEPT ![p] = @ + 1]
    /\ lastProposed' = [lastProposed EXCEPT ![u] = now]
    /\ UNCHANGED <<now, cursor, moderation, sources>>

(* A proposal whose author is banned in "block" mode is masked. *)
Vote(u, p, choice) ==
    /\ IsOpen(graph, p)
    /\ ban[graph.proposal[p].author] # "block"
    /\ ~Due(graph, p)
    /\ Visible(graph, p)
    /\ graph.text[p] = graph.proposal[p].base
    /\ LET pin == IF choice = "old" THEN graph.text[p] ELSE graph.proposal[p].candidate
       IN  graph' = Finalize(Cast(SetSupport(graph, u, p, pin), u, p, choice), p)
    /\ UNCHANGED <<minted, now, lastProposed, cursor, moderation, sources>>

(* Fault: the author may replace a text others support. *)
AuthorMayEdit(g, p) ==
    /\ p \notin g.purged \cup gitManaged
    /\ ban[Author[p]] = "none"

(* Ban, binding and support checks of a direct edit by the author. *)
MayEdit(g, p) ==
    /\ p \notin g.purged \cup gitManaged
    /\ ban[Author[p]] # "block"
    /\ p \in Sites => ban[Author[p]] = "none"
    /\ Unsupported(g, p)

(* authoring.save on an existing point, update_settings on a site entrance. *)
DirectEdit(p) ==
    /\ MayEdit(graph, p)
    /\ minted[p] < MaxPin
    /\ graph' = [graph EXCEPT !.text[p] = minted[p] + 1, !.dirty = Touched(graph, p)]
    /\ minted' = [minted EXCEPT ![p] = @ + 1]
    /\ UNCHANGED <<now, lastProposed, cursor, moderation, sources>>

(* root_publish.publish_on: a Git source publishes new texts of its points. *)
GitPublish(S) ==
    /\ S # {} /\ S \cap graph.purged = {}
    /\ \A p \in S : minted[p] < MaxPin
    /\ LET fresh == [p \in Points |-> IF p \in S THEN minted[p] + 1 ELSE graph.text[p]]
       IN  graph' = Transfer([graph EXCEPT !.text = fresh], S)
    /\ minted' = [p \in Points |-> IF p \in S THEN minted[p] + 1 ELSE minted[p]]
    /\ gitManaged' = gitManaged \cup S
    /\ UNCHANGED <<now, lastProposed, cursor, moderation, baseline, retired>>

(* A new build of the server replaces, removes or brings back a core root. *)
Deploy(r, pin) ==
    /\ pin # graph.text[r]
    /\ \/ pin = NoPin
       \/ pin = minted[r] + 1 /\ pin <= MaxPin
       \/ pin = minted[r]
       \/ Rollbacks /\ pin < minted[r]
    /\ graph' = [graph EXCEPT !.text[r] = pin]
    /\ minted' = [minted EXCEPT ![r] = IF pin > @ THEN pin ELSE @]
    /\ UNCHANGED <<now, lastProposed, cursor, moderation, sources>>

-----------------------------------------------------------------------------
(* Moderation in the server scope; a repeated hide keeps the first date. *)
Hide(p) ==
    /\ p \notin graph.purged
    /\ graph.text[p] # NoPin
    /\ hiddenSince[p] = NotHidden
    /\ hiddenSince' = [hiddenSince EXCEPT ![p] = now]
    /\ UNCHANGED <<graph, minted, now, lastProposed, cursor, ban, sources>>

Restore(p) ==
    /\ p \notin graph.purged
    /\ hiddenSince[p] # NotHidden
    /\ hiddenSince' = [hiddenSince EXCEPT ![p] = NotHidden]
    /\ UNCHANGED <<graph, minted, now, lastProposed, cursor, ban, sources>>

(* A live ban keeps its start when its mode changes; a new one starts now. *)
Ban(u, mode) ==
    /\ ban[u] # mode
    /\ ban' = [ban EXCEPT ![u] = mode]
    /\ graph' = [graph EXCEPT !.dirty =
                    IF mode = "none" THEN {p \in @ : Author[p] # u} ELSE @]
    /\ UNCHANGED <<minted, now, lastProposed, cursor, hiddenSince, sources>>

Tick ==
    /\ now < MaxNow
    /\ now' = now + 1
    /\ UNCHANGED <<graph, minted, lastProposed, cursor, moderation, sources>>

-----------------------------------------------------------------------------
(* Social.work with a batch limit of one. *)

PurgeDue == {p \in Points \ graph.purged :
                hiddenSince[p] # NotHidden /\ now >= hiddenSince[p] + RetentionDays}

(* At most one point a pass: the one hidden first, then the smallest id. *)
Dead == {p \in PurgeDue : \A x \in PurgeDue \ {p} :
            \/ hiddenSince[p] < hiddenSince[x]
            \/ hiddenSince[p] = hiddenSince[x] /\ p < x}

(* Fault: a purge leaves the subscriptions active. *)
PurgeKeepingSupport(g, S) ==
    [g EXCEPT !.purged = @ \cup S,
              !.proposal = [p \in Points |->
                              IF p \in S THEN NoProposal ELSE g.proposal[p]]]

Purge(g, S) ==
    [g EXCEPT !.purged = @ \cup S,
              !.support = [u \in Users |-> [p \in Points |->
                              IF p \in S THEN NoPin ELSE g.support[u][p]]],
              !.proposal = [p \in Points |->
                              IF p \in S THEN NoProposal ELSE g.proposal[p]]]

(* Core roots whose published text or lifecycle the build has overtaken. *)
Outdated(g) ==
    {r \in CoreRoots \ g.purged :
        /\ g.text[r] # NoPin /\ baseline[r] # NoPin
        /\ baseline[r] # g.text[r] \/ r \in retired}

SyncedBaseline(g) ==
    [r \in CoreRoots |-> IF r \in g.purged \/ g.text[r] = NoPin THEN baseline[r]
                         ELSE g.text[r]]

SyncedRetired(g) ==
    (retired \ Outdated(g)) \cup
        {r \in CoreRoots : r \in g.purged \/ (g.text[r] = NoPin /\ baseline[r] # NoPin)}

FinalizeEach(g, S) == IF S = {} THEN g ELSE Finalize(g, CHOOSE p \in S : TRUE)

OpenDue(g) == {p \in Points : IsOpen(g, p) /\ Due(g, p)}

FirstDue(g) ==
    {p \in OpenDue(g) : \A x \in OpenDue(g) \ {p} :
        \/ g.proposal[p].closes < g.proposal[x].closes
        \/ /\ g.proposal[p].closes = g.proposal[x].closes
           /\ g.proposal[p].id < g.proposal[x].id}

FirstOf(g, S) == {p \in S : \A x \in S : g.proposal[p].id <= g.proposal[x].id}

(* Fault: every pass starts at the first open proposal. *)
SweptFromStart(g) == FirstOf(g, {p \in Points : IsOpen(g, p)})

(* The next open proposal after the cursor, or the first one again. *)
Swept(g) ==
    LET open == {p \in Points : IsOpen(g, p)}
        rest == {p \in open : g.proposal[p].id > cursor}
    IN  IF rest # {} THEN FirstOf(g, rest) ELSE FirstOf(g, open)

Work ==
    \E kept \in {Purge(graph, Dead)} :
    \E synced \in {Transfer(kept, Outdated(kept))} :
    \E closed \in {FinalizeEach(synced, FirstDue(synced))} :
    \E swept \in {Swept(closed)} :
        /\ graph' = FinalizeEach(closed, swept)
        /\ cursor' = IF swept = {} THEN cursor
                     ELSE closed.proposal[CHOOSE p \in swept : TRUE].id
        /\ baseline' = SyncedBaseline(kept)
        /\ retired' = SyncedRetired(kept)
        /\ UNCHANGED <<minted, now, lastProposed, moderation, gitManaged>>

-----------------------------------------------------------------------------
UserStep(u) ==
    \/ \E p \in Points : Subscribe(u, p) \/ Unsubscribe(u, p) \/ Block(u, p) \/ Unblock(u, p)
    \/ \E p \in Posts, S \in SUBSET Points, id \in ProposalIds : Propose(u, p, S, id)
    \/ \E p \in Posts, choice \in {"old", "new"} : Vote(u, p, choice)

SourceStep ==
    \/ \E p \in Posts : DirectEdit(p)
    \/ \E S \in SUBSET Sites : GitPublish(S)
    \/ \E r \in CoreRoots, pin \in OptPin : Deploy(r, pin)

ModeratorStep ==
    \/ \E p \in Hideable : Hide(p) \/ Restore(p)
    \/ \E u \in Restrictable, mode \in {"none", "quarantine", "block"} : Ban(u, mode)

Next ==
    \/ \E u \in Users : UserStep(u)
    \/ SourceStep
    \/ ModeratorStep
    \/ Work
    \/ Tick

(* The worker thread runs every 30 seconds; days pass. *)
Fairness == WF_vars(Work) /\ WF_vars(Tick)

Spec == Init /\ [][Next]_vars /\ Fairness
-----------------------------------------------------------------------------
(* Properties. *)

(* A person supports a point or blocks it, never both, whatever the order  *)
(* of subscriptions, votes, blocks and source updates: both would claim a  *)
(* share of one budget (social._set_support, _block).                      *)
OneStance ==
    \A u \in Users, p \in Points :
        graph.support[u][p] = NoPin \/ graph.blocked[u][p] = NoPin

(* A ballot of an open proposal belongs to an active supporter, and while  *)
(* the text voted on is current the supporter is pinned to the text the    *)
(* ballot names; withdrawal, blocks, edits, votes of others and purges     *)
(* leave no ballot behind that weighs for a text its voter left.           *)
BallotBacked ==
    \A p \in Points : IsOpen(graph, p) =>
        LET q == graph.proposal[p] IN
        \A u \in Users :
            /\ q.ballot[u] # "none" => graph.support[u][p] # NoPin
            /\ graph.text[p] = q.base =>
                /\ q.ballot[u] = "old" => graph.support[u][p] = q.base
                /\ q.ballot[u] = "new" => graph.support[u][p] = q.candidate

(* A text that Git manages carries its readers along: once a core root is  *)
(* synchronized, or a site is published from Git, every support and block  *)
(* of the living point is pinned to its current text (social.git_update,   *)
(* _sync_core, root_publish.publish_on).                                   *)
SourcePinsTransferred ==
    \A p \in Points \ graph.purged :
        \/ p \in gitManaged
        \/ p \in CoreRoots \ retired /\ graph.text[p] # NoPin /\ baseline[p] = graph.text[p]
        => \A u \in Users : /\ graph.support[u][p] \in {NoPin, graph.text[p]}
                            /\ graph.blocked[u][p] \in {NoPin, graph.text[p]}

(* A purged point stays without support and without an open proposal, so   *)
(* nothing brings a text back to it.                                       *)
PurgedIsBare ==
    \A p \in graph.purged :
        /\ Unsupported(graph, p)
        /\ graph.proposal[p] = NoProposal

(* The step puts the candidate of p's open proposal in place of its text. *)
Adopted(p) ==
    /\ IsOpen(graph, p)
    /\ graph.text[p] # graph.proposal[p].candidate
    /\ graph'.text[p] = graph.proposal[p].candidate

(* A text someone supports is replaced by an adopted candidate, by Git, or *)
(* not at all: the author and the site owner have no other way             *)
(* (authoring.save, site_registry.update_settings).                        *)
SupportedTextKept ==
    [][\A p \in Posts \ gitManaged' :
        graph'.text[p] # graph.text[p] => Adopted(p) \/ Unsupported(graph, p)]_vars

(* A step changes the reaction of one person to one authored text, the     *)
(* person acting; a decision, an edit or a purge of another point moves    *)
(* nobody's pin.  A new pin is the current text or the candidate voted on. *)
StanceIsPersonal ==
    [][\A p \in Posts \ (gitManaged' \cup graph'.purged) :
        LET Changed == {u \in Users : \/ graph'.support[u][p] # graph.support[u][p]
                                      \/ graph'.blocked[u][p] # graph.blocked[u][p]}
        IN  /\ \A u, x \in Changed : u = x
            /\ \A u \in Changed : graph'.support[u][p] \in
                   {NoPin, graph.text[p]} \cup
                   (IF IsOpen(graph, p) THEN {graph.proposal[p].candidate} ELSE {})]_vars

(* What is adopted replaces exactly the text it was written against, its   *)
(* author may still publish, the texts it cites are still the ones it      *)
(* cites, and of two proposals citing each other one is adopted at most.   *)
AdoptedFresh ==
    \A p \in Posts : Adopted(p) =>
        LET q == graph.proposal[p] IN
        /\ graph.text[p] = q.base
        /\ graph'.proposal[p] = NoProposal
        /\ ban[q.author] = "none"
        /\ \A t \in Points : q.cites[t] # NoPin =>
            /\ graph.text[t] = q.cites[t]
            /\ Adopted(t) => graph.proposal[t].cites[p] = NoPin

(* No lost update in any step, one pass of the worker over several         *)
(* proposals included (social._finalize).                                  *)
AdoptedOnBase == [][AdoptedFresh]_vars

(* Before the deadline a text changes only if nobody with influence on the *)
(* point holds on to another text; silence prevents an early decision.     *)
EarlyIsUnanimous ==
    [][\A p \in Posts : Adopted(p) /\ now < graph.proposal[p].closes =>
        \A u \in Users :
            Share(graph', u, p) > 0 => graph'.support[u][p] = graph.proposal[p].candidate]_vars

(* Every proposal is decided, whatever users, sources and moderators do.   *)
ProposalsSettle == \A p \in Posts : IsOpen(graph, p) ~> ~IsOpen(graph, p)
=============================================================================
