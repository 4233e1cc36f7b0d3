------------------------------- MODULE Outbox -------------------------------
(***************************************************************************)
(* Subscription intervals, notify events and the worker's fan-out of       *)
(* node06_service/social (_set_support, event, _deliver).                  *)
(*                                                                         *)
(* An event gets the next number of one sequence; every writer holds       *)
(* lock_graph, so numbers follow the order of the transactions and, in a   *)
(* transaction, the order of its steps.  A subscription is recorded as an  *)
(* interval of event numbers; the worker finds the audience of a notice    *)
(* from the intervals, page after page, while people come and go.          *)
(***************************************************************************)
EXTENDS Integers, FiniteSets

CONSTANTS
    Users,      \* ids, compared by the paging query
    Points,
    Batch,      \* recipients of one notice in one pass (50)
    Limit,      \* notices served in one pass (20)
    MaxSeq,     \* bound: events the model emits
    NoPoint

Seqs == 1..MaxSeq
Open == 0       \* end_seq of an interval that has not ended

ASSUME UsersAssumption == Users \subseteq Nat \ {0} /\ IsFiniteSet(Users)
ASSUME BatchAssumption == Batch \in Nat \ {0} /\ Limit \in Nat \ {0} /\ MaxSeq \in Nat
ASSUME NoPointAssumption == NoPoint \notin Points

Intervals == [user: Users, point: Points, start: Seqs, end: {Open} \cup Seqs]

VARIABLES
    seq,        \* the last event number
    active,     \* active subscribers of each point
    intervals,  \* subscription_intervals
    notice,     \* the point a notify event is about, by event number
    cursor,     \* audience_cursor
    done,       \* fanout_done
    inbox,      \* <<user, event>>
    purged

vars == <<seq, active, intervals, notice, cursor, done, inbox, purged>>

TypeOK ==
    /\ seq \in 0..MaxSeq
    /\ active \in [Points -> SUBSET Users]
    /\ intervals \subseteq Intervals
    /\ notice \in [Seqs -> Points \cup {NoPoint}]
    /\ cursor \in [Seqs -> Nat]
    /\ done \subseteq Seqs
    /\ inbox \subseteq Users \X Seqs
    /\ purged \subseteq Points

Init ==
    /\ seq = 0
    /\ active = [p \in Points |-> {}]
    /\ intervals = {}
    /\ notice = [n \in Seqs |-> NoPoint]
    /\ cursor = [n \in Seqs |-> 0]
    /\ done = {}
    /\ inbox = {}
    /\ purged = {}

Posted == {n \in Seqs : notice[n] # NoPoint}

-----------------------------------------------------------------------------
(* Fault: only those who still support the point are looked up. *)
CoversWhileOpen(i, n) == i.point = notice[n] /\ i.start <= n /\ i.end = Open

(* Fault: whoever joined later reads the notice too. *)
CoversLatecomers(i, n) == i.point = notice[n] /\ (i.end = Open \/ i.end >= n)

Covers(i, n) ==
    /\ i.point = notice[n]
    /\ i.start <= n
    /\ i.end = Open \/ i.end >= n

Audience(n) == {u \in Users : \E i \in intervals : i.user = u /\ Covers(i, n)}

(* Events of a transaction: its change, then perhaps a decided proposal. *)
Emit(p, closes) ==
    /\ seq + 1 <= MaxSeq
    /\ IF closes
       THEN /\ seq + 2 <= MaxSeq
            /\ seq' = seq + 2
            /\ notice' = [notice EXCEPT ![seq + 2] = p]
       ELSE /\ seq' = seq + 1
            /\ notice' = notice

Joined(u, p) == [user |-> u, point |-> p, start |-> seq + 1, end |-> Open]

Ended(i, u, p) ==
    IF i.user = u /\ i.point = p /\ i.end = Open THEN [i EXCEPT !.end = seq + 1] ELSE i

(* _set_support(active=True) of someone without an active subscription,    *)
(* from a subscription or a vote; its re-evaluation may close a proposal.  *)
Subscribe(u, p, closes) ==
    /\ p \notin purged
    /\ u \notin active[p]
    /\ Emit(p, closes)
    /\ active' = [active EXCEPT ![p] = @ \cup {u}]
    /\ intervals' = intervals \cup {Joined(u, p)}
    /\ UNCHANGED <<cursor, done, inbox, purged>>

(* _set_support(active=False), from a withdrawal or a block. *)
Unsubscribe(u, p, closes) ==
    /\ u \in active[p]
    /\ Emit(p, closes)
    /\ active' = [active EXCEPT ![p] = @ \ {u}]
    /\ intervals' = {Ended(i, u, p) : i \in intervals}
    /\ UNCHANGED <<cursor, done, inbox, purged>>

(* Any other notify event: a proposal opened, or closed by the worker or   *)
(* by a vote of a subscriber.                                              *)
Announce(p) ==
    /\ p \notin purged
    /\ seq + 1 <= MaxSeq
    /\ seq' = seq + 1
    /\ notice' = [notice EXCEPT ![seq + 1] = p]
    /\ UNCHANGED <<active, intervals, cursor, done, inbox, purged>>

(* purge.sweep: subscriptions end, their intervals and notices stay. *)
Purge(p) ==
    /\ p \notin purged
    /\ seq + 1 <= MaxSeq
    /\ seq' = seq + 1
    /\ active' = [active EXCEPT ![p] = {}]
    /\ purged' = purged \cup {p}
    /\ UNCHANGED <<intervals, notice, cursor, done, inbox>>

-----------------------------------------------------------------------------
Pending == Posted \ done

(* WHERE NOT fanout_done ORDER BY seq LIMIT limit *)
Served(N) ==
    /\ N \subseteq Pending
    /\ \A n \in N, m \in Pending \ N : n < m
    /\ Cardinality(N) = Limit \/ (N = Pending /\ Cardinality(N) < Limit)

(* Fault: the page begins with the person served last. *)
RestInclusive(n) == {u \in Audience(n) : u >= cursor[n]}

Rest(n) == {u \in Audience(n) : u > cursor[n]}

(* ORDER BY user_id LIMIT 50 *)
IsBatch(R, n) ==
    /\ R \subseteq Rest(n)
    /\ \A u \in R, v \in Rest(n) \ R : u < v
    /\ Cardinality(R) = Batch \/ (R = Rest(n) /\ Cardinality(R) < Batch)

LastOf(c, R, n) == IF R = {} THEN c = cursor[n] ELSE c \in R /\ \A u \in R : u <= c

(* One page of each notice of N. *)
Serve(N, page, last) ==
    /\ \A n \in N : IsBatch(page[n], n) /\ LastOf(last[n], page[n], n)
    /\ inbox' = inbox \cup {x \in Users \X N : x[1] \in page[x[2]]}
    /\ cursor' = [n \in Seqs |-> IF n \in N THEN last[n] ELSE cursor[n]]
    /\ done' = done \cup {n \in N : Cardinality(page[n]) < Batch}
    /\ UNCHANGED <<seq, active, intervals, notice, purged>>

(* _deliver *)
Deliver ==
    \E N \in SUBSET Pending :
        /\ N # {} /\ Served(N)
        /\ \E page \in [N -> SUBSET Users], last \in [N -> {0} \cup Users] :
               Serve(N, page, last)

Next ==
    \/ \E u \in Users, p \in Points, closes \in BOOLEAN :
        Subscribe(u, p, closes) \/ Unsubscribe(u, p, closes)
    \/ \E p \in Points : Announce(p) \/ Purge(p)
    \/ Deliver

Spec == Init /\ [][Next]_vars /\ WF_vars(Deliver)

-----------------------------------------------------------------------------
Owed == {x \in Users \X Posted : x[1] \in Audience(x[2])}

(* Joining, leaving and purges between two pages move nobody in or out of  *)
(* the audience of a posted notice, which is the set of subscribers at its *)
(* moment; only owed notices arrive (_deliver's interval query).           *)
Promise == INSTANCE Mailbox WITH
    members <- active, owed <- Owed, inbox <- inbox, Notices <- Seqs

Implements == Promise!Spec

(* A notice marked as delivered has reached its whole audience: no page    *)
(* skips a person, whichever ids joined or left between the pages.         *)
DoneIsDelivered == \A n \in done : \A u \in Audience(n) : <<u, n>> \in inbox

(* Up to the cursor everyone has been served, after it no one: a repeated  *)
(* pass after a restart continues there and serves nobody twice.           *)
CursorSeparates ==
    \A n \in Posted : \A u \in Audience(n) : u <= cursor[n] <=> <<u, n>> \in inbox

(* A live subscription of a point that is not purged is exactly an         *)
(* interval without an end (_set_support, _subscription).                  *)
IntervalsMatch ==
    \A p \in Points \ purged, u \in Users :
        u \in active[p] <=> \E i \in intervals : i.user = u /\ i.point = p /\ i.end = Open

(* Everyone who supported a point when its notice was posted receives it.  *)
AllDelivered == \A n \in Seqs, u \in Users : <<u, n>> \in Owed ~> <<u, n>> \in inbox
=============================================================================
