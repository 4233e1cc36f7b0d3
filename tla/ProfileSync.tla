---------------------------- MODULE ProfileSync ----------------------------
(***************************************************************************)
(* The exchange of preferences over an active link between an account of   *)
(* server A, which asks, and an account of server B, which answers         *)
(* (node06_service/profile_sync, profile_preferences).  A's worker and A's *)
(* owner start steps; a step is a transaction at A, one at B and a second  *)
(* one at A.  Each side keeps one record a key, stamped with a hybrid      *)
(* clock; pages of records travel both ways until both sides are through,  *)
(* and then from the beginning.                                            *)
(*                                                                         *)
(* Keys are numbers in the order of (kind, origin, point_id).  A value is  *)
(* 0 for a tombstone.  (clock, writer) stands for the version: event_id    *)
(* and writer_user_id add nothing between two accounts.                    *)
(***************************************************************************)
EXTENDS Integers, FiniteSets

CONSTANTS
    A, B,
    Keys,           \* numbers from 1 up
    Kind,           \* of each key
    Home,           \* the server each key's point is of
    Old,            \* what each account had set before the feature: records or None
    Skew,           \* by how much each server's clock is fast
    Ahead,          \* how far in the future a record may be stamped
    Forth, Back,    \* kinds A may send and kinds B may send, by consent
    Choices,        \* settings the owners choose from
    PageSize,
    Threads, Worker,    \* steps at A; the worker's one
    MaxEdits, MaxStalls,    \* bounds: changes by people, stalls of a process
    None

Sides == {A, B}
Kinds == {"color", "favorites", "subscriptions", "own_points"}
Values == {0, 1}
Stamp == Nat \ {0}
Record == [value: Values, clock: Stamp, writer: Sides]
Records == [Keys -> Record \cup {None}]
Setting == [enabled: BOOLEAN, send: SUBSET Kinds, receive: SUBSET Kinds]

ASSUME KeyAssumption ==
    /\ A # B /\ Keys \subseteq Nat \ {0} /\ IsFiniteSet(Keys)
    /\ Kind \in [Keys -> Kinds] /\ Home \in [Keys -> Sides]
    /\ PageSize \in Nat \ {0} /\ Worker \in Threads
    /\ None \notin Keys \cup Threads \cup Record
ASSUME ClockAssumption ==
    /\ Skew \in [Sides -> Nat] /\ Ahead \in Nat
    /\ Old \in [Sides -> Records]
    /\ \A s \in Sides, k \in Keys : Old[s][k] # None =>
          Old[s][k].writer = s /\ (Kind[k] = "color" \/ (Kind[k] # "own_points" /\ Home[k] = s))
ASSUME ConsentAssumption ==
    /\ Forth \subseteq Kinds /\ Back \subseteq Kinds /\ Choices \subseteq Setting

Own(s) == {k \in Keys : Kind[k] = "own_points" /\ Home[k] = s}
Sendable(s) == IF s = A THEN Forth ELSE Back
Receivable(s) == IF s = A THEN Back ELSE Forth

Account == [prefs: Records, tick: Nat, seeded: BOOLEAN]
Round == [gen: Nat, lease: Threads \cup {None}, lapsed: BOOLEAN,
          lcur: Keys \cup {0}, pcur: Keys \cup {0}, ldone: BOOLEAN, pdone: BOOLEAN]
Message == [send: SUBSET Kinds, receive: SUBSET Kinds, entries: Records, after: Keys \cup {0}]
Reply == [entries: Records, next: Keys \cup {0}]
Job == [gen: Nat, lnext: Keys \cup {0}, message: Message, reply: Reply \cup {None}]

ASSUME NoRecordAssumption == None \notin Job \cup Reply \cup Message \cup [Sides -> Records]

VARIABLES
    db,         \* profile_preferences and profile_preference_state of each account
    shown,      \* the authors' points that are public at their home
    live,       \* the servers on which the link is active and not expired
    setting,    \* sync_enabled, sync_send, sync_receive on each side
    round,      \* the cursors, the lease and the generation at A
    job,        \* what each step at A carries between its transactions
    late,       \* a request that reaches B when A no longer waits for it
    base,       \* history: what each side had when the round began, or None
    edits, stalls

vars == <<db, shown, live, setting, round, job, late, base, edits, stalls>>

(* A side that is through waits for the other with an empty cursor, and    *)
(* only a lease that is held can have run out.                             *)
TypeOK ==
    /\ db \in [Sides -> Account]
    /\ shown \subseteq Own(A) \cup Own(B)
    /\ live \subseteq Sides
    /\ setting \in [Sides -> Setting]
    /\ round \in Round
    /\ job \in [Threads -> Job \cup {None}]
    /\ late \in Message \cup {None}
    /\ base \in [Sides -> Records] \cup {None}
    /\ edits \in Nat /\ stalls \in Nat
    /\ round.ldone => round.lcur = 0
    /\ round.pdone => round.pcur = 0
    /\ ~(round.ldone /\ round.pdone)
    /\ round.lapsed => round.lease # None

-----------------------------------------------------------------------------
(* Records and clocks. *)

Larger(x, y) == IF x > y THEN x ELSE y

(* The wall clock of a server; it stands still, all changes are of one instant. *)
Wall(s) == 1 + Skew[s]

(* Fault: only the clocks are compared. *)
NewerByClock(r, q) == r.clock > q.clock

Newer(r, q) ==
    \/ r.clock > q.clock
    \/ r.clock = q.clock /\ r.writer = B /\ q.writer = A

NextStamp(s, tick) == Larger(tick + 1, Wall(s))

(* node06_profile_put: the same value again is no change. *)
Put(d, s, k, v) ==
    IF d.prefs[k] # None /\ d.prefs[k].value = v THEN d
    ELSE LET t == NextStamp(s, d.tick)
         IN  [d EXCEPT !.tick = t, !.prefs[k] = [value |-> v, clock |-> t, writer |-> s]]

(* Records from before the feature, unless there is a newer one already. *)
Missing(d, s) == IF d.seeded THEN {} ELSE {k \in Keys : d.prefs[k] = None /\ Old[s][k] # None}

Raised(tick, entries, S) ==
    CHOOSE t \in {tick} \cup {entries[k].clock : k \in S} :
        t >= tick /\ \A k \in S : t >= entries[k].clock

Baselined(d, s) ==
    LET new == Missing(d, s)
    IN  [prefs |-> [k \in Keys |-> IF k \in new THEN Old[s][k] ELSE d.prefs[k]],
         tick |-> Raised(d.tick, Old[s], new), seeded |-> TRUE]

(* Own points that appeared or went out of sight since the last look. *)
Shifted(d, s) ==
    {k \in Own(s) : IF d.prefs[k] = None THEN k \in shown
                    ELSE d.prefs[k].value # (IF k \in shown THEN 1 ELSE 0)}

(* A put for each of them. *)
Refreshed(d, s) ==
    LET S == Shifted(d, s)
        Clock(k) == NextStamp(s, d.tick) + Cardinality({x \in S : x < k})
    IN  IF S = {} THEN d
        ELSE [d EXCEPT !.tick = NextStamp(s, d.tick) + Cardinality(S) - 1,
                       !.prefs = [k \in Keys |->
                           IF k \in S THEN [value |-> IF k \in shown THEN 1 ELSE 0,
                                            clock |-> Clock(k), writer |-> s]
                           ELSE d.prefs[k]]]

Seeded(d, s) == Refreshed(Baselined(d, s), s)

-----------------------------------------------------------------------------
(* Pages. *)

Rest(d, scopes, after) == {k \in Keys : k > after /\ Kind[k] \in scopes /\ d.prefs[k] # None}
PageKeys(d, scopes, after) ==
    LET S == Rest(d, scopes, after) IN {k \in S : Cardinality({x \in S : x < k}) < PageSize}

Page(d, scopes, after) ==
    [k \in Keys |-> IF k \in PageKeys(d, scopes, after) THEN d.prefs[k] ELSE None]

(* The last key of the page, 0 if nothing is left behind it. *)
Cursor(d, scopes, after) ==
    LET S == PageKeys(d, scopes, after)
    IN  IF S = Rest(d, scopes, after) THEN 0 ELSE CHOOSE k \in S : \A x \in S : x <= k

Empty == [k \in Keys |-> None]

(* A page with a stamp too far ahead is refused as a whole. *)
Acceptable(s, entries) ==
    \A k \in Keys : entries[k] # None => entries[k].clock <= Wall(s) + Ahead

(* Its own subscriptions and points a server knows better. *)
Kept(s, k) == Kind[k] \in {"subscriptions", "own_points"} /\ Home[k] = s

(* Fault: what arrives last wins. *)
AppliesAny(d, s, entries, scopes) ==
    {k \in Keys : entries[k] # None /\ Kind[k] \in scopes /\ ~Kept(s, k)}

Applies(d, s, entries, scopes) ==
    {k \in Keys : /\ entries[k] # None /\ Kind[k] \in scopes /\ ~Kept(s, k)
                  /\ d.prefs[k] = None \/ Newer(entries[k], d.prefs[k])}

(* profile_preferences.apply *)
Applied(d, s, entries, scopes) ==
    LET S == Applies(d, s, entries, scopes)
    IN  [d EXCEPT !.prefs = [k \in Keys |-> IF k \in S THEN entries[k] ELSE d.prefs[k]],
                  !.tick = Raised(d.tick, entries, S)]

-----------------------------------------------------------------------------
Fresh(gen) == [gen |-> gen, lease |-> None, lapsed |-> FALSE,
               lcur |-> 0, pcur |-> 0, ldone |-> FALSE, pdone |-> FALSE]

Init ==
    /\ db = [s \in Sides |-> [prefs |-> Empty, tick |-> 0, seeded |-> FALSE]]
    /\ shown = {}
    /\ live = Sides
    /\ setting = [s \in Sides |->
                    [enabled |-> TRUE, send |-> Sendable(s), receive |-> Receivable(s)]]
    /\ round = Fresh(0)
    /\ job = [t \in Threads |-> None]
    /\ late = None
    /\ base = None
    /\ edits = 0 /\ stalls = 0

Edited(s, d) ==
    /\ edits < MaxEdits /\ edits' = edits + 1
    /\ db' = [db EXCEPT ![s] = d]
    /\ UNCHANGED <<shown, live, setting, round, job, late, base, stalls>>

(* What the account has set, recorded or not. *)
Present(s, k) ==
    IF db[s].prefs[k] # None THEN db[s].prefs[k].value
    ELSE IF Old[s][k] # None /\ ~db[s].seeded THEN Old[s][k].value ELSE 0

(* The triggers on favourites, subscriptions and geometry. *)
Native(s, k) ==
    /\ Kind[k] = "color" \/ (Kind[k] # "own_points" /\ Home[k] = s)
    /\ Edited(s, Put(db[s], s, k, 1 - Present(s, k)))

(* A bookmark of a point of any server. *)
Favorite(s, k) ==
    /\ Kind[k] = "favorites"
    /\ LET d == Seeded(db[s], s)
       IN  Edited(s, Put(d, s, k, 1 - (IF d.prefs[k] = None THEN 0 ELSE d.prefs[k].value)))

(* The lists of the profile page are brought up to date first. *)
Look(s) ==
    /\ db' = [db EXCEPT ![s] = Seeded(db[s], s)]
    /\ UNCHANGED <<shown, live, setting, round, job, late, base, edits, stalls>>

(* A point is published, hidden or restored at home; nothing is recorded. *)
Show(k) ==
    /\ Kind[k] = "own_points"
    /\ edits < MaxEdits /\ edits' = edits + 1
    /\ shown' = IF k \in shown THEN shown \ {k} ELSE shown \cup {k}
    /\ UNCHANGED <<db, live, setting, round, job, late, base, stalls>>

(* Pausing, resuming and changing scopes within the consent; a round that  *)
(* is under way at A starts again, one that B filters promises nothing.    *)
Settings(s, c) ==
    /\ c.send \subseteq Sendable(s) /\ c.receive \subseteq Receivable(s)
    /\ edits < MaxEdits /\ edits' = edits + 1
    /\ setting' = [setting EXCEPT ![s] = c]
    /\ round' = IF s = A THEN Fresh(round.gen + 1) ELSE round
    /\ base' = IF s = A THEN None
               ELSE IF base = None THEN None ELSE [x \in Sides |-> Empty]
    /\ UNCHANGED <<db, shown, live, job, late, stalls>>

(* Revoked or expired, for good. *)
End(s) ==
    /\ s \in live /\ live' = live \ {s}
    /\ UNCHANGED <<db, shown, setting, round, job, late, base, edits, stalls>>

-----------------------------------------------------------------------------
(* A step at A. *)

Live(s) == s \in live /\ setting[s].enabled

LeaseFree == round.lease = None \/ round.lapsed

Start(t) ==
    /\ job[t] = None /\ Live(A) /\ LeaseFree
    /\ \E d \in {Seeded(db[A], A)} :
        /\ db' = [db EXCEPT ![A] = d]
        /\ job' = [job EXCEPT ![t] =
              [gen |-> round.gen, reply |-> None,
               lnext |-> IF round.ldone THEN 0 ELSE Cursor(d, setting[A].send, round.lcur),
               message |->
                  [send |-> setting[A].send,
                   receive |-> IF round.pdone THEN {} ELSE setting[A].receive,
                   entries |-> IF round.ldone THEN Empty ELSE Page(d, setting[A].send, round.lcur),
                   after |-> round.pcur]]]
        /\ base' = IF round = [Fresh(round.gen) EXCEPT !.lease = round.lease, !.lapsed = round.lapsed]
                   THEN [s \in Sides |-> IF s = A THEN d.prefs ELSE db[B].prefs] ELSE base
    /\ round' = [round EXCEPT !.lease = t, !.lapsed = FALSE]
    /\ UNCHANGED <<shown, live, setting, late, edits, stalls>>

(* ProfileSync.receive, for a request that A waits for or not. *)
Received(m) ==
    Applied(Seeded(db[B], B), B, m.entries, m.send \cap setting[B].receive)

Welcome(m) ==
    /\ Live(B)
    /\ m.send \subseteq Receivable(B) /\ m.receive \subseteq Sendable(B)
    /\ Acceptable(B, [k \in Keys |-> IF Kind[k] \in setting[B].receive
                                     THEN m.entries[k] ELSE None])

Receive(t) ==
    /\ job[t] # None /\ job[t].reply = None
    /\ Welcome(job[t].message)
    /\ LET m == job[t].message
           d == Received(m)
           out == m.receive \cap setting[B].send
       IN  /\ db' = [db EXCEPT ![B] = d]
           /\ job' = [job EXCEPT ![t].reply = [entries |-> Page(d, out, m.after),
                                               next |-> Cursor(d, out, m.after)]]
    /\ UNCHANGED <<shown, live, setting, round, late, base, edits, stalls>>

ReceiveLate ==
    /\ late # None /\ late' = None
    /\ Welcome(late)
    /\ db' = [db EXCEPT ![B] = Received(late)]
    /\ UNCHANGED <<shown, live, setting, round, job, base, edits, stalls>>

(* Fault: only the settings are compared. *)
StillMineBySettings(t) == job[t].gen = round.gen

(* Fault: an answer is an answer. *)
StillMineAlways(t) == TRUE

StillMine(t) == job[t].gen = round.gen /\ round.lease = t

Advanced(ldone, pdone, lnext, pnext) ==
    IF ldone /\ pdone THEN Fresh(round.gen)
    ELSE [round EXCEPT !.lease = None, !.lapsed = FALSE,
                       !.lcur = lnext, !.pcur = pnext, !.ldone = ldone, !.pdone = pdone]

Finish(t) ==
    /\ job[t] # None /\ job[t].reply # None
    /\ Live(A) /\ StillMine(t)
    /\ Acceptable(A, job[t].reply.entries)
    /\ LET j == job[t]
       IN  /\ db' = [db EXCEPT ![A] = Applied(db[A], A, j.reply.entries, j.message.receive)]
           /\ round' = Advanced(j.lnext = 0, j.reply.next = 0, j.lnext, j.reply.next)
           /\ base' = IF j.lnext = 0 /\ j.reply.next = 0 THEN None ELSE base
    /\ job' = [job EXCEPT ![t] = None]
    /\ UNCHANGED <<shown, live, setting, late, edits, stalls>>

(* The request may still be on its way when A has given it up. *)
GivenUp(t) ==
    /\ job[t] # None
    /\ job' = [job EXCEPT ![t] = None]
    /\ late' \in {late} \cup (IF job[t].reply = None THEN {job[t].message} ELSE {})

(* No answer in time, a refusal there or here, a late answer: the cursors  *)
(* stay, and the lease ends if it is this step's.                          *)
Fail(t) ==
    /\ GivenUp(t)
    /\ round' = IF round.lease = t
                THEN [round EXCEPT !.lease = None, !.lapsed = FALSE] ELSE round
    /\ UNCHANGED <<db, shown, live, setting, base, edits, stalls>>

(* The process ends; the lease stays behind. *)
Crash(t) ==
    /\ GivenUp(t)
    /\ UNCHANGED <<db, shown, live, setting, round, base, edits, stalls>>

(* The lease outlasts the network's deadline by 30 seconds: it runs out    *)
(* under a living step only if the process stalls.                         *)
Lapse ==
    /\ round.lease # None /\ ~round.lapsed
    /\ \/ job[round.lease] = None /\ stalls' = stalls
       \/ job[round.lease] # None /\ stalls < MaxStalls /\ stalls' = stalls + 1
    /\ round' = [round EXCEPT !.lapsed = TRUE]
    /\ UNCHANGED <<db, shown, live, setting, job, late, base, edits>>

-----------------------------------------------------------------------------
OwnerStep(s) ==
    \/ \E k \in Keys : Native(s, k) \/ Favorite(s, k)
    \/ Look(s)
    \/ \E c \in Choices : Settings(s, c)
    \/ End(s)

ExchangeStep(t) == Start(t) \/ Receive(t) \/ Finish(t) \/ Fail(t) \/ Crash(t)

Next ==
    \/ \E s \in Sides : OwnerStep(s)
    \/ \E k \in Keys : Show(k)
    \/ \E t \in Threads : ExchangeStep(t)
    \/ ReceiveLate \/ Lapse

(* The worker looks every two seconds; the network, the other server and   *)
(* the process do not fail every time; every step ends by its deadline and *)
(* leases run out.                                                         *)
Fairness ==
    /\ SF_vars(Start(Worker)) /\ SF_vars(Receive(Worker)) /\ SF_vars(Finish(Worker))
    /\ \A t \in Threads : WF_vars(Finish(t) \/ Fail(t) \/ Crash(t))
    /\ WF_vars(Lapse)

Spec == Init /\ [][Next]_vars /\ Fairness

-----------------------------------------------------------------------------
(* Side s has at least what r had, for key k. *)
AtLeast(r, q) == q = None \/ (r # None /\ ~Newer(q, r))

(* No stamp given later is behind one that has been seen, whatever the     *)
(* clocks of the servers show (node06_profile_put, apply).                 *)
ClockCovers ==
    \A s \in Sides, k \in Keys : db[s].prefs[k] # None => db[s].prefs[k].clock <= db[s].tick

(* A record is only ever replaced by a newer one, on either side, by local *)
(* changes as by late, repeated or overtaken pages: a local change made    *)
(* after a remote one was seen is not lost to it.                          *)
VersionsForward ==
    [][\A s \in Sides, k \in Keys : db'[s].prefs[k] # db[s].prefs[k] =>
          db[s].prefs[k] = None \/ Newer(db'[s].prefs[k], db[s].prefs[k])]_vars

(* What the other account wrote enters A's records only while A's link is  *)
(* active, enabled and set to receive that kind, however late the answer   *)
(* comes (ProfileSync.step after the transport).                           *)
ConsentAtApply ==
    [][\A k \in Keys :
          /\ db'[A].prefs[k] # db[A].prefs[k] /\ db'[A].prefs[k] # None
          /\ db'[A].prefs[k].writer = B
          => Live(A) /\ Kind[k] \in setting[A].receive]_vars

(* A round that ends has carried everything both sides had when it began,  *)
(* though pages were repeated, steps overlapped or records moved meanwhile *)
(* (the cursors and flags of step).                                        *)
RoundDelivers ==
    [][base # None /\ base' = None /\ round'.gen = round.gen =>
          \A k \in Keys :
              /\ Kind[k] \in Forth \cap setting[A].send \cap setting[B].receive
                    => AtLeast(db'[B].prefs[k], base[A][k])
              /\ Kind[k] \in Back \cap setting[B].send \cap setting[A].receive
                    => AtLeast(db'[A].prefs[k], base[B][k])]_vars

(* Everything is allowed and no stamp is too far ahead. *)
Sharing ==
    /\ Live(A) /\ Live(B)
    /\ \A s \in Sides : setting[s].send = Sendable(s) /\ setting[s].receive = Receivable(s)
    /\ Acceptable(A, db[B].prefs) /\ Acceptable(B, db[A].prefs)

Converged ==
    \A k \in Keys :
        /\ Kind[k] \in Forth => AtLeast(db[B].prefs[k], db[A].prefs[k])
        /\ Kind[k] \in Back => AtLeast(db[A].prefs[k], db[B].prefs[k])
        /\ Kind[k] \in Forth \cap Back => db[A].prefs[k] = db[B].prefs[k]
        /\ k \in shown /\ Kind[k] \in Sendable(Home[k])
               => \A s \in Sides : db[s].prefs[k] # None /\ db[s].prefs[k].value = 1

(* Two accounts that stay linked have the same records again and again,    *)
(* tombstones and withdrawn posts included, whatever is lost, repeated,    *)
(* late or edited in between (profile_sync_worker.run).                    *)
Convergence == []<>(Sharing => Converged)
=============================================================================
