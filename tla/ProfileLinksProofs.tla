------------------------- MODULE ProfileLinksProofs -------------------------
(***************************************************************************)
(* Proofs about ProfileLinks, for any servers, rows, threads and periods   *)
(* in which an invitation lives no longer than a grant.                    *)
(*                                                                         *)
(* Rows are never used twice and their status only goes on, so an          *)
(* invitation is confirmed once, by one thread, with one code, and all     *)
(* that is ever said of its grant names the same row.  Rows are deleted    *)
(* long after they expired.  A link expires with its grant, up to the life *)
(* of an invitation: neither is deleted while the other is of use.         *)
(***************************************************************************)
EXTENDS ProfileLinks, TLAPS

Existed(l) == links[l] # Unused

(* g was granted to the invitation l, and still is if its row is there. *)
Names(l, g) ==
    /\ l \in Links /\ Existed(l) /\ g \in Links /\ Existed(g)
    /\ Known(g) => Inbound(g) /\ links[g].granted /\ links[g].remote = l

Dead(g) == Known(g) => links[g].status = "revoked" \/ links[g].expires <= now

Mirrored(g, l) ==
    /\ Outbound(l)
    /\ links[g].at = links[l].peer /\ links[g].peer = links[l].at
    /\ links[g].consent = Mirror(links[l].consent)

InboundOK(g) == Inbound(g) =>
    /\ links[g].control = NoLink /\ links[g].status # "exchanging"
    /\ links[g].status = "pending" => ~links[g].granted
    /\ links[g].status = "active" => links[g].granted
    /\ links[g].remote \in Links /\ Existed(links[g].remote)
    /\ Known(links[g].remote) =>
        /\ Mirrored(g, links[g].remote)
        /\ links[g].granted => links[links[g].remote].status # "pending"

YoungOK(l) == Outbound(l) /\ links[l].status \in {"pending", "exchanging"} =>
    links[l].control = NoLink /\ links[l].expires <= now + Pending

(* A stored token is that of the grant, and stays until the grant expires. *)
ControlOK(l) == Known(l) /\ links[l].control # NoLink =>
    LET g == links[l].control
    IN  Names(l, g) /\ (Known(g) => links[g].expires <= links[l].expires + Lifetime)

ActiveOK(l) == Outbound(l) /\ links[l].status = "active" =>
    LET g == links[l].control
    IN  /\ g # NoLink /\ links[l].remote = g
        /\ Known(g) => links[l].expires <= links[g].expires + Pending
        /\ ~Known(g) => links[l].expires <= now

OneGrant ==
    \A g, h \in Links :
        Inbound(g) /\ Inbound(h) /\ links[g].granted /\ links[h].granted
        /\ links[g].remote = links[h].remote => g = h

RowsOK ==
    /\ \A l \in Links : InboundOK(l) /\ YoungOK(l) /\ ControlOK(l) /\ ActiveOK(l)
    /\ OneGrant

(* A thread that waits for an answer. *)
WaitsFor(r) ==
    LET t == task[r.by]
    IN  /\ t # Idle /\ t.link = r.link /\ t.grant = r.grant
        /\ t.at \in IF r.op = "revoke" THEN {"undoing", "telling"} ELSE {"asking"}

TokenOK(r) ==
    /\ Existed(r.link)
    /\ Known(r.link) => Outbound(r.link) /\ links[r.link].status # "pending"
    /\ Existed(r.grant)
    /\ Known(r.grant) => Inbound(r.grant) /\ links[r.grant].remote = r.link
    /\ \A g \in Links : Inbound(g) /\ links[g].granted /\ links[g].remote = r.link => g = r.grant
    /\ r.by # NoThread => /\ Known(r.link)
                          /\ now < links[r.link].expires
                          /\ links[r.link].expires <= now + Pending

(* An active link that was asked about has had the same grant ever since. *)
SameGrant(l, g) == Known(l) =>
    /\ links[l].status \in {"active", "revoked"}
    /\ links[l].status = "active" => links[l].control = g

RequestOK(r) ==
    /\ r.by # NoThread => WaitsFor(r)
    /\ r.op = "token" => TokenOK(r)
    /\ r.op # "token" => Names(r.link, r.grant)
    /\ r.op = "status" => SameGrant(r.link, r.grant)

WireOK ==
    /\ \A r \in wire : RequestOK(r)
    /\ \A r, q \in wire :
        /\ r.by = q.by /\ r.by # NoThread => r = q
        /\ r.op = "token" /\ q.op = "token" /\ r.link = q.link => r.grant = q.grant

Asks(w, op) == \E r \in wire : r.by = w /\ r.op = op
HeldStages == {"answered", "undoing", "undone", "kept"}

(* The thread is confirming an invitation. *)
Confirms(w) ==
    task[w] # Idle /\ (task[w].at \in HeldStages \cup {"failed"} \/ Asks(w, "token"))

(* Between the expiry of an invitation that is being confirmed and that of *)
(* its grant there is a lifetime, up to the life of an invitation.         *)
Timely(l, g) ==
    /\ Known(l) /\ Known(g) => /\ links[g].expires <= links[l].expires + Lifetime
                               /\ links[l].expires + Lifetime <= links[g].expires + Pending
    /\ Known(l) /\ ~Known(g) => links[l].expires <= now
    /\ ~Known(l) /\ Known(g) => links[g].expires <= now

InsertOK(w) == Waiting(w, "insert") =>
    Existed(task[w].link) /\ (Known(task[w].link) => Outbound(task[w].link))

NamesOK(w) ==
    task[w] # Idle /\ task[w].at \in HeldStages \cup {"telling", "told", "inactive"} =>
        Names(task[w].link, task[w].grant)

ConfirmOK(w) == Confirms(w) =>
    LET l == task[w].link
    IN  /\ Existed(l)
        /\ Known(l) => /\ Outbound(l) /\ links[l].status \in {"exchanging", "revoked"}
                       /\ links[l].control = NoLink
        /\ task[w].at \in HeldStages => Timely(l, task[w].grant)

EndedOK(w) == task[w] # Idle =>
    /\ task[w].at \in {"undone", "told", "inactive"} => Dead(task[w].grant)
    /\ task[w].at = "inactive" => SameGrant(task[w].link, task[w].grant)

TellingOK(w) == task[w] # Idle /\ task[w].at \in {"telling", "told"} =>
    LET l == task[w].link
    IN  /\ Known(l) => /\ links[l].status = "revoked"
                       /\ links[l].control \in {task[w].grant, NoLink}
        /\ \A x \in Threads : Confirms(x) => task[x].link # l

TasksOK ==
    /\ \A w \in Threads : InsertOK(w) /\ NamesOK(w) /\ ConfirmOK(w) /\ EndedOK(w) /\ TellingOK(w)
    /\ \A w, x \in Threads : Confirms(w) /\ Confirms(x) /\ task[w].link = task[x].link => w = x

IInv == TypeOK /\ RowsOK /\ WireOK /\ TasksOK /\ GrantAccounted

-----------------------------------------------------------------------------
LEMMA Initially == Init => IInv
BY NoValueAssumption, PeriodsAssumption
   DEF Init, IInv, TypeOK, RowsOK, WireOK, TasksOK, GrantAccounted, InboundOK, YoungOK,
       ControlOK, ActiveOK, OneGrant, InsertOK, NamesOK, ConfirmOK, EndedOK, TellingOK,
       Confirms, Asks, Waiting, Inbound, Outbound, Known, Live

LEMMA NewRowTyped ==
    ASSUME TypeOK, NEW s \in Servers, NEW p \in Servers, NEW out \in BOOLEAN,
           NEW consent \in [send : BOOLEAN, receive : BOOLEAN]
    PROVE  NewRow(s, p, out, consent) \in Row
BY PeriodsAssumption DEF TypeOK, NewRow, Row

LEMMA Settings ==
    ASSUME NEW consent \in [send : BOOLEAN, receive : BOOLEAN]
    PROVE  Mirror(consent) \in [send : BOOLEAN, receive : BOOLEAN] /\ Shares(consent) \in BOOLEAN
BY DEF Mirror, Shares

LEMMA KnownRows ==
    ASSUME TypeOK, NEW l \in Links, Known(l)
    PROVE  /\ links[l] \in Row
           /\ links[l].at \in Servers /\ links[l].peer \in Servers
           /\ links[l].outbound \in BOOLEAN
           /\ links[l].expires \in Nat
           /\ links[l].remote \in Links \cup {NoLink}
           /\ links[l].control \in Links \cup {NoLink}
           /\ links[l].consent \in [send : BOOLEAN, receive : BOOLEAN]
           /\ links[l].status \in {"pending", "exchanging", "active", "revoked"}
BY DEF TypeOK, Known, Row

LEMMA Tasks ==
    ASSUME TypeOK, NEW w \in Threads, task[w] # Idle
    PROVE  /\ task[w] \in Task
           /\ task[w].link \in Links /\ task[w].grant \in Links \cup {NoLink}
           /\ task[w].at \in Stages
           /\ \A stage \in Stages : [task[w] EXCEPT !.at = stage] \in Task
BY DEF TypeOK, Task

LEMMA Requests ==
    ASSUME TypeOK, NEW r \in wire
    PROVE  /\ r \in Request
           /\ r.op \in {"token", "status", "revoke"} /\ r.link \in Links /\ r.grant \in Links
           /\ r.by \in Threads \cup {NoThread}
           /\ r = [op |-> r.op, link |-> r.link, grant |-> r.grant, by |-> r.by]
BY DEF TypeOK, Request

LEMMA PrunedTyped ==
    ASSUME TypeOK, NEW s
    PROVE  Pruned(s) \in [Links -> Row \cup {Unused, Gone}]
BY DEF TypeOK, Pruned

LEMMA AskTyped ==
    ASSUME TypeOK, NEW w \in Threads, NEW op \in {"token", "status", "revoke"},
           NEW l \in Links, NEW g \in Links, NEW stage \in Stages, Ask(w, op, l, g, stage)
    PROVE  task' \in [Threads -> Task \cup {Idle}] /\ wire' \subseteq Request
<1>1. [link |-> l, grant |-> g, at |-> stage] \in Task
  BY DEF Task
<1>2. [op |-> op, link |-> l, grant |-> g, by |-> w] \in Request
  BY DEF Request
<1>. QED
  BY <1>1, <1>2 DEF TypeOK, Ask

LEMMA StageTyped ==
    ASSUME TypeOK, NEW w \in Threads, NEW stage \in Stages, task[w] # Idle
    PROVE  Stage(w, stage) \in [Threads -> Task \cup {Idle}]
BY Tasks DEF Stage, TypeOK

LEMMA LeftBehindTyped ==
    ASSUME TypeOK, NEW w \in Threads
    PROVE  LeftBehind(w) \subseteq Request
<1>1. \A r \in wire : [r EXCEPT !.by = NoThread] \in Request
  BY DEF TypeOK, Request
<1>. QED
  BY <1>1 DEF LeftBehind, RequestOf, TypeOK

LEMMA RevokedRow ==
    ASSUME NEW w, NEW l, Revoke(w, l)
    PROVE  links' = [links EXCEPT ![l] =
                        [links[l] EXCEPT !.status = "revoked", !.enabled = FALSE, !.offer = FALSE,
                                         !.dataKey = links[l].dataKey /\ ~links[l].outbound,
                                         !.pending = (links[l].control # NoLink)]]
BY Zenon DEF Revoke

LEMMA RevokedTyped ==
    ASSUME NEW row \in Row, NEW key \in BOOLEAN, NEW told \in BOOLEAN
    PROVE  [row EXCEPT !.status = "revoked", !.enabled = FALSE, !.offer = FALSE,
                       !.dataKey = key, !.pending = told] \in Row
BY DEF Row

LEMMA Waiters ==
    ASSUME IInv, NEW r \in wire, r.by # NoThread
    PROVE  r.by \in Threads /\ task[r.by] # Idle
BY Requests DEF IInv, WireOK, RequestOK, WaitsFor

LEMMA TypesStep ==
    ASSUME IInv, Next
    PROVE  TypeOK'
<1>. USE DEF IInv
<1>i. ASSUME NEW s \in Servers, NEW p \in Servers, NEW l \in Links, NEW c \in Consents,
             Invite(s, p, l, c)
      PROVE  TypeOK'
  <2>1. NewRow(s, p, TRUE, c) \in Row
    BY NewRowTyped, ConsentsAssumption
  <2>2. Pruned(s) \in [Links -> Row \cup {Unused, Gone}]
    BY PrunedTyped
  <2>. QED
    BY <1>i, <2>1, <2>2 DEF Invite, TypeOK
<1>in. ASSUME NEW w \in Threads, NEW l \in Links, Inspect(w, l)
       PROVE  TypeOK'
  <2>1. [link |-> l, grant |-> NoLink, at |-> "insert"] \in Task
    BY DEF Task, Stages
  <2>. QED
    BY <1>in, <2>1 DEF Inspect, TypeOK
<1>ap. ASSUME NEW w \in Threads, NEW g \in Links, Approve(w, g)
       PROVE  TypeOK'
  <2>. DEFINE meta == links[task[w].link]
              row == [NewRow(meta.peer, meta.at, FALSE, Mirror(meta.consent)) EXCEPT
                        !.remote = task[w].link]
  <2>1. task[w].link \in Links /\ Known(task[w].link)
    BY <1>ap, Tasks DEF Approve
  <2>2. meta.peer \in Servers /\ meta.at \in Servers
        /\ Mirror(meta.consent) \in [send : BOOLEAN, receive : BOOLEAN]
    BY <2>1, KnownRows, Settings
  <2>3. NewRow(meta.peer, meta.at, FALSE, Mirror(meta.consent)) \in Row
    BY <2>2, NewRowTyped
  <2>4. row \in Row
    BY <2>1, <2>3 DEF Row
  <2>5. Pruned(meta.peer) \in [Links -> Row \cup {Unused, Gone}]
    BY PrunedTyped
  <2>6. links' = [Pruned(meta.peer) EXCEPT ![g] = row] /\ task' = [task EXCEPT ![w] = Idle]
        /\ UNCHANGED <<wire, now, lost, escaped>>
    BY <1>ap DEF Approve
  <2>. HIDE DEF meta, row
  <2>. QED
    BY <2>4, <2>5, <2>6 DEF TypeOK
<1>re. ASSUME NEW w \in Threads, NEW l \in Links, Revoke(w, l)
       PROVE  TypeOK'
  <2>. DEFINE told == links[l].control # NoLink
              row == [links[l] EXCEPT !.status = "revoked", !.enabled = FALSE, !.offer = FALSE,
                                      !.dataKey = links[l].dataKey /\ ~links[l].outbound,
                                      !.pending = told]
  <2>0. Known(l) /\ links[l] \in Row /\ told \in BOOLEAN
        /\ (links[l].dataKey /\ ~links[l].outbound) \in BOOLEAN
    BY <1>re, KnownRows DEF Revoke
  <2>1. row \in Row
    BY <2>0, RevokedTyped
  <2>2. links' = [links EXCEPT ![l] = row]
    BY <1>re, RevokedRow
  <2>u. UNCHANGED <<now, lost, escaped>>
    BY <1>re DEF Revoke
  <2>3. CASE told
    <3>1. Ask(w, "revoke", l, links[l].control, "telling") /\ links[l].control \in Links
      BY <1>re, <2>3, KnownRows DEF Revoke
    <3>2. task' \in [Threads -> Task \cup {Idle}] /\ wire' \subseteq Request
      BY <3>1, AskTyped DEF Stages
    <3>. QED
      BY <2>1, <2>2, <2>u, <3>2 DEF TypeOK
  <2>4. CASE ~told
    BY <1>re, <2>1, <2>2, <2>u, <2>4 DEF TypeOK, Revoke
  <2>. QED
    BY <2>3, <2>4
<1>rf. ASSUME NEW w \in Threads, NEW l \in Links, Refresh(w, l)
       PROVE  TypeOK'
  <2>1. links[l].control \in Links
    BY <1>rf, KnownRows DEF Refresh, RowsOK, ActiveOK, Outbound
  <2>2. task' \in [Threads -> Task \cup {Idle}] /\ wire' \subseteq Request
    BY <1>rf, <2>1, AskTyped DEF Refresh, Stages
  <2>. QED
    BY <1>rf, <2>2 DEF Refresh, TypeOK
<1>co. ASSUME NEW w \in Threads, NEW l \in Links, NEW g \in Links, Confirm(w, l, g)
       PROVE  TypeOK'
  <2>1. [links[l] EXCEPT !.status = "exchanging"] \in Row
    BY <1>co, KnownRows DEF Confirm, Confirmable, Outbound, Row
  <2>2. task' \in [Threads -> Task \cup {Idle}] /\ wire' \subseteq Request
    BY <1>co, AskTyped DEF Confirm, Stages
  <2>. QED
    BY <1>co, <2>1, <2>2 DEF Confirm, TypeOK
<1>cp. ASSUME NEW w \in Threads, Complete(w)
       PROVE  TypeOK'
  <2>. DEFINE l == task[w].link
              g == task[w].grant
              row == [links[l] EXCEPT !.status = "active", !.remote = g, !.control = g,
                                      !.dataKey = Shares(links[l].consent),
                                      !.enabled = Shares(links[l].consent),
                                      !.offer = FALSE, !.expires = now + Lifetime]
  <2>1. l \in Links /\ g \in Links \cup {NoLink} /\ Known(l)
    BY <1>cp, Tasks DEF Complete, Waiting, Completable
  <2>a. links[l] \in Row /\ links[l].consent \in [send : BOOLEAN, receive : BOOLEAN]
    BY <2>1, KnownRows
  <2>b. Shares(links[l].consent) \in BOOLEAN /\ g \in Links \cup {NoLink} /\ now + Lifetime \in Nat
    BY <2>1, <2>a, Settings, PeriodsAssumption DEF TypeOK
  <2>2. row \in Row
    BY <2>a, <2>b DEF Row
  <2>3. links' = [links EXCEPT ![l] = row] /\ task' = [task EXCEPT ![w] = Idle]
        /\ UNCHANGED <<wire, now, lost, escaped>>
    BY <1>cp DEF Complete
  <2>. HIDE DEF l, row
  <2>. QED
    BY <2>2, <2>3 DEF TypeOK
<1>cm. ASSUME NEW w \in Threads, Compensate(w)
       PROVE  TypeOK'
  <2>1. task[w].link \in Links /\ task[w].grant \in Links
    BY <1>cm, Tasks DEF Compensate, Waiting, TasksOK, NamesOK, Names, HeldStages
  <2>2. task' \in [Threads -> Task \cup {Idle}] /\ wire' \subseteq Request
    BY <1>cm, <2>1, AskTyped DEF Compensate, Stages
  <2>. QED
    BY <1>cm, <2>2 DEF Compensate, TypeOK
<1>ab. ASSUME NEW w \in Threads, Abandon(w)
       PROVE  TypeOK'
  <2>. DEFINE l == task[w].link
              retry == RetryToken(w)
              row == [links[l] EXCEPT !.status = "revoked", !.offer = FALSE, !.control = retry,
                                      !.dataKey = FALSE, !.enabled = FALSE,
                                      !.pending = (retry # NoLink)]
  <2>1. l \in Links /\ retry \in Links \cup {NoLink}
    BY <1>ab, Tasks DEF Abandon, RetryToken
  <2>2. ASSUME Known(l) PROVE row \in Row
    <3>1. links[l] \in Row /\ retry \in Links \cup {NoLink} /\ (retry # NoLink) \in BOOLEAN
      BY <2>1, <2>2, KnownRows
    <3>. QED
      BY <3>1 DEF Row
  <2>3. /\ links' \in {links, [links EXCEPT ![l] = row]}
        /\ links' # links => Known(l)
        /\ task' = [task EXCEPT ![w] = Idle] /\ UNCHANGED <<wire, now, lost, escaped>>
    BY <1>ab DEF Abandon
  <2>. HIDE DEF l, row
  <2>. QED
    BY <2>2, <2>3 DEF TypeOK
<1>rd. ASSUME NEW w \in Threads, RevokeDone(w)
       PROVE  TypeOK'
  <2>1. task[w].link \in Links
    BY <1>rd, Tasks DEF RevokeDone, Waiting
  <2>2. ASSUME Known(task[w].link)
        PROVE  [links[task[w].link] EXCEPT !.control = NoLink, !.pending = FALSE] \in Row
    <3>1. links[task[w].link] \in Row
      BY <2>1, <2>2, KnownRows
    <3>. QED
      BY <3>1 DEF Row
  <2>. QED
    BY <1>rd, <2>1, <2>2 DEF RevokeDone, TypeOK
<1>rt. ASSUME NEW w \in Threads, Retire(w)
       PROVE  TypeOK'
  <2>1. task[w].link \in Links
    BY <1>rt, Tasks DEF Retire, Waiting
  <2>2. Known(task[w].link) =>
            [links[task[w].link] EXCEPT !.status = "revoked", !.control = NoLink,
                                        !.dataKey = FALSE, !.enabled = FALSE] \in Row
    <3>1. Known(task[w].link) => links[task[w].link] \in Row
      BY <2>1, KnownRows
    <3>. QED
      BY <3>1 DEF Row
  <2>. QED
    BY <1>rt, <2>1, <2>2 DEF Retire, Retirable, TypeOK
<1>un. ASSUME NEW w \in Threads, Unavailable(w) \/ Busy(w)
       PROVE  TypeOK'
  <2>1. task[w] # Idle
    BY <1>un, Waiters, NoValueAssumption DEF Unavailable, Busy, RequestOf
  <2>2. AfterFailure(w) \in [Threads -> Task \cup {Idle}]
    BY <2>1, StageTyped DEF AfterFailure, Stages, TypeOK
  <2>3. wire' \subseteq Request
    BY <1>un, LeftBehindTyped DEF Unavailable, Busy, TypeOK
  <2>4. escaped' \subseteq Links
    <3>1. task[w].at = "undoing" => task[w].grant \in Links
      BY <2>1 DEF TasksOK, NamesOK, Names, HeldStages
    <3>. QED
      BY <1>un, <3>1 DEF Unavailable, Busy, TypeOK
  <2>. QED
    BY <1>un, <2>2, <2>3, <2>4 DEF Unavailable, Busy, TypeOK
<1>cr. ASSUME NEW w \in Threads, Crash(w)
       PROVE  TypeOK'
  BY <1>cr, LeftBehindTyped DEF Crash, TypeOK
<1>rq. ASSUME NEW r \in wire, Redeem(r)
       PROVE  TypeOK'
  <2>. DEFINE row == [links[r.grant] EXCEPT !.status = "active", !.offer = FALSE, !.granted = TRUE,
                                            !.dataKey = Shares(links[r.grant].consent),
                                            !.enabled = Shares(links[r.grant].consent),
                                            !.expires = now + Lifetime]
  <2>1. r.grant \in Links
    BY Requests
  <2>2. ASSUME Known(r.grant) PROVE row \in Row
    <3>1. /\ links[r.grant] \in Row
          /\ links[r.grant].consent \in [send : BOOLEAN, receive : BOOLEAN]
      BY <2>1, <2>2, KnownRows
    <3>2. Shares(links[r.grant].consent) \in BOOLEAN /\ now + Lifetime \in Nat
      BY <3>1, Settings, PeriodsAssumption DEF TypeOK
    <3>. QED
      BY <3>1, <3>2 DEF Row
  <2>3. /\ links' \in {links, [links EXCEPT ![r.grant] = row]}
        /\ links' # links => Known(r.grant)
        /\ task' \in {Answered(r, "answered"), Answered(r, "failed")}
        /\ wire' = wire \ {r} /\ lost' \in {lost, lost \cup {r.grant}}
        /\ UNCHANGED <<now, escaped>>
    BY <1>rq DEF Redeem, Redeemable, Inbound
  <2>4. Answered(r, "answered") \in [Threads -> Task \cup {Idle}]
        /\ Answered(r, "failed") \in [Threads -> Task \cup {Idle}]
    BY Waiters, StageTyped DEF Answered, Stages, TypeOK
  <2>. HIDE DEF row
  <2>. QED
    BY <2>1, <2>2, <2>3, <2>4 DEF TypeOK
<1>wi. ASSUME NEW r \in wire, Withdraw(r)
       PROVE  TypeOK'
  <2>1. r.grant \in Links
    BY Requests
  <2>2. ASSUME Known(r.grant)
        PROVE  [links[r.grant] EXCEPT !.status = "revoked", !.enabled = FALSE] \in Row
    <3>1. links[r.grant] \in Row
      BY <2>1, <2>2, KnownRows
    <3>. QED
      BY <3>1 DEF Row
  <2>3. links' \in [Links -> Row \cup {Unused, Gone}]
    BY <1>wi, <2>1, <2>2 DEF Withdraw, TypeOK
  <2>4. r.by # NoThread => \A stage \in Stages : Stage(r.by, stage) \in [Threads -> Task \cup {Idle}]
    BY Waiters, StageTyped
  <2>5. task' \in [Threads -> Task \cup {Idle}]
    BY <1>wi, <2>4 DEF Withdraw, Stages, TypeOK
  <2>. QED
    BY <1>wi, <2>3, <2>5 DEF Withdraw, TypeOK
<1>st. ASSUME NEW r \in wire, Status(r)
       PROVE  TypeOK'
  <2>1. r.by # NoThread => \A stage \in Stages : Stage(r.by, stage) \in [Threads -> Task \cup {Idle}]
    BY Waiters, StageTyped
  <2>2. task' \in [Threads -> Task \cup {Idle}]
    BY <1>st, <2>1 DEF Status, Stages, TypeOK
  <2>. QED
    BY <1>st, <2>2 DEF Status, TypeOK
<1>lo. ASSUME NEW r \in wire, Lose(r)
       PROVE  TypeOK'
  BY <1>lo DEF Lose, TypeOK
<1>ti. ASSUME Tick
       PROVE  TypeOK'
  BY <1>ti, PeriodsAssumption DEF Tick, TypeOK
<1>. QED
  BY <1>i, <1>in, <1>ap, <1>re, <1>rf, <1>co, <1>cp, <1>cm, <1>ab, <1>rd, <1>rt, <1>un, <1>cr,
     <1>rq, <1>wi, <1>st, <1>lo, <1>ti DEF Next, Peer

-----------------------------------------------------------------------------
(* What a step does to the rows.  All but n stay, or are deleted when they  *)
(* are outdated, or are revoked; n may be written otherwise, but if it was  *)
(* there before it goes forward.                                            *)
Fixed(l) ==
    /\ links'[l].at = links[l].at /\ links'[l].peer = links[l].peer
    /\ links'[l].outbound = links[l].outbound /\ links'[l].consent = links[l].consent

Ends(l) ==
    /\ Known(l) /\ Known(l)' /\ Fixed(l)
    /\ links'[l].status = "revoked" /\ links'[l].expires = links[l].expires
    /\ links'[l].granted = links[l].granted /\ links'[l].remote = links[l].remote
    /\ links'[l].control \in {links[l].control, NoLink}

Around(n) ==
    /\ now' \in Nat /\ now <= now'
    /\ \A l \in Links \ {n} :
          \/ links'[l] = links[l]
          \/ Outdated(l) /\ links'[l] = Gone
          \/ Ends(l)

Forward(n) ==
    /\ Existed(n)'
    /\ Existed(n) =>
        /\ Known(n) /\ Known(n)' /\ Fixed(n)
        /\ ~links[n].outbound => links'[n].remote = links[n].remote
        /\ ~links[n].outbound /\ links[n].granted =>
              links'[n].granted /\ links'[n].expires = links[n].expires
        /\ links[n].status # "pending" => links'[n].status # "pending"
        /\ links[n].status = "revoked" => links'[n].status = "revoked"

Step(n) == Around(n) /\ (n \in Links => Forward(n))

LEMMA RowsForward ==
    ASSUME IInv, NEW n, Step(n), NEW k \in Links, Existed(k)
    PROVE  /\ Existed(k)'
           /\ Known(k)' => /\ Known(k) /\ Fixed(k)
                           /\ Inbound(k)' <=> Inbound(k)
                           /\ Outbound(k)' <=> Outbound(k)
                           /\ Inbound(k) => links'[k].remote = links[k].remote
                           /\ Inbound(k) /\ links[k].granted =>
                                 links'[k].granted /\ links'[k].expires = links[k].expires
                           /\ links[k].status # "pending" => links'[k].status # "pending"
                           /\ links[k].status = "revoked" => links'[k].status = "revoked"
           /\ Known(k) /\ ~Known(k)' => Outdated(k)
<1>1. CASE links'[k] = links[k]
  BY <1>1 DEF Known, Existed, Inbound, Outbound, Fixed
<1>2. CASE Outdated(k) /\ links'[k] = Gone
  BY <1>2, NoValueAssumption DEF Known, Existed, Outdated
<1>3. CASE Ends(k)
  BY <1>3 DEF Ends, Known, Existed, Inbound, Outbound, Fixed
<1>4. CASE k = n
  BY <1>4 DEF Step, Forward, Known, Existed, Inbound, Outbound, Fixed
<1>. QED
  BY <1>1, <1>2, <1>3, <1>4 DEF Step, Around

LEMMA OutdatedLongAgo ==
    ASSUME IInv, NEW k \in Links, Outdated(k)
    PROVE  links[k].expires \in Nat /\ links[k].expires + Lifetime < now /\ now \in Nat
BY KnownRows DEF Outdated, IInv, TypeOK

LEMMA NamesStay ==
    ASSUME IInv, NEW n, Step(n), NEW l, NEW g, Names(l, g)
    PROVE  Names(l, g)'
BY RowsForward DEF Names

LEMMA DeadStay ==
    ASSUME IInv, NEW n, Step(n), NEW l, NEW g, Names(l, g), Dead(g)
    PROVE  Dead(g)'
<1>1. CASE Known(g)'
  <2>1. Known(g) /\ links[g].granted /\ links'[g].expires = links[g].expires
    BY <1>1, RowsForward DEF Names
  <2>2. links[g].expires \in Nat /\ now \in Nat /\ now' \in Nat /\ now <= now'
    BY <2>1, KnownRows DEF Step, Around, IInv, TypeOK, Names
  <2>3. links[g].status = "revoked" => links'[g].status = "revoked"
    BY <1>1, RowsForward DEF Names
  <2>. QED
    BY <2>1, <2>2, <2>3 DEF Dead
<1>. QED
  BY <1>1 DEF Dead

LEMMA InboundStay ==
    ASSUME IInv, NEW n, Step(n), NEW k \in Links \ {n}
    PROVE  InboundOK(k)'
<1>1. SUFFICES ASSUME Inbound(k)' PROVE InboundOK(k)'
  BY DEF InboundOK
<1>2. links'[k] = links[k] \/ Ends(k)
  BY <1>1 DEF Step, Around, Inbound, Known
<1>3. Inbound(k) /\ InboundOK(k) /\ Known(k) /\ Known(k)'
  BY <1>1, <1>2 DEF Ends, Fixed, Inbound, Known, IInv, RowsOK
<1>4. /\ links'[k].control = NoLink /\ links'[k].status # "exchanging"
      /\ links'[k].status = "pending" => ~links'[k].granted
      /\ links'[k].status = "active" => links'[k].granted
      /\ links'[k].granted = links[k].granted /\ links'[k].remote = links[k].remote /\ Fixed(k)
  BY <1>2, <1>3 DEF Ends, Fixed, InboundOK
<1>m. PICK m \in Links : m = links[k].remote
  BY <1>3 DEF InboundOK
<1>5. Existed(m) /\ Existed(m)'
  BY <1>3, <1>m, RowsForward DEF InboundOK
<1>6. ASSUME Known(m)'
      PROVE  Mirrored(k, m)' /\ (links'[k].granted => links'[m].status # "pending")
  <2>1. /\ Known(m) /\ Fixed(m) /\ (Outbound(m)' <=> Outbound(m))
        /\ links[m].status # "pending" => links'[m].status # "pending"
    BY <1>5, <1>6, RowsForward
  <2>2. Mirrored(k, m) /\ (links[k].granted => links[m].status # "pending")
    BY <1>3, <1>m, <2>1 DEF InboundOK
  <2>3. Mirrored(k, m)'
    BY <1>4, <2>1, <2>2 DEF Mirrored, Fixed, Mirror
  <2>. QED
    BY <1>4, <2>1, <2>2, <2>3
<1>. QED
  BY <1>4, <1>m, <1>5, <1>6 DEF InboundOK

LEMMA YoungStay ==
    ASSUME IInv, NEW n, Step(n), NEW k \in Links \ {n}
    PROVE  YoungOK(k)'
<1>1. SUFFICES ASSUME Outbound(k)', links'[k].status \in {"pending", "exchanging"}
               PROVE  YoungOK(k)'
  BY DEF YoungOK
<1>2. links'[k] = links[k]
  BY <1>1 DEF Step, Around, Outbound, Known, Ends
<1>3. links[k].control = NoLink /\ links[k].expires <= now + Pending
  BY <1>1, <1>2 DEF IInv, RowsOK, YoungOK, Outbound, Known
<1>4. links[k].expires \in Nat /\ now \in Nat /\ now' \in Nat /\ now <= now'
  BY <1>1, <1>2, KnownRows DEF Step, Around, IInv, TypeOK, Outbound, Known
<1>. QED
  BY <1>2, <1>3, <1>4, PeriodsAssumption DEF YoungOK

LEMMA ControlStay ==
    ASSUME IInv, NEW n, Step(n), NEW k \in Links \ {n}
    PROVE  ControlOK(k)'
<1>1. SUFFICES ASSUME Known(k)', links'[k].control # NoLink PROVE ControlOK(k)'
  BY DEF ControlOK
<1>2. /\ Known(k) /\ links'[k].control = links[k].control
      /\ links'[k].expires = links[k].expires
  BY <1>1 DEF Step, Around, Known, Ends
<1>3. PICK g \in Links : g = links[k].control /\ Names(k, g)
                         /\ (Known(g) => links[g].expires <= links[k].expires + Lifetime)
  BY <1>1, <1>2 DEF IInv, RowsOK, ControlOK, Names
<1>4. Names(k, g)'
  BY <1>3, NamesStay
<1>5. Known(g)' => Known(g) /\ links'[g].expires = links[g].expires
  BY <1>3, RowsForward DEF Names
<1>. QED
  BY <1>2, <1>3, <1>4, <1>5 DEF ControlOK

LEMMA ActiveStay ==
    ASSUME IInv, NEW n, Step(n), NEW k \in Links \ {n}
    PROVE  ActiveOK(k)'
<1>1. SUFFICES ASSUME Outbound(k)', links'[k].status = "active" PROVE ActiveOK(k)'
  BY DEF ActiveOK
<1>2. links'[k] = links[k] /\ Outbound(k)
  BY <1>1 DEF Step, Around, Outbound, Known, Ends
<1>3. PICK g \in Links : /\ g = links[k].control /\ g # NoLink /\ links[k].remote = g /\ Names(k, g)
                         /\ Known(g) => links[k].expires <= links[g].expires + Pending
                         /\ ~Known(g) => links[k].expires <= now
  BY <1>1, <1>2 DEF IInv, RowsOK, ControlOK, ActiveOK, Names, Outbound
<1>4. Known(g)' => Known(g) /\ links'[g].expires = links[g].expires
  BY <1>3, RowsForward DEF Names
<1>5. links[k].expires \in Nat /\ now \in Nat /\ now' \in Nat /\ now <= now'
  BY <1>2, KnownRows DEF Step, Around, IInv, TypeOK, Outbound
<1>6. ASSUME ~Known(g)' PROVE links[k].expires <= now'
  <2>1. CASE Known(g)
    <3>1. Outdated(g)
      BY <1>3, <1>6, <2>1, RowsForward DEF Names
    <3>. QED
      BY <1>3, <1>5, <2>1, <3>1, OutdatedLongAgo, PeriodsAssumption
  <2>. QED
    BY <1>3, <1>5, <2>1
<1>. QED
  BY <1>2, <1>3, <1>4, <1>6 DEF ActiveOK

(* Only the code that was carried back is redeemed for the invitation. *)
Single(n) ==
    n \in Links /\ Inbound(n)' /\ links'[n].granted =>
        \/ Existed(n) /\ links[n].granted
        \/ \A h \in Links : Inbound(h) /\ links[h].granted /\ links[h].remote = links'[n].remote
                                => h = n

LEMMA GrantedStay ==
    ASSUME IInv, NEW n, Step(n), NEW k \in Links \ {n}, Inbound(k)', links'[k].granted
    PROVE  Inbound(k) /\ links[k].granted /\ links'[k].remote = links[k].remote
BY NoValueAssumption DEF Step, Around, Inbound, Known, Ends, Fixed

LEMMA RowsStay ==
    ASSUME IInv, NEW n, Step(n), Single(n),
           n \in Links => InboundOK(n)' /\ YoungOK(n)' /\ ControlOK(n)' /\ ActiveOK(n)'
    PROVE  RowsOK'
<1>1. ASSUME NEW k \in Links
      PROVE  InboundOK(k)' /\ YoungOK(k)' /\ ControlOK(k)' /\ ActiveOK(k)'
  BY InboundStay, YoungStay, ControlStay, ActiveStay
<1>2. OneGrant'
  <2>1. SUFFICES ASSUME NEW g \in Links, NEW h \in Links, Inbound(g)', Inbound(h)',
                        links'[g].granted, links'[h].granted,
                        links'[g].remote = links'[h].remote
                 PROVE  g = h
    BY DEF OneGrant
  <2>2. ASSUME NEW k \in Links, k = n, Existed(n), links[n].granted, Inbound(k)'
        PROVE  Inbound(k) /\ links[k].granted /\ links'[k].remote = links[k].remote
    BY <2>2, RowsForward DEF Inbound
  <2>3. CASE n \in Links /\ Existed(n) /\ links[n].granted
    BY <2>1, <2>2, <2>3, GrantedStay DEF IInv, RowsOK, OneGrant
  <2>4. CASE n \notin {g, h}
    BY <2>1, <2>4, GrantedStay DEF IInv, RowsOK, OneGrant
  <2>. QED
    BY <2>1, <2>3, <2>4, GrantedStay DEF Single
<1>. QED
  BY <1>1, <1>2 DEF RowsOK

LEMMA SameGrantStay ==
    ASSUME IInv, NEW n, Step(n), NEW l \in Links, NEW g, SameGrant(l, g), Existed(l),
           l = n => SameGrant(n, g)'
    PROVE  SameGrant(l, g)'
<1>1. SUFFICES ASSUME l # n, Known(l)' PROVE SameGrant(l, g)'
  BY DEF SameGrant
<1>2. Known(l) /\ (links'[l] = links[l] \/ Ends(l))
  BY <1>1 DEF Step, Around, Known, Ends
<1>. QED
  BY <1>2 DEF SameGrant, Ends

(* A redemption grants what the request is about. *)
Redeems(n, op, l, g) ==
    n \in Links /\ Inbound(n)' /\ links'[n].granted /\ links'[n].remote = l =>
        (Existed(n) /\ links[n].granted) \/ (op = "token" => g = n)

LEMMA RequestStay ==
    ASSUME IInv, NEW n, Step(n), NEW q \in wire, NEW r,
           r.op = q.op, r.link = q.link, r.grant = q.grant, r.by \in {q.by, NoThread},
           r.by # NoThread => task'[r.by] = task[r.by] /\ now' = now,
           Redeems(n, q.op, q.link, q.grant),
           q.link = n /\ q.op = "token" => r.by = NoThread \/ links'[n].expires = links[n].expires,
           q.link = n /\ q.op = "status" => SameGrant(n, q.grant)'
    PROVE  RequestOK(r)'
<1>1. RequestOK(q) /\ q.link \in Links /\ q.grant \in Links /\ q.op \in {"token", "status", "revoke"}
  BY Requests DEF IInv, WireOK
<1>2. r.by # NoThread => WaitsFor(r)'
  BY <1>1 DEF RequestOK, WaitsFor
<1>3. r.op # "token" => Names(r.link, r.grant)' /\ Existed(q.link)
  <2>1. SUFFICES ASSUME r.op # "token" PROVE Names(q.link, q.grant)' /\ Existed(q.link)
    OBVIOUS
  <2>. QED
    BY <1>1, <2>1, NamesStay DEF RequestOK, Names
<1>4. r.op = "status" => SameGrant(r.link, r.grant)'
  <2>1. SUFFICES ASSUME r.op = "status" PROVE SameGrant(q.link, q.grant)'
    OBVIOUS
  <2>2. SameGrant(q.link, q.grant) /\ Existed(q.link)
    BY <1>1, <1>3, <2>1 DEF RequestOK
  <2>. QED
    BY <1>1, <2>1, <2>2, SameGrantStay
<1>5. r.op = "token" => TokenOK(r)'
  <2>1. SUFFICES ASSUME r.op = "token" PROVE TokenOK(r)'
    OBVIOUS
  <2>2. TokenOK(q)
    BY <1>1, <2>1 DEF RequestOK
  <2>. DEFINE l == q.link
              g == q.grant
  <2>. HIDE DEF l, g
  <2>3. r.link = l /\ r.grant = g /\ l \in Links /\ g \in Links
    BY <1>1 DEF l, g
  <2>4. /\ Existed(l) /\ Existed(g)
        /\ Known(l) => Outbound(l) /\ links[l].status # "pending"
        /\ Known(g) => Inbound(g) /\ links[g].remote = l
        /\ \A k \in Links : Inbound(k) /\ links[k].granted /\ links[k].remote = l => k = g
        /\ r.by # NoThread => /\ Known(l)
                              /\ now < links[l].expires
                              /\ links[l].expires <= now + Pending
    BY <2>2 DEF TokenOK, l, g
  <2>5. /\ Existed(l)' /\ Existed(g)'
        /\ Known(l)' => Outbound(l)' /\ links'[l].status # "pending"
        /\ Known(g)' => Inbound(g)' /\ links'[g].remote = l
    BY <2>3, <2>4, RowsForward
  <2>6. ASSUME NEW k \in Links, Inbound(k)', links'[k].granted, links'[k].remote = l
        PROVE  k = g
    <3>1. CASE k # n
      BY <2>4, <2>6, <3>1, GrantedStay
    <3>2. CASE k = n /\ Existed(n) /\ links[n].granted
      <4>1. Inbound(k) /\ links'[k].remote = links[k].remote
        BY <2>6, <3>2, RowsForward DEF Inbound
      <4>. QED
        BY <2>4, <2>6, <3>2, <4>1
    <3>. QED
      BY <2>1, <2>6, <3>1, <3>2 DEF Redeems, l, g
  <2>7. ASSUME r.by # NoThread
        PROVE  Known(l)' /\ now' < links'[l].expires /\ links'[l].expires <= now' + Pending
    <3>1. Known(l) /\ now' = now /\ links[l].expires \in Nat /\ now \in Nat
      BY <2>3, <2>4, <2>7, KnownRows DEF IInv, TypeOK
    <3>2. ~Outdated(l)
      BY <2>3, <2>4, <2>7, <3>1, OutdatedLongAgo, PeriodsAssumption
    <3>3. Known(l)'
      BY <2>3, <2>4, <3>1, <3>2, RowsForward
    <3>4. links'[l].expires = links[l].expires
      BY <2>1, <2>3, <2>7, <3>2, <3>3 DEF Step, Around, Ends, l
    <3>. QED
      BY <2>4, <2>7, <3>1, <3>3, <3>4
  <2>. QED
    BY <2>3, <2>5, <2>6, <2>7 DEF TokenOK
<1>. QED
  BY <1>2, <1>3, <1>4, <1>5 DEF RequestOK

-----------------------------------------------------------------------------
(* What a thread that does not move finds again. *)
LEMMA TimelyStay ==
    ASSUME IInv, NEW n, Step(n), NEW l \in Links, NEW g, Names(l, g), Timely(l, g),
           l # n
    PROVE  Timely(l, g)'
<1>1. g \in Links /\ Existed(l) /\ Existed(g)
      /\ (Known(g) => Inbound(g) /\ links[g].granted)
  BY DEF Names
<1>2. /\ Known(l) => links[l].expires \in Nat
      /\ Known(g) => links[g].expires \in Nat
      /\ now \in Nat /\ now' \in Nat /\ now <= now'
  BY <1>1, KnownRows DEF IInv, TypeOK, Step, Around
<1>3. Known(l)' => Known(l) /\ links'[l].expires = links[l].expires
  BY <1>1, RowsForward DEF Step, Around, Ends, Known
<1>4. Known(g)' => Known(g) /\ links'[g].expires = links[g].expires
  BY <1>1, RowsForward
<1>5. Known(l) /\ ~Known(l)' => links[l].expires + Lifetime < now
  BY <1>1, RowsForward, OutdatedLongAgo
<1>6. Known(g) /\ ~Known(g)' => links[g].expires + Lifetime < now
  BY <1>1, RowsForward, OutdatedLongAgo
<1>. QED
  BY <1>2, <1>3, <1>4, <1>5, <1>6, PeriodsAssumption DEF Timely

ThreadOK(x) == InsertOK(x) /\ NamesOK(x) /\ ConfirmOK(x) /\ EndedOK(x) /\ TellingOK(x)

(* Nobody begins to confirm. *)
NoConfirm == \A x \in Threads : Confirms(x)' => Confirms(x) /\ task'[x].link = task[x].link

(* What is kept for the row that is written otherwise. *)
Spares(n, x) ==
    task[x] # Idle /\ task[x].link = n /\ n \in Links /\ Existed(n) =>
        /\ ~Confirms(x)
        /\ task[x].at \notin {"telling", "told"}
        /\ task[x].at = "inactive" => SameGrant(n, task[x].grant)'

LEMMA ConfirmStay ==
    ASSUME IInv, NEW n, Step(n), NEW x \in Threads, task[x] # Idle,
           Confirms(x)' => /\ Confirms(x) /\ task[x].link # n
                           /\ task'[x].link = task[x].link
                           /\ task'[x].at \in HeldStages =>
                                  task[x].at \in HeldStages /\ task'[x].grant = task[x].grant
    PROVE  ConfirmOK(x)'
<1>1. SUFFICES ASSUME Confirms(x)' PROVE ConfirmOK(x)'
  BY DEF ConfirmOK
<1>2. PICK l \in Links, g \in Links \cup {NoLink} : l = task[x].link /\ g = task[x].grant
  BY Tasks DEF IInv
<1>3. /\ Existed(l)
      /\ Known(l) => /\ Outbound(l) /\ links[l].status \in {"exchanging", "revoked"}
                     /\ links[l].control = NoLink
      /\ task[x].at \in HeldStages => Timely(l, g) /\ Names(l, g)
  BY <1>1, <1>2 DEF IInv, TasksOK, ConfirmOK, NamesOK
<1>4. task[x].at \in HeldStages => Timely(l, g)'
  BY <1>1, <1>2, <1>3, TimelyStay
<1>5. Existed(l)' /\ (Known(l)' => Outbound(l)' /\ Known(l))
  BY <1>3, RowsForward
<1>6. Known(l)' => /\ links'[l].status \in {"exchanging", "revoked"}
                   /\ links'[l].control = NoLink
  BY <1>1, <1>2, <1>3, <1>5 DEF Step, Around, Ends, Known
<1>. QED
  BY <1>1, <1>2, <1>4, <1>5, <1>6 DEF ConfirmOK

LEMMA ThreadStay ==
    ASSUME IInv, NEW n, Step(n), NEW x \in Threads, task'[x] = task[x],
           Confirms(x)' => Confirms(x), Spares(n, x),
           task[x] # Idle /\ task[x].at \in {"telling", "told"} =>
               \A y \in Threads : Confirms(y)' => task'[y].link # task[x].link
    PROVE  ThreadOK(x)'
<1>1. SUFFICES ASSUME task[x] # Idle PROVE ThreadOK(x)'
  BY DEF ThreadOK, InsertOK, NamesOK, ConfirmOK, EndedOK, TellingOK, Waiting, Confirms
<1>2. PICK l \in Links, g \in Links \cup {NoLink} : l = task[x].link /\ g = task[x].grant
  BY <1>1, Tasks DEF IInv
<1>3. InsertOK(x) /\ NamesOK(x) /\ ConfirmOK(x) /\ EndedOK(x) /\ TellingOK(x)
  BY DEF IInv, TasksOK
<1>4. InsertOK(x)'
  BY <1>1, <1>2, <1>3, RowsForward DEF InsertOK, Waiting
<1>5. NamesOK(x)'
  BY <1>2, <1>3, NamesStay DEF NamesOK
<1>6. ConfirmOK(x)'
  <2>1. Confirms(x) => task[x].link # n
    BY <1>1, <1>2, <1>3 DEF Spares, ConfirmOK
  <2>. QED
    BY <1>1, <2>1, ConfirmStay
<1>7. EndedOK(x)'
  <2>1. task[x].at \in {"undone", "told", "inactive"} => Dead(g)'
    BY <1>1, <1>2, <1>3, DeadStay DEF EndedOK, NamesOK, HeldStages
  <2>2. task[x].at = "inactive" => SameGrant(l, g)'
    BY <1>1, <1>2, <1>3, SameGrantStay DEF EndedOK, NamesOK, Names, Spares
  <2>. QED
    BY <1>2, <2>1, <2>2 DEF EndedOK
<1>8. TellingOK(x)'
  <2>1. SUFFICES ASSUME task[x].at \in {"telling", "told"} PROVE TellingOK(x)'
    BY DEF TellingOK
  <2>2. /\ l # n /\ Existed(l)
        /\ Known(l) => links[l].status = "revoked" /\ links[l].control \in {g, NoLink}
    BY <1>1, <1>2, <1>3, <2>1 DEF TellingOK, NamesOK, Names, Spares
  <2>3. Known(l)' => links'[l].status = "revoked" /\ links'[l].control \in {g, NoLink}
    BY <2>2 DEF Step, Around, Ends, Known
  <2>. QED
    BY <1>1, <1>2, <2>1, <2>3 DEF TellingOK
<1>. QED
  BY <1>4, <1>5, <1>6, <1>7, <1>8 DEF ThreadOK

LEMMA TasksStay ==
    ASSUME IInv, NEW n, Step(n), NEW w,
           \A x \in Threads \ {w} : task'[x] = task[x] /\ Spares(n, x),
           NoConfirm, w \in Threads => ThreadOK(w)'
    PROVE  TasksOK'
<1>1. ASSUME NEW x \in Threads \ {w}
      PROVE  ThreadOK(x)'
  <2>1. ASSUME task[x] # Idle, task[x].at \in {"telling", "told"}, NEW y \in Threads, Confirms(y)'
        PROVE  task'[y].link # task[x].link
    BY <2>1 DEF NoConfirm, IInv, TasksOK, TellingOK
  <2>. QED
    BY <2>1, ThreadStay DEF NoConfirm
<1>2. ASSUME NEW x \in Threads, NEW y \in Threads, Confirms(x)', Confirms(y)',
             task'[x].link = task'[y].link
      PROVE  x = y
  BY <1>2 DEF NoConfirm, IInv, TasksOK
<1>3. ASSUME NEW x \in Threads PROVE ThreadOK(x)'
  <2>1. CASE x = w
    BY <2>1
  <2>. QED
    BY <1>1, <2>1
<1>. QED
  BY <1>2, <1>3 DEF TasksOK, ThreadOK

(* A request of before; the thread that waited for it may have gone, w has. *)
Stays(r, w) ==
    /\ \E q \in wire : /\ r.op = q.op /\ r.link = q.link /\ r.grant = q.grant
                       /\ r.by = NoThread \/ r = q
    /\ r.by # w \/ w = NoThread

(* What is kept for the requests about the row that is written otherwise. *)
Answers(n, w) ==
    \A q \in wire :
        /\ Redeems(n, q.op, q.link, q.grant)
        /\ q.link = n /\ q.op = "token" /\ q.by \notin {w, NoThread} =>
               links'[n].expires = links[n].expires
        /\ q.link = n /\ q.op = "status" => SameGrant(n, q.grant)'

LEMMA WireStay ==
    ASSUME IInv, NEW n, Step(n), NEW w \in Threads \cup {NoThread}, Answers(n, w), now' = now,
           \A x \in Threads \ {w} : task'[x] = task[x],
           NEW r0, \A r \in wire' : Stays(r, w) \/ r = r0,
           r0 \in wire' /\ ~Stays(r0, w) =>
              /\ RequestOK(r0)' /\ r0.by = w /\ w # NoThread
              /\ r0.op = "token" => \A q \in wire : q.op = "token" => q.link # r0.link
    PROVE  WireOK'
<1>. DEFINE Comes(r) == r = r0 /\ ~Stays(r0, w)
<1>1. ASSUME NEW r \in wire' PROVE Stays(r, w) \/ Comes(r)
  BY <1>1
<1>2. ASSUME NEW r \in wire', Stays(r, w) PROVE RequestOK(r)'
  <2>1. PICK q \in wire : /\ r.op = q.op /\ r.link = q.link /\ r.grant = q.grant
                          /\ r.by = NoThread \/ r = q
    BY <1>2 DEF Stays
  <2>2. r.by \in {q.by, NoThread} /\ (r.by # NoThread => r.by \in Threads \ {w})
    BY <1>2, <2>1, Requests DEF IInv, Stays
  <2>3. r.by # NoThread => task'[r.by] = task[r.by]
    BY <2>2
  <2>4. /\ Redeems(n, q.op, q.link, q.grant)
        /\ q.link = n /\ q.op = "token" => r.by = NoThread \/ links'[n].expires = links[n].expires
        /\ q.link = n /\ q.op = "status" => SameGrant(n, q.grant)'
    BY <2>1, <2>2 DEF Answers
  <2>. QED
    BY <2>1, <2>2, <2>3, <2>4, RequestStay
<1>3. ASSUME NEW r \in wire', Comes(r) PROVE RequestOK(r)'
  BY <1>3
<1>4. ASSUME NEW r \in wire', NEW s \in wire', r.by = s.by, r.by # NoThread
      PROVE  r = s
  <2>1. CASE Stays(r, w) /\ Stays(s, w)
    BY <1>4, <2>1 DEF Stays, IInv, WireOK
  <2>2. CASE Comes(r) /\ Stays(s, w)
    BY <1>4, <2>2 DEF Stays
  <2>3. CASE Stays(r, w) /\ Comes(s)
    BY <1>4, <2>3 DEF Stays
  <2>. QED
    BY <1>1, <1>4, <2>1, <2>2, <2>3
<1>5. ASSUME NEW r \in wire', NEW s \in wire', r.op = "token", s.op = "token", r.link = s.link
      PROVE  r.grant = s.grant
  <2>1. CASE Stays(r, w) /\ Stays(s, w)
    BY <1>5, <2>1 DEF Stays, IInv, WireOK
  <2>2. CASE Comes(r) /\ Stays(s, w)
    BY <1>5, <2>2 DEF Stays
  <2>3. CASE Stays(r, w) /\ Comes(s)
    BY <1>5, <2>3 DEF Stays
  <2>. QED
    BY <1>1, <1>5, <2>1, <2>2, <2>3
<1>. QED
  BY <1>1, <1>2, <1>3, <1>4, <1>5 DEF WireOK

Accounted(g) ==
    \/ g \in lost \cup escaped
    \/ \E l \in Links : Known(l) /\ links[l].control = g
    \/ \E x \in Threads : Holds(x, g)

LEMMA LiveStay ==
    ASSUME IInv, NEW n, Step(n), NEW g \in Links \ {n}, Live(g)'
    PROVE  Live(g) /\ links'[g].expires = links[g].expires /\ ~Dead(g)'
<1>1. Known(g)' /\ links'[g].status = "active" /\ now' < links'[g].expires
  <2>1. links'[g].expires \in Nat /\ now' \in Nat
    BY KnownRows DEF Live, Step, Around, Inbound, Known, Ends, IInv, TypeOK
  <2>. QED
    BY <2>1 DEF Live, Inbound, Unexpired
<1>2. links'[g] = links[g]
  BY <1>1 DEF Step, Around, Known, Ends
<1>3. Known(g) /\ Inbound(g)
  BY <1>1, <1>2 DEF Live, Inbound, Known
<1>4. links[g].expires \in Nat /\ now \in Nat /\ now' \in Nat /\ now <= now'
  BY <1>3, KnownRows DEF IInv, TypeOK, Step, Around
<1>. QED
  BY <1>1, <1>2, <1>3, <1>4 DEF Live, Unexpired, Dead

LEMMA AccountStay ==
    ASSUME IInv, NEW n, Step(n), n \in Links /\ Live(n)' => Accounted(n)',
           lost \subseteq lost', escaped \subseteq escaped',
           \A l, g \in Links : Known(l) /\ Known(l)' /\ links[l].control = g =>
               links'[l].control = g \/ Dead(g)',
           \A x \in Threads, g \in Links : Holds(x, g) =>
               Holds(x, g)' \/ Dead(g)' \/ Accounted(g)'
    PROVE  GrantAccounted'
<1>1. SUFFICES ASSUME NEW g \in Links, g # n, Live(g)' PROVE Accounted(g)'
  BY DEF GrantAccounted, Accounted
<1>2. Live(g) /\ links'[g].expires = links[g].expires /\ ~Dead(g)'
  BY <1>1, LiveStay
<1>3. CASE g \in lost \cup escaped
  BY <1>3 DEF Accounted
<1>4. CASE \E x \in Threads : Holds(x, g)
  BY <1>2, <1>4 DEF Accounted
<1>5. ASSUME NEW l \in Links, Known(l), links[l].control = g PROVE Accounted(g)'
  <2>1. CASE Known(l)'
    <3>1. links'[l].control = g \/ Dead(g)'
      BY <1>5, <2>1, NoValueAssumption
    <3>. QED
      BY <1>2, <2>1, <3>1 DEF Accounted
  <2>2. CASE ~Known(l)'
    <3>1. links[l].expires \in Nat /\ links[l].expires + Lifetime < now /\ now \in Nat
      BY <1>5, <2>2, RowsForward, OutdatedLongAgo DEF Existed, Known
    <3>2. Known(g) /\ links[g].expires <= links[l].expires + Lifetime
      BY <1>2, <1>5, NoValueAssumption DEF IInv, RowsOK, ControlOK, Live, Inbound
    <3>3. links[g].expires \in Nat /\ now < links[g].expires
      BY <1>2, <3>1, <3>2, KnownRows DEF Live, Unexpired, IInv
    <3>. QED
      BY <3>1, <3>2, <3>3, PeriodsAssumption
  <2>. QED
    BY <2>1, <2>2
<1>. QED
  BY <1>2, <1>3, <1>4, <1>5 DEF IInv, GrantAccounted

-----------------------------------------------------------------------------
Kept == RowsOK /\ WireOK /\ TasksOK /\ GrantAccounted

LEMMA NoneAsks ==
    ASSUME IInv, NEW w \in Threads,
           task[w] # Idle => task[w].at \notin {"asking", "undoing", "telling"}
    PROVE  (\A r \in wire : r.by # w) /\ RequestOf(w) = {}
BY NoValueAssumption DEF IInv, WireOK, RequestOK, WaitsFor, RequestOf

LEMMA NoneConfirms ==
    ASSUME IInv, NEW w \in Threads \cup {NoThread},
           \A x \in Threads \ {w} : task'[x] = task[x],
           \A r \in wire' : Stays(r, w) \/ (r.by = w /\ r.op # "token"),
           w \in Threads => (Confirms(w)' => Confirms(w) /\ task'[w].link = task[w].link)
    PROVE  NoConfirm
<1>1. ASSUME NEW x \in Threads \ {w}, Asks(x, "token")' PROVE Asks(x, "token")
  BY <1>1, NoValueAssumption DEF Asks, Stays
<1>2. ASSUME NEW x \in Threads, Confirms(x)'
      PROVE  Confirms(x) /\ task'[x].link = task[x].link
  <2>1. CASE x = w
    BY <1>2, <2>1
  <2>2. CASE x # w
    BY <1>1, <1>2, <2>2 DEF Confirms
  <2>. QED
    BY <2>1, <2>2
<1>. QED
  BY <1>2 DEF NoConfirm

(* A step that writes no row otherwise. *)
LEMMA NoneWritten ==
    ASSUME IInv, Around(NoLink)
    PROVE  /\ Step(NoLink) /\ RowsOK'
           /\ \A w : Answers(NoLink, w)
           /\ \A x : Spares(NoLink, x)
<1>1. Step(NoLink) /\ NoLink \notin Links
  BY NoValueAssumption DEF Step
<1>2. Single(NoLink)
  BY <1>1 DEF Single
<1>3. RowsOK'
  BY <1>1, <1>2, RowsStay
<1>4. \A w : Answers(NoLink, w)
  BY <1>1, Requests DEF Answers, Redeems, IInv
<1>5. \A x : Spares(NoLink, x)
  BY <1>1 DEF Spares
<1>. QED
  BY <1>1, <1>3, <1>4, <1>5

LEMMA QuietStep ==
    ASSUME IInv, links' = links, now' = now
    PROVE  Around(NoLink)
BY DEF Around, IInv, TypeOK

LEMMA OldWireStay ==
    ASSUME IInv, NEW n, Step(n), NEW w \in Threads \cup {NoThread}, Answers(n, w), now' = now,
           \A x \in Threads \ {w} : task'[x] = task[x], \A r \in wire' : Stays(r, w)
    PROVE  WireOK'
<1>1. \A r \in wire' : Stays(r, w) \/ r = w
  OBVIOUS
<1>2. w \in wire' => Stays(w, w)
  OBVIOUS
<1>. QED
  BY <1>1, <1>2, WireStay

(* Such a step, in which at most w moves and at most r0 is sent. *)
LEMMA Unwritten ==
    ASSUME IInv, Around(NoLink), now' = now, NEW w \in Threads \cup {NoThread},
           \A x \in Threads \ {w} : task'[x] = task[x],
           NEW r0, \A r \in wire' : Stays(r, w) \/ r = r0,
           r0 \in wire' /\ ~Stays(r0, w) =>
               RequestOK(r0)' /\ r0.by = w /\ w # NoThread /\ r0.op # "token",
           w \in Threads => /\ ThreadOK(w)'
                            /\ Confirms(w)' => Confirms(w) /\ task'[w].link = task[w].link,
           lost \subseteq lost', escaped \subseteq escaped',
           \A l, g \in Links : Known(l) /\ Known(l)' /\ links[l].control = g =>
               links'[l].control = g \/ Dead(g)',
           \A g \in Links : w \in Threads /\ Holds(w, g) =>
               Holds(w, g)' \/ Dead(g)' \/ g \in lost' \cup escaped'
    PROVE  Kept'
<1>1. /\ Step(NoLink) /\ RowsOK' /\ NoLink \notin Links
      /\ Answers(NoLink, w) /\ \A x : Spares(NoLink, x)
  BY NoneWritten, NoValueAssumption
<1>2. WireOK'
  BY <1>1, WireStay
<1>3. NoConfirm
  BY NoneConfirms
<1>4. TasksOK'
  BY <1>1, <1>3, TasksStay
<1>5. ASSUME NEW x \in Threads, NEW g \in Links, Holds(x, g)
      PROVE  Holds(x, g)' \/ Dead(g)' \/ Accounted(g)'
  <2>1. CASE x = w
    BY <1>5, <2>1 DEF Accounted
  <2>2. CASE x # w
    BY <1>5, <2>2 DEF Holds
  <2>. QED
    BY <2>1, <2>2
<1>6. GrantAccounted'
  BY <1>1, <1>5, AccountStay
<1>. QED
  BY <1>1, <1>2, <1>4, <1>6 DEF Kept

LEMMA Quiet ==
    ASSUME IInv, links' = links, now' = now
    PROVE  /\ Around(NoLink)
           /\ \A l, g \in Links : Known(l) /\ Known(l)' /\ links[l].control = g =>
                  links'[l].control = g \/ Dead(g)'
BY DEF Around, IInv, TypeOK

(* The thread that moves. *)
LEMMA Moved ==
    ASSUME IInv, NEW w \in Threads, NEW t \in Task \cup {Idle}, task' = [task EXCEPT ![w] = t]
    PROVE  task'[w] = t /\ \A x \in Threads \ {w} : task'[x] = task[x]
BY DEF IInv, TypeOK

LEMMA IdleOK ==
    ASSUME NEW w \in Threads, task'[w] = Idle, \A r \in wire' : r.by # w
    PROVE  ThreadOK(w)' /\ ~Confirms(w)'
BY DEF ThreadOK, InsertOK, Waiting, NamesOK, ConfirmOK, EndedOK, TellingOK, Confirms

LEMMA InspectStep ==
    ASSUME IInv, NEW w \in Threads, NEW l \in Links, Inspect(w, l)
    PROVE  Kept'
<1>1. /\ task[w] = Idle /\ Outbound(l) /\ links' = links /\ wire' = wire /\ now' = now
      /\ lost' = lost /\ escaped' = escaped
      /\ task' = [task EXCEPT ![w] = [link |-> l, grant |-> NoLink, at |-> "insert"]]
  BY DEF Inspect, Offered
<1>2. /\ \A x \in Threads \ {w} : task'[x] = task[x]
      /\ task'[w] # Idle /\ task'[w].link = l /\ task'[w].at = "insert"
  BY <1>1, NoValueAssumption DEF IInv, TypeOK, Task, Stages
<1>4. \A r \in wire : r.by # w
  BY <1>1, NoneAsks
<1>5. \A r \in wire' : Stays(r, w)
  BY <1>1, <1>4 DEF Stays
<1>6. ~Confirms(w)'
  BY <1>1, <1>2, <1>4 DEF Confirms, Asks, HeldStages
<1>8. ThreadOK(w)'
  BY <1>1, <1>2, <1>6
     DEF ThreadOK, InsertOK, Waiting, NamesOK, HeldStages, ConfirmOK, EndedOK, TellingOK,
         Existed, Known, Outbound
<1>9. \A g \in Links : ~Holds(w, g)
  BY <1>1 DEF Holds
<1>. QED
  BY <1>1, <1>2, <1>5, <1>6, <1>8, <1>9, Quiet, Unwritten

LEMMA CompensateStep ==
    ASSUME IInv, NEW w \in Threads, Compensate(w)
    PROVE  Kept'
<1>1. PICK l \in Links, g \in Links : l = task[w].link /\ g = task[w].grant /\ Names(l, g)
  BY Tasks DEF Compensate, Waiting, IInv, TasksOK, NamesOK, Names, HeldStages
<1>. DEFINE r0 == [op |-> "revoke", link |-> l, grant |-> g, by |-> w]
<1>2. /\ task[w] # Idle /\ task[w].at = "answered" /\ links' = links /\ now' = now
      /\ lost' = lost /\ escaped' = escaped /\ wire' = wire \cup {r0}
      /\ task' = [task EXCEPT ![w] = [link |-> l, grant |-> g, at |-> "undoing"]]
  BY <1>1 DEF Compensate, Waiting, Ask
<1>3. /\ \A x \in Threads \ {w} : task'[x] = task[x]
      /\ task'[w] # Idle /\ task'[w].link = l /\ task'[w].grant = g /\ task'[w].at = "undoing"
  BY <1>2, NoValueAssumption DEF IInv, TypeOK, Task, Stages
<1>4. \A r \in wire' : Stays(r, w) \/ r = r0
  BY <1>2, NoneAsks DEF Stays
<1>5. RequestOK(r0)' /\ r0.by = w /\ w # NoThread /\ r0.op # "token"
  <2>1. Names(l, g)'
    BY <1>1, <1>2, Quiet, NoneWritten, NamesStay
  <2>. QED
    BY <1>3, <2>1, NoValueAssumption DEF RequestOK, WaitsFor
<1>6. Confirms(w)
  BY <1>2 DEF Confirms, HeldStages
<1>7. ThreadOK(w)'
  <2>1. ConfirmOK(w)'
    BY <1>1, <1>2, <1>3, <1>6, Quiet, NoneWritten, ConfirmStay, NoValueAssumption DEF HeldStages
  <2>2. Names(l, g)'
    BY <1>5 DEF RequestOK
  <2>. QED
    BY <1>3, <2>1, <2>2
       DEF ThreadOK, InsertOK, Waiting, NamesOK, EndedOK, TellingOK
<1>8. \A k \in Links : Holds(w, k) => Holds(w, k)'
  BY <1>1, <1>3 DEF Holds
<1>. HIDE DEF r0
<1>. QED
  BY <1>1, <1>2, <1>3, <1>4, <1>5, <1>6, <1>7, <1>8, Quiet, Unwritten

LEMMA RefreshStep ==
    ASSUME IInv, NEW w \in Threads, NEW l \in Links, Refresh(w, l)
    PROVE  Kept'
<1>1. PICK g \in Links : g = links[l].control /\ Names(l, g) /\ SameGrant(l, g)
  BY DEF Refresh, IInv, RowsOK, ActiveOK, ControlOK, Names, SameGrant, Outbound
<1>. DEFINE r0 == [op |-> "status", link |-> l, grant |-> g, by |-> w]
<1>2. /\ task[w] = Idle /\ links' = links /\ now' = now /\ lost' = lost /\ escaped' = escaped
      /\ wire' = wire \cup {r0}
      /\ task' = [task EXCEPT ![w] = [link |-> l, grant |-> g, at |-> "asking"]]
  BY <1>1 DEF Refresh, Ask
<1>3. /\ \A x \in Threads \ {w} : task'[x] = task[x]
      /\ task'[w] # Idle /\ task'[w].link = l /\ task'[w].grant = g /\ task'[w].at = "asking"
  BY <1>2, NoValueAssumption DEF IInv, TypeOK, Task, Stages
<1>4. \A r \in wire : r.by # w
  BY <1>2, NoneAsks
<1>5. \A r \in wire' : Stays(r, w) \/ r = r0
  BY <1>2, <1>4 DEF Stays
<1>6. RequestOK(r0)' /\ r0.by = w /\ w # NoThread /\ r0.op # "token"
  <2>1. Names(l, g)'
    BY <1>1, <1>2, Quiet, NoneWritten, NamesStay
  <2>2. SameGrant(l, g)'
    BY <1>1, <1>2 DEF SameGrant, Known
  <2>. QED
    BY <1>3, <2>1, <2>2, NoValueAssumption DEF RequestOK, WaitsFor
<1>7. ~Confirms(w)'
  BY <1>2, <1>3, <1>4 DEF Confirms, Asks, HeldStages
<1>8. ThreadOK(w)'
  BY <1>3, <1>7
     DEF ThreadOK, InsertOK, Waiting, NamesOK, HeldStages, ConfirmOK, EndedOK, TellingOK
<1>9. \A k \in Links : ~Holds(w, k)
  BY <1>2 DEF Holds
<1>. HIDE DEF r0
<1>. QED
  BY <1>2, <1>3, <1>5, <1>6, <1>7, <1>8, <1>9, Quiet, Unwritten

(* What is left when r has been answered. *)
LEMMA AnsweredWire ==
    ASSUME IInv, NEW r \in wire, wire' = wire \ {r}
    PROVE  /\ \A q \in wire' : Stays(q, r.by)
           /\ r.by # NoThread => \A q \in wire' : q.by # r.by
BY DEF Stays, IInv, WireOK

LEMMA StatusStep ==
    ASSUME IInv, NEW r \in wire, Status(r)
    PROVE  Kept'
<1>. DEFINE w == r.by
<1>1. /\ links' = links /\ now' = now /\ lost' = lost /\ escaped' = escaped /\ wire' = wire \ {r}
      /\ r.op = "status" /\ r.by \in Threads \cup {NoThread}
  BY Requests DEF Status, IInv
<1>2. \A q \in wire' : Stays(q, r.by)
  BY <1>1, AnsweredWire
<1>3. PICK l \in Links, g \in Links : /\ l = r.link /\ g = r.grant
                                      /\ Names(l, g) /\ SameGrant(l, g)
  BY <1>1, Requests DEF IInv, WireOK, RequestOK
<1>4. CASE r.by = NoThread
  <2>1. \A x \in Threads \ {r.by} : task'[x] = task[x]
    BY <1>4 DEF Status
  <2>. QED
    BY <1>1, <1>2, <1>4, <2>1, Quiet, Unwritten, NoValueAssumption
<1>5. CASE r.by # NoThread
  <2>1. /\ r.by \in Threads /\ task[r.by] # Idle /\ task[r.by].link = l /\ task[r.by].grant = g
        /\ task[r.by].at = "asking" /\ task[r.by] \in Task
    BY <1>1, <1>3, <1>5, Waiters, Tasks DEF IInv, WireOK, RequestOK, WaitsFor
  <2>2. \A q \in wire' : q.by # r.by
    BY <1>1, <1>5, AnsweredWire
  <2>3. \A x \in Threads \ {r.by} : task'[x] = task[x]
    BY <1>5, <2>1 DEF Status, Stage, IInv, TypeOK
  <2>4. \A k \in Links : ~Holds(r.by, k)
    BY <2>1 DEF Holds
  <2>5. CASE Known(g) /\ ~Live(g)
    <3>1. /\ task'[r.by] # Idle /\ task'[r.by].link = l /\ task'[r.by].grant = g
          /\ task'[r.by].at = "inactive"
      BY <1>3, <1>5, <2>1, <2>5, NoValueAssumption DEF Status, Stage, IInv, TypeOK, Task, Stages
    <3>2. Dead(g)
      <4>1. Inbound(g) /\ links[g].granted /\ InboundOK(g) /\ links[g].expires \in Nat /\ now \in Nat
        BY <1>3, <2>5, KnownRows DEF Names, IInv, RowsOK, TypeOK
      <4>2. links[g].status \in {"active", "revoked"}
        BY <2>5, <4>1, KnownRows DEF InboundOK, IInv
      <4>. QED
        BY <2>5, <4>1, <4>2 DEF Dead, Live, Unexpired
    <3>3. Dead(g)' /\ Names(l, g)' /\ SameGrant(l, g)'
      BY <1>1, <1>3, <3>2 DEF Dead, Names, SameGrant, Known, Existed, Inbound
    <3>4. ~Confirms(r.by)'
      BY <2>2, <3>1 DEF Confirms, Asks, HeldStages
    <3>5. ThreadOK(r.by)'
      BY <3>1, <3>3, <3>4
         DEF ThreadOK, InsertOK, Waiting, NamesOK, ConfirmOK, EndedOK, TellingOK
    <3>. QED
      BY <1>1, <1>2, <2>3, <2>4, <3>4, <3>5, Quiet, Unwritten
  <2>6. CASE ~(Known(g) /\ ~Live(g))
    <3>1. task'[r.by] = Idle
      BY <1>3, <1>5, <2>1, <2>6 DEF Status, IInv, TypeOK
    <3>2. ThreadOK(r.by)' /\ ~Confirms(r.by)'
      BY <2>1, <2>2, <3>1, IdleOK
    <3>. QED
      BY <1>1, <1>2, <2>3, <2>4, <3>2, Quiet, Unwritten
  <2>. QED
    BY <2>5, <2>6
<1>. QED
  BY <1>4, <1>5

(* The requests of a thread that stopped waiting. *)
LEMMA LeftWire ==
    ASSUME IInv, NEW w \in Threads, wire' \in {wire \ RequestOf(w), LeftBehind(w)}
    PROVE  (\A r \in wire' : Stays(r, w)) /\ (\A r \in wire' : r.by # w)
<1>1. ASSUME NEW r \in wire'
      PROVE  Stays(r, w) /\ r.by # w
  <2>1. CASE r \in wire /\ r.by # w
    BY <2>1 DEF Stays
  <2>2. ASSUME NEW q \in wire, r = [q EXCEPT !.by = NoThread]
        PROVE  r.op = q.op /\ r.link = q.link /\ r.grant = q.grant /\ r.by = NoThread
    BY <2>2, Requests DEF IInv, Request
  <2>. QED
    BY <1>1, <2>1, <2>2, NoValueAssumption DEF LeftBehind, RequestOf, Stays
<1>. QED
  BY <1>1

LEMMA FailureStep ==
    ASSUME IInv, NEW w \in Threads, Unavailable(w) \/ Busy(w)
    PROVE  Kept'
<1>1. PICK r \in wire : r.by = w
  BY DEF Unavailable, Busy, RequestOf
<1>2. /\ links' = links /\ now' = now /\ lost' = lost /\ escaped \subseteq escaped'
      /\ wire' \in {wire \ RequestOf(w), LeftBehind(w)}
  BY DEF Unavailable, Busy
<1>3. (\A q \in wire' : Stays(q, w)) /\ (\A q \in wire' : q.by # w)
  BY <1>2, LeftWire
<1>4. task[w] # Idle /\ task[w] \in Task /\ WaitsFor(r)
  BY <1>1, Tasks, NoValueAssumption DEF IInv, WireOK, RequestOK, WaitsFor
<1>5. \A x \in Threads \ {w} : task'[x] = task[x]
  BY <1>4 DEF Unavailable, Busy, AfterFailure, Stage, IInv, TypeOK
<1>6. CASE task'[w] = Idle
  <2>1. task[w].at # "undoing" \/ task[w].grant \in escaped'
    BY <1>4, <1>6, NoValueAssumption
       DEF Unavailable, Busy, AfterFailure, Stage, IInv, TypeOK, Task, Stages
  <2>2. \A g \in Links : Holds(w, g) => g \in escaped'
    BY <1>1, <1>4, <2>1 DEF Holds, WaitsFor
  <2>3. ThreadOK(w)' /\ ~Confirms(w)'
    BY <1>3, <1>6, IdleOK
  <2>. QED
    BY <1>2, <1>3, <1>5, <2>2, <2>3, Quiet, Unwritten
<1>7. CASE task'[w] # Idle
  <2>1. /\ task'[w].link = task[w].link /\ task'[w].grant = task[w].grant
        /\ \/ Asks(w, "token") /\ task[w].at = "asking" /\ task'[w].at = "failed"
           \/ task[w].at = "undoing" /\ task'[w].at = "kept"
    BY <1>4, <1>7, NoValueAssumption
       DEF Unavailable, Busy, AfterFailure, Stage, RequestOf, Asks, IInv, TypeOK, Task, Stages
  <2>2. Confirms(w)
    BY <1>4, <2>1 DEF Confirms, HeldStages
  <2>3. ConfirmOK(w)'
    BY <1>2, <1>4, <2>1, <2>2, Quiet, NoneWritten, ConfirmStay, NoValueAssumption, Tasks
       DEF HeldStages, IInv
  <2>4. task[w].at = "undoing" => Names(task[w].link, task[w].grant)
    BY <1>4 DEF IInv, TasksOK, NamesOK, HeldStages
  <2>5. NamesOK(w)'
    BY <1>2, <2>1, <2>4 DEF NamesOK, HeldStages, Names, Known, Existed, Inbound
  <2>6. ThreadOK(w)'
    BY <2>1, <2>3, <2>5 DEF ThreadOK, InsertOK, Waiting, EndedOK, TellingOK
  <2>7. \A g \in Links : Holds(w, g) => Holds(w, g)'
    BY <1>7, <2>1 DEF Holds
  <2>. QED
    BY <1>2, <1>3, <1>5, <2>1, <2>2, <2>6, <2>7, Quiet, Unwritten
<1>. QED
  BY <1>6, <1>7

LEMMA CrashStep ==
    ASSUME IInv, NEW w \in Threads, Crash(w)
    PROVE  Kept'
<1>1. /\ links' = links /\ now' = now /\ lost \subseteq lost' /\ escaped' = escaped
      /\ wire' = LeftBehind(w) /\ task'[w] = Idle /\ \A x \in Threads \ {w} : task'[x] = task[x]
      /\ \A g \in Links : Holds(w, g) => g \in lost'
  BY DEF Crash, IInv, TypeOK
<1>2. (\A r \in wire' : Stays(r, w)) /\ (\A r \in wire' : r.by # w)
  BY <1>1, LeftWire
<1>3. ThreadOK(w)' /\ ~Confirms(w)'
  BY <1>1, <1>2, IdleOK
<1>. QED
  BY <1>1, <1>2, <1>3, Quiet, Unwritten

LEMMA LoseStep ==
    ASSUME IInv, NEW r \in wire, Lose(r)
    PROVE  Kept'
<1>1. /\ links' = links /\ now' = now /\ lost' = lost /\ escaped' = escaped
      /\ wire' = wire \ {r} /\ task' = task /\ r.by = NoThread
  BY DEF Lose
<1>2. \A q \in wire' : Stays(q, NoThread)
  BY <1>1, AnsweredWire
<1>. QED
  BY <1>1, <1>2, Quiet, Unwritten, NoValueAssumption

-----------------------------------------------------------------------------
(* Revocations. *)
LEMMA EndsOne ==
    ASSUME IInv, now' = now, NEW l \in Links, Known(l), NEW row \in Row,
           links' = [links EXCEPT ![l] = row],
           row.at = links[l].at, row.peer = links[l].peer,
           row.outbound = links[l].outbound, row.consent = links[l].consent,
           row.status = "revoked", row.expires = links[l].expires,
           row.granted = links[l].granted, row.remote = links[l].remote,
           row.control \in {links[l].control, NoLink}
    PROVE  /\ Around(NoLink) /\ Known(l)' /\ links'[l] = row
           /\ \A k \in Links : k # l => links'[k] = links[k]
<1>1. /\ links'[l] = row /\ Known(l)'
      /\ \A k \in Links : k # l => links'[k] = links[k]
  BY NoValueAssumption DEF IInv, TypeOK, Known
<1>2. Ends(l)
  BY <1>1 DEF Ends, Fixed
<1>. QED
  BY <1>1, <1>2 DEF Around, IInv, TypeOK

LEMMA WithdrawStep ==
    ASSUME IInv, NEW r \in wire, Withdraw(r)
    PROVE  Kept'
<1>1. /\ now' = now /\ lost' = lost /\ escaped' = escaped /\ wire' = wire \ {r}
      /\ r.op = "revoke" /\ r.by \in Threads \cup {NoThread}
  BY Requests DEF Withdraw, IInv
<1>2. \A q \in wire' : Stays(q, r.by)
  BY <1>1, AnsweredWire
<1>3. PICK l \in Links, g \in Links : l = r.link /\ g = r.grant /\ Names(l, g)
  BY <1>1, Requests DEF IInv, WireOK, RequestOK
<1>4. /\ Around(NoLink)
      /\ \A k \in Links : Known(k) /\ Known(k)' => links'[k].control = links[k].control
      /\ Dead(g)'
  <2>1. CASE ~Known(g)
    <3>1. links' = links
      BY <1>3, <2>1 DEF Withdraw
    <3>. QED
      BY <1>1, <2>1, <3>1, Quiet DEF Dead, Known
  <2>2. CASE Known(g)
    <3>. DEFINE row == [links[g] EXCEPT !.status = "revoked", !.enabled = FALSE]
    <3>1. links' = [links EXCEPT ![g] = row] /\ links[g] \in Row
      BY <1>3, <2>2, KnownRows DEF Withdraw, Names, IInv
    <3>2. /\ row \in Row /\ row.at = links[g].at /\ row.peer = links[g].peer
          /\ row.outbound = links[g].outbound /\ row.consent = links[g].consent
          /\ row.status = "revoked" /\ row.expires = links[g].expires
          /\ row.granted = links[g].granted /\ row.remote = links[g].remote
          /\ row.control = links[g].control
      BY <3>1 DEF Row
    <3>. HIDE DEF row
    <3>3. /\ Around(NoLink) /\ links'[g] = row
          /\ \A k \in Links : k # g => links'[k] = links[k]
      BY <1>1, <2>2, <3>1, <3>2, EndsOne
    <3>. QED
      BY <3>2, <3>3 DEF Dead
  <2>. QED
    BY <2>1, <2>2
<1>5. \A m, k \in Links : Known(m) /\ Known(m)' /\ links[m].control = k =>
          links'[m].control = k \/ Dead(k)'
  BY <1>4
<1>6. CASE r.by = NoThread
  <2>1. \A x \in Threads \ {r.by} : task'[x] = task[x]
    BY <1>6 DEF Withdraw
  <2>. QED
    BY <1>1, <1>2, <1>4, <1>5, <1>6, <2>1, Unwritten, NoValueAssumption
<1>7. CASE r.by # NoThread
  <2>1. PICK w \in Threads : /\ w = r.by /\ task[w] # Idle
                             /\ task[w].link = l /\ task[w].grant = g
                             /\ task[w].at \in {"undoing", "telling"} /\ task[w] \in Task
    BY <1>1, <1>3, <1>7, Waiters, Tasks DEF IInv, WireOK, RequestOK, WaitsFor
  <2>2. \A q \in wire' : q.by # w
    BY <1>1, <1>7, <2>1, AnsweredWire
  <2>3. /\ \A x \in Threads \ {w} : task'[x] = task[x]
        /\ task'[w] # Idle /\ task'[w].link = l /\ task'[w].grant = g
        /\ task'[w].at = IF task[w].at = "undoing" THEN "undone" ELSE "told"
    BY <1>7, <2>1, NoValueAssumption DEF Withdraw, Stage, IInv, TypeOK, Task, Stages
  <2>4. Names(l, g)' /\ Step(NoLink)
    BY <1>3, <1>4, NoneWritten, NamesStay
  <2>5. Confirms(w)' => Confirms(w) /\ task[w].at = "undoing"
    BY <2>1, <2>2, <2>3 DEF Confirms, Asks, HeldStages
  <2>6. ConfirmOK(w)'
    BY <2>1, <2>3, <2>4, <2>5, ConfirmStay, NoValueAssumption DEF HeldStages
  <2>7. TellingOK(w)'
    <3>1. SUFFICES ASSUME task[w].at = "telling" PROVE TellingOK(w)'
      BY <2>1, <2>3 DEF TellingOK
    <3>2. NoConfirm
      BY <1>1, <1>2, <2>1, <2>3, <2>5, NoneConfirms
    <3>3. /\ Known(l) => links[l].status = "revoked" /\ links[l].control \in {g, NoLink}
          /\ \A x \in Threads : Confirms(x) => task[x].link # l
      BY <2>1, <3>1 DEF IInv, TasksOK, TellingOK
    <3>4. Known(l)' => links'[l].status = "revoked" /\ links'[l].control \in {g, NoLink}
      BY <3>3, <1>4, NoValueAssumption DEF Around, Ends, Known
    <3>5. \A x \in Threads : Confirms(x)' => task'[x].link # l
      BY <3>2, <3>3 DEF NoConfirm
    <3>. QED
      BY <2>3, <3>4, <3>5 DEF TellingOK
  <2>8. ThreadOK(w)'
    BY <1>4, <2>1, <2>3, <2>4, <2>6, <2>7
       DEF ThreadOK, InsertOK, Waiting, NamesOK, EndedOK
  <2>9. \A k \in Links : Holds(w, k) => Holds(w, k)'
    BY <2>1, <2>3 DEF Holds
  <2>. QED
    BY <1>1, <1>2, <1>4, <1>5, <2>1, <2>3, <2>5, <2>8, <2>9, Unwritten
<1>. QED
  BY <1>6, <1>7

LEMMA RevokeStep ==
    ASSUME IInv, NEW w \in Threads, NEW l \in Links, Revoke(w, l)
    PROVE  Kept'
<1>. DEFINE told == links[l].control # NoLink
            row == [links[l] EXCEPT !.status = "revoked", !.enabled = FALSE, !.offer = FALSE,
                                    !.dataKey = links[l].dataKey /\ ~links[l].outbound,
                                    !.pending = told]
<1>1. task[w] = Idle /\ Known(l) /\ now' = now /\ lost' = lost /\ escaped' = escaped
  BY DEF Revoke
<1>2. links' = [links EXCEPT ![l] = row]
  BY RevokedRow
<1>3. /\ row \in Row /\ row.at = links[l].at /\ row.peer = links[l].peer
      /\ row.outbound = links[l].outbound /\ row.consent = links[l].consent
      /\ row.status = "revoked" /\ row.expires = links[l].expires
      /\ row.granted = links[l].granted /\ row.remote = links[l].remote
      /\ row.control = links[l].control
  <2>1. links[l] \in Row /\ told \in BOOLEAN
        /\ (links[l].dataKey /\ ~links[l].outbound) \in BOOLEAN
    BY <1>1, KnownRows DEF IInv
  <2>. QED
    BY <2>1 DEF Row
<1>4. /\ Around(NoLink) /\ links'[l] = row
      /\ \A k \in Links : k # l => links'[k] = links[k]
  <2>. HIDE DEF row, told
  <2>. QED
    BY <1>1, <1>2, <1>3, EndsOne
<1>5. \A m, k \in Links : Known(m) /\ Known(m)' /\ links[m].control = k =>
          links'[m].control = k \/ Dead(k)'
  BY <1>3, <1>4
<1>6. \A r \in wire : r.by # w
  BY <1>1, NoneAsks
<1>7. \A g \in Links : ~Holds(w, g)
  BY <1>1 DEF Holds
<1>8. CASE ~told
  <2>1. task' = task /\ wire' = wire
    BY <1>8 DEF Revoke
  <2>2. (\A r \in wire' : Stays(r, w)) /\ ThreadOK(w)' /\ ~Confirms(w)'
    BY <1>1, <1>6, <2>1, IdleOK DEF Stays
  <2>. QED
    BY <1>1, <1>4, <1>5, <1>7, <2>1, <2>2, Unwritten
<1>9. CASE told
  <2>1. PICK g \in Links : /\ g = links[l].control /\ Names(l, g) /\ g # NoLink
                           /\ \A x \in Threads : Confirms(x) => task[x].link # l
    BY <1>1, <1>9 DEF IInv, RowsOK, ControlOK, Names, TasksOK, ConfirmOK
  <2>. DEFINE r0 == [op |-> "revoke", link |-> l, grant |-> g, by |-> w]
  <2>2. /\ wire' = wire \cup {r0}
        /\ task' = [task EXCEPT ![w] = [link |-> l, grant |-> g, at |-> "telling"]]
    BY <1>9, <2>1 DEF Revoke, Ask
  <2>3. /\ \A x \in Threads \ {w} : task'[x] = task[x]
        /\ task'[w] # Idle /\ task'[w].link = l /\ task'[w].grant = g /\ task'[w].at = "telling"
    BY <2>2, NoValueAssumption DEF IInv, TypeOK, Task, Stages
  <2>4. \A r \in wire' : Stays(r, w) \/ r = r0
    BY <1>6, <2>2 DEF Stays
  <2>5. Names(l, g)'
    BY <1>4, <2>1, NoneWritten, NamesStay
  <2>6. RequestOK(r0)' /\ r0.by = w /\ w # NoThread /\ r0.op # "token"
    BY <2>3, <2>5, NoValueAssumption DEF RequestOK, WaitsFor
  <2>7. ~Confirms(w)'
    BY <1>6, <2>2, <2>3 DEF Confirms, Asks, HeldStages
  <2>8. NoConfirm
    BY <2>3, <2>4, <2>6, <2>7, NoneConfirms
  <2>9. ThreadOK(w)'
    <3>0. links'[l].status = "revoked" /\ links'[l].control = g
      BY <1>3, <1>4, <2>1
    <3>1. TellingOK(w)'
      BY <2>1, <2>3, <2>8, <3>0 DEF TellingOK, NoConfirm
    <3>. QED
      BY <2>3, <2>5, <2>7, <3>1 DEF ThreadOK, InsertOK, Waiting, NamesOK, ConfirmOK, EndedOK
  <2>. HIDE DEF r0
  <2>. QED
    BY <1>1, <1>4, <1>5, <1>7, <2>3, <2>4, <2>6, <2>7, <2>9, Unwritten
<1>. QED
  BY <1>8, <1>9

(* The end of a revocation or of a refresh. *)
LEMMA LetGoStep ==
    ASSUME IInv, NEW w \in Threads, RevokeDone(w) \/ Retire(w)
    PROVE  Kept'
<1>1. PICK l \in Links, g \in Links :
         /\ l = task[w].link /\ g = task[w].grant /\ Names(l, g) /\ Dead(g)
         /\ task[w] # Idle /\ task[w].at \in {"told", "inactive"}
         /\ Known(l) /\ (task[w].at = "told" \/ links[l].status = "active") =>
               links[l].control \in {g, NoLink}
         /\ task[w].at = "told" => (Known(l) => links[l].status = "revoked")
  <2>1. task[w] # Idle /\ task[w].at \in {"told", "inactive"}
    BY DEF RevokeDone, Retire, Waiting
  <2>2. NamesOK(w) /\ EndedOK(w) /\ TellingOK(w)
    BY DEF IInv, TasksOK
  <2>. QED
    BY <2>1, <2>2 DEF NamesOK, Names, EndedOK, TellingOK, SameGrant
<1>2. /\ now' = now /\ lost' = lost /\ escaped' = escaped /\ wire' = wire
      /\ task' = [task EXCEPT ![w] = Idle]
  BY DEF RevokeDone, Retire
<1>3. task'[w] = Idle /\ \A x \in Threads \ {w} : task'[x] = task[x]
  BY <1>2 DEF IInv, TypeOK
<1>4. (\A r \in wire' : Stays(r, w)) /\ ThreadOK(w)' /\ ~Confirms(w)'
  BY <1>1, <1>2, <1>3, NoneAsks, IdleOK DEF Stays
<1>5. \A k \in Links : ~Holds(w, k)
  BY <1>1 DEF Holds
<1>6. /\ Around(NoLink)
      /\ \A m, k \in Links : Known(m) /\ Known(m)' /\ links[m].control = k =>
             links'[m].control = k \/ k = g
  <2>1. CASE links' = links
    BY <1>2, <2>1, Quiet
  <2>2. ASSUME NEW row \in Row, Known(l), links' = [links EXCEPT ![l] = row],
               row.at = links[l].at, row.peer = links[l].peer,
               row.outbound = links[l].outbound, row.consent = links[l].consent,
               row.status = "revoked", row.expires = links[l].expires,
               row.granted = links[l].granted, row.remote = links[l].remote,
               row.control = NoLink, links[l].control \in {g, NoLink}
        PROVE  /\ Around(NoLink)
               /\ \A m, k \in Links : Known(m) /\ Known(m)' /\ links[m].control = k =>
                      links'[m].control = k \/ k = g
    <3>1. /\ Around(NoLink) /\ \A k \in Links : k # l => links'[k] = links[k]
      BY <1>2, <2>2, EndsOne
    <3>. QED
      BY <2>2, <3>1, NoValueAssumption
  <2>3. CASE RevokeDone(w) /\ Known(l)
    <3>. DEFINE row == [links[l] EXCEPT !.control = NoLink, !.pending = FALSE]
    <3>1. links' = [links EXCEPT ![l] = row] /\ task[w].at = "told"
      BY <1>1, <2>3 DEF RevokeDone, Waiting
    <3>2. links[l] \in Row
      BY <2>3, KnownRows DEF IInv
    <3>3. /\ row \in Row /\ row.at = links[l].at /\ row.peer = links[l].peer
          /\ row.outbound = links[l].outbound /\ row.consent = links[l].consent
          /\ row.status = links[l].status /\ row.expires = links[l].expires
          /\ row.granted = links[l].granted /\ row.remote = links[l].remote
          /\ row.control = NoLink
      BY <3>2 DEF Row
    <3>. HIDE DEF row
    <3>. QED
      BY <1>1, <2>2, <2>3, <3>1, <3>3
  <2>4. CASE Retire(w) /\ Retirable(l)
    <3>. DEFINE row == [links[l] EXCEPT !.status = "revoked", !.control = NoLink,
                                        !.dataKey = FALSE, !.enabled = FALSE]
    <3>1. links' = [links EXCEPT ![l] = row] /\ Known(l) /\ links[l].status = "active"
      BY <1>1, <2>4 DEF Retire, Retirable
    <3>2. links[l] \in Row
      BY <3>1, KnownRows DEF IInv
    <3>3. /\ row \in Row /\ row.at = links[l].at /\ row.peer = links[l].peer
          /\ row.outbound = links[l].outbound /\ row.consent = links[l].consent
          /\ row.status = "revoked" /\ row.expires = links[l].expires
          /\ row.granted = links[l].granted /\ row.remote = links[l].remote
          /\ row.control = NoLink
      BY <3>2 DEF Row
    <3>. HIDE DEF row
    <3>. QED
      BY <1>1, <2>2, <3>1, <3>3
  <2>. QED
    BY <1>1, <2>1, <2>3, <2>4 DEF RevokeDone, Retire
<1>7. Dead(g)'
  BY <1>1, <1>6, NoneWritten, DeadStay
<1>. QED
  BY <1>2, <1>3, <1>4, <1>5, <1>6, <1>7, Unwritten

-----------------------------------------------------------------------------
(* A step that writes the row n, in which at most w moves and nothing is sent. *)
LEMMA Written ==
    ASSUME IInv, now' = now, NEW n \in Links, Step(n), Single(n),
           InboundOK(n)', YoungOK(n)', ControlOK(n)', ActiveOK(n)',
           NEW w \in Threads \cup {NoThread}, Answers(n, w),
           \A x \in Threads \ {w} : task'[x] = task[x] /\ Spares(n, x),
           \A r \in wire' : Stays(r, w),
           w \in Threads => /\ ThreadOK(w)'
                            /\ Confirms(w)' => Confirms(w) /\ task'[w].link = task[w].link,
           lost \subseteq lost', escaped \subseteq escaped',
           Live(n)' => Accounted(n)',
           \A l, g \in Links : Known(l) /\ Known(l)' /\ links[l].control = g =>
               links'[l].control = g,
           \A g \in Links : w \in Threads /\ Holds(w, g) =>
               Holds(w, g)' \/ Dead(g)' \/ Accounted(g)'
    PROVE  Kept'
<1>1. RowsOK'
  BY RowsStay
<1>2. WireOK'
  BY OldWireStay
<1>3. NoConfirm
  BY NoneConfirms
<1>4. TasksOK'
  BY <1>3, TasksStay
<1>5. ASSUME NEW x \in Threads, NEW g \in Links, Holds(x, g)
      PROVE  Holds(x, g)' \/ Dead(g)' \/ Accounted(g)'
  <2>1. CASE x = w
    BY <1>5, <2>1
  <2>2. CASE x # w
    BY <1>5, <2>2 DEF Holds
  <2>. QED
    BY <2>1, <2>2
<1>6. GrantAccounted'
  BY <1>5, AccountStay
<1>. QED
  BY <1>1, <1>2, <1>4, <1>6 DEF Kept

LEMMA Inserted ==
    ASSUME IInv, now' = now, NEW n \in Links, links[n] = Unused, NEW s,
           NEW row \in Row, links' = [Pruned(s) EXCEPT ![n] = row],
           row.status = "pending", ~row.granted, row.control = NoLink,
           row.expires = now + Pending
    PROVE  /\ Step(n) /\ Single(n) /\ YoungOK(n)' /\ ControlOK(n)' /\ ActiveOK(n)'
           /\ \A w : Answers(n, w) /\ \A x : Spares(n, x)
           /\ ~Live(n)'
           /\ links'[n] = row /\ Known(n)'
           /\ \A l \in Links : Known(l) /\ Known(l)' => links'[l] = links[l]
<1>1. /\ links'[n] = row /\ Known(n)' /\ ~Existed(n) /\ Existed(n)'
      /\ \A l \in Links \ {n} : links'[l] = links[l] \/ (Outdated(l) /\ links'[l] = Gone)
  BY NoValueAssumption DEF Pruned, IInv, TypeOK, Known, Existed
<1>2. Step(n)
  BY <1>1 DEF Step, Around, Forward, IInv, TypeOK
<1>3. Single(n) /\ ~Live(n)'
  BY <1>1 DEF Single, Live
<1>4. YoungOK(n)' /\ ControlOK(n)' /\ ActiveOK(n)'
  <2>1. links'[n].expires \in Nat /\ now' \in Nat /\ links'[n].expires = now' + Pending
    BY <1>1, PeriodsAssumption DEF IInv, TypeOK
  <2>. QED
    BY <1>1, <2>1, PeriodsAssumption DEF YoungOK, ControlOK, ActiveOK
<1>5. \A q \in wire : q.link # n
  BY <1>1, Requests DEF IInv, WireOK, RequestOK, TokenOK, Names
<1>6. \A w : Answers(n, w)
  BY <1>1, <1>5 DEF Answers, Redeems
<1>7. \A x : Spares(n, x)
  BY <1>1 DEF Spares
<1>8. \A l \in Links : Known(l) /\ Known(l)' => links'[l] = links[l]
  BY <1>1 DEF Known, Existed
<1>. QED
  BY <1>1, <1>2, <1>3, <1>4, <1>6, <1>7, <1>8

LEMMA InviteStep ==
    ASSUME IInv, NEW s \in Servers, NEW p \in Servers, NEW l \in Links, NEW c \in Consents,
           Invite(s, p, l, c)
    PROVE  Kept'
<1>. DEFINE row == NewRow(s, p, TRUE, c)
<1>1. /\ links[l] = Unused /\ links' = [Pruned(s) EXCEPT ![l] = row] /\ now' = now
      /\ task' = task /\ wire' = wire /\ lost' = lost /\ escaped' = escaped
  BY DEF Invite
<1>2. row \in Row
  BY NewRowTyped, ConsentsAssumption DEF IInv
<1>3. /\ row.status = "pending" /\ ~row.granted /\ row.control = NoLink
      /\ row.expires = now + Pending /\ row.outbound
  BY DEF NewRow
<1>. HIDE DEF row
<1>4. /\ Step(l) /\ Single(l) /\ YoungOK(l)' /\ ControlOK(l)' /\ ActiveOK(l)'
      /\ Answers(l, NoThread) /\ (\A x : Spares(l, x)) /\ ~Live(l)'
      /\ links'[l] = row
      /\ \A k \in Links : Known(k) /\ Known(k)' => links'[k] = links[k]
  BY <1>1, <1>2, <1>3, Inserted
<1>5. InboundOK(l)'
  BY <1>3, <1>4 DEF InboundOK, Inbound
<1>6. \A r \in wire' : Stays(r, NoThread)
  BY <1>1 DEF Stays
<1>7. NoThread \notin Threads
  BY NoValueAssumption
<1>. QED
  BY <1>1, <1>4, <1>5, <1>6, <1>7, Written

LEMMA ApproveStep ==
    ASSUME IInv, NEW w \in Threads, NEW g \in Links, Approve(w, g)
    PROVE  Kept'
<1>. DEFINE made(meta) == NewRow(meta.peer, meta.at, FALSE, Mirror(meta.consent))
<1>1. PICK l \in Links : l = task[w].link /\ Known(l) /\ Outbound(l)
  BY Tasks DEF Approve, IInv, TasksOK, InsertOK, Waiting
<1>2. PICK row : row = [made(links[l]) EXCEPT !.remote = l]
  OBVIOUS
<1>3. /\ links[g] = Unused /\ links' = [Pruned(links[l].peer) EXCEPT ![g] = row] /\ now' = now
      /\ task[w] # Idle /\ task[w].at = "insert" /\ task' = [task EXCEPT ![w] = Idle]
      /\ wire' = wire /\ lost' = lost /\ escaped' = escaped
  BY <1>1, <1>2 DEF Approve
<1>4. /\ row \in Row /\ row.status = "pending" /\ ~row.granted /\ row.control = NoLink
      /\ row.expires = now + Pending /\ ~row.outbound /\ row.remote = l
      /\ row.at = links[l].peer /\ row.peer = links[l].at /\ row.consent = Mirror(links[l].consent)
  <2>1. made(links[l]) \in Row
    BY <1>1, KnownRows, Settings, NewRowTyped DEF IInv
  <2>2. row \in Row
    BY <1>2, <2>1 DEF Row
  <2>. QED
    BY <1>2, <2>2 DEF NewRow
<1>5. /\ Step(g) /\ Single(g) /\ YoungOK(g)' /\ ControlOK(g)' /\ ActiveOK(g)'
      /\ Answers(g, w) /\ (\A x : Spares(g, x)) /\ ~Live(g)'
      /\ links'[g] = row
      /\ \A k \in Links : Known(k) /\ Known(k)' => links'[k] = links[k]
  BY <1>3, <1>4, Inserted
<1>6. InboundOK(g)'
  <2>1. Existed(l) /\ Existed(l)'
    BY <1>1, <1>5, RowsForward DEF Existed, Known
  <2>2. Known(l)' => Mirrored(g, l)'
    BY <1>1, <1>4, <1>5 DEF Mirrored, Outbound
  <2>. QED
    BY <1>4, <1>5, <2>1, <2>2 DEF InboundOK
<1>7. \A r \in wire' : Stays(r, w) /\ r.by # w
  BY <1>3, NoneAsks DEF Stays
<1>8. /\ \A x \in Threads \ {w} : task'[x] = task[x]
      /\ ThreadOK(w)' /\ ~Confirms(w)'
  BY <1>3, <1>7, IdleOK DEF IInv, TypeOK
<1>9. \A k \in Links : ~Holds(w, k)
  BY <1>3 DEF Holds
<1>. QED
  BY <1>3, <1>5, <1>6, <1>7, <1>8, <1>9, Written

-----------------------------------------------------------------------------
(* The updates of a confirmation. *)
LEMMA Updated ==
    ASSUME IInv, now' = now, NEW n \in Links, Known(n), NEW row \in Row,
           links' = [links EXCEPT ![n] = row],
           row.at = links[n].at, row.peer = links[n].peer,
           row.outbound = links[n].outbound, row.consent = links[n].consent,
           ~links[n].outbound => row.remote = links[n].remote,
           ~links[n].outbound /\ links[n].granted =>
               row.granted /\ row.expires = links[n].expires,
           row.status # "pending", links[n].status = "revoked" => row.status = "revoked"
    PROVE  /\ Step(n) /\ links'[n] = row /\ Known(n)' /\ Existed(n)
           /\ Inbound(n)' <=> Inbound(n)
           /\ Outbound(n)' <=> Outbound(n)
           /\ \A l \in Links : Known(l)' <=> Known(l)
           /\ \A l \in Links \ {n} : links'[l] = links[l]
<1>1. /\ links'[n] = row /\ Known(n)' /\ Existed(n) /\ Existed(n)'
      /\ \A l \in Links \ {n} : links'[l] = links[l]
  BY NoValueAssumption DEF IInv, TypeOK, Known, Existed
<1>2. Step(n)
  BY <1>1 DEF Step, Around, Forward, Fixed, IInv, TypeOK
<1>. QED
  BY <1>1, <1>2 DEF Inbound, Outbound, Known

LEMMA RedeemStep ==
    ASSUME IInv, NEW r \in wire, Redeem(r)
    PROVE  Kept'
<1>1. /\ now' = now /\ escaped' = escaped /\ wire' = wire \ {r} /\ r.op = "token"
      /\ r.by \in Threads \cup {NoThread} /\ lost \subseteq lost'
  BY Requests DEF Redeem, IInv
<1>2. \A q \in wire' : Stays(q, r.by)
  BY <1>1, AnsweredWire
<1>3. PICK l \in Links, g \in Links : l = r.link /\ g = r.grant /\ TokenOK(r)
  BY <1>1, Requests DEF IInv, WireOK, RequestOK
<1>4. ASSUME r.by # NoThread
      PROVE  /\ r.by \in Threads /\ task[r.by] # Idle /\ task[r.by] \in Task
             /\ task[r.by].link = l /\ task[r.by].grant = g /\ task[r.by].at = "asking"
             /\ Confirms(r.by)
             /\ \A q \in wire' : q.by # r.by
             /\ \A k \in Links : ~Holds(r.by, k)
  <2>1. /\ r.by \in Threads /\ task[r.by] # Idle /\ task[r.by] \in Task
        /\ task[r.by].link = l /\ task[r.by].grant = g /\ task[r.by].at = "asking"
    BY <1>1, <1>3, <1>4, Waiters, Tasks DEF IInv, WireOK, RequestOK, WaitsFor
  <2>. QED
    BY <1>1, <1>4, <2>1, AnsweredWire DEF Confirms, Asks, Holds
<1>5. CASE ~(Redeemable(g) /\ links[g].remote = l)
  <2>1. links' = links /\ lost' = lost /\ task' = Answered(r, "failed")
    BY <1>3, <1>5 DEF Redeem
  <2>2. CASE r.by = NoThread
    BY <1>1, <1>2, <2>1, <2>2, Quiet, Unwritten, NoValueAssumption DEF Answered
  <2>3. CASE r.by # NoThread
    <3>1. /\ \A x \in Threads \ {r.by} : task'[x] = task[x]
          /\ task'[r.by] # Idle /\ task'[r.by].link = l /\ task'[r.by].grant = g
          /\ task'[r.by].at = "failed"
      BY <1>4, <2>1, <2>3, NoValueAssumption DEF Answered, Stage, IInv, TypeOK, Task, Stages
    <3>2. ConfirmOK(r.by)'
      BY <1>1, <1>3, <1>4, <2>1, <2>3, <3>1, Quiet, NoneWritten, ConfirmStay, NoValueAssumption
         DEF HeldStages
    <3>3. ThreadOK(r.by)'
      BY <3>1, <3>2
         DEF ThreadOK, InsertOK, Waiting, NamesOK, HeldStages, EndedOK, TellingOK
    <3>. QED
      BY <1>1, <1>2, <1>4, <2>1, <2>3, <3>1, <3>3, Quiet, Unwritten
  <2>. QED
    BY <2>2, <2>3
<1>6. CASE Redeemable(g) /\ links[g].remote = l
  <2>. DEFINE shares == Shares(links[g].consent)
              row == [links[g] EXCEPT !.status = "active", !.offer = FALSE, !.granted = TRUE,
                                      !.dataKey = shares, !.enabled = shares,
                                      !.expires = now + Lifetime]
  <2>1. /\ links' = [links EXCEPT ![g] = row] /\ task' = Answered(r, "answered")
        /\ r.by = NoThread => g \in lost'
    BY <1>3, <1>6 DEF Redeem
  <2>2. Inbound(g) /\ Known(g) /\ links[g].status = "pending" /\ ~links[g].granted
        /\ InboundOK(g)
    BY <1>6 DEF Redeemable, Inbound, IInv, RowsOK, InboundOK
  <2>3. /\ row \in Row /\ row.at = links[g].at /\ row.peer = links[g].peer
        /\ row.outbound = links[g].outbound /\ row.consent = links[g].consent
        /\ row.status = "active" /\ row.expires = now + Lifetime
        /\ row.granted /\ row.remote = links[g].remote /\ row.control = links[g].control
    <3>1. links[g] \in Row /\ links[g].consent \in [send : BOOLEAN, receive : BOOLEAN]
      BY <2>2, KnownRows DEF IInv
    <3>2. shares \in BOOLEAN /\ now + Lifetime \in Nat
      BY <3>1, Settings, PeriodsAssumption DEF IInv, TypeOK
    <3>. HIDE DEF shares
    <3>. QED
      BY <3>1, <3>2 DEF Row
  <2>. HIDE DEF row
  <2>4. /\ Step(g) /\ links'[g] = row /\ Known(g)' /\ Inbound(g)' /\ Existed(g)
        /\ \A k \in Links : Known(k)' <=> Known(k)
        /\ \A k \in Links \ {g} : links'[k] = links[k]
    BY <1>1, <2>1, <2>2, <2>3, Updated
  <2>5. Single(g)
    BY <1>3, <1>6, <2>3, <2>4 DEF Single, TokenOK
  <2>6. \A m \in Links : ~Names(m, g)
    BY <2>2 DEF Names
  <2>l. /\ l # g /\ links'[l] = links[l] /\ Existed(l) /\ Existed(l)'
        /\ Known(l)' <=> Known(l)
        /\ Known(l) => Outbound(l) /\ Outbound(l)' /\ links[l].status # "pending"
    <3>1. Existed(l) /\ (Known(l) => Outbound(l) /\ links[l].status # "pending")
      BY <1>3 DEF TokenOK
    <3>2. l # g
      BY <2>2, <3>1 DEF Inbound, Outbound
    <3>. QED
      BY <2>4, <3>1, <3>2 DEF Existed, Outbound, Known
  <2>7. InboundOK(g)' /\ YoungOK(g)' /\ ControlOK(g)' /\ ActiveOK(g)'
    <3>1. links[g].control = NoLink /\ (Known(l) => Mirrored(g, l))
      BY <1>6, <2>2 DEF InboundOK
    <3>2. Known(l)' => Mirrored(g, l)'
      BY <2>3, <2>4, <2>l, <3>1 DEF Mirrored
    <3>. QED
      BY <1>6, <2>2, <2>3, <2>4, <2>l, <3>1, <3>2
         DEF InboundOK, YoungOK, ControlOK, ActiveOK, Inbound, Outbound
  <2>8. Answers(g, r.by)
    <3>1. ASSUME NEW q \in wire PROVE Redeems(g, q.op, q.link, q.grant)
      <4>1. q.op = "token" /\ q.link = r.link => q.grant = r.grant
        BY <1>1 DEF IInv, WireOK
      <4>2. links'[g].remote = r.link /\ g = r.grant
        BY <1>3, <1>6, <2>3, <2>4
      <4>. QED
        BY <4>1, <4>2 DEF Redeems
    <3>2. ASSUME NEW q \in wire, q.link = g PROVE q.op \notin {"token", "status"}
      <4>1. RequestOK(q)
        BY DEF IInv, WireOK
      <4>. QED
        BY <2>2, <3>2, <4>1 DEF RequestOK, TokenOK, SameGrant, Inbound, Outbound
    <3>. QED
      BY <3>1, <3>2 DEF Answers
  <2>9. ASSUME NEW x \in Threads PROVE Spares(g, x)
    <3>1. ConfirmOK(x) /\ TellingOK(x) /\ EndedOK(x)
      BY DEF IInv, TasksOK
    <3>. QED
      BY <2>2, <3>1 DEF Spares, ConfirmOK, TellingOK, EndedOK, SameGrant, Inbound, Outbound
  <2>10. \A m, k \in Links : Known(m) /\ Known(m)' /\ links[m].control = k => links'[m].control = k
    BY <2>3, <2>4
  <2>11. CASE r.by = NoThread
    <3>1. \A x \in Threads \ {r.by} : task'[x] = task[x]
      BY <2>1, <2>11 DEF Answered
    <3>2. Accounted(g)' /\ r.by \notin Threads
      BY <2>1, <2>11, NoValueAssumption DEF Accounted
    <3>. QED
      BY <1>1, <1>2, <2>4, <2>5, <2>7, <2>8, <2>9, <2>10, <3>1, <3>2, Written
  <2>12. CASE r.by # NoThread
    <3>1. /\ \A x \in Threads \ {r.by} : task'[x] = task[x]
          /\ task'[r.by] # Idle /\ task'[r.by].link = l /\ task'[r.by].grant = g
          /\ task'[r.by].at = "answered"
      BY <1>4, <2>1, <2>12, NoValueAssumption DEF Answered, Stage, IInv, TypeOK, Task, Stages
    <3>2. NamesOK(r.by)'
      BY <1>6, <2>3, <2>4, <2>l, <3>1 DEF NamesOK, Names, Existed, Known
    <3>3. ConfirmOK(r.by)'
      <4>1. /\ Known(l) => links[l].status \in {"exchanging", "revoked"} /\ links[l].control = NoLink
            /\ Known(l) /\ now < links[l].expires /\ links[l].expires <= now + Pending
        BY <1>3, <1>4, <2>12 DEF IInv, TasksOK, ConfirmOK, TokenOK
      <4>2. links[l].expires \in Nat /\ now \in Nat
        BY <4>1, KnownRows DEF IInv, TypeOK
      <4>3. Timely(l, g)'
        BY <2>3, <2>4, <2>l, <4>1, <4>2, PeriodsAssumption DEF Timely
      <4>. QED
        BY <2>l, <3>1, <4>1, <4>3 DEF ConfirmOK
    <3>4. ThreadOK(r.by)'
      BY <3>1, <3>2, <3>3 DEF ThreadOK, InsertOK, Waiting, EndedOK, TellingOK
    <3>5. Holds(r.by, g)'
      BY <3>1 DEF Holds
    <3>6. Accounted(g)'
      BY <1>4, <2>12, <3>5 DEF Accounted
    <3>. QED
      BY <1>1, <1>2, <1>4, <2>4, <2>5, <2>7, <2>8, <2>9, <2>10, <2>12, <3>1, <3>4, <3>6, Written
  <2>. QED
    BY <2>11, <2>12
<1>. QED
  BY <1>5, <1>6

LEMMA CompleteStep ==
    ASSUME IInv, NEW w \in Threads, Complete(w)
    PROVE  Kept'
<1>1. PICK l \in Links, g \in Links :
         /\ l = task[w].link /\ g = task[w].grant /\ Names(l, g) /\ Timely(l, g)
         /\ task[w] # Idle /\ task[w].at = "answered"
         /\ Outbound(l) /\ Known(l) /\ links[l].status = "exchanging"
         /\ links[l].control = NoLink /\ links[l].expires <= now + Pending
         /\ now < links[l].expires
         /\ links[l].expires \in Nat /\ now \in Nat
  <2>1. /\ task[w] # Idle /\ task[w].at = "answered" /\ Completable(task[w].link)
        /\ NamesOK(w) /\ ConfirmOK(w) /\ YoungOK(task[w].link) /\ Confirms(w)
        /\ task[w].link \in Links
    BY Tasks DEF Complete, Waiting, IInv, TasksOK, RowsOK, Confirms, HeldStages
  <2>. QED
    BY <2>1, KnownRows
       DEF NamesOK, Names, ConfirmOK, YoungOK, Completable, Unexpired, HeldStages, IInv, TypeOK
<1>. DEFINE shares == Shares(links[l].consent)
            row == [links[l] EXCEPT !.status = "active", !.remote = g, !.control = g,
                                    !.dataKey = shares, !.enabled = shares,
                                    !.offer = FALSE, !.expires = now + Lifetime]
<1>2. /\ links' = [links EXCEPT ![l] = row] /\ now' = now /\ wire' = wire
      /\ lost' = lost /\ escaped' = escaped /\ task' = [task EXCEPT ![w] = Idle]
  BY <1>1 DEF Complete
<1>3. /\ row \in Row /\ row.at = links[l].at /\ row.peer = links[l].peer
      /\ row.outbound = links[l].outbound /\ row.consent = links[l].consent
      /\ row.status = "active" /\ row.expires = now + Lifetime
      /\ row.remote = g /\ row.control = g /\ row.granted = links[l].granted
  <2>1. links[l] \in Row /\ links[l].consent \in [send : BOOLEAN, receive : BOOLEAN]
    BY <1>1, KnownRows DEF IInv
  <2>2. shares \in BOOLEAN /\ now + Lifetime \in Nat
    BY <2>1, Settings, PeriodsAssumption DEF IInv, TypeOK
  <2>. HIDE DEF shares
  <2>. QED
    BY <2>1, <2>2 DEF Row
<1>. HIDE DEF row
<1>4. /\ Step(l) /\ links'[l] = row /\ Known(l)' /\ Outbound(l)' /\ ~Inbound(l)'
      /\ \A k \in Links : Known(k)' <=> Known(k)
      /\ \A k \in Links \ {l} : links'[k] = links[k]
  <2>1. links[l].outbound
    BY <1>1 DEF Outbound
  <2>2. Step(l) /\ links'[l] = row /\ Known(l)' /\ (Outbound(l)' <=> Outbound(l))
        /\ (\A k \in Links : Known(k)' <=> Known(k))
        /\ \A k \in Links \ {l} : links'[k] = links[k]
    BY <1>1, <1>2, <1>3, <2>1, Updated
  <2>. QED
    BY <1>1, <2>2 DEF Outbound, Inbound
<1>5. /\ Known(g) /\ g # l /\ links[g].expires \in Nat
      /\ links[g].expires <= links[l].expires + Lifetime
      /\ links[l].expires + Lifetime <= links[g].expires + Pending
  <2>1. Known(g)
    BY <1>1 DEF Timely
  <2>2. g # l
    BY <1>1, <2>1 DEF Names, Inbound, Outbound
  <2>. QED
    BY <1>1, <2>1, <2>2, KnownRows DEF Timely, IInv
<1>6. Single(l) /\ InboundOK(l)' /\ YoungOK(l)' /\ ~Live(l)'
  BY <1>3, <1>4 DEF Single, InboundOK, YoungOK, Live
<1>7. ControlOK(l)'
  <2>1. Names(l, g)'
    BY <1>1, <1>4, NamesStay
  <2>2. links'[g].expires <= links'[l].expires + Lifetime
    BY <1>1, <1>3, <1>4, <1>5, PeriodsAssumption
  <2>. QED
    BY <1>3, <1>4, <2>1, <2>2 DEF ControlOK
<1>8. ActiveOK(l)'
  <2>1. links'[l].expires <= links'[g].expires + Pending
    BY <1>1, <1>3, <1>4, <1>5, PeriodsAssumption
  <2>. QED
    BY <1>3, <1>4, <1>5, <2>1, NoValueAssumption DEF ActiveOK
<1>9. Confirms(w)
  BY <1>1 DEF Confirms, HeldStages
<1>10. ASSUME NEW x \in Threads \ {w} PROVE Spares(l, x)
  <2>1. ~(Confirms(x) /\ task[x].link = l)
    BY <1>1, <1>9 DEF IInv, TasksOK
  <2>2. TellingOK(x) /\ EndedOK(x)
    BY DEF IInv, TasksOK
  <2>. QED
    BY <1>1, <2>1, <2>2 DEF Spares, TellingOK, EndedOK, SameGrant
<1>11. Answers(l, w)
  <2>1. ASSUME NEW q \in wire, q.link = l
        PROVE  q.op # "status" /\ (q.op = "token" => q.by \in {w, NoThread})
    <3>1. RequestOK(q) /\ q.by \in Threads \cup {NoThread}
      BY Requests DEF IInv, WireOK
    <3>2. q.op = "token" /\ q.by # NoThread => Confirms(q.by) /\ task[q.by].link = l
      BY <2>1, <3>1 DEF RequestOK, WaitsFor, Confirms, Asks
    <3>. QED
      BY <1>1, <1>9, <2>1, <3>1, <3>2 DEF RequestOK, SameGrant, IInv, TasksOK
  <2>. QED
    BY <1>4, <2>1 DEF Answers, Redeems
<1>12. \A r \in wire' : Stays(r, w) /\ r.by # w
  BY <1>1, <1>2, NoneAsks DEF Stays
<1>13. /\ \A x \in Threads \ {w} : task'[x] = task[x]
       /\ ThreadOK(w)' /\ ~Confirms(w)'
  BY <1>2, <1>12, IdleOK DEF IInv, TypeOK
<1>14. \A m, k \in Links : Known(m) /\ Known(m)' /\ links[m].control = k => links'[m].control = k
  BY <1>1, <1>4, NoValueAssumption
<1>15. \A k \in Links : Holds(w, k) => Accounted(k)'
  BY <1>1, <1>3, <1>4 DEF Holds, Accounted
<1>. QED
  BY <1>2, <1>4, <1>6, <1>7, <1>8, <1>10, <1>11, <1>12, <1>13, <1>14, <1>15, Written

LEMMA AbandonStep ==
    ASSUME IInv, NEW w \in Threads, Abandon(w)
    PROVE  Kept'
<1>1. PICK l \in Links, g \in Links \cup {NoLink} :
         /\ l = task[w].link /\ g = task[w].grant
         /\ task[w] # Idle /\ task[w].at \in {"failed", "undone", "kept"}
         /\ task[w].at # "failed" => Names(l, g) /\ Timely(l, g)
         /\ task[w].at = "undone" => Dead(g)
         /\ Confirms(w)
         /\ Known(l) => /\ Outbound(l) /\ links[l].status \in {"exchanging", "revoked"}
                        /\ links[l].control = NoLink
  <2>1. /\ task[w] # Idle /\ task[w].at \in {"failed", "undone", "kept"}
        /\ Confirms(w) /\ NamesOK(w) /\ ConfirmOK(w) /\ EndedOK(w)
        /\ task[w].link \in Links /\ task[w].grant \in Links \cup {NoLink}
    BY Tasks DEF Abandon, IInv, TasksOK, Confirms, HeldStages
  <2>. QED
    BY <2>1 DEF NamesOK, ConfirmOK, EndedOK, HeldStages
<1>2. /\ now' = now /\ wire' = wire /\ lost' = lost /\ escaped' = escaped
      /\ task' = [task EXCEPT ![w] = Idle]
  BY DEF Abandon
<1>3. \A r \in wire' : Stays(r, w) /\ r.by # w
  BY <1>1, <1>2, NoneAsks DEF Stays
<1>4. /\ \A x \in Threads \ {w} : task'[x] = task[x]
      /\ ThreadOK(w)' /\ ~Confirms(w)'
  BY <1>2, <1>3, IdleOK DEF IInv, TypeOK
<1>5. CASE ~Known(l)
  <2>1. links' = links
    BY <1>1, <1>5 DEF Abandon
  <2>2. ASSUME NEW k \in Links, Holds(w, k) PROVE Dead(k)'
    <3>1. k = g /\ task[w].at \in {"undone", "kept"}
      BY <1>1, <2>2 DEF Holds
    <3>2. Dead(k)
      BY <1>1, <1>5, <3>1 DEF Timely, Dead
    <3>. QED
      BY <1>2, <2>1, <3>2 DEF Dead, Known
  <2>. QED
    BY <1>2, <1>3, <1>4, <2>1, <2>2, Quiet, Unwritten
<1>6. CASE Known(l)
  <2>1. PICK retry : retry = RetryToken(w)
    OBVIOUS
  <2>. DEFINE row == [links[l] EXCEPT !.status = "revoked", !.offer = FALSE, !.control = retry,
                                      !.dataKey = FALSE, !.enabled = FALSE,
                                      !.pending = (retry # NoLink)]
  <2>2. links' = [links EXCEPT ![l] = row]
    BY <1>1, <1>6, <2>1 DEF Abandon
  <2>3. retry \in Links \cup {NoLink} /\ (retry # NoLink => retry = g)
        /\ (task[w].at = "kept" => retry = g)
        /\ (retry # NoLink => task[w].at = "kept")
    BY <1>1, <2>1 DEF RetryToken
  <2>4. /\ row \in Row /\ row.at = links[l].at /\ row.peer = links[l].peer
        /\ row.outbound = links[l].outbound /\ row.consent = links[l].consent
        /\ row.status = "revoked" /\ row.expires = links[l].expires
        /\ row.remote = links[l].remote /\ row.control = retry
    <3>1. links[l] \in Row /\ (retry # NoLink) \in BOOLEAN
      BY <1>6, KnownRows DEF IInv
    <3>. QED
      BY <2>3, <3>1 DEF Row
  <2>. HIDE DEF row
  <2>5. /\ Step(l) /\ links'[l] = row /\ Known(l)' /\ Outbound(l)' /\ ~Inbound(l)'
        /\ \A k \in Links : Known(k)' <=> Known(k)
        /\ \A k \in Links \ {l} : links'[k] = links[k]
    <3>1. links[l].outbound
      BY <1>1, <1>6 DEF Outbound
    <3>2. Step(l) /\ links'[l] = row /\ Known(l)' /\ (Outbound(l)' <=> Outbound(l))
          /\ (\A k \in Links : Known(k)' <=> Known(k))
          /\ \A k \in Links \ {l} : links'[k] = links[k]
      BY <1>2, <1>6, <2>2, <2>4, <3>1, Updated
    <3>. QED
      BY <1>1, <1>6, <3>2 DEF Outbound, Inbound
  <2>6. Single(l) /\ InboundOK(l)' /\ YoungOK(l)' /\ ActiveOK(l)' /\ ~Live(l)'
    BY <2>4, <2>5 DEF Single, InboundOK, YoungOK, ActiveOK, Live
  <2>7. ControlOK(l)'
    <3>1. SUFFICES ASSUME retry # NoLink PROVE ControlOK(l)'
      BY <2>4, <2>5 DEF ControlOK
    <3>2. retry = g /\ Names(l, g) /\ Timely(l, g)
      BY <1>1, <2>3, <3>1
    <3>3. g # l
      BY <1>1, <1>6, <3>2 DEF Names, Inbound, Outbound
    <3>4. Names(l, g)'
      BY <2>5, <3>2, NamesStay
    <3>5. Known(g)' => links'[g].expires <= links'[l].expires + Lifetime
      BY <1>6, <2>4, <2>5, <3>2, <3>3 DEF Timely, Names
    <3>. QED
      BY <2>4, <2>5, <3>2, <3>4, <3>5 DEF ControlOK
  <2>8. ASSUME NEW x \in Threads \ {w} PROVE Spares(l, x)
    <3>1. ~(Confirms(x) /\ task[x].link = l)
      BY <1>1 DEF IInv, TasksOK
    <3>2. TellingOK(x)
      BY DEF IInv, TasksOK
    <3>. QED
      BY <1>1, <2>4, <2>5, <3>1, <3>2 DEF Spares, TellingOK, SameGrant
  <2>9. Answers(l, w)
    BY <2>4, <2>5 DEF Answers, Redeems, SameGrant
  <2>10. \A m, k \in Links : Known(m) /\ Known(m)' /\ links[m].control = k => links'[m].control = k
    BY <1>1, <2>5, NoValueAssumption
  <2>11. ASSUME NEW k \in Links, Holds(w, k) PROVE Dead(k)' \/ Accounted(k)'
    <3>1. k = g /\ task[w].at \in {"undone", "kept"}
      BY <1>1, <2>11 DEF Holds
    <3>2. CASE task[w].at = "undone"
      BY <1>1, <2>5, <3>1, <3>2, DeadStay
    <3>3. CASE task[w].at = "kept"
      BY <2>3, <2>4, <2>5, <3>1, <3>3 DEF Accounted
    <3>. QED
      BY <3>1, <3>2, <3>3
  <2>. QED
    BY <1>2, <1>3, <1>4, <2>5, <2>6, <2>7, <2>8, <2>9, <2>10, <2>11, Written
<1>. QED
  BY <1>5, <1>6

LEMMA ConfirmStep ==
    ASSUME IInv, NEW w \in Threads, NEW l \in Links, NEW g \in Links, Confirm(w, l, g)
    PROVE  Kept'
<1>. DEFINE r0 == [op |-> "token", link |-> l, grant |-> g, by |-> w]
            row == [links[l] EXCEPT !.status = "exchanging"]
<1>1. /\ task[w] = Idle /\ Outbound(l) /\ Known(l) /\ links[l].status = "pending"
      /\ now < links[l].expires /\ links[l].expires \in Nat /\ now \in Nat
      /\ links[l].control = NoLink /\ links[l].expires <= now + Pending
      /\ Inbound(g) /\ Known(g) /\ links[g].remote = l /\ g # l
      /\ links' = [links EXCEPT ![l] = row] /\ now' = now
      /\ wire' = wire \cup {r0} /\ lost' = lost /\ escaped' = escaped
      /\ task' = [task EXCEPT ![w] = [link |-> l, grant |-> g, at |-> "asking"]]
  <2>1. /\ Outbound(l) /\ links[l].status = "pending" /\ Unexpired(l) /\ YoungOK(l)
    BY DEF Confirm, Confirmable, IInv, RowsOK
  <2>. QED
    BY <2>1, KnownRows
       DEF Confirm, Unexpired, YoungOK, Ask, Inbound, Outbound, IInv, TypeOK
<1>2. /\ row \in Row /\ row.at = links[l].at /\ row.peer = links[l].peer
      /\ row.outbound = links[l].outbound /\ row.consent = links[l].consent
      /\ row.status = "exchanging" /\ row.expires = links[l].expires
      /\ row.remote = links[l].remote /\ row.control = links[l].control
  <2>1. links[l] \in Row
    BY <1>1, KnownRows DEF IInv
  <2>. QED
    BY <2>1 DEF Row
<1>. HIDE DEF row
<1>3. /\ Step(l) /\ links'[l] = row /\ Known(l)' /\ Outbound(l)' /\ ~Inbound(l)'
      /\ \A k \in Links : Known(k)' <=> Known(k)
      /\ \A k \in Links \ {l} : links'[k] = links[k]
  <2>1. links[l].outbound
    BY <1>1 DEF Outbound
  <2>2. Step(l) /\ links'[l] = row /\ Known(l)' /\ (Outbound(l)' <=> Outbound(l))
        /\ (\A k \in Links : Known(k)' <=> Known(k))
        /\ \A k \in Links \ {l} : links'[k] = links[k]
    BY <1>1, <1>2, <2>1, Updated
  <2>. QED
    BY <1>1, <2>2 DEF Outbound, Inbound
<1>4. RowsOK'
  <2>1. Single(l) /\ InboundOK(l)' /\ ControlOK(l)' /\ ActiveOK(l)' /\ YoungOK(l)'
    BY <1>1, <1>2, <1>3 DEF Single, InboundOK, ControlOK, ActiveOK, YoungOK
  <2>. QED
    BY <1>3, <2>1, RowsStay
<1>5. \A k \in Links : Inbound(k) /\ links[k].remote = l => ~links[k].granted
  BY <1>1 DEF IInv, RowsOK, InboundOK
<1>6. \A q \in wire : q.link = l => q.op \notin {"token", "status"}
  BY <1>1 DEF IInv, WireOK, RequestOK, TokenOK, SameGrant
<1>7. \A x \in Threads : task[x] # Idle /\ task[x].link = l =>
          ~Confirms(x) /\ task[x].at \notin {"telling", "told", "inactive"}
  <2>1. ASSUME NEW x \in Threads PROVE ConfirmOK(x) /\ TellingOK(x) /\ EndedOK(x)
    BY DEF IInv, TasksOK
  <2>. QED
    BY <1>1, <2>1 DEF ConfirmOK, TellingOK, EndedOK, SameGrant
<1>8. /\ \A x \in Threads \ {w} : task'[x] = task[x]
      /\ task'[w] # Idle /\ task'[w].link = l /\ task'[w].grant = g /\ task'[w].at = "asking"
  BY <1>1, NoValueAssumption DEF IInv, TypeOK, Task, Stages
<1>9. \A r \in wire : r.by # w
  BY <1>1, NoneAsks
<1>10. \A r \in wire' : Stays(r, w) \/ r = r0
  BY <1>1, <1>9 DEF Stays
<1>11. RequestOK(r0)'
  <2>1. WaitsFor(r0)'
    BY <1>8 DEF WaitsFor
  <2>2. TokenOK(r0)'
    <3>1. /\ Existed(l)' /\ Existed(g)' /\ Known(g)' /\ Inbound(g)' /\ links'[g].remote = l
      BY <1>1, <1>3 DEF Existed, Known, Inbound
    <3>2. ASSUME NEW k \in Links, Inbound(k)', links'[k].granted, links'[k].remote = l PROVE FALSE
      BY <1>3, <1>5, <3>2 DEF Inbound
    <3>. QED
      BY <1>1, <1>2, <1>3, <3>1, <3>2 DEF TokenOK
  <2>. QED
    BY <2>1, <2>2 DEF RequestOK
<1>12. Answers(l, w)
  BY <1>3, <1>6 DEF Answers, Redeems
<1>13. WireOK'
  <2>1. r0.op = "token" => \A q \in wire : q.op = "token" => q.link # r0.link
    BY <1>6
  <2>2. r0.by = w /\ w # NoThread
    BY NoValueAssumption
  <2>. HIDE DEF r0
  <2>. QED
    BY <1>1, <1>3, <1>8, <1>10, <1>11, <1>12, <2>1, <2>2, WireStay
<1>14. TasksOK'
  <2>1. ASSUME NEW x \in Threads \ {w}, Confirms(x)'
        PROVE  Confirms(x) /\ task'[x] = task[x] /\ task[x].link # l
    <3>1. Asks(x, "token")' => Asks(x, "token")
      BY <1>1 DEF Asks
    <3>2. Confirms(x)
      BY <1>8, <2>1, <3>1 DEF Confirms
    <3>3. task[x] # Idle
      BY <3>2 DEF Confirms
    <3>. QED
      BY <1>7, <1>8, <3>2, <3>3
  <2>2. ASSUME NEW x \in Threads \ {w} PROVE ThreadOK(x)'
    <3>1. ASSUME task[x] # Idle, task[x].at \in {"telling", "told"}, NEW y \in Threads, Confirms(y)'
          PROVE  task'[y].link # task[x].link
      <4>1. CASE y = w
        BY <1>7, <1>8, <3>1, <4>1
      <4>2. CASE y # w
        BY <2>1, <3>1, <4>2 DEF IInv, TasksOK, TellingOK
      <4>. QED
        BY <4>1, <4>2
    <3>2. Spares(l, x)
      BY <1>7 DEF Spares
    <3>. QED
      BY <1>3, <1>8, <2>1, <3>1, <3>2, ThreadStay
  <2>3. ThreadOK(w)'
    <3>1. ConfirmOK(w)'
      BY <1>1, <1>2, <1>3, <1>8 DEF ConfirmOK, HeldStages, Existed, Known
    <3>. QED
      BY <1>8, <3>1 DEF ThreadOK, InsertOK, Waiting, NamesOK, HeldStages, EndedOK, TellingOK
  <2>4. ASSUME NEW x \in Threads, NEW y \in Threads, Confirms(x)', Confirms(y)',
               task'[x].link = task'[y].link
        PROVE  x = y
    <3>1. CASE x # w /\ y # w
      BY <2>1, <2>4, <3>1 DEF IInv, TasksOK
    <3>2. CASE x # w /\ y = w
      BY <1>8, <2>1, <2>4, <3>2
    <3>3. CASE x = w /\ y # w
      BY <1>8, <2>1, <2>4, <3>3
    <3>. QED
      BY <3>1, <3>2, <3>3
  <2>5. ASSUME NEW x \in Threads PROVE ThreadOK(x)'
    <3>1. CASE x = w
      BY <2>3, <3>1
    <3>. QED
      BY <2>2, <3>1
  <2>. QED
    BY <2>4, <2>5 DEF TasksOK, ThreadOK
<1>15. GrantAccounted'
  <2>1. ~Live(l)'
    BY <1>3 DEF Live
  <2>2. \A m, k \in Links : Known(m) /\ Known(m)' /\ links[m].control = k => links'[m].control = k
    BY <1>1, <1>3, NoValueAssumption
  <2>3. \A x \in Threads, k \in Links : Holds(x, k) => Holds(x, k)'
    BY <1>1, <1>8 DEF Holds
  <2>. QED
    BY <1>1, <1>3, <2>1, <2>2, <2>3, AccountStay
<1>. QED
  BY <1>4, <1>13, <1>14, <1>15 DEF Kept

LEMMA TickStep ==
    ASSUME IInv, Tick
    PROVE  Kept'
<1>1. /\ links' = links /\ task' = task /\ wire' = wire /\ lost' = lost /\ escaped' = escaped
      /\ now \in Nat /\ now' = now + 1
  BY DEF Tick, IInv, TypeOK
<1>2. \A r \in wire : r.by = NoThread
  BY Requests DEF Tick, RequestOf, IInv
<1>3. Around(NoLink)
  BY <1>1 DEF Around
<1>4. /\ Step(NoLink) /\ RowsOK' /\ Answers(NoLink, NoThread)
      /\ (\A x : Spares(NoLink, x)) /\ NoLink \notin Links
  BY <1>3, NoneWritten, NoValueAssumption
<1>5. \A r \in wire' : RequestOK(r)'
  <2>1. ASSUME NEW r \in wire PROVE RequestOK(r)'
    BY <1>2, <1>4, RequestStay DEF Answers
  <2>. QED
    BY <1>1, <2>1
<1>6. WireOK'
  BY <1>1, <1>5 DEF WireOK, IInv
<1>7. NoConfirm
  BY <1>1 DEF NoConfirm, Confirms, Asks
<1>8. TasksOK'
  <2>1. NoThread \notin Threads
    BY NoValueAssumption
  <2>. QED
    BY <1>1, <1>4, <1>7, <2>1, TasksStay
<1>9. \A x \in Threads, g \in Links : Holds(x, g) => Holds(x, g)'
  BY <1>1 DEF Holds
<1>10. \A l, g \in Links : Known(l) /\ Known(l)' /\ links[l].control = g => links'[l].control = g
  BY <1>1
<1>11. GrantAccounted'
  BY <1>1, <1>4, <1>9, <1>10, AccountStay
<1>. QED
  BY <1>4, <1>6, <1>8, <1>11 DEF Kept

LEMMA Inductive == IInv /\ [Next]_vars => IInv'
<1>1. ASSUME IInv, Next PROVE IInv'
  <2>1. TypeOK'
    BY <1>1, TypesStep
  <2>2. Kept'
    BY <1>1, InviteStep, InspectStep, ApproveStep, RevokeStep, RefreshStep, ConfirmStep,
       CompleteStep, CompensateStep, AbandonStep, LetGoStep, FailureStep, CrashStep,
       RedeemStep, WithdrawStep, StatusStep, LoseStep, TickStep
       DEF Next, Peer
  <2>. QED
    BY <2>1, <2>2 DEF Kept, IInv
<1>2. ASSUME IInv, UNCHANGED vars PROVE IInv'
  <2>1. links' = links /\ task' = task /\ wire' = wire /\ now' = now /\ lost' = lost /\ escaped' = escaped
    BY <1>2 DEF vars
  <2>2. TypeOK'
    BY <1>2, <2>1 DEF IInv, TypeOK
  <2>3. Kept'
    <3>1. \A r \in wire' : Stays(r, NoThread)
      BY <2>1 DEF Stays
    <3>. QED
      BY <1>2, <2>1, <3>1, Quiet, Unwritten, NoValueAssumption
  <2>. QED
    BY <2>2, <2>3 DEF Kept, IInv
<1>. QED
  BY <1>1, <1>2

THEOREM Invariant == Spec => []IInv
BY Initially, Inductive, PTL DEF Spec

(* The rows, the threads, the requests and the clock keep their types. *)
THEOREM TypeCorrect == Spec => []TypeOK
BY Invariant, PTL DEF IInv

(* Every grant that is alive can be revoked by who keeps or carries its     *)
(* token, or its answer was lost, a thread died or the verifier was busy    *)
(* (confirm, its compensation, revoke and refresh).                         *)
THEOREM GrantsAccounted == Spec => []GrantAccounted
BY Invariant, PTL DEF IInv

(* An invitation makes one grant, and the ends of an active link name each  *)
(* other and agree on what is shared (approve, confirm, redeem, room).      *)
THEOREM PairsAgree == Spec => []PairAgrees
<1>1. IInv => PairAgrees
  <2>. SUFFICES ASSUME IInv PROVE PairAgrees
    OBVIOUS
  <2>1. OneGrant
    BY DEF IInv, RowsOK
  <2>2. ASSUME NEW l \in Links, Outbound(l), links[l].status = "active", Unexpired(l),
               NEW g, g = links[l].control
        PROVE  /\ g # NoLink /\ links[l].remote = g
               /\ Inbound(g) /\ links[g].remote = l
               /\ links[g].at = links[l].peer /\ links[g].peer = links[l].at
               /\ links[g].consent.send = links[l].consent.receive
               /\ links[g].consent.receive = links[l].consent.send
               /\ links[g].status \in {"active", "revoked"}
    <3>1. g # NoLink /\ links[l].remote = g /\ Names(l, g) /\ g \in Links
      BY <2>2 DEF IInv, RowsOK, ActiveOK, ControlOK, Names, Outbound
    <3>2. Known(g)
      <4>1. links[l].expires \in Nat /\ now \in Nat /\ now < links[l].expires
        BY <2>2, KnownRows DEF IInv, TypeOK, Outbound, Unexpired
      <4>. QED
        BY <2>2, <4>1 DEF IInv, RowsOK, ActiveOK
    <3>3. Inbound(g) /\ links[g].granted /\ links[g].remote = l
      BY <3>1, <3>2 DEF Names
    <3>4. Mirrored(g, l) /\ links[g].status \notin {"pending", "exchanging"}
      BY <2>2, <3>1, <3>3 DEF IInv, RowsOK, InboundOK, Outbound
    <3>5. links[g].status \in {"active", "revoked"}
      BY <3>1, <3>2, <3>4, KnownRows DEF IInv
    <3>. QED
      BY <3>1, <3>3, <3>4, <3>5 DEF Mirrored, Mirror
  <2>. QED
    BY <2>1, <2>2 DEF OneGrant, PairAgrees
<1>. QED
  BY <1>1, Invariant, PTL
=============================================================================
