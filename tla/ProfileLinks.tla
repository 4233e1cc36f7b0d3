---------------------------- MODULE ProfileLinks ----------------------------
(***************************************************************************)
(* The pairing of two accounts on two servers (node06_service/             *)
(* profile_links), one account per server.  The inviting account holds an  *)
(* outbound row; the other approves with an inbound row and a one-time     *)
(* code, which people carry back by hand; the code is exchanged for the    *)
(* token of the inbound row, a grant.  Every secret is drawn for one row,  *)
(* so a row's name stands for its invitation, code and token.              *)
(*                                                                         *)
(* A handler talks to the other server between its transactions.  Requests *)
(* and answers are lost, a request may arrive after its sender gave up,    *)
(* the sender may find all verifier slots taken, and threads die.          *)
(***************************************************************************)
EXTENDS Naturals, FiniteSets

CONSTANTS
    Servers, Links, Threads,
    Consents,       \* scopes a person may offer: [send, receive : BOOLEAN]
    Pending,        \* life of an invitation or a code: 10 minutes
    Lifetime,       \* life of a grant: 30 days
    Room,           \* rows of one account: 100
    MaxNow,         \* bound of the clock
    NoLink, NoThread,
    Unused, Gone    \* a row not inserted yet, a row deleted

ASSUME PeriodsAssumption ==
    /\ Pending \in Nat /\ Lifetime \in Nat /\ MaxNow \in Nat
    /\ Pending <= Lifetime

ASSUME ConsentsAssumption == Consents \subseteq [send : BOOLEAN, receive : BOOLEAN]

Row == [at : Servers, peer : Servers, outbound : BOOLEAN,
        status : {"pending", "exchanging", "active", "revoked"},
        expires : Nat,
        offer : BOOLEAN,            \* invite_digest and verifier, or code_digest
        granted : BOOLEAN,          \* token_digest
        remote : Links \cup {NoLink},   \* remote_id
        control : Links \cup {NoLink},  \* remote_token, of that grant
        consent : [send : BOOLEAN, receive : BOOLEAN],  \* sync_send_allowed, sync_receive_allowed
        dataKey : BOOLEAN,          \* remote_data_token or data_token_digest
        enabled : BOOLEAN,          \* sync_enabled
        pending : BOOLEAN]          \* revocation_pending

Stages == {"insert", "asking", "answered", "failed", "undoing", "undone", "kept",
           "telling", "told", "inactive"}
Task == [link : Links, grant : Links \cup {NoLink}, at : Stages]
Request == [op : {"token", "status", "revoke"}, link : Links, grant : Links,
            by : Threads \cup {NoThread}]

CONSTANT Idle       \* a thread without a request

ASSUME NoValueAssumption ==
    /\ NoLink \notin Links /\ NoThread \notin Threads
    /\ Unused # Gone /\ Unused \notin Row /\ Gone \notin Row /\ Idle \notin Task

VARIABLES
    links,      \* profile_links of all servers
    task,       \* what each request or worker thread is doing
    wire,       \* requests under way; by NoThread when nobody waits any more
    now,
    lost,       \* history: grants whose token no server received or kept
    escaped     \* history: grants whose token a failing handler let go

vars == <<links, task, wire, now, lost, escaped>>

TypeOK ==
    /\ links \in [Links -> Row \cup {Unused, Gone}]
    /\ task \in [Threads -> Task \cup {Idle}]
    /\ wire \subseteq Request
    /\ now \in 0..MaxNow
    /\ lost \subseteq Links
    /\ escaped \subseteq Links

Init ==
    /\ links = [l \in Links |-> Unused]
    /\ task = [w \in Threads |-> Idle]
    /\ wire = {}
    /\ now = 0
    /\ lost = {}
    /\ escaped = {}

Known(l) == links[l] \notin {Unused, Gone}
Outbound(l) == Known(l) /\ links[l].outbound
Inbound(l) == Known(l) /\ ~links[l].outbound
Unexpired(l) == links[l].expires > now

(* The grant still opens status, revocation and, with consent, exchange. *)
Live(g) == Inbound(g) /\ links[g].granted /\ links[g].status = "active" /\ Unexpired(g)

(* Fault: both sides record the directions as the inviter sees them. *)
Unmirrored(consent) == consent

Mirror(consent) == [send |-> consent.receive, receive |-> consent.send]
Shares(consent) == consent.send \/ consent.receive

Outdated(l) == Known(l) /\ links[l].expires + Lifetime < now

(* room: what is left of an account's rows. *)
Pruned(s) == [l \in Links |-> IF Outdated(l) /\ links[l].at = s THEN Gone ELSE links[l]]
HasRoom(s) ==
    Cardinality({l \in Links : Known(l) /\ links[l].at = s /\ ~Outdated(l)}) < Room

NewRow(s, p, out, consent) ==
    [at |-> s, peer |-> p, outbound |-> out, status |-> "pending", expires |-> now + Pending,
     offer |-> TRUE, granted |-> FALSE, remote |-> NoLink, control |-> NoLink,
     consent |-> consent, dataKey |-> FALSE, enabled |-> FALSE, pending |-> FALSE]

Invite(s, p, l, consent) ==
    /\ s # p
    /\ links[l] = Unused
    /\ HasRoom(s)
    /\ links' = [Pruned(s) EXCEPT ![l] = NewRow(s, p, TRUE, consent)]
    /\ UNCHANGED <<task, wire, now, lost, escaped>>

Offered(l) == Outbound(l) /\ links[l].status = "pending" /\ links[l].offer /\ Unexpired(l)

(* The invitation is fetched again before consent is put on record. *)
Inspect(w, l) ==
    /\ task[w] = Idle
    /\ Offered(l)
    /\ task' = [task EXCEPT ![w] = [link |-> l, grant |-> NoLink, at |-> "insert"]]
    /\ UNCHANGED <<links, wire, now, lost, escaped>>

(* By now the invitation may be cancelled, or confirmed with another code. *)
Approve(w, g) ==
    LET meta == links[task[w].link]
        s == meta.peer
    IN  /\ task[w] # Idle /\ task[w].at = "insert"
        /\ Known(task[w].link) /\ links[g] = Unused
        /\ HasRoom(s)
        /\ links' = [Pruned(s) EXCEPT ![g] =
                        [NewRow(s, meta.at, FALSE, Mirror(meta.consent)) EXCEPT
                            !.remote = task[w].link]]
        /\ task' = [task EXCEPT ![w] = Idle]
        /\ UNCHANGED <<wire, now, lost, escaped>>

Ask(w, op, l, g, stage) ==
    /\ task' = [task EXCEPT ![w] = [link |-> l, grant |-> g, at |-> stage]]
    /\ wire' = wire \cup {[op |-> op, link |-> l, grant |-> g, by |-> w]}

Confirmable(l) == Outbound(l) /\ links[l].status = "pending" /\ Unexpired(l)

(* confirm, first transaction; the code is that of any approval carried back. *)
Confirm(w, l, g) ==
    /\ task[w] = Idle
    /\ Confirmable(l)
    /\ Inbound(g) /\ links[g].remote = l
    /\ links[g].consent = Mirror(links[l].consent)
    /\ links' = [links EXCEPT ![l].status = "exchanging"]
    /\ Ask(w, "token", l, g, "asking")
    /\ UNCHANGED <<now, lost, escaped>>

Waiting(w, stage) == task[w] # Idle /\ task[w].at = stage
Stage(w, stage) == [task EXCEPT ![w].at = stage]

(* What a thread that waits for r does with its answer; nobody waits for a late one. *)
Answered(r, stage) == IF r.by = NoThread THEN task ELSE Stage(r.by, stage)

Redeemable(g) == Inbound(g) /\ links[g].status = "pending" /\ links[g].offer /\ Unexpired(g)

(* redeem on the other server: the code, once, for the verifier of its invitation. *)
Redeem(r) ==
    LET row == links[r.grant]
    IN  /\ r \in wire /\ r.op = "token"
        /\ wire' = wire \ {r}
        /\ IF Redeemable(r.grant) /\ row.remote = r.link
           THEN /\ links' = [links EXCEPT ![r.grant] =
                        [row EXCEPT !.status = "active", !.offer = FALSE, !.granted = TRUE,
                                    !.dataKey = Shares(row.consent),
                                    !.enabled = Shares(row.consent),
                                    !.expires = now + Lifetime]]
                /\ task' = Answered(r, "answered")
                /\ lost' = IF r.by = NoThread THEN lost \cup {r.grant} ELSE lost
           ELSE /\ task' = Answered(r, "failed")
                /\ UNCHANGED <<links, lost>>
        /\ UNCHANGED <<now, escaped>>

Completable(l) == Known(l) /\ links[l].status = "exchanging" /\ Unexpired(l)

(* confirm, second transaction. *)
Complete(w) ==
    LET l == task[w].link
        g == task[w].grant
    IN  /\ Waiting(w, "answered")
        /\ Completable(l)
        /\ links' = [links EXCEPT ![l] =
                        [@ EXCEPT !.status = "active", !.remote = g, !.control = g,
                                  !.dataKey = Shares(links[l].consent),
                                  !.enabled = Shares(links[l].consent),
                                  !.offer = FALSE, !.expires = now + Lifetime]]
        /\ task' = [task EXCEPT ![w] = Idle]
        /\ UNCHANGED <<wire, now, lost, escaped>>

(* The row changed, the answer names another account, or the database failed: *)
(* the token that was received is given back first.                           *)
Compensate(w) ==
    /\ Waiting(w, "answered")
    /\ Ask(w, "revoke", task[w].link, task[w].grant, "undoing")
    /\ UNCHANGED <<links, now, lost, escaped>>

(* Fault: a token that could not be given back is dropped. *)
RetryForgotten(w) == NoLink

(* Fault: the row keeps whether there is a token, not the token. *)
RetryFlag(w) == task[w].at = "kept"

RetryToken(w) == IF task[w].at = "kept" THEN task[w].grant ELSE NoLink

(* The end of a failed confirm. *)
Abandon(w) ==
    LET l == task[w].link
        retry == RetryToken(w)
    IN  /\ task[w] # Idle /\ task[w].at \in {"failed", "undone", "kept"}
        /\ task' = [task EXCEPT ![w] = Idle]
        /\ links' = IF Known(l) /\ links[l].status \in {"exchanging", "revoked"}
                    THEN [links EXCEPT ![l] =
                            [@ EXCEPT !.status = "revoked", !.offer = FALSE, !.control = retry,
                                      !.dataKey = FALSE, !.enabled = FALSE,
                                      !.pending = (retry # NoLink)]]
                    ELSE links
        /\ UNCHANGED <<wire, now, lost, escaped>>

(* token_status with revoke; an unknown token is answered alike. *)
Withdraw(r) ==
    LET g == r.grant
    IN  /\ r \in wire /\ r.op = "revoke"
        /\ wire' = wire \ {r}
        /\ links' = IF Known(g) /\ links[g].granted
                    THEN [links EXCEPT ![g] = [@ EXCEPT !.status = "revoked", !.enabled = FALSE]]
                    ELSE links
        /\ task' = IF r.by = NoThread THEN task
                   ELSE Stage(r.by, IF task[r.by].at = "undoing" THEN "undone" ELSE "told")
        /\ UNCHANGED <<now, lost, escaped>>

(* revoke, by the account's owner or by the worker's retry. *)
Revoke(w, l) ==
    /\ task[w] = Idle
    /\ Known(l)
    /\ LET told == links[l].control # NoLink
       IN  /\ links' = [links EXCEPT ![l] =
                            [@ EXCEPT !.status = "revoked", !.enabled = FALSE, !.offer = FALSE,
                                      !.dataKey = links[l].dataKey /\ ~links[l].outbound,
                                      !.pending = told]]
           /\ IF told THEN Ask(w, "revoke", l, links[l].control, "telling")
              ELSE UNCHANGED <<task, wire>>
    /\ UNCHANGED <<now, lost, escaped>>

(* Fault: the worker looks at active links only. *)
RetryActive(w, l) == Outbound(l) /\ links[l].status = "active" /\ links[l].pending /\ Revoke(w, l)

(* The worker repeats what the other server has not confirmed yet. *)
RetryRevoke(w, l) == Outbound(l) /\ links[l].pending /\ Revoke(w, l)

RevokeDone(w) ==
    LET l == task[w].link
    IN  /\ Waiting(w, "told")
        /\ links' = IF Known(l)
                    THEN [links EXCEPT ![l] = [@ EXCEPT !.control = NoLink, !.pending = FALSE]]
                    ELSE links
        /\ task' = [task EXCEPT ![w] = Idle]
        /\ UNCHANGED <<wire, now, lost, escaped>>

(* refresh, by the owner of an outbound link. *)
Refresh(w, l) ==
    /\ task[w] = Idle
    /\ Outbound(l) /\ links[l].status = "active" /\ Unexpired(l)
    /\ Ask(w, "status", l, links[l].control, "asking")
    /\ UNCHANGED <<links, now, lost, escaped>>

(* token_status without revoke; a token without a row is refused. *)
Status(r) ==
    /\ r \in wire /\ r.op = "status"
    /\ wire' = wire \ {r}
    /\ task' = IF r.by = NoThread THEN task
               ELSE IF Known(r.grant) /\ ~Live(r.grant) THEN Stage(r.by, "inactive")
               ELSE [task EXCEPT ![r.by] = Idle]
    /\ UNCHANGED <<links, now, lost, escaped>>

Retirable(l) == Known(l) /\ links[l].status = "active"

Retire(w) ==
    LET l == task[w].link
    IN  /\ Waiting(w, "inactive")
        /\ links' = IF Retirable(l)
                    THEN [links EXCEPT ![l] =
                            [@ EXCEPT !.status = "revoked", !.control = NoLink,
                                      !.dataKey = FALSE, !.enabled = FALSE]]
                    ELSE links
        /\ task' = [task EXCEPT ![w] = Idle]
        /\ UNCHANGED <<wire, now, lost, escaped>>

RequestOf(w) == {r \in wire : r.by = w}
LeftBehind(w) == (wire \ RequestOf(w)) \cup {[r EXCEPT !.by = NoThread] : r \in RequestOf(w)}

AfterFailure(w) ==
    CASE task[w].at = "asking" /\ \E r \in RequestOf(w) : r.op = "token" -> Stage(w, "failed")
      [] task[w].at = "undoing" -> Stage(w, "kept")
      [] OTHER -> [task EXCEPT ![w] = Idle]

(* PublicPointError of the transport: no answer in time, or none at all.  The *)
(* request may be lost, or reach the other server later.                      *)
Unavailable(w) ==
    /\ RequestOf(w) # {}
    /\ task' = AfterFailure(w)
    /\ wire' \in {wire \ RequestOf(w), LeftBehind(w)}
    /\ UNCHANGED <<links, now, lost, escaped>>

(* VerifierBusyError, before anything is sent.  The handler of a failed confirm *)
(* catches PublicPointError only, so this error ends it with its token.         *)
Busy(w) ==
    /\ RequestOf(w) # {}
    /\ wire' = wire \ RequestOf(w)
    /\ IF task[w].at = "undoing"
       THEN /\ task' = [task EXCEPT ![w] = Idle]
            /\ escaped' = escaped \cup {task[w].grant}
       ELSE /\ task' = AfterFailure(w)
            /\ UNCHANGED escaped
    /\ UNCHANGED <<links, now, lost>>

Lose(r) ==
    /\ r \in wire /\ r.by = NoThread
    /\ wire' = wire \ {r}
    /\ UNCHANGED <<links, task, now, lost, escaped>>

Holds(w, g) == task[w] # Idle /\ task[w].grant = g
               /\ task[w].at \in {"answered", "undoing", "undone", "kept"}

(* The thread dies with its server; its request may still arrive. *)
Crash(w) ==
    /\ task[w] # Idle
    /\ task' = [task EXCEPT ![w] = Idle]
    /\ wire' = LeftBehind(w)
    /\ lost' = lost \cup {g \in Links : Holds(w, g)}
    /\ UNCHANGED <<links, now, escaped>>

(* Coarser than the deadline of a request: nobody waits from one unit to the next. *)
Tick ==
    /\ now < MaxNow
    /\ \A w \in Threads : RequestOf(w) = {}
    /\ now' = now + 1
    /\ UNCHANGED <<links, task, wire, lost, escaped>>

Peer(r) == Redeem(r) \/ Withdraw(r) \/ Status(r)

Next ==
    \/ \E s, p \in Servers, l \in Links, c \in Consents : Invite(s, p, l, c)
    \/ \E w \in Threads, l \in Links :
        \/ Inspect(w, l) \/ Approve(w, l)
        \/ Revoke(w, l) \/ Refresh(w, l)
        \/ \E g \in Links : Confirm(w, l, g)
    \/ \E w \in Threads :
        \/ Complete(w) \/ Compensate(w) \/ Abandon(w)
        \/ RevokeDone(w) \/ Retire(w)
        \/ Unavailable(w) \/ Busy(w) \/ Crash(w)
    \/ \E r \in wire : Peer(r) \/ Lose(r)
    \/ Tick

(* The worker retries; a server that is asked again and again answers at last. *)
Fairness ==
    /\ \A l \in Links : WF_vars(\E w \in Threads : RetryRevoke(w, l))
    /\ \A w \in Threads : SF_vars(\E r \in RequestOf(w) : Withdraw(r))
    /\ \A w \in Threads : SF_vars(RevokeDone(w))
    /\ \A w \in Threads : WF_vars(Compensate(w)) /\ WF_vars(Abandon(w)) /\ WF_vars(Retire(w))
                          /\ WF_vars(Unavailable(w))

Spec == Init /\ [][Next]_vars
FairSpec == Spec /\ Fairness
-----------------------------------------------------------------------------
(* Properties *)

(* A grant that is alive has its token stored, to be revoked with, or in the  *)
(* hands of a thread; only a lost answer, a crash or a busy verifier may      *)
(* leave one without (confirm, its compensation, revoke and refresh).         *)
GrantAccounted ==
    \A g \in Links : Live(g) =>
        \/ g \in lost \cup escaped
        \/ \E l \in Links : Known(l) /\ links[l].control = g
        \/ \E w \in Threads : Holds(w, g)

(* docs/PROFILE-LINKS-V1.md: a token received before a failure is given back, *)
(* and kept for a retry when that fails.                                      *)
KnownTokenRetained == \A g \in escaped : ~Live(g)

(* However often an invitation is approved and confirmed, it makes one     *)
(* grant, and both ends of an active link name each other and agree on     *)
(* what is shared (redeem, confirm).                                       *)
PairAgrees ==
    /\ \A g, h \in Links :
          Inbound(g) /\ Inbound(h) /\ links[g].granted /\ links[h].granted
          /\ links[g].remote = links[h].remote => g = h
    /\ \A l \in Links : Outbound(l) /\ links[l].status = "active" /\ Unexpired(l) =>
          LET g == links[l].control
          IN  /\ g # NoLink /\ links[l].remote = g
              /\ Inbound(g) /\ links[g].remote = l
              /\ links[g].at = links[l].peer /\ links[g].peer = links[l].at
              /\ links[g].consent.send = links[l].consent.receive
              /\ links[g].consent.receive = links[l].consent.send
              /\ links[g].status \in {"active", "revoked"}

(* A revocation that is marked for retry ends the grant of the other server, *)
(* however often that server cannot be reached (profile_sync_worker.work).   *)
Undelivered(l) == Known(l) /\ links[l].pending /\ links[l].control # NoLink /\ Live(links[l].control)
RevocationDelivered == []<>(\A l \in Links : ~Undelivered(l))
=============================================================================
