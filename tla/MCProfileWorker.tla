-------------------------- MODULE MCProfileWorker --------------------------
(***************************************************************************)
(* The two jobs of profile_sync_worker, in two worlds: chosen at the start *)
(* is either the exchange of preferences (two keys: a point of B that B's  *)
(* account had bookmarked before the feature, and a post of that account)  *)
(* or the repetition of revocations.                                       *)
(***************************************************************************)
EXTENDS ProfileSync

CONSTANTS Links, Rooms, Unused, Gone

VARIABLES links, task, wire, now, lost, escaped, scene

MCKind == [k \in Keys |-> IF k = 1 THEN "favorites" ELSE "own_points"]
MCHome == [k \in Keys |-> B]
MCSkew == [s \in Sides |-> IF s = A THEN 1 ELSE 0]
MCOld == [s \in Sides |-> [k \in Keys |->
    IF k = 1 /\ s = B THEN [value |-> 1, clock |-> 1, writer |-> s] ELSE None]]
MCChoices == {[enabled |-> FALSE, send |-> {}, receive |-> {}],
              [enabled |-> TRUE, send |-> {"favorites"}, receive |-> {"own_points"}]}

Revocations == INSTANCE ProfileLinks WITH
    Servers <- Sides, Consents <- {[send |-> TRUE, receive |-> FALSE]},
    Pending <- 1, Lifetime <- 1, Room <- Rooms, MaxNow <- 2,
    NoLink <- None, NoThread <- None, Idle <- None

linkvars == <<links, task, wire, now, lost, escaped>>

WorkerInit ==
    /\ Init /\ Revocations!Init
    /\ scene \in {"exchange", "revocation"}

WorkerNext ==
    /\ UNCHANGED scene
    /\ \/ scene = "exchange" /\ Next /\ UNCHANGED linkvars
       \/ scene = "revocation" /\ Revocations!Next /\ UNCHANGED vars

(* ProfileSync.Fairness and ProfileLinks.Fairness, each in its world. *)
Exchanging(action) == scene = "exchange" /\ action
Revoking(action) == scene = "revocation" /\ action

WorkerSpec ==
    /\ WorkerInit /\ [][WorkerNext]_<<vars, linkvars, scene>>
    /\ SF_vars(Exchanging(Start(Worker)))
    /\ SF_vars(Exchanging(Receive(Worker)))
    /\ SF_vars(Exchanging(Finish(Worker)))
    /\ \A t \in Threads : WF_vars(Exchanging(Finish(t) \/ Fail(t) \/ Crash(t)))
    /\ WF_vars(Exchanging(Lapse))
    /\ \A l \in Links :
          WF_linkvars(Revoking(\E t \in Threads : Revocations!RetryRevoke(t, l)))
    /\ \A t \in Threads :
          /\ SF_linkvars(Revoking(\E r \in Revocations!RequestOf(t) : Revocations!Withdraw(r)))
          /\ SF_linkvars(Revoking(Revocations!RevokeDone(t)))
          /\ WF_linkvars(Revoking(Revocations!Compensate(t)))
          /\ WF_linkvars(Revoking(Revocations!Abandon(t)))
          /\ WF_linkvars(Revoking(Revocations!Retire(t)))
          /\ WF_linkvars(Revoking(Revocations!Unavailable(t)))

-----------------------------------------------------------------------------
(* A revocation the other server missed ends its grant at last             *)
(* (ProfileLinks.RevocationDelivered; profile_sync_worker.work).           *)
RevocationDelivered == []<>(\A l \in Links : ~Revocations!Undelivered(l))
=============================================================================
