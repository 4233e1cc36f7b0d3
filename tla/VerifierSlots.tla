--------------------------- MODULE VerifierSlots ---------------------------
(***************************************************************************)
(* Admission of outbound fetches (node06_service/verifier).  Every request *)
(* that reads a proof file or a Git repository first takes one of a few    *)
(* slots in the database, for its own deadline and a grace, and then lets  *)
(* a child process do the network I/O.  A request whose process dies       *)
(* leaves its lease, and perhaps its child, behind.                        *)
(*                                                                         *)
(* Time is kept as seconds left, so that nothing has to end.               *)
(***************************************************************************)
EXTENDS Integers, FiniteSets

CONSTANTS
    Requests,   \* the fresh lease ids; one is used again once no trace is left
    Slots,      \* verifier_slots numbers from zero
    Seconds,    \* the deadline of each request's fetch, verifier_seconds
    Grace,      \* what a lease has on top of the deadline
    Pause,      \* longest time between reading the clock and having the lease
    Kill,       \* longest time a child lives after its deadline
    NoRequest

ASSUME SlotsAssumption == Slots \subseteq Nat /\ IsFiniteSet(Slots)
ASSUME SecondsAssumption == Seconds \in [Requests -> Nat]
ASSUME NoRequestAssumption == NoRequest \notin Requests
(* What the grace is for: a late commit and the killing of the child. *)
ASSUME GraceAssumption ==
    Grace \in Nat /\ Pause \in Nat /\ Kill \in Nat /\ Pause + Kill < Grace

VARIABLES
    phase,      \* where the handler of each request is
    age,        \* of the clock reading a request asks with
    fuel,       \* to the deadline of a request's fetch
    running,    \* requests whose child process is alive
    holder,     \* verifier_leases.lease_id
    left        \* to verifier_leases.expires_at

vars == <<phase, age, fuel, running, holder, left>>

TypeOK ==
    /\ phase \in [Requests -> {"idle", "asking", "admitted", "fetching", "leaving", "crashed"}]
    /\ age \in [Requests -> 0..Pause]
    /\ fuel \in [Requests -> Int]
    /\ running \subseteq Requests
    /\ holder \in [Slots -> Requests \cup {NoRequest}]
    /\ left \in [Slots -> Int]
    /\ \A k \in Slots : holder[k] # NoRequest => left[k] <= Seconds[holder[k]] + Grace

Init ==
    /\ phase = [r \in Requests |-> "idle"]
    /\ age = [r \in Requests |-> 0]
    /\ fuel = [r \in Requests |-> 0]
    /\ running = {}
    /\ holder = [k \in Slots |-> NoRequest]
    /\ left = [k \in Slots |-> 0]

Goes(r, from, to) == phase[r] = from /\ phase' = [phase EXCEPT ![r] = to]

(* Fault: the row of a dead holder is never taken over. *)
FreeUnlessRow(k, a) == holder[k] = NoRequest

(* No row for the slot, or one that had expired when the clock was read. *)
Free(k, a) == holder[k] = NoRequest \/ left[k] + a <= 0

(* Fault: the lease ends with the deadline. *)
LentWithoutGrace(r) == Seconds[r] - age[r]

Lent(r) == Seconds[r] + Grace - age[r]

(* acquire reads its clock before its transaction. *)
Ask(r) ==
    /\ phase[r] \in {"idle", "crashed"}
    /\ r \notin running /\ \A k \in Slots : holder[k] # r
    /\ phase' = [phase EXCEPT ![r] = "asking"]
    /\ age' = [age EXCEPT ![r] = 0]
    /\ UNCHANGED <<fuel, running, holder, left>>

(* The first free slot is taken, and the deadline starts. *)
Acquire(r) ==
    /\ Goes(r, "asking", "admitted")
    /\ \E k \in Slots :
        /\ Free(k, age[r]) /\ \A x \in Slots : x < k => ~Free(x, age[r])
        /\ holder' = [holder EXCEPT ![k] = r]
        /\ left' = [left EXCEPT ![k] = Lent(r)]
    /\ fuel' = [fuel EXCEPT ![r] = Seconds[r]]
    /\ UNCHANGED <<age, running>>

Busy(r) ==
    /\ Goes(r, "asking", "idle")
    /\ \A k \in Slots : ~Free(k, age[r])
    /\ UNCHANGED <<age, fuel, running, holder, left>>

Start(r) ==
    /\ fuel[r] > 0
    /\ Goes(r, "admitted", "fetching")
    /\ running' = running \cup {r}
    /\ UNCHANGED <<age, fuel, holder, left>>

(* The deadline has passed before the child was started. *)
Late(r) ==
    /\ fuel[r] <= 0
    /\ Goes(r, "admitted", "leaving")
    /\ UNCHANGED <<age, fuel, running, holder, left>>

(* A result, an error or the deadline: the parent reaps its child. *)
Finish(r) ==
    /\ Goes(r, "fetching", "leaving")
    /\ running' = running \ {r}
    /\ UNCHANGED <<age, fuel, holder, left>>

(* The lease is deleted by its id: a successor in the slot keeps its own. *)
Release(r) ==
    /\ Goes(r, "leaving", "idle")
    /\ holder' = [k \in Slots |-> IF holder[k] = r THEN NoRequest ELSE holder[k]]
    /\ UNCHANGED <<age, fuel, running, left>>

(* The process of the API dies; its child may outlive it. *)
Crash(r) ==
    /\ phase[r] \in {"asking", "admitted", "fetching", "leaving"}
    /\ phase' = [phase EXCEPT ![r] = "crashed"]
    /\ UNCHANGED <<age, fuel, running, holder, left>>

(* The child of a dead parent ends, by itself or by its alarm. *)
ChildEnds(r) ==
    /\ phase[r] = "crashed" /\ r \in running
    /\ running' = running \ {r}
    /\ UNCHANGED <<phase, age, fuel, holder, left>>

(* A second passes, unless a transaction or a child would be too late. *)
Down(x, low) == IF x > low THEN x - 1 ELSE x

Tick ==
    /\ \A r \in Requests : phase[r] = "asking" => age[r] < Pause
    /\ \A r \in running : fuel[r] > -Kill
    /\ age' = [r \in Requests |-> IF phase[r] = "asking" THEN age[r] + 1 ELSE age[r]]
    /\ fuel' = [r \in Requests |-> Down(fuel[r], -Kill)]
    /\ left' = [k \in Slots |-> Down(left[k], -Pause)]
    /\ UNCHANGED <<phase, running, holder>>

Step(r) ==
    \/ Ask(r) \/ Acquire(r) \/ Busy(r) \/ Start(r) \/ Late(r)
    \/ Finish(r) \/ Release(r) \/ Crash(r) \/ ChildEnds(r)

Next == Tick \/ \E r \in Requests : Step(r)

(* Transactions commit and children end; nobody has to release in time. *)
Fairness ==
    /\ WF_vars(Tick)
    /\ \A r \in Requests : WF_vars(Acquire(r) \/ Busy(r) \/ Finish(r) \/ ChildEnds(r))

Spec == Init /\ [][Next]_vars /\ Fairness

-----------------------------------------------------------------------------
(* The children of all API workers together never outnumber the slots,     *)
(* those of crashed workers included: a lease outlives the fetch it admits *)
(* (ProofVerifier.acquire, fetch_in_process).                              *)
FetchesBounded == Cardinality(running) <= Cardinality(Slots)

(* No crash loses a slot: whoever holds it, it can be taken again later    *)
(* (the WHERE of acquire's upsert, release by lease id).                   *)
SlotsRecover == \A k \in Slots : ~Free(k, 0) ~> Free(k, 0)
=============================================================================
