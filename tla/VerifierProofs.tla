-------------------------- MODULE VerifierProofs --------------------------
(***************************************************************************)
(* Proofs about VerifierSlots: whatever the number of requests and slots   *)
(* and their deadlines, the fetches never outnumber the slots.             *)
(*                                                                         *)
(* The argument is about time.  While a request may still start its child, *)
(* and while the child runs, the request holds a slot whose lease lasts    *)
(* longer than the child can, by the grace less the longest pause.  So no  *)
(* clock reading finds this lease expired, and a slot, having one holder,  *)
(* backs one child.                                                        *)
(***************************************************************************)
EXTENDS VerifierSlots, FiniteSetTheorems, TLAPS

(* r holds a slot for longer than its fetch can last. *)
Backed(r) == \E k \in Slots : holder[k] = r /\ left[k] >= fuel[r] + Grace - Pause

MayFetch(r) == r \in running \/ (phase[r] = "admitted" /\ fuel[r] > 0)

Children ==
    \A r \in running : phase[r] \in {"fetching", "crashed"} /\ fuel[r] >= -Kill

IInv ==
    /\ TypeOK
    /\ Children
    /\ \A r \in Requests : MayFetch(r) => Backed(r)

USE GraceAssumption

(* A lease that backs a fetch is not expired for any clock reading. *)
LEMMA BackedIsNotFree ==
    ASSUME IInv, NEW r \in Requests, MayFetch(r), NEW a \in Nat,
           NEW k \in Slots, holder[k] = r, left[k] >= fuel[r] + Grace - Pause
    PROVE  ~Free(k, a)
  BY NoRequestAssumption DEF IInv, TypeOK, Children, MayFetch, Free

THEOREM Initially == Init => IInv
  BY NoRequestAssumption DEF Init, IInv, TypeOK, Children, MayFetch

LEMMA AcquireKeeps ==
    ASSUME IInv, NEW r \in Requests, Acquire(r) PROVE IInv'
  <1>1. age[r] \in 0..Pause /\ age[r] \in Nat
    BY DEF IInv, TypeOK
  <1>2. Seconds[r] \in Nat
    BY SecondsAssumption
  <1>3. PICK k \in Slots :
            /\ Free(k, age[r])
            /\ holder' = [holder EXCEPT ![k] = r]
            /\ left' = [left EXCEPT ![k] = Lent(r)]
    BY DEF Acquire
  <1>4. Lent(r) \in Int /\ Lent(r) <= Seconds[r] + Grace
            /\ Lent(r) >= Seconds[r] + Grace - Pause
    BY <1>1, <1>2 DEF Lent
  <1>5. TypeOK'
    <2>1. /\ phase' \in [Requests -> {"idle", "asking", "admitted", "fetching", "leaving", "crashed"}]
          /\ age' \in [Requests -> 0..Pause]
          /\ fuel' \in [Requests -> Int]
          /\ running' \subseteq Requests
      BY <1>2 DEF IInv, TypeOK, Acquire, Goes
    <2>2. holder' \in [Slots -> Requests \cup {NoRequest}] /\ left' \in [Slots -> Int]
      BY <1>3, <1>4 DEF IInv, TypeOK
    <2>3. \A x \in Slots : holder'[x] # NoRequest => left'[x] <= Seconds[holder'[x]] + Grace
      BY <1>3, <1>4, NoRequestAssumption DEF IInv, TypeOK
    <2> QED BY <2>1, <2>2, <2>3 DEF TypeOK
  <1>6. Children'
    BY DEF IInv, TypeOK, Children, Acquire, Goes
  <1>7. ASSUME NEW x \in Requests, MayFetch(x)' PROVE Backed(x)'
    <2>1. CASE x = r
      <3>1. holder'[k] = r /\ left'[k] = Lent(r) /\ fuel'[r] = Seconds[r]
        BY <1>3 DEF Acquire, IInv, TypeOK
      <3> QED BY <2>1, <3>1, <1>4 DEF Backed
    <2>2. CASE x # r
      <3>1. MayFetch(x) /\ fuel'[x] = fuel[x] /\ fuel[x] \in Int
        BY <1>7, <2>2 DEF MayFetch, Acquire, Goes, IInv, TypeOK
      <3>2. PICK j \in Slots : holder[j] = x /\ left[j] >= fuel[x] + Grace - Pause
        BY <3>1 DEF IInv, Backed
      <3>3. ~Free(j, age[r])
        BY <3>1, <3>2, <1>1, BackedIsNotFree
      <3>4. j # k
        BY <3>3, <1>3
      <3>5. holder'[j] = x /\ left'[j] = left[j]
        BY <3>4, <3>2, <1>3 DEF IInv, TypeOK
      <3> QED BY <3>1, <3>2, <3>5 DEF Backed
    <2> QED BY <2>1, <2>2
  <1> QED BY <1>5, <1>6, <1>7 DEF IInv

LEMMA TickKeeps == IInv /\ Tick => IInv'
  <1> SUFFICES ASSUME IInv, Tick PROVE IInv'
    OBVIOUS
  <1>1. \A r \in Requests : fuel[r] \in Int /\ fuel'[r] = Down(fuel[r], -Kill)
    BY DEF IInv, TypeOK, Tick
  <1>2. \A k \in Slots : left[k] \in Int /\ left'[k] = Down(left[k], -Pause)
    BY DEF IInv, TypeOK, Tick
  <1>3. TypeOK'
    <2>1. age' \in [Requests -> 0..Pause]
      BY DEF IInv, TypeOK, Tick
    <2>2. fuel' \in [Requests -> Int] /\ left' \in [Slots -> Int]
      BY DEF IInv, TypeOK, Tick, Down
    <2>3. \A k \in Slots : holder[k] # NoRequest => left'[k] <= Seconds[holder[k]] + Grace
      <3> SUFFICES ASSUME NEW k \in Slots, holder[k] # NoRequest
                   PROVE  left'[k] <= Seconds[holder[k]] + Grace
        OBVIOUS
      <3>1. left[k] <= Seconds[holder[k]] + Grace /\ Seconds[holder[k]] \in Nat
        BY SecondsAssumption DEF IInv, TypeOK
      <3> QED BY <3>1, <1>2 DEF Down
    <2> QED BY <2>1, <2>2, <2>3 DEF IInv, TypeOK, Tick
  <1>4. Children'
    BY <1>1 DEF IInv, TypeOK, Children, Tick, Down
  <1>5. ASSUME NEW r \in Requests, MayFetch(r)' PROVE Backed(r)'
    <2>1. MayFetch(r) /\ fuel'[r] = fuel[r] - 1
      BY <1>5, <1>1 DEF MayFetch, Tick, Down, IInv, TypeOK, Children
    <2>2. PICK k \in Slots : holder[k] = r /\ left[k] >= fuel[r] + Grace - Pause
      BY <2>1 DEF IInv, Backed
    <2>3. fuel[r] >= -Kill
      BY <2>1, <1>1 DEF MayFetch, IInv, Children
    <2>4. left'[k] = left[k] - 1
      BY <2>2, <2>3, <1>1, <1>2 DEF Down
    <2>5. holder'[k] = r
      BY <2>2 DEF Tick
    <2> QED BY <2>1, <2>2, <2>4, <2>5, <1>1, <1>2 DEF Backed
  <1> QED BY <1>3, <1>4, <1>5 DEF IInv

(* The other steps take no slot from anyone, and lengthen no deadline. *)
LEMMA ReleaseKeeps ==
    ASSUME IInv, NEW r \in Requests, Release(r) PROVE IInv'
  <1>1. TypeOK'
    <2>1. /\ phase' \in [Requests -> {"idle", "asking", "admitted", "fetching", "leaving", "crashed"}]
          /\ holder' \in [Slots -> Requests \cup {NoRequest}]
      BY DEF IInv, TypeOK, Release, Goes
    <2>2. \A k \in Slots : holder'[k] # NoRequest => holder'[k] = holder[k]
      BY DEF Release
    <2> QED BY <2>1, <2>2 DEF IInv, TypeOK, Release
  <1>2. Children'
    BY DEF IInv, TypeOK, Children, Release, Goes
  <1>3. ASSUME NEW x \in Requests, MayFetch(x)' PROVE Backed(x)'
    <2>1. x # r /\ MayFetch(x)
      BY <1>3 DEF MayFetch, IInv, TypeOK, Children, Release, Goes
    <2>2. PICK k \in Slots : holder[k] = x /\ left[k] >= fuel[x] + Grace - Pause
      BY <2>1 DEF IInv, Backed
    <2>3. holder'[k] = x
      BY <2>1, <2>2 DEF Release
    <2> QED BY <2>2, <2>3 DEF Backed, Release
  <1> QED BY <1>1, <1>2, <1>3 DEF IInv

LEMMA StepKeeps ==
    ASSUME IInv, NEW r \in Requests, Step(r) PROVE IInv'
  <1>1. CASE Ask(r)
    <2>1. \A x \in Requests : MayFetch(x)' => MayFetch(x)
      BY <1>1 DEF MayFetch, Ask, IInv, TypeOK
    <2>2. TypeOK' /\ Children'
      BY <1>1 DEF IInv, TypeOK, Children, Ask
    <2> QED BY <1>1, <2>1, <2>2 DEF IInv, Backed, Ask
  <1>2. CASE Acquire(r)
    BY <1>2, AcquireKeeps
  <1>3. CASE Busy(r) \/ Late(r) \/ Finish(r) \/ Crash(r) \/ ChildEnds(r)
    <2>1. UNCHANGED <<age, fuel, holder, left>> /\ running' \subseteq running
      BY <1>3 DEF Busy, Late, Finish, Crash, ChildEnds
    <2>2. TypeOK'
      BY <1>3, <2>1 DEF IInv, TypeOK, Busy, Late, Finish, Crash, ChildEnds, Goes
    <2>3. Children'
      BY <1>3, <2>1 DEF IInv, TypeOK, Children, Busy, Late, Finish, Crash, ChildEnds, Goes
    <2>4. \A x \in Requests : MayFetch(x)' => MayFetch(x)
      BY <1>3, <2>1 DEF MayFetch, IInv, TypeOK, Busy, Late, Finish, Crash, ChildEnds, Goes
    <2> QED BY <2>1, <2>2, <2>3, <2>4 DEF IInv, Backed
  <1>4. CASE Start(r)
    <2>1. TypeOK'
      BY <1>4 DEF IInv, TypeOK, Start, Goes
    <2>2. Children'
      BY <1>4 DEF IInv, TypeOK, Children, Start, Goes
    <2>3. \A x \in Requests : MayFetch(x)' => MayFetch(x)
      BY <1>4 DEF MayFetch, IInv, TypeOK, Start, Goes
    <2> QED BY <1>4, <2>1, <2>2, <2>3 DEF IInv, Backed, Start
  <1>5. CASE Release(r)
    BY <1>5, ReleaseKeeps
  <1> QED BY <1>1, <1>2, <1>3, <1>4, <1>5 DEF Step

THEOREM Inductive == IInv /\ [Next]_vars => IInv'
  <1> SUFFICES ASSUME IInv, [Next]_vars PROVE IInv'
    OBVIOUS
  <1>1. CASE Tick
    BY <1>1, TickKeeps
  <1>2. CASE \E r \in Requests : Step(r)
    BY <1>2, StepKeeps
  <1>3. CASE UNCHANGED vars
    BY <1>3 DEF IInv, TypeOK, Children, MayFetch, Backed, vars
  <1> QED BY <1>1, <1>2, <1>3 DEF Next

THEOREM Invariant == Spec => []IInv
  BY Initially, Inductive, PTL DEF Spec

(* Types are kept, and no lease lasts longer than its request's deadline   *)
(* and the grace (ProofVerifier.acquire).                                  *)
THEOREM TypeCorrect == Spec => []TypeOK
  <1>1. IInv => TypeOK
    BY DEF IInv
  <1> QED BY <1>1, Invariant, PTL

(* Each child is backed by a slot of its own. *)
LEMMA Bounded == IInv => FetchesBounded
  <1> SUFFICES ASSUME IInv PROVE FetchesBounded
    OBVIOUS
  <1>1. \A r \in running : \E k \in Slots : holder[k] = r
    BY DEF IInv, TypeOK, MayFetch, Backed
  <1> DEFINE slot == [r \in running |-> CHOOSE k \in Slots : holder[k] = r]
  <1>2. \A r \in running : slot[r] \in Slots /\ holder[slot[r]] = r
    BY <1>1
  <1>3. slot \in Injection(running, Slots)
    BY <1>2 DEF Injection, IsInjective
  <1> QED BY <1>3, SlotsAssumption, FS_Injection DEF FetchesBounded

(* The fetches of all workers, dead ones included, fit into the slots      *)
(* (ProofVerifier.acquire, release, fetch_in_process).                     *)
THEOREM NeverTooManyFetches == Spec => []FetchesBounded
  BY Bounded, Invariant, PTL
=============================================================================
