---------------------------- MODULE OutboxProofs ----------------------------
(***************************************************************************)
(* The fan-out of Outbox implements Mailbox, for every set of users, every *)
(* page size and every number of events.                                   *)
(***************************************************************************)
EXTENDS Outbox, TLAPS

(* Numbers in use are at most seq; a notice not yet posted has no state. *)
Numbered ==
    /\ \A i \in intervals : i.start <= seq /\ i.end <= seq
    /\ \A n \in Posted : n <= seq
    /\ \A n \in Seqs \ Posted : cursor[n] = 0
    /\ done \subseteq Posted

PurgedIsEmpty == \A p \in purged : active[p] = {}

(* Who the notices are owed to depends on the intervals alone. *)
Structure == TypeOK /\ Numbered /\ PurgedIsEmpty /\ IntervalsMatch

OnlyOwed == inbox \subseteq Owed

IInv == Structure /\ OnlyOwed /\ CursorSeparates /\ DoneIsDelivered

USE UsersAssumption, BatchAssumption, NoPointAssumption

-----------------------------------------------------------------------------
(* The membership of the point p after a step that posts a notice for p. *)
LEMMA EmitFacts ==
    ASSUME Structure, NEW p \in Points, NEW closes \in BOOLEAN, Emit(p, closes)
    PROVE  /\ seq' \in 0..MaxSeq /\ seq + 1 <= seq' /\ seq + 1 \in Seqs
           /\ notice' \in [Seqs -> Points \cup {NoPoint}]
           /\ \A n \in Posted : n <= seq /\ n \in Posted' /\ notice'[n] = notice[n]
           /\ ~closes => notice' = notice
           /\ closes => /\ seq + 2 \in Seqs /\ seq' = seq + 2 /\ seq + 2 \notin Posted
                        /\ notice'[seq + 2] = p
                        /\ Posted' = Posted \cup {seq + 2}
  BY SMTT(30) DEF Structure, TypeOK, Numbered, Emit, Posted, Seqs

(* The empty cursor and user ids are numbers. *)
LEMMA UserIds == {0} \cup Users \subseteq Nat
  OBVIOUS

LEMMA TypeStep == TypeOK /\ [Next]_vars => TypeOK'
<1> SUFFICES ASSUME TypeOK, [Next]_vars PROVE TypeOK'
  OBVIOUS
<1> USE DEF TypeOK, Seqs
<1>1. ASSUME NEW u \in Users, NEW p \in Points, NEW closes \in BOOLEAN, Subscribe(u, p, closes)
      PROVE  TypeOK'
  <2>1. Emit(p, closes) /\ intervals' = intervals \cup {Joined(u, p)}
    BY <1>1 DEF Subscribe
  <2>2. Joined(u, p) \in Intervals
    BY <2>1 DEF Joined, Emit, Intervals, Open
  <2>3. seq' \in 0..MaxSeq /\ notice' \in [Seqs -> Points \cup {NoPoint}]
    BY <2>1, SMTT(30) DEF Emit
  <2> QED BY <1>1, <2>1, <2>2, <2>3 DEF Subscribe
<1>2. ASSUME NEW u \in Users, NEW p \in Points, NEW closes \in BOOLEAN, Unsubscribe(u, p, closes)
      PROVE  TypeOK'
  <2>1. ASSUME NEW i \in intervals PROVE Ended(i, u, p) \in Intervals
    <3>1. i \in Intervals /\ seq + 1 \in {Open} \cup Seqs
      BY <1>2 DEF Unsubscribe, Emit
    <3>2. [i EXCEPT !.end = seq + 1] \in Intervals
      BY <3>1 DEF Intervals
    <3> QED BY <3>1, <3>2 DEF Ended
  <2>2. Emit(p, closes)
    BY <1>2 DEF Unsubscribe
  <2>3. seq' \in 0..MaxSeq /\ notice' \in [Seqs -> Points \cup {NoPoint}]
    BY <2>2, SMTT(30) DEF Emit
  <2> QED BY <1>2, <2>1, <2>3 DEF Unsubscribe
<1>3. ASSUME NEW p \in Points, Announce(p) PROVE TypeOK'
  BY <1>3 DEF Announce
<1>4. ASSUME NEW p \in Points, Purge(p) PROVE TypeOK'
  BY <1>4 DEF Purge
<1>5. ASSUME Deliver PROVE TypeOK'
  <2>1. PICK N \in SUBSET Pending : \E page \in [N -> SUBSET Users],
                                       last \in [N -> {0} \cup Users] : Serve(N, page, last)
    BY <1>5 DEF Deliver
  <2>2. PICK page \in [N -> SUBSET Users], last \in [N -> {0} \cup Users] : Serve(N, page, last)
    BY <2>1
  <2>3. N \subseteq Seqs
    BY DEF Pending, Posted
  <2>4. cursor' \in [Seqs -> Nat]
    <3>1. \A n \in N : last[n] \in Nat
      BY UserIds
    <3>2. cursor' = [n \in Seqs |-> IF n \in N THEN last[n] ELSE cursor[n]]
      BY <2>2 DEF Serve
    <3> QED BY <3>1, <3>2
  <2> QED BY <2>2, <2>3, <2>4 DEF Serve
<1>6. CASE UNCHANGED vars
  BY <1>6 DEF vars
<1> QED BY <1>1, <1>2, <1>3, <1>4, <1>5, <1>6 DEF Next

(* Event numbers, subscriptions and the typing are right in every          *)
(* reachable state (social_common.event, social._set_support).             *)
THEOREM TypeCorrect == Spec => []TypeOK
<1>1. Init => TypeOK
  BY DEF Init, TypeOK, Seqs
<1> QED BY <1>1, TypeStep, PTL DEF Spec

-----------------------------------------------------------------------------
(* What the steps do to the intervals. *)


(* The audience of n after a step, with the definitions unfolded. *)
LEMMA NextAudience ==
    ASSUME NEW n
    PROVE  Audience(n)' = {x \in Users : \E i \in intervals' :
                              /\ i.user = x /\ i.point = notice'[n] /\ i.start <= n
                              /\ i.end = Open \/ i.end >= n}
  BY DEF Audience, Covers

(* An interval that goes on or begins after seq + 1 reads n = seq + 2 only *)
(* if it is open.                                                          *)
LEMMA LastAudience ==
    ASSUME NEW p \in Points, NEW n \in Seqs, notice'[n] = p,
           active' \in [Points -> SUBSET Users],
           \A x \in Users : x \in active'[p] <=>
               \E i \in intervals' : i.user = x /\ i.point = p /\ i.end = Open,
           \A i \in intervals' : i.start <= n /\ ~(i.end >= n)
    PROVE  Audience(n)' = active'[p]
<1>1. active'[p] \subseteq Users
  OBVIOUS
<1>2. Audience(n)' = {x \in Users : \E i \in intervals' : i.user = x /\ i.point = p /\ i.end = Open}
  BY NextAudience
<1> QED BY <1>1, <1>2

(* What Structure says of one interval. *)
LEMMA IntervalFacts ==
    ASSUME Structure, NEW i \in intervals
    PROVE  /\ i.user \in Users /\ i.point \in Points
           /\ i.start \in Nat /\ i.end \in Nat /\ i.start <= seq /\ i.end <= seq
           /\ DOMAIN i = {"user", "point", "start", "end"}
  BY DEF Structure, Numbered, TypeOK, Intervals, Seqs, Open

LEMMA SubscribeIntervals ==
    ASSUME Structure, NEW u \in Users, NEW p \in Points, NEW closes \in BOOLEAN,
           Subscribe(u, p, closes)
    PROVE  /\ IntervalsMatch'
           /\ \A i \in intervals' : i.start <= seq' /\ i.end <= seq'
           /\ \A n \in Posted : Audience(n)' = Audience(n)
           /\ \A n : closes /\ n = seq + 2 => Audience(n)' = active'[p]
<1>1. PICK new : new = Joined(u, p)
  OBVIOUS
<1>2. /\ new.user = u /\ new.point = p /\ new.start = seq + 1 /\ new.end = Open
  BY <1>1 DEF Joined
<1>3. /\ intervals' = intervals \cup {new} /\ active' = [active EXCEPT ![p] = @ \cup {u}]
      /\ p \notin purged /\ purged' = purged /\ Emit(p, closes)
  BY <1>1 DEF Subscribe
<1>4. active \in [Points -> SUBSET Users] /\ seq \in Nat
  BY DEF Structure, TypeOK
<1>5. \A i \in intervals : i.start <= seq /\ i.end <= seq /\ i.start \in Nat /\ i.end \in Nat
  BY IntervalFacts
<1>6. seq' \in Nat /\ seq + 1 <= seq' /\ \A n \in Posted : n <= seq /\ notice'[n] = notice[n]
  BY <1>3, EmitFacts
<1>7. ASSUME NEW q \in Points \ purged, NEW x \in Users
      PROVE  x \in active'[q] <=> \E i \in intervals' : i.user = x /\ i.point = q /\ i.end = Open
  <2>1. x \in active[q] <=> \E i \in intervals : i.user = x /\ i.point = q /\ i.end = Open
    BY DEF Structure, IntervalsMatch
  <2>2. x \in active'[q] <=> x \in active[q] \/ (x = u /\ q = p)
    BY <1>3, <1>4
  <2> QED BY <1>2, <1>3, <2>1, <2>2
<1>8. ASSUME NEW i \in intervals' PROVE i.start <= seq' /\ i.end <= seq'
  BY <1>2, <1>3, <1>4, <1>5, <1>6 DEF Open
<1>9. ASSUME NEW n \in Posted PROVE Audience(n)' = Audience(n)
  <2>1. ~ (new.start <= n) /\ notice'[n] = notice[n]
    BY <1>2, <1>4, <1>6 DEF Posted, Seqs
  <2> QED BY <1>3, <2>1, NextAudience DEF Audience, Covers
<1>10. ASSUME closes, NEW n, n = seq + 2 PROVE Audience(n)' = active'[p]
  <2>1. notice'[n] = p /\ n \in Seqs
    BY <1>3, <1>10, EmitFacts
  <2>2. \A i \in intervals' : i.start <= n /\ ~(i.end >= n)
    BY <1>2, <1>3, <1>4, <1>5, <1>10 DEF Open
  <2>3. active' \in [Points -> SUBSET Users]
    BY <1>3, <1>4
  <2> QED BY <1>3, <1>7, <2>1, <2>2, <2>3, LastAudience
<1> QED BY <1>3, <1>7, <1>8, <1>9, <1>10 DEF IntervalsMatch

LEMMA UnsubscribeIntervals ==
    ASSUME Structure, NEW u \in Users, NEW p \in Points, NEW closes \in BOOLEAN,
           Unsubscribe(u, p, closes)
    PROVE  /\ IntervalsMatch'
           /\ \A i \in intervals' : i.start <= seq' /\ i.end <= seq'
           /\ \A n \in Posted : Audience(n)' = Audience(n)
           /\ \A n : closes /\ n = seq + 2 => Audience(n)' = active'[p]
<1> DEFINE Hit(i) == i.user = u /\ i.point = p /\ i.end = Open
           After(i, j) == /\ j.user = i.user /\ j.point = i.point /\ j.start = i.start
                         /\ j.end = IF Hit(i) THEN seq + 1 ELSE i.end
<1>1. /\ intervals' = {Ended(i, u, p) : i \in intervals} /\ active' = [active EXCEPT ![p] = @ \ {u}]
      /\ Emit(p, closes) /\ u \in active[p] /\ purged' = purged
  BY DEF Unsubscribe
<1>2. ASSUME NEW i \in intervals PROVE After(i, Ended(i, u, p))
  BY IntervalFacts DEF Ended
<1>3. /\ \A j \in intervals' : \E i \in intervals : After(i, j)
      /\ \A i \in intervals : \E j \in intervals' : After(i, j)
  BY <1>1, <1>2
<1>4. active \in [Points -> SUBSET Users] /\ seq \in Nat
  BY DEF Structure, TypeOK
<1>5. \A i \in intervals : i.start <= seq /\ i.end <= seq /\ i.start \in Nat /\ i.end \in Nat
  BY IntervalFacts
<1>6. seq' \in Nat /\ seq + 1 <= seq' /\ \A n \in Posted : n <= seq /\ notice'[n] = notice[n]
  BY <1>1, EmitFacts
<1>7. p \notin purged
  BY <1>1 DEF Structure, PurgedIsEmpty
<1>8. ASSUME NEW q \in Points \ purged, NEW x \in Users
      PROVE  x \in active'[q] <=> \E i \in intervals' : i.user = x /\ i.point = q /\ i.end = Open
  <2>1. x \in active[q] <=> \E i \in intervals : i.user = x /\ i.point = q /\ i.end = Open
    BY DEF Structure, IntervalsMatch
  <2>2. x \in active'[q] <=> x \in active[q] /\ ~(x = u /\ q = p)
    BY <1>1, <1>4
  <2>3. \A i \in intervals, j \in intervals' :
            After(i, j) => (j.end = Open <=> i.end = Open /\ ~Hit(i))
    BY <1>4 DEF Open
  <2> QED BY <1>3, <2>1, <2>2, <2>3
<1>9. ASSUME NEW j \in intervals' PROVE j.start <= seq' /\ j.end <= seq'
  BY <1>3, <1>4, <1>5, <1>6
<1>10. ASSUME NEW n \in Posted PROVE Audience(n)' = Audience(n)
  <2>1. notice'[n] = notice[n] /\ n <= seq /\ n \in Nat
    BY <1>6 DEF Posted, Seqs
  <2>2. \A i \in intervals, j \in intervals' : After(i, j) =>
            (j.end = Open \/ j.end >= n <=> i.end = Open \/ i.end >= n)
    BY <1>4, <1>5, <2>1 DEF Open
  <2> QED BY <1>3, <2>1, <2>2, NextAudience DEF Audience, Covers
<1>11. ASSUME closes, NEW n, n = seq + 2 PROVE Audience(n)' = active'[p]
  <2>1. notice'[n] = p /\ n \in Seqs
    BY <1>1, <1>11, EmitFacts
  <2>2. \A j \in intervals' : j.start <= n /\ ~(j.end >= n)
    BY <1>3, <1>4, <1>5, <1>11 DEF Open
  <2>3. active' \in [Points -> SUBSET Users]
    BY <1>1, <1>4
  <2> QED BY <1>7, <1>8, <2>1, <2>2, <2>3, LastAudience
<1> QED BY <1>1, <1>8, <1>9, <1>10, <1>11 DEF IntervalsMatch

-----------------------------------------------------------------------------
(* Every step that serves nobody keeps the posted notices and their        *)
(* audience, and a notice it posts goes to the supporters after the step.  *)
Kept == \A n \in Posted : n \in Posted' /\ Audience(n)' = Audience(n)

PostedFor(p, n) == /\ n \in Seqs \ Posted /\ Posted' = Posted \cup {n}
                   /\ Audience(n)' = active'[p]

LEMMA ChangeStep ==
    ASSUME Structure, NEW u \in Users, NEW p \in Points, NEW closes \in BOOLEAN,
           Subscribe(u, p, closes) \/ Unsubscribe(u, p, closes)
    PROVE  /\ Structure' /\ Kept /\ UNCHANGED <<cursor, done, inbox>>
           /\ Posted' = Posted \/ \E n \in Seqs : PostedFor(p, n)
<1>1. /\ IntervalsMatch'
      /\ \A i \in intervals' : i.start <= seq' /\ i.end <= seq'
      /\ \A n \in Posted : Audience(n)' = Audience(n)
      /\ \A n : closes /\ n = seq + 2 => Audience(n)' = active'[p]
  BY SubscribeIntervals, UnsubscribeIntervals
<1>2. TypeOK'
  BY TypeStep DEF Structure, Next
<1>3. Emit(p, closes) /\ UNCHANGED <<cursor, done, inbox, purged>>
  BY DEF Subscribe, Unsubscribe
<1>4. /\ seq' \in 0..MaxSeq /\ seq + 1 <= seq'
      /\ \A n \in Posted : n <= seq /\ n \in Posted'
      /\ ~closes => notice' = notice
      /\ closes => /\ seq + 2 \in Seqs /\ seq' = seq + 2 /\ seq + 2 \notin Posted
                   /\ Posted' = Posted \cup {seq + 2}
  BY <1>3, EmitFacts
<1>5. Posted' = Posted \/ (closes /\ Posted' = Posted \cup {seq + 2})
  BY <1>4 DEF Posted
<1>6. Numbered'
  <2>1. seq \in Nat /\ done \subseteq Posted /\ \A n \in Seqs \ Posted : cursor[n] = 0
    BY DEF Structure, Numbered, TypeOK
  <2>2. \A n \in Posted' : n <= seq'
    BY <1>4, <1>5, <2>1 DEF Posted, Seqs
  <2>3. done' \subseteq Posted' /\ \A n \in Seqs \ Posted' : cursor'[n] = 0
    BY <1>3, <1>4, <2>1
  <2> QED BY <1>1, <2>2, <2>3 DEF Numbered
<1>7. PurgedIsEmpty'
  <2>1. p \notin purged /\ active \in [Points -> SUBSET Users] /\ purged \subseteq Points
    BY DEF Structure, PurgedIsEmpty, TypeOK, Subscribe, Unsubscribe
  <2>2. \A q \in Points : q # p => active'[q] = active[q]
    BY <2>1 DEF Subscribe, Unsubscribe
  <2> QED BY <1>3, <2>1, <2>2 DEF Structure, PurgedIsEmpty
<1>8. closes => \E n \in Seqs : PostedFor(p, n)
  BY <1>1, <1>4 DEF PostedFor
<1> QED BY <1>1, <1>2, <1>3, <1>4, <1>5, <1>6, <1>7, <1>8 DEF Structure, Kept

LEMMA AnnounceStep ==
    ASSUME Structure, NEW p \in Points, Announce(p)
    PROVE  /\ Structure' /\ Kept /\ UNCHANGED <<cursor, done, inbox>>
           /\ \E n \in Seqs : PostedFor(p, n)
<1>1. PICK n : n = seq + 1
  OBVIOUS
<1>2. /\ n \in Seqs /\ notice' = [notice EXCEPT ![n] = p] /\ seq' = n /\ n \in Nat /\ seq \in Nat
      /\ p \notin purged /\ UNCHANGED <<active, intervals, cursor, done, inbox, purged>>
  BY <1>1 DEF Announce, Structure, TypeOK, Seqs
<1>3. /\ notice \in [Seqs -> Points \cup {NoPoint}] /\ active \in [Points -> SUBSET Users]
      /\ done \subseteq Posted /\ \A m \in Seqs \ Posted : cursor[m] = 0
      /\ \A m \in Posted : m <= seq
  BY DEF Structure, TypeOK, Numbered
<1>4. n \notin Posted /\ Posted' = Posted \cup {n}
  <2>1. n \notin Posted
    BY <1>1, <1>2, <1>3
  <2> QED BY <1>2, <1>3, <2>1 DEF Posted
<1>5. TypeOK'
  BY TypeStep DEF Structure, Next
<1>6. \A i \in intervals : i.start <= n /\ ~(i.end >= n) /\ i.end <= n
  BY <1>1, <1>2, IntervalFacts
<1>7. \A m \in Posted : notice'[m] = notice[m]
  BY <1>2, <1>3, <1>4 DEF Posted
<1>8. Kept
  BY <1>2, <1>4, <1>7, NextAudience DEF Kept, Audience, Covers
<1>9. Audience(n)' = active'[p]
  <2>1. \A x \in Users : x \in active'[p] <=>
            \E i \in intervals' : i.user = x /\ i.point = p /\ i.end = Open
    BY <1>2 DEF Structure, IntervalsMatch
  <2> QED BY <1>2, <1>3, <1>6, <2>1, LastAudience
<1>10. Numbered'
  <2>1. \A m \in Posted' : m <= seq'
    BY <1>1, <1>2, <1>3, <1>4 DEF Posted, Seqs
  <2> QED BY <1>2, <1>3, <1>4, <1>6, <2>1 DEF Numbered
<1>11. PurgedIsEmpty' /\ IntervalsMatch'
  <2>1. active' = active /\ intervals' = intervals /\ purged' = purged
    BY <1>2
  <2>2. PurgedIsEmpty'
    BY <2>1 DEF Structure, PurgedIsEmpty
  <2>3. IntervalsMatch'
    BY <2>1 DEF Structure, IntervalsMatch
  <2> QED BY <2>2, <2>3
<1> QED BY <1>2, <1>4, <1>5, <1>8, <1>9, <1>10, <1>11 DEF Structure, PostedFor

LEMMA PurgeStep ==
    ASSUME Structure, NEW p \in Points, Purge(p)
    PROVE  Structure' /\ Kept /\ Posted' = Posted /\ UNCHANGED <<cursor, done, inbox>>
<1>1. /\ UNCHANGED <<intervals, notice, cursor, done, inbox>> /\ seq' = seq + 1
      /\ active' = [active EXCEPT ![p] = {}] /\ purged' = purged \cup {p}
  BY DEF Purge
<1>2. seq \in Nat /\ active \in [Points -> SUBSET Users] /\ purged \subseteq Points
  BY DEF Structure, TypeOK
<1>3. TypeOK'
  BY TypeStep DEF Structure, Next
<1>4. Posted' = Posted /\ Kept
  BY <1>1 DEF Posted, Kept, Audience, Covers
<1>5. Numbered'
  <2>1. \A i \in intervals : i.start <= seq' /\ i.end <= seq'
    BY <1>1, <1>2, IntervalFacts
  <2>2. \A n \in Posted : n <= seq'
    BY <1>1, <1>2 DEF Structure, Numbered, Posted, Seqs
  <2> QED BY <1>1, <1>4, <2>1, <2>2 DEF Structure, Numbered
<1>6. PurgedIsEmpty'
  BY <1>1, <1>2 DEF Structure, PurgedIsEmpty
<1>7. IntervalsMatch'
  <2>1. \A q \in Points \ purged' : active'[q] = active[q] /\ q \in Points \ purged
    BY <1>1, <1>2
  <2> QED BY <1>1, <2>1 DEF Structure, IntervalsMatch
<1> QED BY <1>1, <1>3, <1>4, <1>5, <1>6, <1>7 DEF Structure

-----------------------------------------------------------------------------
(* One page of each notice of N, whose audience does not change meanwhile. *)
PageEffect(N, page, last) ==
    /\ Posted' = Posted /\ N \subseteq Posted
    /\ \A n \in Seqs : Audience(n)' = Audience(n)
    /\ \A n \in Posted, u \in Users :
           <<u, n>> \in inbox' <=> <<u, n>> \in inbox \/ (n \in N /\ u \in page[n])
    /\ \A n \in Posted : cursor'[n] = IF n \in N THEN last[n] ELSE cursor[n]
    /\ \A n \in N : IsBatch(page[n], n) /\ LastOf(last[n], page[n], n)
    /\ \A n \in N : page[n] \subseteq Users /\ last[n] \in Nat /\ cursor[n] \in Nat
    /\ done' = done \cup {n \in N : Cardinality(page[n]) < Batch}
    /\ inbox' = inbox \cup {x \in Users \X N : x[1] \in page[x[2]]}

LEMMA PageFacts ==
    ASSUME Structure, NEW N \in SUBSET Pending, NEW page \in [N -> SUBSET Users],
           NEW last \in [N -> {0} \cup Users], Serve(N, page, last)
    PROVE  PageEffect(N, page, last)
<1>1. /\ \A n \in N : IsBatch(page[n], n) /\ LastOf(last[n], page[n], n)
      /\ inbox' = inbox \cup {x \in Users \X N : x[1] \in page[x[2]]}
      /\ cursor' = [n \in Seqs |-> IF n \in N THEN last[n] ELSE cursor[n]]
      /\ done' = done \cup {n \in N : Cardinality(page[n]) < Batch}
      /\ UNCHANGED <<intervals, notice>>
  BY DEF Serve
<1>2. N \subseteq Posted /\ Posted \subseteq Seqs /\ cursor \in [Seqs -> Nat]
  BY DEF Pending, Posted, Structure, TypeOK
<1>3. Posted' = Posted /\ \A n \in Seqs : Audience(n)' = Audience(n)
  BY <1>1 DEF Posted, Audience, Covers
<1>4. \A n \in N : page[n] \subseteq Users /\ last[n] \in Nat
  BY UserIds
<1>5. \A n \in Posted, u \in Users :
          <<u, n>> \in inbox' <=> <<u, n>> \in inbox \/ (n \in N /\ u \in page[n])
  BY <1>1
<1> QED BY <1>1, <1>2, <1>3, <1>4, <1>5 DEF PageEffect

(* Serving R moves the cursor from c to d and nobody in between is left    *)
(* out; a page shorter than the batch is the whole rest.                   *)
LEMMA CursorMoves ==
    ASSUME NEW n, NEW R \in SUBSET Users, NEW d \in Nat, cursor[n] \in Nat,
           IsBatch(R, n), LastOf(d, R, n)
    PROVE  /\ R \subseteq Audience(n)
           /\ \A u \in Audience(n) : u <= d <=> (u <= cursor[n] \/ u \in R)
           /\ Cardinality(R) < Batch => \A u \in Audience(n) : u <= cursor[n] \/ u \in R
<1> DEFINE c == cursor[n]
<1>1. Audience(n) \subseteq Users /\ Users \subseteq Nat
  BY DEF Audience
<1>2. R \subseteq Audience(n) /\ \A u \in R : u > c
  BY DEF IsBatch, Rest
<1>3. \A u \in Audience(n) : u > c => u \in Rest(n)
  BY DEF Rest
<1>4. \A u \in R, v \in Audience(n) : v > c /\ v \notin R => u < v
  BY <1>3 DEF IsBatch
<1>5. Cardinality(R) < Batch => \A u \in Audience(n) : u <= c \/ u \in R
  <2> SUFFICES ASSUME Cardinality(R) < Batch PROVE \A u \in Audience(n) : u <= c \/ u \in R
    OBVIOUS
  <2>1. R = Rest(n)
    BY DEF IsBatch
  <2>2. ASSUME NEW u \in Audience(n) PROVE u <= c \/ u > c
    <3>1. u \in Nat /\ c \in Nat
      BY <1>1
    <3> HIDE DEF c
    <3> QED BY <3>1
  <2> QED BY <1>3, <2>1, <2>2
<1>6. ASSUME NEW u \in Audience(n) PROVE u <= d <=> (u <= c \/ u \in R)
  <2>1. CASE R = {}
    BY <2>1 DEF LastOf
  <2>2. CASE R # {}
    <3>1. d \in R /\ \A v \in R : v <= d
      BY <2>2 DEF LastOf
    <3>2. d > c /\ u \in Nat /\ c \in Nat
      BY <1>1, <1>2, <3>1
    <3> QED BY <1>4, <3>1, <3>2
  <2> QED BY <2>1, <2>2
<1> QED BY <1>2, <1>5, <1>6

LEMMA SameIntervals ==
    ASSUME IntervalsMatch, active' = active, intervals' = intervals, purged' = purged
    PROVE  IntervalsMatch'
  BY DEF IntervalsMatch

LEMMA DeliverStep ==
    ASSUME IInv, Deliver
    PROVE  /\ IInv' /\ Posted' = Posted /\ \A n \in Posted : Audience(n)' = Audience(n)
           /\ inbox \subseteq inbox' /\ active' = active
<1>1. PICK N \in SUBSET Pending : \E page \in [N -> SUBSET Users],
                                     last \in [N -> {0} \cup Users] : Serve(N, page, last)
  BY DEF Deliver
<1>2. PICK page \in [N -> SUBSET Users], last \in [N -> {0} \cup Users] : Serve(N, page, last)
  BY <1>1
<1>3. Structure /\ OnlyOwed /\ CursorSeparates /\ DoneIsDelivered /\ UNCHANGED active
  BY <1>2 DEF IInv, Serve
<1>4. PageEffect(N, page, last)
  BY <1>2, <1>3, PageFacts
<1>41. Posted' = Posted /\ \A n \in Posted : Audience(n)' = Audience(n)
  BY <1>4 DEF PageEffect, Posted
<1>42. /\ \A n \in Posted, u \in Users :
             <<u, n>> \in inbox' <=> <<u, n>> \in inbox \/ (n \in N /\ u \in page[n])
      /\ \A n \in Posted : cursor'[n] = IF n \in N THEN last[n] ELSE cursor[n]
  BY <1>4 DEF PageEffect
<1>43. /\ N \subseteq Posted
      /\ done' = done \cup {n \in N : Cardinality(page[n]) < Batch}
      /\ inbox' = inbox \cup {x \in Users \X N : x[1] \in page[x[2]]}
  BY <1>4 DEF PageEffect
<1>5. \A n \in N :
          /\ page[n] \subseteq Audience(n)
          /\ \A u \in Audience(n) : u <= last[n] <=> (u <= cursor[n] \/ u \in page[n])
          /\ Cardinality(page[n]) < Batch =>
                 \A u \in Audience(n) : u <= cursor[n] \/ u \in page[n]
  BY <1>4, CursorMoves DEF PageEffect
<1>6. \A n \in Posted : Audience(n) \subseteq Users
  BY DEF Audience
<1>7. CursorSeparates'
  <2> SUFFICES ASSUME NEW n \in Posted, NEW u \in Audience(n)
               PROVE  u <= cursor'[n] <=> <<u, n>> \in inbox'
    BY <1>41 DEF CursorSeparates
  <2>1. u <= cursor[n] <=> <<u, n>> \in inbox
    BY <1>3 DEF CursorSeparates
  <2>2. CASE n \in N
    BY <1>42, <1>5, <1>6, <2>1, <2>2
  <2>3. CASE n \notin N
    BY <1>42, <1>6, <2>1, <2>3
  <2> QED BY <2>2, <2>3
<1>8. DoneIsDelivered'
  <2>1. done \subseteq Posted /\ Posted \subseteq Seqs
    BY <1>3 DEF Structure, Numbered, Posted
  <2> SUFFICES ASSUME NEW n \in done', NEW u \in Audience(n) PROVE <<u, n>> \in inbox'
    <3>1. done' \subseteq Posted
      BY <1>43, <2>1
    <3> QED BY <1>41, <3>1 DEF DoneIsDelivered
  <2>2. CASE n \in done
    BY <1>3, <1>43, <2>2 DEF DoneIsDelivered
  <2>3. CASE n \in N /\ Cardinality(page[n]) < Batch
    <3>1. u <= cursor[n] \/ u \in page[n]
      BY <1>5, <2>3
    <3>2. u <= cursor[n] => <<u, n>> \in inbox
      BY <1>3, <1>43, <2>3 DEF CursorSeparates
    <3> QED BY <1>6, <1>42, <1>43, <2>3, <3>1, <3>2
  <2> QED BY <1>43, <2>2, <2>3
<1>9. OnlyOwed'
  <2>1. Owed' = Owed
    BY <1>41 DEF Owed
  <2>2. \A x \in Users \X N : x[1] \in page[x[2]] => x \in Owed
    BY <1>43, <1>5 DEF Owed
  <2> QED BY <1>3, <1>43, <2>1, <2>2 DEF OnlyOwed
<1>10. Structure'
  <2>1. TypeOK'
    BY TypeStep, <1>3 DEF Structure, Next
  <2>2. seq' = seq /\ active' = active /\ intervals' = intervals /\ purged' = purged
    BY <1>2 DEF Serve
  <2>3. Numbered'
    <3>1. \A i \in intervals' : i.start <= seq' /\ i.end <= seq'
      BY <1>3, <2>2 DEF Structure, Numbered
    <3>2. \A n \in Posted' : n <= seq'
      BY <1>3, <1>41, <2>2 DEF Structure, Numbered
    <3>3. cursor' = [n \in Seqs |-> IF n \in N THEN last[n] ELSE cursor[n]]
      BY <1>2 DEF Serve
    <3>4. \A n \in Seqs \ Posted' : cursor'[n] = 0
      BY <1>3, <1>41, <1>43, <3>3 DEF Structure, Numbered
    <3>5. done' \subseteq Posted'
      BY <1>3, <1>41, <1>43 DEF Structure, Numbered
    <3> QED BY <3>1, <3>2, <3>4, <3>5 DEF Numbered
  <2>4. PurgedIsEmpty'
    BY <1>3, <2>2 DEF Structure, PurgedIsEmpty
  <2>5. IntervalsMatch'
    BY <1>3, <2>2, SameIntervals DEF Structure
  <2> QED BY <2>1, <2>3, <2>4, <2>5 DEF Structure
<1> QED BY <1>3, <1>41, <1>43, <1>7, <1>8, <1>9, <1>10 DEF IInv

(* A step that serves nobody: a notice it posts has not reached anyone. *)
LEMMA FrozenInbox ==
    ASSUME IInv, Structure', Kept, UNCHANGED <<cursor, done, inbox>>
    PROVE  IInv'
<1>1. Structure /\ OnlyOwed /\ CursorSeparates /\ DoneIsDelivered
  BY DEF IInv
<1>2. /\ \A n \in Posted : n \in Posted' /\ Audience(n)' = Audience(n)
      /\ Posted' \subseteq Seqs
  BY DEF Kept, Posted
<1>3. OnlyOwed'
  BY <1>1, <1>2 DEF OnlyOwed, Owed
<1>4. DoneIsDelivered'
  BY <1>1, <1>2 DEF DoneIsDelivered, Structure, Numbered
<1>5. CursorSeparates'
  <2> SUFFICES ASSUME NEW n \in Posted', NEW u \in Audience(n)'
               PROVE  u <= cursor[n] <=> <<u, n>> \in inbox
    BY DEF CursorSeparates
  <2>1. CASE n \in Posted
    BY <1>1, <1>2, <2>1 DEF CursorSeparates
  <2>2. CASE n \notin Posted
    <3>1. u \in Nat \ {0}
      BY DEF Audience
    <3>2. cursor[n] = 0
      BY <1>1, <1>2, <2>2 DEF Structure, Numbered
    <3>3. <<u, n>> \notin inbox
      BY <1>1, <2>2 DEF OnlyOwed, Owed
    <3> QED BY <3>1, <3>2, <3>3
  <2> QED BY <2>1, <2>2
<1> QED BY <1>3, <1>4, <1>5 DEF IInv

-----------------------------------------------------------------------------
(* The inductive step: what a step of the module does, its only visible    *)
(* effects being a membership, a newly posted notice or a delivery.        *)
Visible ==
    \/ \E u \in Users, p \in Points :
           /\ active' = [active EXCEPT ![p] = IF u \in @ THEN @ \ {u} ELSE @ \cup {u}]
           /\ inbox' = inbox
           /\ Posted' = Posted \/ \E n \in Seqs : PostedFor(p, n)
    \/ \E p \in Points :
           /\ UNCHANGED <<active, inbox>>
           /\ \E n \in Seqs : PostedFor(p, n)
    \/ \E p \in Points :
           /\ active' = [active EXCEPT ![p] = {}]
           /\ inbox' = inbox /\ Posted' = Posted
    \/ active' = active /\ Posted' = Posted /\ inbox \subseteq inbox'

LEMMA Step ==
    ASSUME IInv, [Next]_vars
    PROVE  IInv' /\ Kept /\ Visible
<1>0. Structure
  BY DEF IInv
<1>1. ASSUME NEW u \in Users, NEW p \in Points, NEW closes \in BOOLEAN,
             Subscribe(u, p, closes) \/ Unsubscribe(u, p, closes)
      PROVE  IInv' /\ Kept /\ Visible
  <2>1. /\ Structure' /\ Kept /\ UNCHANGED <<cursor, done, inbox>>
        /\ Posted' = Posted \/ \E n \in Seqs : PostedFor(p, n)
    BY <1>0, <1>1, ChangeStep
  <2>2. active' = [active EXCEPT ![p] = IF u \in @ THEN @ \ {u} ELSE @ \cup {u}]
    BY <1>1 DEF Subscribe, Unsubscribe
  <2> QED BY <2>1, <2>2, FrozenInbox DEF Visible
<1>2. ASSUME NEW p \in Points, Announce(p) PROVE IInv' /\ Kept /\ Visible
  <2>1. /\ Structure' /\ Kept /\ UNCHANGED <<cursor, done, inbox>>
        /\ \E n \in Seqs : PostedFor(p, n)
    BY <1>0, <1>2, AnnounceStep
  <2>2. active' = active
    BY <1>2 DEF Announce
  <2> QED BY <2>1, <2>2, FrozenInbox DEF Visible
<1>3. ASSUME NEW p \in Points, Purge(p) PROVE IInv' /\ Kept /\ Visible
  <2>1. Structure' /\ Kept /\ Posted' = Posted /\ UNCHANGED <<cursor, done, inbox>>
    BY <1>0, <1>3, PurgeStep
  <2>2. active' = [active EXCEPT ![p] = {}]
    BY <1>3 DEF Purge
  <2> QED BY <2>1, <2>2, FrozenInbox DEF Visible
<1>4. ASSUME Deliver PROVE IInv' /\ Kept /\ Visible
  BY <1>4, DeliverStep DEF Kept, Visible
<1>5. ASSUME UNCHANGED vars PROVE IInv' /\ Kept /\ Visible
  <2>1. /\ seq' = seq /\ active' = active /\ intervals' = intervals /\ notice' = notice
        /\ cursor' = cursor /\ done' = done /\ inbox' = inbox /\ purged' = purged
    BY <1>5 DEF vars
  <2>2. Posted' = Posted /\ \A n : Audience(n)' = Audience(n)
    BY <2>1 DEF Posted, Audience, Covers
  <2>3. TypeOK' /\ PurgedIsEmpty'
    BY <1>0, <2>1, <1>5, TypeStep DEF Structure, PurgedIsEmpty
  <2>4. Numbered'
    BY <1>0, <2>1, <2>2 DEF Structure, Numbered
  <2>5. IntervalsMatch'
    BY <1>0, <2>1 DEF Structure, IntervalsMatch
  <2>6. Kept
    BY <2>2 DEF Kept
  <2> QED BY <2>1, <2>2, <2>3, <2>4, <2>5, <2>6, FrozenInbox DEF Structure, Visible
<1> QED BY <1>1, <1>2, <1>3, <1>4, <1>5 DEF Next

LEMMA Start == Init => IInv
<1> SUFFICES ASSUME Init PROVE IInv
  OBVIOUS
<1>1. Posted = {}
  BY DEF Init, Posted
<1>2. TypeOK
  BY DEF Init, TypeOK, Seqs
<1>3. Numbered /\ PurgedIsEmpty /\ IntervalsMatch
  BY <1>1 DEF Init, Numbered, PurgedIsEmpty, IntervalsMatch
<1>4. OnlyOwed /\ CursorSeparates /\ DoneIsDelivered
  BY <1>1 DEF Init, OnlyOwed, CursorSeparates, DoneIsDelivered
<1> QED BY <1>2, <1>3, <1>4 DEF IInv, Structure

THEOREM Invariant == Spec => []IInv
BY Start, Step, PTL DEF Spec

(* A notice the worker marked as delivered has reached its whole audience, *)
(* whoever joins or leaves between two pages (social._deliver).            *)
THEOREM DeliveredToAll == Spec => []DoneIsDelivered
<1>1. IInv => DoneIsDelivered
  BY DEF IInv
<1> QED BY <1>1, Invariant, PTL

(* The audience cursor parts the people served from those still waiting,   *)
(* so that a pass resumes without a gap or a repetition (social._deliver). *)
THEOREM CursorParts == Spec => []CursorSeparates
<1>1. IInv => CursorSeparates
  BY DEF IInv
<1> QED BY <1>1, Invariant, PTL

(* The open intervals are the live subscriptions (social._set_support).    *)
THEOREM IntervalsTrack == Spec => []IntervalsMatch
<1>1. IInv => IntervalsMatch
  BY DEF IInv, Structure
<1> QED BY <1>1, Invariant, PTL

-----------------------------------------------------------------------------
(* Refinement of Mailbox. *)

LEMMA OwedKept == ASSUME Kept, Posted' = Posted PROVE Owed' = Owed
BY DEF Kept, Owed

LEMMA OwedGrows ==
    ASSUME Kept, NEW p \in Points, NEW n \in Seqs, PostedFor(p, n)
    PROVE  Owed' = Owed \cup (active'[p] \X {n})
<1>1. /\ n \notin Posted /\ Posted' = Posted \cup {n} /\ Audience(n)' = active'[p]
      /\ \A m \in Posted : Audience(m)' = Audience(m)
  BY DEF PostedFor, Kept
<1>2. active'[p] \subseteq Users
  BY <1>1, NextAudience
<1> QED BY <1>1, <1>2 DEF Owed

LEMMA Refines ==
    ASSUME IInv, IInv', Kept, Visible
    PROVE  [Promise!Next]_(Promise!vars)
<1>1. ASSUME NEW p \in Points, NEW n \in Seqs, PostedFor(p, n)
      PROVE  Promise!Fresh(n) /\ Owed' = Owed \cup (active'[p] \X {n})
  <2>1. n \notin Posted
    BY <1>1 DEF PostedFor
  <2>2. Promise!Fresh(n)
    BY <2>1 DEF Promise!Fresh, Owed
  <2> QED BY <1>1, <2>2, OwedGrows
<1>2. ASSUME NEW u \in Users, NEW p \in Points,
             active' = [active EXCEPT ![p] = IF u \in @ THEN @ \ {u} ELSE @ \cup {u}],
             inbox' = inbox, Posted' = Posted \/ \E n \in Seqs : PostedFor(p, n)
      PROVE  Promise!Change(u, p)
  <2>1. CASE Posted' = Posted
    BY <1>2, <2>1, OwedKept DEF Promise!Change
  <2>2. CASE \E n \in Seqs : PostedFor(p, n)
    BY <1>1, <1>2, <2>2 DEF Promise!Change, Promise!Post
  <2> QED BY <1>2, <2>1, <2>2
<1>3. ASSUME NEW p \in Points, active' = active, inbox' = inbox,
             \E n \in Seqs : PostedFor(p, n)
      PROVE  Promise!Announce(p)
  BY <1>1, <1>3 DEF Promise!Announce, Promise!Post
<1>4. ASSUME NEW p \in Points, active' = [active EXCEPT ![p] = {}], inbox' = inbox,
             Posted' = Posted
      PROVE  Promise!Dissolve(p)
  BY <1>4, OwedKept DEF Promise!Dissolve
<1>5. ASSUME active' = active, Posted' = Posted, inbox \subseteq inbox'
      PROVE  Promise!Deliver \/ UNCHANGED Promise!vars
  <2>1. Owed' = Owed /\ inbox' \subseteq Owed' /\ inbox \subseteq Owed
    BY <1>5, OwedKept DEF IInv, OnlyOwed
  <2>2. CASE inbox = Owed
    BY <1>5, <2>1, <2>2 DEF Promise!vars
  <2>3. CASE inbox # Owed
    <3>1. inbox' \ inbox \in SUBSET (Owed \ inbox) /\ inbox' = inbox \cup (inbox' \ inbox)
      BY <1>5, <2>1
    <3> QED BY <1>5, <2>1, <2>3, <3>1 DEF Promise!Deliver
  <2> QED BY <2>2, <2>3
<1> QED BY <1>2, <1>3, <1>4, <1>5 DEF Visible, Promise!Next

(* The fan-out keeps the promise of the durable notices: each reaches      *)
(* exactly the people who supported its point when it was posted.          *)
THEOREM KeepsThePromise == Spec => Implements
<1>1. Init => Promise!Init
  BY DEF Init, Promise!Init, Owed, Posted
<1>2. IInv /\ IInv' /\ [Next]_vars => [Promise!Next]_(Promise!vars)
  BY Step, Refines
<1> QED BY <1>1, <1>2, Invariant, PTL DEF Spec, Implements, Promise!Spec
=============================================================================
