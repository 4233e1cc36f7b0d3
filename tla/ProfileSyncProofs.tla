------------------------- MODULE ProfileSyncProofs -------------------------
(***************************************************************************)
(* Proofs about ProfileSync, for any keys, records, clocks and settings,   *)
(* any number of steps at once, and any number of crashes and stalls.      *)
(*                                                                         *)
(* All that changes the records of an account - a local change, the        *)
(* records from before the feature, the posts of its own server, a page of *)
(* the peer - raises its clock over every stamp it puts in, and replaces a *)
(* record only by a newer one.  What these functions do is stated once for *)
(* each; the steps follow from that, because a page can carry nothing but  *)
(* records, whenever it arrives.                                           *)
(***************************************************************************)
EXTENDS ProfileSync, FiniteSetTheorems, WellFoundedInduction, TLAPS

USE KeyAssumption, ClockAssumption, ConsentAssumption, NoRecordAssumption

-----------------------------------------------------------------------------
(* Finite sets have largest elements. *)

LEMMA Largest ==
    ASSUME NEW S, IsFiniteSet(S), S # {}, NEW f, \A x \in S : f[x] \in Int
    PROVE  \E m \in S : \A x \in S : f[x] <= f[m]
  <1> DEFINE Greatest(X, m) == m \in X /\ \A x \in X : f[x] <= f[m]
             T == {X \in SUBSET S : X # {} /\ ~\E m \in X : Greatest(X, m)}
  <1> SUFFICES ASSUME T # {} PROVE FALSE
    OBVIOUS
  <1>1. IsWellFoundedOn(StrictSubsetOrdering(S), SUBSET S)
    <2>1. FiniteSubsetsOf(S) = SUBSET S
      BY FS_FiniteSubsetsOfFinite
    <2>2. IsWellFoundedOn(StrictSubsetOrdering(S), FiniteSubsetsOf(S))
      BY FS_StrictSubsetOrderingWellFounded
    <2> QED BY <2>1, <2>2
  <1>2. PICK X \in T : \A Y \in T : <<Y, X>> \notin StrictSubsetOrdering(S)
    <2>1. T \subseteq SUBSET S
      OBVIOUS
    <2> HIDE DEF T
    <2> QED BY <1>1, <2>1, WFMin
  <1>3. PICK e \in X : TRUE
    OBVIOUS
  <1>4. CASE X = {e}
    BY <1>2, <1>3, <1>4
  <1>5. CASE X # {e}
    <2>1. X \ {e} \in SUBSET S /\ X \ {e} # {} /\ X \ {e} # X
      BY <1>3, <1>5
    <2>2. X \ {e} \notin T
      BY <1>2, <2>1 DEF StrictSubsetOrdering
    <2>3. PICK m \in X \ {e} : Greatest(X \ {e}, m)
      BY <2>1, <2>2
    <2>4. f[e] \in Int /\ f[m] \in Int /\ \A x \in X : f[x] \in Int
      BY <1>3, <2>3
    <2>5. CASE f[e] <= f[m]
      BY <2>3, <2>5, <1>3
    <2>6. CASE ~(f[e] <= f[m])
      <3>1. Greatest(X, e)
        BY <2>3, <2>4, <2>6, <1>3
      <3> QED BY <3>1, <1>2, <1>3
    <2> QED BY <2>5, <2>6
  <1> QED BY <1>4, <1>5

LEMMA KeyNumbers == \A k \in Keys \cup {0} : k \in Nat
  OBVIOUS

LEMMA KeysFinite == \A S \in SUBSET Keys : IsFiniteSet(S) /\ Cardinality(S) \in Nat
  BY FS_Subset, FS_CardinalityType

LEMMA LastKey ==
    ASSUME NEW S \in SUBSET Keys, S # {}
    PROVE  (CHOOSE k \in S : \A x \in S : x <= k) \in S
  <1> DEFINE f == [x \in S |-> x]
  <1>1. \A x \in S : f[x] \in Int /\ f[x] = x
    OBVIOUS
  <1>2. IsFiniteSet(S)
    BY KeysFinite
  <1> HIDE DEF f
  <1>3. PICK m \in S : \A x \in S : f[x] <= f[m]
    BY <1>1, <1>2, Largest
  <1>4. \E n \in S : \A x \in S : x <= n
    BY <1>1, <1>3
  <1> QED BY <1>4

LEMMA FirstKey ==
    ASSUME NEW S \in SUBSET Keys, S # {}
    PROVE  \E m \in S : {x \in S : x < m} = {}
  <1> DEFINE f == [x \in S |-> 0 - x]
  <1>1. \A x \in S : f[x] \in Int /\ f[x] = 0 - x /\ x \in Nat
    OBVIOUS
  <1>2. IsFiniteSet(S)
    BY KeysFinite
  <1> HIDE DEF f
  <1>3. PICK m \in S : \A x \in S : f[x] <= f[m]
    BY <1>1, <1>2, Largest
  <1>4. \A x \in S : ~(x < m)
    BY <1>1, <1>3
  <1> QED BY <1>4

(* The page of an account that has something to send is not empty. *)
LEMMA SomePage ==
    ASSUME NEW d, NEW scopes, NEW after, Rest(d, scopes, after) # {}
    PROVE  PageKeys(d, scopes, after) # {}
  <1> DEFINE R == Rest(d, scopes, after)
  <1>1. R \in SUBSET Keys
    BY DEF Rest
  <1>2. PICK m \in R : {x \in R : x < m} = {}
    BY <1>1, FirstKey
  <1>3. Cardinality({x \in R : x < m}) = 0
    BY <1>2, FS_EmptySet
  <1> QED BY <1>2, <1>3 DEF PageKeys

LEMMA CursorType ==
    ASSUME NEW d, NEW scopes, NEW after \in Keys \cup {0}
    PROVE  Cursor(d, scopes, after) \in Keys \cup {0}
  <1> DEFINE R == Rest(d, scopes, after)
             P == PageKeys(d, scopes, after)
  <1>1. R \in SUBSET Keys /\ P \in SUBSET R
    BY DEF Rest, PageKeys
  <1>2. CASE P = R
    BY <1>2 DEF Cursor
  <1>3. CASE P # R
    BY <1>1, <1>3, SomePage, LastKey DEF Cursor
  <1> QED BY <1>2, <1>3

LEMMA PageType ==
    ASSUME NEW d \in Account, NEW scopes, NEW after
    PROVE  Page(d, scopes, after) \in Records
  BY DEF Page, Account, Records

-----------------------------------------------------------------------------
(* What each function of an account does to it. *)

Covered(d) == \A k \in Keys : d.prefs[k] # None => d.prefs[k].clock <= d.tick

(* Records do not vanish and are replaced by newer ones only. *)
Grows(d, e) ==
    \A k \in Keys : d.prefs[k] # None =>
        e.prefs[k] # None /\ (e.prefs[k] = d.prefs[k] \/ Newer(e.prefs[k], d.prefs[k]))

(* Records that are new or changed are of server s. *)
Writes(d, e, s) ==
    \A k \in Keys : e.prefs[k] # d.prefs[k] => e.prefs[k] # None /\ e.prefs[k].writer = s

Evolves(d, e) == e \in Account /\ Covered(e) /\ Grows(d, e)

LEMMA GrowsTransitive ==
    ASSUME NEW d \in Account, NEW e \in Account, NEW f \in Account, Grows(d, e), Grows(e, f)
    PROVE  Grows(d, f)
  <1> SUFFICES ASSUME NEW k \in Keys, d.prefs[k] # None
      PROVE  f.prefs[k] # None /\ (f.prefs[k] = d.prefs[k] \/ Newer(f.prefs[k], d.prefs[k]))
    BY DEF Grows
  <1>1. e.prefs[k] # None /\ f.prefs[k] # None
    BY DEF Grows
  <1>2. d.prefs[k] \in Record /\ e.prefs[k] \in Record /\ f.prefs[k] \in Record
    BY <1>1 DEF Account, Records
  <1>3. /\ e.prefs[k] = d.prefs[k] \/ Newer(e.prefs[k], d.prefs[k])
        /\ f.prefs[k] = e.prefs[k] \/ Newer(f.prefs[k], e.prefs[k])
    BY <1>1 DEF Grows
  <1> QED BY <1>1, <1>2, <1>3 DEF Newer, Record, Stamp, Sides

LEMMA GrowsReflexive == \A d : Grows(d, d)
  BY DEF Grows

LEMMA WallType == \A s \in Sides : Wall(s) \in Stamp
  BY DEF Wall, Stamp

LEMMA NextStampAbove ==
    ASSUME NEW s \in Sides, NEW tick \in Nat
    PROVE  NextStamp(s, tick) \in Stamp /\ NextStamp(s, tick) > tick
  BY WallType DEF NextStamp, Larger, Stamp

LEMMA RecordsCovered ==
    ASSUME NEW d \in Account, Covered(d), NEW x \in Keys, d.prefs[x] # None
    PROVE  d.prefs[x] \in Record /\ d.prefs[x].clock <= d.tick
  <1>1. d.prefs[x] \in Record
    BY DEF Account, Records
  <1> QED BY <1>1 DEF Covered

LEMMA PutEvolves ==
    ASSUME NEW d \in Account, Covered(d), NEW s \in Sides, NEW k \in Keys, NEW v \in Values
    PROVE  Evolves(d, Put(d, s, k, v)) /\ Writes(d, Put(d, s, k, v), s)
  <1> DEFINE t == NextStamp(s, d.tick)
             new == [value |-> v, clock |-> t, writer |-> s]
  <1>1. /\ d.tick \in Nat /\ d.prefs \in Records
        /\ \A x \in Keys : d.prefs[x] # None => d.prefs[x] \in Record /\ d.prefs[x].clock <= d.tick
    BY RecordsCovered DEF Account
  <1>2. t \in Stamp /\ t > d.tick
    BY <1>1, NextStampAbove
  <1>3. CASE d.prefs[k] # None /\ d.prefs[k].value = v
    BY <1>3, GrowsReflexive DEF Put, Evolves, Writes
  <1>4. CASE ~(d.prefs[k] # None /\ d.prefs[k].value = v)
    <2> DEFINE e == Put(d, s, k, v)
    <2>1. /\ e \in Account /\ e.tick = t /\ e.prefs[k] = new
          /\ \A x \in Keys : x # k => e.prefs[x] = d.prefs[x]
      <3>1. e = [d EXCEPT !.tick = t, !.prefs[k] = new]
        BY <1>4 DEF Put
      <3>2. new \in Record /\ t \in Nat
        BY <1>2 DEF Record, Stamp
      <3>3. [d.prefs EXCEPT ![k] = new] \in Records
        BY <1>1, <3>2 DEF Records
      <3> DEFINE P == [d.prefs EXCEPT ![k] = new]
      <3>4. e = [d EXCEPT !.tick = t, !.prefs = P]
        BY <3>1
      <3>5. P[k] = new /\ \A x \in Keys : x # k => P[x] = d.prefs[x]
        BY <1>1 DEF Records
      <3> HIDE DEF t, new, P, e
      <3>6. e \in Account /\ e.tick = t /\ e.prefs = P
        BY <3>2, <3>3, <3>4 DEF Account, P
      <3> QED BY <3>5, <3>6
    <2>2. new \in Record /\ new # None /\ new.clock = t /\ new.writer = s
      BY <1>2 DEF Record
    <2> HIDE DEF e, t, new
    <2>3. Covered(e)
      <3> SUFFICES ASSUME NEW x \in Keys, e.prefs[x] # None PROVE e.prefs[x].clock <= e.tick
        BY DEF Covered
      <3>1. CASE x = k
        BY <3>1, <1>2, <2>1, <2>2 DEF Stamp
      <3>2. CASE x # k
        <4>1. e.prefs[x] = d.prefs[x]
          BY <3>2, <2>1
        <4>2. d.prefs[x] \in Record /\ d.prefs[x].clock <= d.tick
          BY <4>1, <1>1
        <4> QED BY <4>1, <4>2, <1>1, <1>2, <2>1 DEF Record, Stamp
      <3> QED BY <3>1, <3>2
    <2>4. Grows(d, e)
      <3> SUFFICES ASSUME NEW x \in Keys, d.prefs[x] # None
                   PROVE  e.prefs[x] # None /\ (e.prefs[x] = d.prefs[x] \/ Newer(e.prefs[x], d.prefs[x]))
        BY DEF Grows
      <3>1. CASE x = k
        <4>1. d.prefs[k] \in Record /\ d.prefs[k].clock <= d.tick
          BY <3>1, <1>1
        <4> QED BY <3>1, <4>1, <1>1, <1>2, <2>1, <2>2 DEF Newer, Record, Stamp
      <3>2. CASE x # k
        BY <3>2, <2>1
      <3> QED BY <3>1, <3>2
    <2>5. Writes(d, e, s)
      BY <2>1, <2>2 DEF Writes
    <2> QED BY <2>1, <2>3, <2>4, <2>5 DEF Evolves, e
  <1> QED BY <1>3, <1>4

(* Raised is over the old clock and over every record taken. *)
LEMMA RaisedAbove ==
    ASSUME NEW tick \in Nat, NEW entries \in Records, NEW S \in SUBSET Keys,
           \A k \in S : entries[k] # None
    PROVE  /\ Raised(tick, entries, S) \in Nat /\ Raised(tick, entries, S) >= tick
           /\ \A k \in S : Raised(tick, entries, S) >= entries[k].clock
  <1> DEFINE f == [k \in S |-> entries[k].clock]
             T == {tick} \cup {entries[k].clock : k \in S}
             Over(t) == t >= tick /\ \A k \in S : t >= entries[k].clock
  <1>1. ASSUME NEW k \in S
        PROVE  entries[k].clock \in Nat /\ f[k] = entries[k].clock /\ f[k] \in Int
    <2>1. entries[k] \in Record
      BY DEF Records
    <2>2. entries[k].clock \in Nat
      BY <2>1 DEF Record, Stamp
    <2> QED BY <2>2
  <1>2. T \subseteq Nat
    BY <1>1
  <1>3. \E t \in T : Over(t)
    <2>1. CASE S = {}
      BY <2>1
    <2>2. CASE S # {}
      <3>1. IsFiniteSet(S)
        BY KeysFinite
      <3> HIDE DEF f
      <3>2. PICK m \in S : \A x \in S : f[x] <= f[m]
        BY <1>1, <2>2, <3>1, Largest
      <3>3. \A x \in S : entries[x].clock <= entries[m].clock
        BY <1>1, <3>2
      <3>4. CASE entries[m].clock >= tick
        BY <1>1, <3>3, <3>4
      <3>5. CASE ~(entries[m].clock >= tick)
        <4>1. \A x \in S : tick >= entries[x].clock
          BY <1>1, <3>3, <3>5
        <4> QED BY <4>1
      <3> QED BY <3>4, <3>5
    <2> QED BY <2>1, <2>2
  <1>4. Raised(tick, entries, S) \in T /\ Over(Raised(tick, entries, S))
    <2>1. Raised(tick, entries, S) = CHOOSE t \in T : Over(t)
      BY DEF Raised
    <2> HIDE DEF T, Over
    <2> QED BY <1>3, <2>1
  <1> QED BY <1>2, <1>4

(* Records of E are taken for the keys of S, where nothing or older is. *)
Takes(d, E, S, e) ==
    /\ E \in Records /\ S \in SUBSET Keys /\ e \in Account
    /\ \A k \in S : E[k] # None /\ (d.prefs[k] = None \/ Newer(E[k], d.prefs[k]))
    /\ e.prefs = [k \in Keys |-> IF k \in S THEN E[k] ELSE d.prefs[k]]
    /\ e.tick = Raised(d.tick, E, S)

LEMMA TakingEvolves ==
    ASSUME NEW d \in Account, Covered(d), NEW E, NEW S, NEW e, Takes(d, E, S, e)
    PROVE  Evolves(d, e)
  <1> USE DEF Takes
  <1>1. d.tick \in Nat /\ d.prefs \in Records
    BY DEF Account
  <1>2. /\ e.tick \in Nat /\ e.tick >= d.tick
        /\ \A k \in S : e.tick >= E[k].clock
    BY <1>1, RaisedAbove
  <1>3. Covered(e)
    <2> SUFFICES ASSUME NEW k \in Keys, e.prefs[k] # None PROVE e.prefs[k].clock <= e.tick
      BY DEF Covered
    <2>1. CASE k \in S
      <3>1. e.prefs[k] = E[k] /\ E[k].clock \in Nat
        BY <2>1 DEF Records, Record, Stamp
      <3> QED BY <2>1, <3>1, <1>2
    <2>2. CASE k \notin S
      <3>1. e.prefs[k] = d.prefs[k]
        BY <2>2
      <3>2. d.prefs[k].clock \in Nat /\ d.prefs[k].clock <= d.tick
        BY <3>1, RecordsCovered DEF Record, Stamp
      <3> QED BY <3>1, <3>2, <1>1, <1>2
    <2> QED BY <2>1, <2>2
  <1>4. Grows(d, e)
    BY DEF Grows
  <1> QED BY <1>3, <1>4 DEF Evolves

LEMMA BaselinedEvolves ==
    ASSUME NEW d \in Account, Covered(d), NEW s \in Sides
    PROVE  Evolves(d, Baselined(d, s)) /\ Writes(d, Baselined(d, s), s)
  <1> DEFINE S == Missing(d, s)
             e == Baselined(d, s)
  <1>1. /\ S \in SUBSET Keys /\ Old[s] \in Records
        /\ \A k \in S : Old[s][k] # None /\ d.prefs[k] = None /\ Old[s][k].writer = s
    BY DEF Missing
  <1>2. /\ e.prefs = [k \in Keys |-> IF k \in S THEN Old[s][k] ELSE d.prefs[k]]
        /\ e.tick = Raised(d.tick, Old[s], S)
    BY DEF Baselined
  <1>3. e \in Account
    <2>1. d.tick \in Nat /\ d.prefs \in Records
      BY DEF Account
    <2>2. Raised(d.tick, Old[s], S) \in Nat
      BY <1>1, <2>1, RaisedAbove
    <2>3. [k \in Keys |-> IF k \in S THEN Old[s][k] ELSE d.prefs[k]] \in Records
      BY <1>1, <2>1 DEF Records
    <2> HIDE DEF S
    <2> QED BY <2>2, <2>3 DEF Baselined, Account, S
  <1> HIDE DEF S, e
  <1>4. Evolves(d, e)
    <2>1. Takes(d, Old[s], S, e)
      BY <1>1, <1>2, <1>3 DEF Takes
    <2> QED BY <2>1, TakingEvolves
  <1>5. Writes(d, e, s)
    BY <1>1, <1>2 DEF Writes
  <1> QED BY <1>4, <1>5 DEF e

(* Every post that shifted gets a stamp of its own, in the order of keys. *)
LEMMA RefreshedEvolves ==
    ASSUME NEW d \in Account, Covered(d), NEW s \in Sides
    PROVE  Evolves(d, Refreshed(d, s)) /\ Writes(d, Refreshed(d, s), s)
  <1> DEFINE S == Shifted(d, s)
             e == Refreshed(d, s)
             n == NextStamp(s, d.tick)
             Below(k) == Cardinality({x \in S : x < k})
             new(k) == [value |-> IF k \in shown THEN 1 ELSE 0, clock |-> n + Below(k), writer |-> s]
  <1>1. d.tick \in Nat /\ d.prefs \in Records
    BY DEF Account
  <1>2. n \in Stamp /\ n > d.tick
    BY <1>1, NextStampAbove
  <1>3. CASE S = {}
    BY <1>3, GrowsReflexive DEF Refreshed, Evolves, Writes
  <1>4. CASE S # {}
    <2>1. S \in SUBSET Keys /\ IsFiniteSet(S) /\ Cardinality(S) \in Nat
      <3>1. S \in SUBSET Keys
        BY DEF Shifted, Own
      <3> QED BY <3>1, KeysFinite
    <2> HIDE DEF S
    <2>2. ASSUME NEW k \in S PROVE Below(k) \in Nat /\ Below(k) <= Cardinality(S) - 1
      <3> DEFINE L == {x \in S : x < k}
      <3>1. L \in SUBSET S /\ L # S
        <4>1. k \notin L
          BY <2>1
        <4> QED BY <4>1
      <3>2. Cardinality(L) \in Nat /\ Cardinality(L) <= Cardinality(S) /\ Cardinality(L) # Cardinality(S)
        BY <2>1, <3>1, FS_Subset, FS_CardinalityType
      <3> QED BY <2>1, <3>2
    <2>3. \A k \in S : new(k) \in Record /\ new(k).clock = n + Below(k) /\ new(k).writer = s
      BY <1>2, <2>2 DEF Record, Stamp, Values
    <2>4. /\ e.tick = n + Cardinality(S) - 1
          /\ e.prefs = [k \in Keys |-> IF k \in S THEN new(k) ELSE d.prefs[k]]
      BY <1>4 DEF Refreshed, Account, S
    <2>5. n + Cardinality(S) - 1 \in Nat /\ n + Cardinality(S) - 1 >= d.tick
      <3>1. Cardinality(S) # 0
        BY <1>4, <2>1, FS_EmptySet
      <3> QED BY <1>1, <1>2, <2>1, <3>1 DEF Stamp
    <2>6. e \in Account
      <3>1. [k \in Keys |-> IF k \in S THEN new(k) ELSE d.prefs[k]] \in Records
        BY <1>1, <2>3 DEF Records
      <3>2. e = [d EXCEPT !.tick = n + Cardinality(S) - 1,
                          !.prefs = [k \in Keys |-> IF k \in S THEN new(k) ELSE d.prefs[k]]]
        BY <1>4 DEF Refreshed, S
      <3> HIDE DEF e, n, new
      <3> QED BY <2>5, <3>1, <3>2 DEF Account
    <2> HIDE DEF e, n, Below, new
    <2>7. Covered(e)
      <3> SUFFICES ASSUME NEW k \in Keys, e.prefs[k] # None PROVE e.prefs[k].clock <= e.tick
        BY DEF Covered
      <3>1. CASE k \in S
        <4>1. e.prefs[k] = new(k) /\ new(k).clock = n + Below(k)
          BY <3>1, <2>3, <2>4
        <4>2. Below(k) \in Nat /\ Below(k) <= Cardinality(S) - 1
          BY <3>1, <2>2
        <4> QED BY <4>1, <4>2, <1>2, <2>1, <2>4 DEF Stamp
      <3>2. CASE k \notin S
        <4>1. e.prefs[k] = d.prefs[k]
          BY <3>2, <2>4
        <4>2. d.prefs[k].clock \in Nat /\ d.prefs[k].clock <= d.tick
          BY <4>1, RecordsCovered DEF Record, Stamp
        <4> QED BY <4>1, <4>2, <1>1, <2>4, <2>5
      <3> QED BY <3>1, <3>2
    <2>8. Grows(d, e)
      <3> SUFFICES ASSUME NEW k \in Keys, d.prefs[k] # None
                   PROVE  e.prefs[k] # None /\ (e.prefs[k] = d.prefs[k] \/ Newer(e.prefs[k], d.prefs[k]))
        BY DEF Grows
      <3>1. CASE k \in S
        <4>1. d.prefs[k].clock \in Nat /\ d.prefs[k].clock <= d.tick
          BY RecordsCovered DEF Record, Stamp
        <4>2. e.prefs[k] \in Record /\ e.prefs[k].clock = n + Below(k)
          BY <3>1, <2>3, <2>4
        <4>3. e.prefs[k].clock > d.prefs[k].clock
          BY <3>1, <4>1, <4>2, <1>1, <1>2, <2>2 DEF Stamp
        <4> QED BY <4>2, <4>3 DEF Newer
      <3>2. CASE k \notin S
        BY <3>2, <2>4
      <3> QED BY <3>1, <3>2
    <2>9. Writes(d, e, s)
      <3> SUFFICES ASSUME NEW k \in Keys, e.prefs[k] # d.prefs[k]
                   PROVE  e.prefs[k] # None /\ e.prefs[k].writer = s
        BY DEF Writes
      <3> QED BY <2>3, <2>4
    <2> QED BY <2>6, <2>7, <2>8, <2>9 DEF Evolves, e
  <1> QED BY <1>3, <1>4

LEMMA SeededEvolves ==
    ASSUME NEW d \in Account, Covered(d), NEW s \in Sides
    PROVE  Evolves(d, Seeded(d, s)) /\ Writes(d, Seeded(d, s), s)
  <1> DEFINE b == Baselined(d, s)
             e == Refreshed(b, s)
  <1>1. b \in Account /\ Covered(b) /\ Grows(d, b) /\ Writes(d, b, s)
    BY BaselinedEvolves DEF Evolves
  <1>2. e \in Account /\ Covered(e) /\ Grows(b, e) /\ Writes(b, e, s)
    BY <1>1, RefreshedEvolves DEF Evolves
  <1>3. Grows(d, e)
    BY <1>1, <1>2, GrowsTransitive
  <1>4. Writes(d, e, s)
    BY <1>1, <1>2 DEF Writes
  <1> QED BY <1>2, <1>3, <1>4 DEF Seeded, Evolves

LEMMA AppliedEvolves ==
    ASSUME NEW d \in Account, Covered(d), NEW s \in Sides, NEW entries \in Records, NEW scopes
    PROVE  Evolves(d, Applied(d, s, entries, scopes))
  <1> DEFINE S == Applies(d, s, entries, scopes)
             e == Applied(d, s, entries, scopes)
             P == [k \in Keys |-> IF k \in S THEN entries[k] ELSE d.prefs[k]]
  <1>1. /\ S \in SUBSET Keys
        /\ \A k \in S : entries[k] # None /\ (d.prefs[k] = None \/ Newer(entries[k], d.prefs[k]))
    BY DEF Applies
  <1>2. e = [d EXCEPT !.prefs = P, !.tick = Raised(d.tick, entries, S)]
    BY DEF Applied
  <1>3. d.tick \in Nat /\ d.prefs \in Records
    BY DEF Account
  <1>4. Raised(d.tick, entries, S) \in Nat
    BY <1>1, <1>3, RaisedAbove
  <1>5. P \in Records
    BY <1>3 DEF Records
  <1> HIDE DEF S, e
  <1>6. e \in Account /\ e.prefs = P /\ e.tick = Raised(d.tick, entries, S)
    <2> HIDE DEF P
    <2> QED BY <1>2, <1>4, <1>5 DEF Account
  <1>7. Takes(d, entries, S, e)
    BY <1>1, <1>6 DEF Takes
  <1> QED BY <1>7, TakingEvolves DEF e

-----------------------------------------------------------------------------
(* The invariant, and what a step may do to the records. *)

(* TypeOK without the accounts. *)
Shapes ==
    /\ shown \subseteq Own(A) \cup Own(B)
    /\ live \subseteq Sides
    /\ setting \in [Sides -> Setting]
    /\ round \in Round
    /\ job \in [Threads -> Job \cup {None}]
    /\ late \in Message \cup {None}
    /\ base \in [Sides -> Records] \cup {None}
    /\ edits \in Nat /\ stalls \in Nat
    /\ round.ldone => round.lcur = 0
    /\ round.pdone => round.pcur = 0
    /\ ~(round.ldone /\ round.pdone)
    /\ round.lapsed => round.lease # None

(* A step that no change of the settings overtook asked for what is allowed. *)
Asked(t) ==
    job[t] # None =>
        /\ job[t].gen <= round.gen
        /\ job[t].gen = round.gen => job[t].message.receive \subseteq setting[A].receive

Asks == \A t \in Threads : Asked(t)

IInv == TypeOK /\ ClockCovers /\ Asks

LEMMA TypeParts == TypeOK <=> db \in [Sides -> Account] /\ Shapes
  BY DEF TypeOK, Shapes

Forward == \A s \in Sides : Grows(db[s], db'[s])

Consented ==
    \A k \in Keys :
        /\ db'[A].prefs[k] # db[A].prefs[k] /\ db'[A].prefs[k] # None
        /\ db'[A].prefs[k].writer = B
        => Live(A) /\ Kind[k] \in setting[A].receive

Good == IInv' /\ Forward /\ Consented

LEMMA OneAccount ==
    ASSUME IInv, NEW s \in Sides, NEW e, Evolves(db[s], e), db' = [db EXCEPT ![s] = e]
    PROVE  db' \in [Sides -> Account] /\ ClockCovers' /\ Forward
  <1>1. db \in [Sides -> Account] /\ \A x \in Sides : Covered(db[x])
    BY DEF IInv, TypeOK, ClockCovers, Covered
  <1>2. db' \in [Sides -> Account] /\ db'[s] = e /\ \A x \in Sides : x # s => db'[x] = db[x]
    BY <1>1 DEF Evolves
  <1>3. \A x \in Sides : Covered(db'[x]) /\ Grows(db[x], db'[x])
    BY <1>1, <1>2, GrowsReflexive DEF Evolves
  <1> QED BY <1>2, <1>3 DEF ClockCovers, Covered, Forward

(* A's records change otherwise only by what A writes itself. *)
LEMMA AccountStep ==
    ASSUME IInv, NEW s \in Sides, NEW e, Evolves(db[s], e), db' = [db EXCEPT ![s] = e],
           s = A => Writes(db[A], e, A)
    PROVE  db' \in [Sides -> Account] /\ ClockCovers' /\ Forward /\ Consented
  <1>1. db \in [Sides -> Account]
    BY DEF IInv, TypeOK
  <1>2. CASE s = A
    BY <1>1, <1>2, OneAccount DEF Writes, Consented
  <1>3. CASE s # A
    <2>1. db'[A] = db[A]
      BY <1>1, <1>3 DEF Sides
    <2> QED BY <2>1, OneAccount DEF Consented
  <1> QED BY <1>2, <1>3

LEMMA RecordsStand ==
    ASSUME IInv, db' = db
    PROVE  db' \in [Sides -> Account] /\ ClockCovers' /\ Forward /\ Consented
  BY GrowsReflexive DEF IInv, TypeOK, ClockCovers, Forward, Consented

LEMMA Accounts ==
    ASSUME IInv, NEW s \in Sides
    PROVE  db[s] \in Account /\ Covered(db[s])
  BY DEF IInv, TypeOK, ClockCovers, Covered

LEMMA Together ==
    ASSUME db' \in [Sides -> Account], ClockCovers', Forward, Consented, Shapes', Asks'
    PROVE  Good
  BY DEF Good, IInv, TypeOK, Shapes

-----------------------------------------------------------------------------
(* The steps. *)

LEMMA EditedGood ==
    ASSUME IInv, NEW s \in Sides, NEW d, Evolves(db[s], d), Writes(db[s], d, s), Edited(s, d)
    PROVE  Good
  <1>1. Shapes' /\ Asks'
    BY TypeParts DEF Edited, IInv, Shapes, Asks, Asked, Own
  <1> QED BY <1>1, AccountStep, Together DEF Edited

LEMMA NativeGood ==
    ASSUME IInv, NEW s \in Sides, NEW k \in Keys, Native(s, k) PROVE Good
  <1>1. db[s] \in Account /\ Covered(db[s])
    BY Accounts
  <1>2. 1 - Present(s, k) \in Values
    <2>1. db[s].prefs[k] \in Record \cup {None} /\ Old[s][k] \in Record \cup {None}
      BY <1>1 DEF Account, Records
    <2>2. Present(s, k) \in Values
      BY <2>1 DEF Present, Record, Values
    <2> QED BY <2>2 DEF Values
  <1>3. /\ Evolves(db[s], Put(db[s], s, k, 1 - Present(s, k)))
        /\ Writes(db[s], Put(db[s], s, k, 1 - Present(s, k)), s)
    BY <1>1, <1>2, PutEvolves
  <1> QED BY <1>3, EditedGood DEF Native

LEMMA FavoriteGood ==
    ASSUME IInv, NEW s \in Sides, NEW k \in Keys, Favorite(s, k) PROVE Good
  <1> DEFINE d == Seeded(db[s], s)
             v == 1 - (IF d.prefs[k] = None THEN 0 ELSE d.prefs[k].value)
             e == Put(d, s, k, v)
  <1>1. /\ db[s] \in Account /\ Covered(db[s])
        /\ d \in Account /\ Covered(d) /\ Grows(db[s], d) /\ Writes(db[s], d, s)
    BY Accounts, SeededEvolves DEF Evolves
  <1>2. v \in Values
    <2>1. d.prefs[k] \in Record \cup {None}
      BY <1>1 DEF Account, Records
    <2> QED BY <2>1 DEF Record, Values
  <1>3. Edited(s, e)
    BY DEF Favorite
  <1> HIDE DEF d, v
  <1>4. e \in Account /\ Covered(e) /\ Grows(d, e) /\ Writes(d, e, s)
    BY <1>1, <1>2, PutEvolves DEF Evolves
  <1> HIDE DEF e
  <1>5. Evolves(db[s], e)
    BY <1>1, <1>4, GrowsTransitive DEF Evolves
  <1>6. Writes(db[s], e, s)
    BY <1>1, <1>4 DEF Writes
  <1> QED BY <1>3, <1>5, <1>6, EditedGood

LEMMA LookGood ==
    ASSUME IInv, NEW s \in Sides, Look(s) PROVE Good
  <1>1. Evolves(db[s], Seeded(db[s], s)) /\ Writes(db[s], Seeded(db[s], s), s)
    BY Accounts, SeededEvolves
  <1>2. Shapes' /\ Asks'
    BY TypeParts DEF Look, IInv, Shapes, Asks, Asked, Own
  <1> QED BY <1>1, <1>2, AccountStep, Together DEF Look

LEMMA ShowEndGood ==
    ASSUME IInv, (\E k \in Keys : Show(k)) \/ (\E s \in Sides : End(s)) PROVE Good
  <1>1. Shapes'
    <2>1. CASE \E k \in Keys : Show(k)
      <3>1. shown' \subseteq Own(A) \cup Own(B)
        <4>1. PICK k \in Keys : Show(k)
          BY <2>1
        <4>2. k \in Own(A) \cup Own(B)
          <5>1. Home[k] = A \/ Home[k] = B
            BY DEF Sides
          <5> QED BY <4>1, <5>1 DEF Show, Own
        <4>3. shown \subseteq Own(A) \cup Own(B) /\ (shown' = shown \ {k} \/ shown' = shown \cup {k})
          BY <4>1, TypeParts DEF Show, IInv, Shapes
        <4> QED BY <4>2, <4>3
      <3>2. edits' \in Nat
        BY <2>1, TypeParts DEF Show, IInv, Shapes
      <3> QED BY <2>1, <3>1, <3>2, TypeParts DEF Show, IInv, Shapes, Own
    <2>2. CASE \E s \in Sides : End(s)
      BY <2>2, TypeParts DEF End, IInv, Shapes, Own
    <2> QED BY <2>1, <2>2
  <1>2. Asks' /\ db' = db
    BY DEF Show, End, IInv, Asks, Asked
  <1> QED BY <1>1, <1>2, RecordsStand, Together

LEMMA FreshType == ASSUME NEW g \in Nat PROVE Fresh(g) \in Round
  BY DEF Fresh, Round

LEMMA SettingsGood ==
    ASSUME IInv, NEW s \in Sides, NEW c \in Choices, Settings(s, c) PROVE Good
  <1> USE TypeParts DEF IInv
  <1>1. /\ setting' = [setting EXCEPT ![s] = c] /\ setting' \in [Sides -> Setting]
        /\ db' = db /\ UNCHANGED <<shown, live, job, late, stalls>> /\ edits' \in Nat
    BY DEF Settings, Shapes
  <1>2. round.gen \in Nat
    BY DEF Shapes, Round
  <1>3. base' \in [Sides -> Records] \cup {None}
    <2>1. [x \in Sides |-> Empty] \in [Sides -> Records]
      BY DEF Empty, Records
    <2> QED BY <2>1 DEF Settings
  <1>4. CASE s = A
    <2>1. round' = Fresh(round.gen + 1)
      BY <1>4 DEF Settings
    <2>2. round' \in Round
      BY <1>2, <2>1, FreshType
    <2>3. Shapes'
      BY <1>1, <1>3, <2>1, <2>2 DEF Shapes, Fresh, Own
    <2>4. Asks'
      <3> SUFFICES ASSUME NEW t \in Threads, job[t] # None
                   PROVE  job[t].gen <= round.gen + 1 /\ job[t].gen # round.gen + 1
        BY <1>1, <2>1 DEF Asks, Asked, Fresh
      <3>1. job[t].gen \in Nat /\ job[t].gen <= round.gen
        BY DEF Shapes, Job, Asks, Asked
      <3> QED BY <1>2, <3>1
    <2> QED BY <1>1, <2>3, <2>4, RecordsStand, Together
  <1>5. CASE s # A
    <2>1. round' = round /\ setting'[A] = setting[A]
      BY <1>1, <1>5 DEF Settings, Shapes, Sides
    <2>2. Shapes' /\ Asks'
      BY <1>1, <1>3, <2>1 DEF Shapes, Own, Asks, Asked
    <2> QED BY <1>1, <2>2, RecordsStand, Together
  <1> QED BY <1>4, <1>5

LEMMA StartGood ==
    ASSUME IInv, NEW t \in Threads, Start(t) PROVE Good
  <1> USE TypeParts DEF IInv
  <1> DEFINE d == Seeded(db[A], A)
             m == [send |-> setting[A].send,
                   receive |-> IF round.pdone THEN {} ELSE setting[A].receive,
                   entries |-> IF round.ldone THEN Empty ELSE Page(d, setting[A].send, round.lcur),
                   after |-> round.pcur]
             j == [gen |-> round.gen, reply |-> None,
                   lnext |-> IF round.ldone THEN 0 ELSE Cursor(d, setting[A].send, round.lcur),
                   message |-> m]
  <1>1. /\ A \in Sides /\ setting[A] \in Setting /\ round \in Round
        /\ round.gen \in Nat /\ round.lcur \in Keys \cup {0} /\ round.pcur \in Keys \cup {0}
    BY DEF Shapes, Sides, Round
  <1>2. Evolves(db[A], d) /\ Writes(db[A], d, A) /\ d \in Account
    BY <1>1, Accounts, SeededEvolves DEF Evolves
  <1>3. /\ db' = [db EXCEPT ![A] = d] /\ job' = [job EXCEPT ![t] = j]
        /\ round' = [round EXCEPT !.lease = t, !.lapsed = FALSE]
        /\ UNCHANGED <<shown, live, setting, late, edits, stalls>>
        /\ base' \in {[s \in Sides |-> IF s = A THEN d.prefs ELSE db[B].prefs], base}
    BY DEF Start
  <1>4. m \in Message
    <2>1. Page(d, setting[A].send, round.lcur) \in Records /\ Empty \in Records
      BY <1>2, PageType DEF Empty, Records
    <2>2. setting[A].send \in SUBSET Kinds /\ setting[A].receive \in SUBSET Kinds
      BY <1>1 DEF Setting
    <2> HIDE DEF d
    <2> QED BY <1>1, <2>1, <2>2 DEF Message
  <1>5. j \in Job /\ j.gen = round.gen /\ j.message.receive \subseteq setting[A].receive
    <2>1. Cursor(d, setting[A].send, round.lcur) \in Keys \cup {0}
      BY <1>1, CursorType
    <2>2. j.gen = round.gen /\ j.message.receive \subseteq setting[A].receive
      OBVIOUS
    <2> HIDE DEF d, m
    <2> QED BY <1>1, <1>4, <2>1, <2>2 DEF Job
  <1>6. base' \in [Sides -> Records] \cup {None}
    <2>1. d.prefs \in Records /\ db[B].prefs \in Records
      BY <1>2, Accounts DEF Account, Sides
    <2> HIDE DEF d
    <2> QED BY <1>3, <2>1 DEF Shapes
  <1>7. /\ round' \in Round /\ round'.gen = round.gen /\ ~round'.lapsed
        /\ round'.lcur = round.lcur /\ round'.pcur = round.pcur
        /\ round'.ldone = round.ldone /\ round'.pdone = round.pdone
    BY <1>1, <1>3 DEF Round
  <1> HIDE DEF d, j
  <1>8. Shapes'
    <2>1. job' \in [Threads -> Job \cup {None}]
      BY <1>3, <1>5 DEF Shapes
    <2> QED BY <1>3, <1>6, <1>7, <2>1 DEF Shapes, Own
  <1>9. Asks'
    <2> SUFFICES ASSUME NEW x \in Threads PROVE Asked(x)'
      BY DEF Asks
    <2>1. CASE x = t
      <3>1. job'[x] = j
        BY <2>1, <1>3 DEF Shapes
      <3> QED BY <3>1, <1>1, <1>3, <1>5, <1>7 DEF Asked
    <2>2. CASE x # t
      <3>1. job'[x] = job[x]
        BY <2>2, <1>3 DEF Shapes
      <3> QED BY <3>1, <1>3, <1>7 DEF Asked, Asks
    <2> QED BY <2>1, <2>2
  <1> QED BY <1>1, <1>2, <1>3, <1>8, <1>9, AccountStep, Together

(* At B, a request may change what it likes of B's records. *)
LEMMA ReceivedEvolves ==
    ASSUME IInv, NEW m \in Message
    PROVE  B \in Sides /\ Evolves(db[B], Received(m)) /\ Received(m) \in Account
  <1> DEFINE d == Seeded(db[B], B)
             e == Received(m)
  <1>1. B \in Sides /\ m.entries \in Records
    BY DEF Sides, Message
  <1>2. db[B] \in Account /\ d \in Account /\ Covered(d) /\ Grows(db[B], d)
    BY <1>1, Accounts, SeededEvolves DEF Evolves
  <1>3. e \in Account /\ Covered(e) /\ Grows(d, e)
    <2> HIDE DEF d
    <2> QED BY <1>1, <1>2, AppliedEvolves DEF Received, Evolves, d
  <1> HIDE DEF d, e
  <1>4. Grows(db[B], e)
    BY <1>2, <1>3, GrowsTransitive
  <1> QED BY <1>1, <1>3, <1>4 DEF Evolves, e

LEMMA ReceiveGood ==
    ASSUME IInv, NEW t \in Threads, Receive(t) PROVE Good
  <1> USE TypeParts DEF IInv
  <1> DEFINE m == job[t].message
             out == m.receive \cap setting[B].send
             d == Received(m)
             r == [entries |-> Page(d, out, m.after), next |-> Cursor(d, out, m.after)]
  <1>1. job[t] \in Job /\ m \in Message /\ m.after \in Keys \cup {0}
    BY DEF Receive, Shapes, Job, Message
  <1>2. B \in Sides /\ Evolves(db[B], d) /\ d \in Account
    BY <1>1, ReceivedEvolves
  <1>3. r \in Reply
    BY <1>1, <1>2, PageType, CursorType DEF Reply
  <1>4. /\ db' = [db EXCEPT ![B] = d] /\ job' = [job EXCEPT ![t].reply = r]
        /\ UNCHANGED <<shown, live, setting, round, late, base, edits, stalls>>
    BY DEF Receive
  <1> HIDE DEF d, r
  <1>5. /\ job'[t] = [job[t] EXCEPT !.reply = r] /\ job'[t] \in Job
        /\ job'[t].gen = job[t].gen /\ job'[t].message = job[t].message
        /\ \A x \in Threads : x # t => job'[x] = job[x]
    BY <1>1, <1>3, <1>4 DEF Job, Shapes
  <1>6. Shapes'
    <2>1. job' \in [Threads -> Job \cup {None}]
      BY <1>4, <1>5 DEF Shapes
    <2> QED BY <1>4, <2>1 DEF Shapes, Own
  <1>7. Asks'
    <2>1. job[t] # None
      BY DEF Receive
    <2> QED BY <1>4, <1>5, <2>1 DEF Asks, Asked
  <1> QED BY <1>2, <1>4, <1>6, <1>7, AccountStep, Together

LEMMA ReceiveLateGood ==
    ASSUME IInv, ReceiveLate PROVE Good
  <1>1. late \in Message
    BY DEF ReceiveLate, IInv, TypeOK
  <1>2. B \in Sides /\ Evolves(db[B], Received(late))
    BY <1>1, ReceivedEvolves
  <1>3. Shapes' /\ Asks'
    BY TypeParts DEF ReceiveLate, IInv, Shapes, Asks, Asked, Own
  <1> QED BY <1>2, <1>3, AccountStep, Together DEF ReceiveLate

LEMMA GivenUpShapes ==
    ASSUME IInv, NEW t \in Threads, GivenUp(t)
    PROVE  /\ job' \in [Threads -> Job \cup {None}] /\ late' \in Message \cup {None}
           /\ \A x \in Threads : job'[x] # None => job'[x] = job[x]
  <1>1. job[t] \in Job /\ job \in [Threads -> Job \cup {None}] /\ late \in Message \cup {None}
    BY DEF GivenUp, IInv, TypeOK
  <1>2. job[t].message \in Message
    BY <1>1 DEF Job
  <1> QED BY <1>1, <1>2 DEF GivenUp

LEMMA EndingGood ==
    ASSUME IInv, NEW t \in Threads, Fail(t) \/ Crash(t) PROVE Good
  <1>1. GivenUp(t) /\ db' = db /\ UNCHANGED <<shown, live, setting, base, edits, stalls>>
    BY DEF Fail, Crash
  <1>2. round' = round \/ round' = [round EXCEPT !.lease = None, !.lapsed = FALSE]
    BY DEF Fail, Crash
  <1>3. /\ round' \in Round /\ round'.gen = round.gen
        /\ round'.lcur = round.lcur /\ round'.pcur = round.pcur
        /\ round'.ldone = round.ldone /\ round'.pdone = round.pdone
        /\ round'.lapsed => round'.lease # None
    <2>1. round \in Round /\ (round.lapsed => round.lease # None)
      BY DEF IInv, TypeOK
    <2>2. CASE round' = round
      BY <2>1, <2>2
    <2>3. CASE round' = [round EXCEPT !.lease = None, !.lapsed = FALSE]
      BY <2>1, <2>3 DEF Round
    <2> QED BY <1>2, <2>2, <2>3
  <1>4. Shapes'
    BY <1>1, <1>3, GivenUpShapes, TypeParts DEF IInv, Shapes, Own
  <1>5. Asks'
    BY <1>1, <1>3, GivenUpShapes DEF IInv, Asks, Asked
  <1> QED BY <1>1, <1>4, <1>5, RecordsStand, Together

LEMMA LapseGood ==
    ASSUME IInv, Lapse PROVE Good
  <1>1. /\ round' \in Round /\ round'.gen = round.gen
        /\ round'.lcur = round.lcur /\ round'.pcur = round.pcur
        /\ round'.ldone = round.ldone /\ round'.pdone = round.pdone
        /\ round'.lease # None /\ stalls' \in Nat
    <2>1. round \in Round /\ round' = [round EXCEPT !.lapsed = TRUE] /\ round.lease # None
      BY DEF Lapse, IInv, TypeOK
    <2>2. stalls \in Nat /\ (stalls' = stalls \/ stalls' = stalls + 1)
      BY DEF Lapse, IInv, TypeOK
    <2>3. stalls' \in Nat
      BY <2>2
    <2> QED BY <2>1, <2>3 DEF Round
  <1>2. Shapes' /\ Asks'
    BY <1>1, TypeParts DEF Lapse, IInv, Shapes, Asks, Asked, Own
  <1>3. db' = db
    BY DEF Lapse
  <1> QED BY <1>2, <1>3, RecordsStand, Together

LEMMA FinishGood ==
    ASSUME IInv, NEW t \in Threads, Finish(t) PROVE Good
  <1> USE TypeParts DEF IInv
  <1> DEFINE j == job[t]
             r == j.reply
             scopes == j.message.receive
             d == Applied(db[A], A, r.entries, scopes)
  <1>1. /\ A \in Sides /\ j \in Job /\ r \in Reply /\ r.entries \in Records
        /\ j.lnext \in Keys \cup {0} /\ r.next \in Keys \cup {0}
    BY DEF Finish, Shapes, Job, Reply, Sides
  <1>2. /\ db' = [db EXCEPT ![A] = d] /\ job' = [job EXCEPT ![t] = None]
        /\ round' = Advanced(j.lnext = 0, r.next = 0, j.lnext, r.next)
        /\ base' \in {None, base} /\ Live(A) /\ j.gen = round.gen
        /\ UNCHANGED <<shown, live, setting, late, edits, stalls>>
    BY DEF Finish, StillMine
  <1>3. db \in [Sides -> Account] /\ db[A] \in Account /\ Covered(db[A]) /\ Evolves(db[A], d)
    BY <1>1, Accounts, AppliedEvolves
  <1>4. /\ round' \in Round /\ round'.gen = round.gen
        /\ round'.ldone => round'.lcur = 0
        /\ round'.pdone => round'.pcur = 0
        /\ ~(round'.ldone /\ round'.pdone) /\ ~round'.lapsed
    <2>1. CASE j.lnext = 0 /\ r.next = 0
      BY <1>2, <2>1 DEF Advanced, Fresh, Shapes, Round
    <2>2. CASE ~(j.lnext = 0 /\ r.next = 0)
      BY <1>1, <1>2, <2>2 DEF Advanced, Shapes, Round
    <2> QED BY <2>1, <2>2
  <1>5. Shapes'
    BY <1>2, <1>4 DEF Shapes, Own
  <1>6. Asks'
    BY <1>2, <1>4 DEF Asks, Asked, Shapes
  <1>7. Consented
    <2> SUFFICES ASSUME NEW k \in Keys, db'[A].prefs[k] # db[A].prefs[k]
                 PROVE  Live(A) /\ Kind[k] \in setting[A].receive
      BY DEF Consented
    <2>1. d.prefs[k] # db[A].prefs[k]
      BY <1>1, <1>2, <1>3
    <2>2. k \in Applies(db[A], A, r.entries, scopes)
      BY <2>1, <1>3 DEF Applied, Account
    <2>3. Kind[k] \in scopes
      BY <2>2 DEF Applies
    <2>4. scopes \subseteq setting[A].receive
      BY <1>1, <1>2 DEF Asks, Asked, Finish
    <2> QED BY <1>2, <2>3, <2>4
  <1>8. db' \in [Sides -> Account] /\ ClockCovers' /\ Forward
    BY <1>1, <1>2, <1>3, OneAccount
  <1> QED BY <1>5, <1>6, <1>7, <1>8, Together

-----------------------------------------------------------------------------
THEOREM Initially == Init => IInv
  <1> SUFFICES ASSUME Init PROVE IInv
    OBVIOUS
  <1>1. Empty \in Records /\ \A k \in Keys : Empty[k] = None
    BY DEF Empty, Records
  <1>2. db \in [Sides -> Account] /\ ClockCovers
    BY <1>1 DEF Init, Account, ClockCovers
  <1>3. setting \in [Sides -> Setting]
    BY DEF Init, Setting, Sendable, Receivable
  <1>4. Fresh(0) \in Round
    BY FreshType
  <1>5. Shapes
    BY <1>3, <1>4 DEF Init, Shapes, Fresh
  <1> QED BY <1>2, <1>5, TypeParts DEF IInv, Asks, Asked, Init

THEOREM Steps == IInv /\ [Next]_vars => Good
  <1> SUFFICES ASSUME IInv, [Next]_vars PROVE Good
    OBVIOUS
  <1>1. ASSUME NEW s \in Sides, OwnerStep(s) PROVE Good
    BY <1>1, NativeGood, FavoriteGood, LookGood, SettingsGood, ShowEndGood DEF OwnerStep
  <1>2. CASE \E k \in Keys : Show(k)
    BY <1>2, ShowEndGood
  <1>3. ASSUME NEW t \in Threads, ExchangeStep(t) PROVE Good
    BY <1>3, StartGood, ReceiveGood, FinishGood, EndingGood DEF ExchangeStep
  <1>4. CASE ReceiveLate \/ Lapse
    BY <1>4, ReceiveLateGood, LapseGood
  <1>5. CASE UNCHANGED vars
    <2>1. Shapes' /\ Asks' /\ db' = db
      BY <1>5, TypeParts DEF vars, IInv, Shapes, Asks, Asked, Own
    <2> QED BY <2>1, RecordsStand, Together
  <1> QED BY <1>1, <1>2, <1>3, <1>4, <1>5 DEF Next

THEOREM Invariant == Spec => []IInv
  <1>1. IInv /\ [Next]_vars => IInv'
    BY Steps DEF Good
  <1> QED BY <1>1, Initially, PTL DEF Spec

(* The shapes of accounts, pages and cursors; a side that is through has   *)
(* an empty cursor.                                                        *)
THEOREM TypeCorrect == Spec => []TypeOK
  <1>1. IInv => TypeOK
    BY DEF IInv
  <1> QED BY <1>1, Invariant, PTL

(* The clock of an account covers every stamp among its records, though    *)
(* the servers' own clocks differ by any amount (node06_profile_put,       *)
(* apply).                                                                 *)
THEOREM ClocksCover == Spec => []ClockCovers
  <1>1. IInv => ClockCovers
    BY DEF IInv
  <1> QED BY <1>1, Invariant, PTL

(* No record is replaced by an older one, whatever is repeated, late or    *)
(* overtaken: a change made after a record was seen is newer than it.      *)
THEOREM NothingTurnsBack == Spec => VersionsForward
  <1>1. IInv /\ [Next]_vars =>
          [\A s \in Sides, k \in Keys : db'[s].prefs[k] # db[s].prefs[k] =>
              db[s].prefs[k] = None \/ Newer(db'[s].prefs[k], db[s].prefs[k])]_vars
    BY Steps DEF Good, Forward, Grows
  <1> QED BY <1>1, Invariant, PTL DEF Spec, VersionsForward

(* What the peer wrote enters only under the consent of the moment it      *)
(* enters, also when the settings changed while the answer was under way   *)
(* (ProfileSync.step).                                                     *)
THEOREM ConsentWhenApplied == Spec => ConsentAtApply
  <1>1. IInv /\ [Next]_vars =>
          [\A k \in Keys :
              /\ db'[A].prefs[k] # db[A].prefs[k] /\ db'[A].prefs[k] # None
              /\ db'[A].prefs[k].writer = B
              => Live(A) /\ Kind[k] \in setting[A].receive]_vars
    BY Steps DEF Good, Consented
  <1> QED BY <1>1, Invariant, PTL DEF Spec, ConsentAtApply

-----------------------------------------------------------------------------
(* A page carries what it passes over. *)

LEMMA AtLeastReflexive == ASSUME NEW r \in Record \cup {None} PROVE AtLeast(r, r)
  BY DEF AtLeast, Newer, Record, Stamp

LEMMA AtLeastTransitive ==
    ASSUME NEW p \in Record \cup {None}, NEW q \in Record \cup {None}, NEW r \in Record \cup {None},
           AtLeast(r, q), AtLeast(q, p)
    PROVE  AtLeast(r, p)
  <1>1. CASE p = None
    BY <1>1 DEF AtLeast
  <1>2. CASE p # None
    <2>1. q # None /\ r # None /\ ~Newer(p, q) /\ ~Newer(q, r)
      BY <1>2 DEF AtLeast
    <2>2. p \in Record /\ q \in Record /\ r \in Record
      BY <1>2, <2>1
    <2>3. ~Newer(p, r)
      BY <2>1, <2>2 DEF Newer, Record, Stamp, Sides
    <2> QED BY <2>1, <2>3 DEF AtLeast
  <1> QED BY <1>1, <1>2

LEMMA GrowsAtLeast ==
    ASSUME NEW d \in Account, NEW e \in Account, Grows(d, e), NEW k \in Keys
    PROVE  AtLeast(e.prefs[k], d.prefs[k])
  <1>1. CASE d.prefs[k] = None
    BY <1>1 DEF AtLeast
  <1>2. CASE d.prefs[k] # None
    <2>1. e.prefs[k] # None /\ (e.prefs[k] = d.prefs[k] \/ Newer(e.prefs[k], d.prefs[k]))
      BY <1>2 DEF Grows
    <2>2. d.prefs[k] \in Record /\ e.prefs[k] \in Record
      BY <1>2, <2>1 DEF Account, Records
    <2>3. ~Newer(d.prefs[k], e.prefs[k])
      BY <2>1, <2>2 DEF Newer, Record, Stamp, Sides
    <2> QED BY <2>1, <2>3 DEF AtLeast
  <1> QED BY <1>1, <1>2

(* The records p are at least those of q, for the keys of a page. *)
Passed(k, after, upto) == k > after /\ (upto = 0 \/ k <= upto)
Carries(p, q, scopes, after, upto) ==
    \A k \in Keys : Kind[k] \in scopes /\ Passed(k, after, upto) => AtLeast(p[k], q[k])

LEMMA PageCarries ==
    ASSUME NEW d \in Account, NEW scopes, NEW after \in Keys \cup {0}
    PROVE  Carries(Page(d, scopes, after), d.prefs, scopes, after, Cursor(d, scopes, after))
  <1> DEFINE R == Rest(d, scopes, after)
             P == PageKeys(d, scopes, after)
             c == Cursor(d, scopes, after)
  <1> SUFFICES ASSUME NEW k \in Keys, Kind[k] \in scopes, Passed(k, after, c), d.prefs[k] # None
               PROVE  AtLeast(Page(d, scopes, after)[k], d.prefs[k])
    BY DEF Carries, AtLeast
  <1>1. k \in R /\ R \in SUBSET Keys /\ P \in SUBSET R
    BY DEF Rest, PageKeys, Passed
  <1>2. k \in P
    <2>1. CASE P = R
      BY <1>1, <2>1
    <2>2. CASE P # R
      <3>1. P # {}
        BY <1>1, SomePage
      <3>2. c \in P
        BY <1>1, <2>2, <3>1, LastKey DEF Cursor
      <3>3. k \in Nat /\ c \in Nat /\ k <= c
        BY <1>1, <3>2 DEF Passed
      <3>4. {x \in R : x < k} \subseteq {x \in R : x < c} /\ {x \in R : x < c} \in SUBSET Keys
        <4>1. \A x \in R : x \in Nat /\ x \in Keys
          BY <1>1
        <4> HIDE DEF R, c
        <4> QED BY <3>3, <4>1
      <3>5. IsFiniteSet({x \in R : x < c})
        BY <3>4, KeysFinite
      <3>6. /\ Cardinality({x \in R : x < k}) <= Cardinality({x \in R : x < c})
            /\ Cardinality({x \in R : x < k}) \in Nat /\ Cardinality({x \in R : x < c}) \in Nat
        BY <3>4, <3>5, FS_Subset, FS_CardinalityType
      <3>7. Cardinality({x \in R : x < c}) < PageSize
        BY <3>2 DEF PageKeys
      <3>8. Cardinality({x \in R : x < k}) < PageSize
        BY <3>6, <3>7
      <3> QED BY <1>1, <3>8 DEF PageKeys
    <2> QED BY <2>1, <2>2
  <1>3. Page(d, scopes, after)[k] = d.prefs[k]
    BY <1>2 DEF Page
  <1>4. d.prefs[k] \in Record
    BY DEF Account, Records
  <1> QED BY <1>3, <1>4, AtLeastReflexive

-----------------------------------------------------------------------------
(* What a server has of its own subscriptions and posts, nobody has newer. *)

Foreign(s, k) == Kind[k] \in {"subscriptions", "own_points"} /\ Home[k] # s

Local(d, e, s) == \A k \in Keys : Foreign(s, k) => e.prefs[k] = d.prefs[k]

LEMMA PutLocal ==
    ASSUME NEW d \in Account, NEW s, NEW k \in Keys, NEW v, ~Foreign(s, k)
    PROVE  Local(d, Put(d, s, k, v), s)
  <1> DEFINE t == NextStamp(s, d.tick)
             r == [value |-> v, clock |-> t, writer |-> s]
             e == [d EXCEPT !.tick = t, !.prefs[k] = r]
  <1>1. Put(d, s, k, v) = d \/ Put(d, s, k, v) = e
    BY DEF Put
  <1>2. e.prefs = [d.prefs EXCEPT ![k] = r] /\ d.prefs \in Records
    BY DEF Account
  <1> HIDE DEF r, t, e
  <1>3. \A x \in Keys : x # k => e.prefs[x] = d.prefs[x]
    BY <1>2 DEF Records
  <1> QED BY <1>1, <1>3 DEF Local

LEMMA SeededLocal ==
    ASSUME NEW s \in Sides, NEW d \in Account, Covered(d)
    PROVE  Local(d, Seeded(d, s), s)
  <1> DEFINE e == Baselined(d, s)
  <1>1. e \in Account
    BY BaselinedEvolves DEF Evolves
  <1>2. Local(d, e, s)
    <2> SUFFICES ASSUME NEW k \in Keys, Foreign(s, k) PROVE e.prefs[k] = d.prefs[k]
      BY DEF Local
    <2>1. Old[s][k] = None
      BY DEF Foreign
    <2> QED BY <2>1 DEF Baselined, Missing
  <1> HIDE DEF e
  <1>3. Local(e, Refreshed(e, s), s)
    <2> SUFFICES ASSUME NEW k \in Keys, Foreign(s, k) PROVE Refreshed(e, s).prefs[k] = e.prefs[k]
      BY DEF Local
    <2>1. k \notin Shifted(e, s)
      BY DEF Foreign, Shifted, Own
    <2> QED BY <1>1, <2>1 DEF Refreshed, Account
  <1> QED BY <1>2, <1>3 DEF Local, Seeded, e

(* The server of each key kept at home has at least what p has. *)
Known(D, p) == \A s \in Sides, k \in Keys : Kept(s, k) => AtLeast(D[s].prefs[k], p[k])

(* The pages somebody may still apply. *)
InTransit(p) ==
    \/ \E t \in Threads : job[t] # None /\ p = job[t].message.entries
    \/ \E t \in Threads : job[t] # None /\ job[t].reply # None /\ p = job[t].reply.entries
    \/ late # None /\ p = late.entries

Sources ==
    /\ \A s \in Sides : Known(db, db[s].prefs)
    /\ \A p \in Records : InTransit(p) => Known(db, p)

LEMMA KnownKept ==
    ASSUME IInv, db' \in [Sides -> Account], Forward, NEW p \in Records, Known(db, p)
    PROVE  Known(db', p)
  <1> SUFFICES ASSUME NEW s \in Sides, NEW k \in Keys, Kept(s, k)
               PROVE  AtLeast(db'[s].prefs[k], p[k])
    BY DEF Known
  <1>1. db[s] \in Account /\ db'[s] \in Account /\ Grows(db[s], db'[s])
    BY DEF IInv, TypeOK, Forward
  <1>2. AtLeast(db[s].prefs[k], p[k]) /\ AtLeast(db'[s].prefs[k], db[s].prefs[k])
    BY <1>1, GrowsAtLeast DEF Known
  <1>3. /\ db[s].prefs[k] \in Record \cup {None} /\ db'[s].prefs[k] \in Record \cup {None}
        /\ p[k] \in Record \cup {None}
    BY <1>1 DEF Account, Records
  <1> QED BY <1>2, <1>3, AtLeastTransitive

(* Foreign records come from pages, pages come from accounts. *)
RecordsFrom ==
    \A s \in Sides, k \in Keys : Foreign(s, k) =>
        \/ db'[s].prefs[k] = db[s].prefs[k]
        \/ \E p \in Records : InTransit(p) /\ db'[s].prefs[k] = p[k]

PagesFrom ==
    \A p \in Records : InTransit(p)' =>
        \/ InTransit(p) \/ p = Empty
        \/ \E s \in Sides : \E scopes, after : p = Page(db'[s], scopes, after)

LEMMA SourcesKept ==
    ASSUME IInv, Sources, db' \in [Sides -> Account], Forward, RecordsFrom, PagesFrom
    PROVE  Sources'
  <1>0. db \in [Sides -> Account]
    BY DEF IInv, TypeOK
  <1>1. ASSUME NEW s \in Sides PROVE Known(db', db'[s].prefs)
    <2> SUFFICES ASSUME NEW x \in Sides, NEW k \in Keys, Kept(x, k)
                 PROVE  AtLeast(db'[x].prefs[k], db'[s].prefs[k])
      BY DEF Known
    <2>1. db'[s].prefs \in Records /\ db[s].prefs \in Records
      BY <1>0 DEF Account
    <2>2. CASE x = s
      BY <2>1, <2>2, AtLeastReflexive DEF Records
    <2>3. CASE x # s
      <3>1. Foreign(s, k)
        BY <2>3 DEF Foreign, Kept
      <3>2. PICK p \in Records : Known(db, p) /\ db'[s].prefs[k] = p[k]
        BY <2>1, <3>1 DEF RecordsFrom, Sources
      <3>3. Known(db', p)
        BY <3>2, KnownKept
      <3> QED BY <3>2, <3>3 DEF Known
    <2> QED BY <2>2, <2>3
  <1>2. ASSUME NEW p \in Records, InTransit(p)' PROVE Known(db', p)
    <2>1. CASE InTransit(p)
      BY <2>1, KnownKept DEF Sources
    <2>2. CASE p = Empty
      BY <2>2 DEF Known, Empty, AtLeast
    <2>3. CASE \E s \in Sides : \E scopes, after : p = Page(db'[s], scopes, after)
      <3>1. PICK s \in Sides : \E scopes, after : p = Page(db'[s], scopes, after)
        BY <2>3
      <3>2. PICK scopes, after : p = Page(db'[s], scopes, after)
        BY <3>1
      <3> QED BY <1>1, <3>2 DEF Known, Page, AtLeast
    <2> QED BY <1>2, <2>1, <2>2, <2>3 DEF PagesFrom
  <1> QED BY <1>1, <1>2 DEF Sources

LEMMA LocalFrom ==
    ASSUME IInv, NEW s \in Sides, NEW e, Local(db[s], e, s), db' = [db EXCEPT ![s] = e]
    PROVE  RecordsFrom
  <1>1. db \in [Sides -> Account]
    BY DEF IInv, TypeOK
  <1>2. db'[s] = e /\ \A x \in Sides : x # s => db'[x] = db[x]
    BY <1>1
  <1> QED BY <1>2 DEF RecordsFrom, Local

(* Besides its own, an account changes only what the page brings. *)
LEMMA AppliedFrom ==
    ASSUME IInv, NEW s \in Sides, NEW d \in Account, Local(db[s], d, s),
           NEW p \in Records, InTransit(p), NEW scopes,
           db' = [db EXCEPT ![s] = Applied(d, s, p, scopes)]
    PROVE  RecordsFrom
  <1> DEFINE e == Applied(d, s, p, scopes)
  <1>1. db \in [Sides -> Account]
    BY DEF IInv, TypeOK
  <1>2. \A k \in Keys : e.prefs[k] = d.prefs[k] \/ e.prefs[k] = p[k]
    BY DEF Applied, Account
  <1> HIDE DEF e
  <1>3. db'[s] = e /\ \A x \in Sides : x # s => db'[x] = db[x]
    BY <1>1 DEF e
  <1> QED BY <1>2, <1>3 DEF RecordsFrom, Local

LEMMA NoNewPages ==
    ASSUME \A t \in Threads : job'[t] # None => job'[t] = job[t],
           late' = late \/ late' = None \/ \E t \in Threads : job[t] # None /\ late' = job[t].message
    PROVE  PagesFrom
  BY DEF PagesFrom, InTransit

Origins == RecordsFrom /\ PagesFrom

LEMMA OwnerOrigins == ASSUME IInv, NEW s \in Sides, OwnerStep(s) PROVE Origins
  <1> DEFINE Locally == \E e : Local(db[s], e, s) /\ db' = [db EXCEPT ![s] = e]
  <1>1. db[s] \in Account /\ Covered(db[s])
    BY Accounts
  <1>2. job' = job /\ late' = late
    BY DEF OwnerStep, Native, Favorite, Edited, Look, Settings, End
  <1>3. Locally
    <2>1. ASSUME NEW k \in Keys, Native(s, k) PROVE Locally
      BY <1>1, <2>1, PutLocal DEF Native, Edited, Foreign
    <2>2. ASSUME NEW k \in Keys, Favorite(s, k) PROVE Locally
      <3>1. Local(db[s], Seeded(db[s], s), s) /\ Seeded(db[s], s) \in Account
        BY <1>1, SeededLocal, SeededEvolves DEF Evolves
      <3>2. PICK v : db' = [db EXCEPT ![s] = Put(Seeded(db[s], s), s, k, v)]
        BY <2>2 DEF Favorite, Edited
      <3>3. ~Foreign(s, k)
        BY <2>2 DEF Favorite, Foreign
      <3>4. Local(Seeded(db[s], s), Put(Seeded(db[s], s), s, k, v), s)
        BY <3>1, <3>3, PutLocal
      <3> QED BY <3>1, <3>2, <3>4 DEF Local
    <2>3. CASE Look(s)
      BY <1>1, <2>3, SeededLocal DEF Look
    <2>4. CASE db' = db
      BY <2>4 DEF IInv, TypeOK, Local
    <2> QED BY <2>1, <2>2, <2>3, <2>4 DEF OwnerStep, Settings, End
  <1> QED BY <1>2, <1>3, LocalFrom, NoNewPages DEF Origins

LEMMA StartOrigins == ASSUME IInv, NEW t \in Threads, Start(t) PROVE Origins
  <1> DEFINE d == Seeded(db[A], A)
             m == [send |-> setting[A].send,
                   receive |-> IF round.pdone THEN {} ELSE setting[A].receive,
                   entries |-> IF round.ldone THEN Empty ELSE Page(d, setting[A].send, round.lcur),
                   after |-> round.pcur]
  <1>1. A \in Sides /\ db \in [Sides -> Account] /\ job \in [Threads -> Job \cup {None}]
    BY DEF Sides, IInv, TypeOK
  <1>2. Local(db[A], d, A)
    BY <1>1, Accounts, SeededLocal
  <1>3. db' = [db EXCEPT ![A] = d] /\ db'[A] = d /\ late' = late
    BY <1>1 DEF Start
  <1>4. /\ job'[t].message = m /\ job'[t].reply = None
        /\ \A x \in Threads : x # t => job'[x] = job[x]
    BY <1>1 DEF Start
  <1>5. m.entries = Empty \/ \E scopes, after : m.entries = Page(db'[A], scopes, after)
    BY <1>3
  <1> HIDE DEF d, m
  <1>6. RecordsFrom
    BY <1>1, <1>2, <1>3, LocalFrom
  <1>7. PagesFrom
    <2> SUFFICES ASSUME NEW p \in Records, InTransit(p)', ~InTransit(p)
                 PROVE  p = Empty \/ \E scopes, after : p = Page(db'[A], scopes, after)
      BY <1>1 DEF PagesFrom
    <2>1. p = m.entries
      BY <1>3, <1>4 DEF InTransit
    <2> QED BY <1>5, <2>1
  <1> QED BY <1>6, <1>7 DEF Origins

LEMMA ReceivedOrigins ==
    ASSUME IInv, NEW m \in Message, InTransit(m.entries), db' = [db EXCEPT ![B] = Received(m)]
    PROVE  RecordsFrom
  <1>1. B \in Sides /\ m.entries \in Records
    BY DEF Sides, Message
  <1>2. Seeded(db[B], B) \in Account /\ Local(db[B], Seeded(db[B], B), B)
    BY <1>1, Accounts, SeededEvolves, SeededLocal DEF Evolves
  <1> QED BY <1>1, <1>2, AppliedFrom DEF Received

LEMMA ReceiveOrigins == ASSUME IInv, NEW t \in Threads, Receive(t) PROVE Origins
  <1> DEFINE m == job[t].message
             d == Received(m)
  <1>1. PICK scopes : job' = [job EXCEPT ![t].reply =
            [entries |-> Page(d, scopes, m.after), next |-> Cursor(d, scopes, m.after)]]
    BY DEF Receive
  <1>2. /\ job[t] # None /\ job \in [Threads -> Job \cup {None}] /\ db \in [Sides -> Account]
        /\ B \in Sides /\ db' = [db EXCEPT ![B] = d] /\ late' = late
    BY DEF Receive, IInv, TypeOK, Sides
  <1>3. job[t] \in Job /\ m \in Message
    BY <1>2 DEF Job
  <1>4. RecordsFrom
    BY <1>2, <1>3, ReceivedOrigins DEF InTransit
  <1>5. db'[B] = d
    BY <1>2
  <1> HIDE DEF d
  <1>6. /\ job'[t].message = m /\ job'[t].reply.entries = Page(d, scopes, m.after)
        /\ \A x \in Threads : x # t => job'[x] = job[x]
    BY <1>1, <1>2, <1>3 DEF Job
  <1>7. PagesFrom
    <2> SUFFICES ASSUME NEW p \in Records, InTransit(p)', ~InTransit(p)
                 PROVE  \E x, y : p = Page(db'[B], x, y)
      BY <1>2 DEF PagesFrom
    <2>1. p = Page(db'[B], scopes, m.after)
      BY <1>2, <1>5, <1>6 DEF InTransit
    <2> QED BY <2>1
  <1> QED BY <1>4, <1>7 DEF Origins

LEMMA FinishOrigins == ASSUME IInv, NEW t \in Threads, Finish(t) PROVE Origins
  <1>1. /\ job[t] # None /\ job[t].reply # None /\ late' = late
        /\ job' = [job EXCEPT ![t] = None] /\ job \in [Threads -> Job \cup {None}]
        /\ A \in Sides /\ db[A] \in Account
        /\ db' = [db EXCEPT ![A] =
                    Applied(db[A], A, job[t].reply.entries, job[t].message.receive)]
    BY Accounts DEF Finish, IInv, TypeOK, Sides
  <1>2. job[t].reply.entries \in Records /\ InTransit(job[t].reply.entries)
    BY <1>1 DEF Job, Reply, InTransit
  <1>3. RecordsFrom
    BY <1>1, <1>2, AppliedFrom DEF Local
  <1> QED BY <1>1, <1>3, NoNewPages DEF Origins

LEMMA StepOrigins == ASSUME IInv, [Next]_vars PROVE Origins
  <1>1. ASSUME db' = db, \A t \in Threads : job'[t] # None => job'[t] = job[t],
               late' = late \/ late' = None \/ \E t \in Threads : job[t] # None /\ late' = job[t].message
        PROVE  Origins
    BY <1>1, NoNewPages DEF RecordsFrom, Origins
  <1>2. CASE \E k \in Keys : Show(k)
    BY <1>1, <1>2 DEF Show
  <1>3. ASSUME NEW t \in Threads, Fail(t) \/ Crash(t) PROVE Origins
    BY <1>1, <1>3, GivenUpShapes DEF Fail, Crash, GivenUp
  <1>4. CASE ReceiveLate
    <2>1. late \in Message /\ InTransit(late.entries)
      BY <1>4 DEF ReceiveLate, IInv, TypeOK, InTransit
    <2> QED BY <1>4, <2>1, ReceivedOrigins, NoNewPages DEF ReceiveLate, Origins
  <1>5. CASE Lapse \/ UNCHANGED vars
    BY <1>1, <1>5 DEF Lapse, vars
  <1> QED BY <1>2, <1>3, <1>4, <1>5, OwnerOrigins, StartOrigins, ReceiveOrigins, FinishOrigins
       DEF Next, ExchangeStep

LEMMA InitialSources == Init => Sources
  <1> SUFFICES ASSUME Init PROVE Sources
    OBVIOUS
  <1>1. \A s, x \in Sides, k \in Keys : AtLeast(db[x].prefs[k], db[s].prefs[k])
    BY DEF Init, Empty, AtLeast
  <1>2. \A p : ~InTransit(p)
    BY DEF Init, InTransit
  <1> QED BY <1>1, <1>2 DEF Sources, Known

-----------------------------------------------------------------------------
(* A round. *)

More(p, q) == \A k \in Keys : AtLeast(p[k], q[k])

LEMMA MoreTransitive ==
    ASSUME NEW p \in Records, NEW q \in Records, NEW r \in Records, More(r, q), More(q, p)
    PROVE  More(r, p)
  BY AtLeastTransitive DEF More, Records

LEMMA CarriesMore ==
    ASSUME NEW p \in Records, NEW q \in Records, NEW r \in Records, More(r, q),
           NEW scopes, NEW after, NEW upto, Carries(q, p, scopes, after, upto)
    PROVE  Carries(r, p, scopes, after, upto)
  BY AtLeastTransitive DEF More, Records, Carries

LEMMA CarriesLess ==
    ASSUME NEW p \in Records, NEW q \in Records, NEW r \in Records, More(q, p),
           NEW scopes, NEW after, NEW upto, Carries(r, q, scopes, after, upto)
    PROVE  Carries(r, p, scopes, after, upto)
  BY AtLeastTransitive DEF More, Records, Carries

(* What is through, on a side with this flag and cursor. *)
Reached(p, q, scopes, done, cursor) ==
    \A k \in Keys : Kind[k] \in scopes /\ (done \/ k <= cursor) => AtLeast(p[k], q[k])

LEMMA ReachedMore ==
    ASSUME NEW p \in Records, NEW q \in Records, NEW r \in Records, More(r, q),
           NEW scopes, NEW done, NEW cursor, Reached(q, p, scopes, done, cursor)
    PROVE  Reached(r, p, scopes, done, cursor)
  BY AtLeastTransitive DEF More, Records, Reached

LEMMA ForwardMore ==
    ASSUME IInv, db' \in [Sides -> Account], Forward, NEW s \in Sides
    PROVE  /\ db[s].prefs \in Records /\ db'[s].prefs \in Records
           /\ More(db'[s].prefs, db[s].prefs)
  <1>1. db[s] \in Account /\ db'[s] \in Account /\ Grows(db[s], db'[s])
    BY DEF IInv, TypeOK, Forward
  <1> QED BY <1>1, GrowsAtLeast DEF More, Account

(* The kinds that both sides let through. *)
Forthcoming == Forth \cap setting[A].send \cap setting[B].receive
Returning == Back \cap setting[B].send \cap setting[A].receive

BaseBehind == base # None => \A s \in Sides : More(db[s].prefs, base[s])

Progress ==
    base # None =>
        /\ Reached(db[B].prefs, base[A], Forthcoming, round.ldone, round.lcur)
        /\ Reached(db[A].prefs, base[B], Returning, round.pdone, round.pcur)

(* The step that holds the lease asks from where the round is, ... *)
Matching(t) ==
    /\ job[t].message.send = setting[A].send
    /\ job[t].message.receive = (IF round.pdone THEN {} ELSE setting[A].receive)
    /\ job[t].message.after = round.pcur
    /\ round.ldone => job[t].lnext = 0

(* ... its page brings B up to what A had, ... *)
Sent(t) ==
    ~round.ldone =>
        Carries(job[t].message.entries, base[A], setting[A].send, round.lcur, job[t].lnext)

Arrived(t) ==
    ~round.ldone => Carries(db[B].prefs, base[A], Forthcoming, round.lcur, job[t].lnext)

(* ... and the answer A up to what B had. *)
Answered(t) ==
    Carries(job[t].reply.entries, base[B],
            job[t].message.receive \cap setting[B].send, round.pcur, job[t].reply.next)

Steady(t) ==
    job[t] # None /\ StillMine(t) =>
        /\ Matching(t)
        /\ base # None => Sent(t) /\ (job[t].reply # None => Arrived(t) /\ Answered(t))

RoundInv == BaseBehind /\ Progress /\ \A t \in Threads : Steady(t)

LEMMA BaseTyped == ASSUME IInv, base # None, NEW s \in Sides PROVE base[s] \in Records
  BY DEF IInv, TypeOK

(* Records that grow are no reason to begin again. *)
LEMMA ProgressKept ==
    ASSUME IInv, db' \in [Sides -> Account], Forward, RoundInv, UNCHANGED <<setting, base>>,
           round'.lcur = round.lcur, round'.pcur = round.pcur,
           round'.ldone = round.ldone, round'.pdone = round.pdone
    PROVE  BaseBehind' /\ Progress'
  <1>0. A \in Sides /\ B \in Sides
    BY DEF Sides
  <1>1. \A s \in Sides : /\ db[s].prefs \in Records /\ db'[s].prefs \in Records
                         /\ More(db'[s].prefs, db[s].prefs)
    BY <1>0, ForwardMore
  <1>2. BaseBehind'
    BY <1>1, BaseTyped, MoreTransitive DEF RoundInv, BaseBehind
  <1>3. Progress'
    <2> SUFFICES ASSUME base # None PROVE Progress'
      BY DEF Progress
    <2>1. Forthcoming' = Forthcoming /\ Returning' = Returning
      BY DEF Forthcoming, Returning
    <2>2. base[A] \in Records /\ base[B] \in Records
      BY <1>0, BaseTyped
    <2>3. Reached(db'[B].prefs, base[A], Forthcoming, round.ldone, round.lcur)
      BY <1>0, <1>1, <2>2, ReachedMore DEF RoundInv, Progress
    <2>4. Reached(db'[A].prefs, base[B], Returning, round.pdone, round.pcur)
      BY <1>0, <1>1, <2>2, ReachedMore DEF RoundInv, Progress
    <2> QED BY <2>1, <2>3, <2>4 DEF Progress
  <1> QED BY <1>2, <1>3

LEMMA SteadyKept ==
    ASSUME IInv, db' \in [Sides -> Account], Forward, RoundInv, UNCHANGED <<setting, base>>,
           round'.lcur = round.lcur, round'.pcur = round.pcur,
           round'.ldone = round.ldone, round'.pdone = round.pdone,
           NEW t \in Threads, job'[t] # None => job'[t] = job[t], StillMine(t)' => StillMine(t)
    PROVE  Steady(t)'
  <1> SUFFICES ASSUME job'[t] # None, StillMine(t)' PROVE Steady(t)'
    BY DEF Steady
  <1>1. job'[t] = job[t] /\ job[t] # None /\ StillMine(t)
    OBVIOUS
  <1>2. Matching(t)'
    BY <1>1 DEF RoundInv, Steady, Matching
  <1>3. ASSUME base # None PROVE Sent(t)' /\ (job[t].reply # None => Arrived(t)' /\ Answered(t)')
    <2>1. Sent(t)'
      BY <1>1, <1>3 DEF RoundInv, Steady, Sent
    <2>2. ASSUME job[t].reply # None PROVE Arrived(t)' /\ Answered(t)'
      <3>1. Arrived(t) /\ Answered(t)
        BY <1>1, <1>3, <2>2 DEF RoundInv, Steady
      <3>2. Answered(t)'
        BY <1>1, <3>1 DEF Answered
      <3>3. Forthcoming' = Forthcoming /\ A \in Sides /\ B \in Sides
        BY DEF Forthcoming, Sides
      <3>4. /\ base[A] \in Records /\ db[B].prefs \in Records /\ db'[B].prefs \in Records
            /\ More(db'[B].prefs, db[B].prefs)
        BY <1>3, <3>3, BaseTyped, ForwardMore
      <3>5. Arrived(t)'
        BY <1>1, <3>1, <3>3, <3>4, CarriesMore DEF Arrived
      <3> QED BY <3>2, <3>5
    <2> QED BY <2>1, <2>2
  <1> QED BY <1>1, <1>2, <1>3 DEF Steady

(* Steps that leave the settings and the cursors alone. *)
LEMMA QuietRound ==
    ASSUME IInv, db' \in [Sides -> Account], Forward, RoundInv, UNCHANGED <<setting, base>>,
           round'.gen = round.gen, round'.lease \in {round.lease, None},
           round'.lcur = round.lcur, round'.pcur = round.pcur,
           round'.ldone = round.ldone, round'.pdone = round.pdone,
           \A t \in Threads : job'[t] # None => job'[t] = job[t]
    PROVE  RoundInv'
  <1>1. BaseBehind' /\ Progress'
    BY ProgressKept
  <1>2. ASSUME NEW t \in Threads PROVE Steady(t)'
    <2>1. CASE job'[t] = None
      BY <2>1 DEF Steady
    <2>2. CASE job'[t] # None
      <3>1. job'[t] = job[t] /\ t # None
        BY <2>2
      <3>2. StillMine(t)' => StillMine(t)
        BY <3>1 DEF StillMine
      <3> QED BY <3>1, <3>2, SteadyKept
    <2> QED BY <2>1, <2>2
  <1> QED BY <1>1, <1>2 DEF RoundInv

LEMMA SettingsRound ==
    ASSUME IInv, RoundInv, NEW s \in Sides, NEW c, Settings(s, c) PROVE RoundInv'
  <1>1. setting' = [setting EXCEPT ![s] = c] /\ setting \in [Sides -> Setting] /\ job' = job
    BY DEF Settings, IInv, TypeOK
  <1>2. CASE s = A
    <2>1. base' = None /\ round'.gen = round.gen + 1 /\ round.gen \in Nat
      BY <1>2 DEF Settings, Fresh, IInv, TypeOK, Round
    <2>2. ASSUME NEW t \in Threads, job[t] # None PROVE ~StillMine(t)'
      <3>1. job[t].gen \in Nat /\ job[t].gen <= round.gen
        BY <2>2 DEF IInv, TypeOK, Job, Asks, Asked
      <3> QED BY <1>1, <2>1, <3>1 DEF StillMine
    <2> QED BY <1>1, <2>1, <2>2 DEF RoundInv, BaseBehind, Progress, Steady
  <1>3. CASE s # A
    <2>1. round' = round /\ setting'[A] = setting[A] /\ A \in Sides /\ B \in Sides
      BY <1>1, <1>3 DEF Settings, Sides
    <2>2. base' # None => \A x \in Sides, k \in Keys : base'[x][k] = None
      BY <1>3 DEF Settings, Empty
    <2>3. BaseBehind' /\ Progress'
      BY <2>1, <2>2 DEF BaseBehind, More, Progress, Reached, AtLeast
    <2>4. ASSUME NEW t \in Threads, job[t] # None, StillMine(t)' PROVE Steady(t)'
      <3>1. Matching(t)'
        BY <1>1, <2>1, <2>4 DEF RoundInv, Steady, Matching, StillMine
      <3>2. base' # None => Sent(t)' /\ Arrived(t)' /\ Answered(t)'
        BY <2>1, <2>2 DEF Sent, Arrived, Answered, Carries, AtLeast
      <3> QED BY <3>1, <3>2 DEF Steady
    <2> QED BY <1>1, <2>3, <2>4 DEF RoundInv, Steady
  <1> QED BY <1>2, <1>3

LEMMA StartRound == ASSUME IInv, RoundInv, NEW t \in Threads, Start(t) PROVE RoundInv'
  <1> DEFINE d == Seeded(db[A], A)
             m == [send |-> setting[A].send,
                   receive |-> IF round.pdone THEN {} ELSE setting[A].receive,
                   entries |-> IF round.ldone THEN Empty ELSE Page(d, setting[A].send, round.lcur),
                   after |-> round.pcur]
             j == [gen |-> round.gen, reply |-> None,
                   lnext |-> IF round.ldone THEN 0 ELSE Cursor(d, setting[A].send, round.lcur),
                   message |-> m]
             fresh == round = [Fresh(round.gen) EXCEPT !.lease = round.lease, !.lapsed = round.lapsed]
  <1>1. /\ A \in Sides /\ B \in Sides /\ db \in [Sides -> Account] /\ round \in Round
        /\ job \in [Threads -> Job \cup {None}]
    BY DEF Sides, IInv, TypeOK
  <1>2. d \in Account /\ Grows(db[A], d)
    BY <1>1, Accounts, SeededEvolves DEF Evolves
  <1>3. /\ db' = [db EXCEPT ![A] = d] /\ job' = [job EXCEPT ![t] = j]
        /\ round' = [round EXCEPT !.lease = t, !.lapsed = FALSE] /\ setting' = setting
        /\ base' = (IF fresh THEN [s \in Sides |-> IF s = A THEN d.prefs ELSE db[B].prefs] ELSE base)
    BY DEF Start
  <1>4. /\ round'.lcur = round.lcur /\ round'.pcur = round.pcur /\ round'.gen = round.gen
        /\ round'.ldone = round.ldone /\ round'.pdone = round.pdone /\ round'.lease = t
        /\ round.lcur \in Keys \cup {0}
    BY <1>1, <1>3 DEF Round
  <1>5. db' \in [Sides -> Account] /\ Forward /\ db'[A] = d /\ db'[B] = db[B]
    <2>1. db'[A] = d /\ \A s \in Sides : s # A => db'[s] = db[s]
      BY <1>1, <1>3
    <2> HIDE DEF d
    <2>2. Forward
      BY <1>2, <2>1, GrowsReflexive DEF Forward
    <2> QED BY <1>1, <1>2, <1>3, <2>1, <2>2
  <1>6. /\ job'[t] = j /\ \A x \in Threads : x # t => job'[x] = job[x]
    BY <1>1, <1>3
  <1> HIDE DEF d
  <1>7. /\ j.reply = None /\ j.message.send = setting[A].send /\ j.message.after = round.pcur
        /\ j.message.receive = (IF round.pdone THEN {} ELSE setting[A].receive)
        /\ round.ldone => j.lnext = 0
        /\ ~round.ldone => /\ j.lnext = Cursor(d, setting[A].send, round.lcur)
                           /\ j.message.entries = Page(d, setting[A].send, round.lcur)
    <2>1. /\ m.send = setting[A].send /\ m.after = round.pcur
          /\ m.receive = (IF round.pdone THEN {} ELSE setting[A].receive)
          /\ ~round.ldone => m.entries = Page(d, setting[A].send, round.lcur)
      OBVIOUS
    <2> HIDE DEF m
    <2>2. ASSUME round.ldone PROVE j.lnext = 0
      BY <2>2
    <2>3. ASSUME ~round.ldone PROVE j.lnext = Cursor(d, setting[A].send, round.lcur)
      BY <2>3
    <2>4. j.reply = None /\ j.message = m
      OBVIOUS
    <2> HIDE DEF j
    <2> QED BY <2>1, <2>2, <2>3, <2>4
  <1> HIDE DEF m, j
  <1>8. /\ BaseBehind' /\ Progress'
        /\ base' # None => base'[A] \in Records /\ More(d.prefs, base'[A])
    <2>1. CASE fresh
      <3>1. base'[A] = d.prefs /\ base'[B] = db[B].prefs /\ base'[A] \in Records /\ base'[B] \in Records
        BY <1>1, <1>2, <1>3, <2>1 DEF Account
      <3>2. \A s \in Sides : db'[s].prefs = base'[s] /\ base'[s] \in Records
        BY <1>5, <3>1 DEF Sides
      <3>3. \A s \in Sides : More(db'[s].prefs, base'[s])
        BY <3>2, AtLeastReflexive DEF More, Records
      <3>4. round.lcur = 0 /\ round.pcur = 0 /\ ~round.ldone /\ ~round.pdone
        BY <2>1 DEF Fresh
      <3>5. Progress'
        <4>1. ASSUME NEW k \in Keys PROVE ~(k <= 0)
          <5>1. k \in Nat /\ k # 0
            OBVIOUS
          <5> QED BY <5>1
        <4> QED BY <1>4, <3>4, <4>1 DEF Progress, Reached
      <3>6. base'[A] \in Records /\ More(d.prefs, base'[A])
        BY <1>1, <1>5, <3>1, <3>3
      <3> QED BY <3>3, <3>5, <3>6 DEF BaseBehind
    <2>2. CASE ~fresh
      <3>1. base' = base
        BY <1>3, <2>2
      <3>2. BaseBehind' /\ Progress'
        BY <1>3, <1>4, <1>5, <3>1, ProgressKept
      <3>3. base # None => base[A] \in Records
        BY <1>1, BaseTyped
      <3> QED BY <1>1, <1>5, <3>1, <3>2, <3>3 DEF BaseBehind
    <2> QED BY <2>1, <2>2
  <1>9. ASSUME NEW x \in Threads PROVE Steady(x)'
    <2>1. CASE x # t
      BY <1>4, <2>1 DEF Steady, StillMine
    <2>2. CASE x = t
      <3>1. Matching(t)' /\ job'[t].reply = None
        BY <1>3, <1>4, <1>6, <1>7 DEF Matching
      <3>2. ASSUME base' # None PROVE Sent(t)'
        <4> SUFFICES ASSUME ~round.ldone
                     PROVE  Carries(job'[t].message.entries, base'[A], setting[A].send,
                                    round.lcur, job'[t].lnext)
          BY <1>3, <1>4 DEF Sent
        <4>1. Carries(Page(d, setting[A].send, round.lcur), d.prefs, setting[A].send,
                      round.lcur, Cursor(d, setting[A].send, round.lcur))
          BY <1>2, <1>4, PageCarries
        <4>2. Page(d, setting[A].send, round.lcur) \in Records /\ d.prefs \in Records
          BY <1>2, PageType DEF Account
        <4>3. Carries(Page(d, setting[A].send, round.lcur), base'[A], setting[A].send,
                      round.lcur, Cursor(d, setting[A].send, round.lcur))
          BY <1>8, <3>2, <4>1, <4>2, CarriesLess
        <4> QED BY <1>6, <1>7, <4>3
      <3> QED BY <2>2, <3>1, <3>2 DEF Steady
    <2> QED BY <2>1, <2>2
  <1> QED BY <1>8, <1>9 DEF RoundInv

LEMMA AppliedAtLeast ==
    ASSUME NEW d \in Account, NEW s \in Sides, NEW p \in Records, NEW scopes,
           NEW k \in Keys, Kind[k] \in scopes, Kept(s, k) => AtLeast(d.prefs[k], p[k])
    PROVE  AtLeast(Applied(d, s, p, scopes).prefs[k], p[k])
  <1> DEFINE e == Applied(d, s, p, scopes)
  <1>1. e.prefs[k] = (IF k \in Applies(d, s, p, scopes) THEN p[k] ELSE d.prefs[k])
    BY DEF Applied, Account
  <1>2. p[k] \in Record \cup {None}
    BY DEF Records
  <1> HIDE DEF e
  <1>3. CASE k \in Applies(d, s, p, scopes)
    BY <1>1, <1>2, <1>3, AtLeastReflexive DEF e
  <1>4. CASE k \notin Applies(d, s, p, scopes)
    <2>1. p[k] = None \/ Kept(s, k) \/ (d.prefs[k] # None /\ ~Newer(p[k], d.prefs[k]))
      BY <1>4 DEF Applies
    <2> QED BY <1>1, <1>4, <2>1 DEF AtLeast, e
  <1> QED BY <1>3, <1>4

LEMMA ReceiveRound ==
    ASSUME IInv, Sources, RoundInv, NEW t \in Threads, Receive(t) PROVE RoundInv'
  <1> DEFINE m == job[t].message
             out == m.receive \cap setting[B].send
             b == Seeded(db[B], B)
             d == Received(m)
             r == [entries |-> Page(d, out, m.after), next |-> Cursor(d, out, m.after)]
  <1>1. /\ job[t] \in Job /\ job[t] # None /\ m \in Message /\ m.after \in Keys \cup {0}
        /\ m.entries \in Records /\ A \in Sides /\ B \in Sides /\ db \in [Sides -> Account]
        /\ job \in [Threads -> Job \cup {None}]
    BY DEF Receive, IInv, TypeOK, Job, Message, Sides
  <1>2. /\ db' = [db EXCEPT ![B] = d] /\ job' = [job EXCEPT ![t].reply = r]
        /\ UNCHANGED <<setting, round, base>>
    BY DEF Receive
  <1>3. d \in Account /\ Grows(db[B], d) /\ b \in Account /\ Grows(db[B], b)
    BY <1>1, ReceivedEvolves, SeededEvolves, Accounts DEF Evolves
  <1>4. d = Applied(b, B, m.entries, m.send \cap setting[B].receive)
    BY DEF Received
  <1> HIDE DEF b, d
  <1>5. db' \in [Sides -> Account] /\ Forward /\ db'[B] = d /\ db'[A] = db[A]
    <2>1. db'[B] = d /\ \A s \in Sides : s # B => db'[s] = db[s]
      BY <1>1, <1>2
    <2>2. Forward
      BY <1>3, <2>1, GrowsReflexive DEF Forward
    <2> QED BY <1>1, <1>2, <1>3, <2>1, <2>2
  <1>6. r.entries = Page(d, out, m.after) /\ r.next = Cursor(d, out, m.after)
    OBVIOUS
  <1> HIDE DEF r
  <1>7. /\ job'[t].gen = job[t].gen /\ job'[t].message = m /\ job'[t].lnext = job[t].lnext
        /\ job'[t].reply = r /\ \A x \in Threads : x # t => job'[x] = job[x]
    BY <1>1, <1>2 DEF Job
  <1>8. BaseBehind' /\ Progress'
    BY <1>2, <1>5, ProgressKept
  <1>9. ASSUME NEW x \in Threads, x # t PROVE Steady(x)'
    <2>1. StillMine(x)' => StillMine(x)
      BY <1>2, <1>7, <1>9 DEF StillMine
    <2> QED BY <1>2, <1>5, <1>7, <1>9, <2>1, SteadyKept
  <1>10. ASSUME StillMine(t)' PROVE Matching(t)' /\ (base # None => Sent(t)' /\ Arrived(t)' /\ Answered(t)')
    <2>1. StillMine(t)
      BY <1>2, <1>7, <1>10 DEF StillMine
    <2>2. Matching(t) /\ (base # None => Sent(t))
      BY <1>1, <2>1 DEF RoundInv, Steady
    <2>3. Matching(t)'
      BY <1>2, <1>7, <2>2 DEF Matching
    <2> SUFFICES ASSUME base # None PROVE Sent(t)' /\ Arrived(t)' /\ Answered(t)'
      BY <2>3
    <2>4. Sent(t)'
      BY <1>2, <1>7, <2>2 DEF Sent
    <2>5. Arrived(t)'
      <3> SUFFICES ASSUME ~round.ldone, NEW k \in Keys, Kind[k] \in Forthcoming,
                          Passed(k, round.lcur, job[t].lnext)
                   PROVE  AtLeast(d.prefs[k], base[A][k])
        BY <1>2, <1>5, <1>7 DEF Arrived, Carries, Forthcoming
      <3>1. AtLeast(m.entries[k], base[A][k])
        BY <2>2 DEF Sent, Carries, Forthcoming
      <3>2. Kept(B, k) => AtLeast(b.prefs[k], m.entries[k])
        <4> SUFFICES ASSUME Kept(B, k) PROVE AtLeast(b.prefs[k], m.entries[k])
          OBVIOUS
        <4>1. InTransit(m.entries)
          BY <1>1 DEF InTransit
        <4>2. AtLeast(db[B].prefs[k], m.entries[k])
          BY <1>1, <4>1 DEF Sources, Known
        <4>3. AtLeast(b.prefs[k], db[B].prefs[k])
          BY <1>1, <1>3, GrowsAtLeast
        <4>4. /\ b.prefs[k] \in Record \cup {None} /\ db[B].prefs[k] \in Record \cup {None}
              /\ m.entries[k] \in Record \cup {None}
          BY <1>1, <1>3 DEF Account, Records
        <4> QED BY <4>2, <4>3, <4>4, AtLeastTransitive
      <3>3. Kind[k] \in m.send \cap setting[B].receive
        BY <2>2 DEF Matching, Forthcoming
      <3>4. AtLeast(d.prefs[k], m.entries[k])
        BY <1>1, <1>3, <1>4, <3>2, <3>3, AppliedAtLeast
      <3>5. /\ d.prefs[k] \in Record \cup {None} /\ m.entries[k] \in Record \cup {None}
            /\ base[A][k] \in Record \cup {None}
        BY <1>1, <1>3, BaseTyped DEF Account, Records
      <3> QED BY <3>1, <3>4, <3>5, AtLeastTransitive
    <2>6. Answered(t)'
      <3>1. Carries(Page(d, out, m.after), d.prefs, out, m.after, Cursor(d, out, m.after))
        BY <1>1, <1>3, PageCarries
      <3>2. More(d.prefs, base[B]) /\ base[B] \in Records /\ d.prefs \in Records
        BY <1>1, <1>2, <1>3, <1>5, <1>8, BaseTyped DEF BaseBehind, Account
      <3>3. Page(d, out, m.after) \in Records
        BY <1>3, PageType
      <3>4. Carries(Page(d, out, m.after), base[B], out, m.after, Cursor(d, out, m.after))
        BY <3>1, <3>2, <3>3, CarriesLess
      <3>5. m.after = round.pcur
        BY <2>2 DEF Matching
      <3> QED BY <1>2, <1>6, <1>7, <3>4, <3>5 DEF Answered
    <2> QED BY <2>4, <2>5, <2>6
  <1>11. Steady(t)'
    BY <1>2, <1>10 DEF Steady
  <1> QED BY <1>8, <1>9, <1>11 DEF RoundInv

(* Where a step that finishes brings both sides. *)
LEMMA FinishReaches ==
    ASSUME IInv, Sources, RoundInv, NEW t \in Threads, Finish(t), base # None
    PROVE  /\ Reached(db'[B].prefs, base[A], Forthcoming, job[t].lnext = 0, job[t].lnext)
           /\ Reached(db'[A].prefs, base[B], Returning, job[t].reply.next = 0, job[t].reply.next)
  <1> DEFINE m == job[t].message
             p == job[t].reply.entries
             d == Applied(db[A], A, p, m.receive)
  <1>1. /\ job[t] \in Job /\ job[t] # None /\ job[t].reply # None /\ p \in Records
        /\ A \in Sides /\ B \in Sides /\ db \in [Sides -> Account] /\ StillMine(t)
    BY DEF Finish, IInv, TypeOK, Job, Reply, Sides
  <1>2. db' = [db EXCEPT ![A] = d]
    BY DEF Finish
  <1> HIDE DEF d
  <1>3. db'[A] = d /\ db'[B] = db[B]
    BY <1>1, <1>2 DEF Sides
  <1>4. Matching(t) /\ Arrived(t) /\ Answered(t) /\ Progress
    BY <1>1 DEF RoundInv, Steady
  <1>5. d \in Account /\ Grows(db[A], d)
    BY <1>1, Accounts, AppliedEvolves DEF Evolves, d
  <1>6. ASSUME NEW k \in Keys, Kind[k] \in Forthcoming, job[t].lnext = 0 \/ k <= job[t].lnext
        PROVE  AtLeast(db[B].prefs[k], base[A][k])
    <2>1. CASE round.ldone \/ k <= round.lcur
      BY <1>4, <1>6, <2>1 DEF Progress, Reached
    <2>2. CASE ~round.ldone /\ ~(k <= round.lcur)
      <3>1. k \in Nat /\ round.lcur \in Nat
        <4>1. round.lcur \in Keys \cup {0}
          BY DEF IInv, TypeOK, Round
        <4> QED BY <4>1, KeyNumbers
      <3>2. Passed(k, round.lcur, job[t].lnext)
        BY <1>6, <2>2, <3>1 DEF Passed
      <3> QED BY <1>4, <1>6, <2>2, <3>2 DEF Arrived, Carries
    <2> QED BY <2>1, <2>2
  <1>7. ASSUME NEW k \in Keys, Kind[k] \in Returning,
               job[t].reply.next = 0 \/ k <= job[t].reply.next
        PROVE  AtLeast(d.prefs[k], base[B][k])
    <2>0. /\ d.prefs[k] \in Record \cup {None} /\ p[k] \in Record \cup {None}
          /\ db[A].prefs[k] \in Record \cup {None} /\ base[B][k] \in Record \cup {None}
      BY <1>1, <1>5, BaseTyped DEF Account, Records
    <2>1. CASE round.pdone \/ k <= round.pcur
      <3>1. AtLeast(db[A].prefs[k], base[B][k])
        BY <1>4, <1>7, <2>1 DEF Progress, Reached
      <3>2. AtLeast(d.prefs[k], db[A].prefs[k])
        BY <1>1, <1>5, GrowsAtLeast
      <3> QED BY <2>0, <3>1, <3>2, AtLeastTransitive
    <2>2. CASE ~round.pdone /\ ~(k <= round.pcur)
      <3>1. k \in Nat /\ round.pcur \in Nat
        <4>1. round.pcur \in Keys \cup {0}
          BY DEF IInv, TypeOK, Round
        <4> QED BY <4>1, KeyNumbers
      <3>2. Passed(k, round.pcur, job[t].reply.next)
        BY <1>7, <2>2, <3>1 DEF Passed
      <3>3. Kind[k] \in m.receive /\ Kind[k] \in setting[B].send
        BY <1>4, <1>7, <2>2 DEF Matching, Returning
      <3>4. AtLeast(p[k], base[B][k])
        BY <1>4, <3>2, <3>3 DEF Answered, Carries
      <3>5. InTransit(p)
        BY <1>1 DEF InTransit
      <3>6. Kept(A, k) => AtLeast(db[A].prefs[k], p[k])
        BY <1>1, <3>5 DEF Sources, Known
      <3>7. AtLeast(d.prefs[k], p[k])
        BY <1>1, <3>3, <3>6, AppliedAtLeast DEF d
      <3> QED BY <2>0, <3>4, <3>7, AtLeastTransitive
    <2> QED BY <2>1, <2>2
  <1> QED BY <1>3, <1>6, <1>7 DEF Reached

LEMMA FinishRound ==
    ASSUME IInv, Sources, RoundInv, NEW t \in Threads, Finish(t) PROVE RoundInv'
  <1> DEFINE n == job[t].lnext
             x == job[t].reply.next
  <1>1. round' = Advanced(n = 0, x = 0, n, x) /\ setting' = setting
    BY DEF Finish
  <1>2. round \in Round /\ base' = (IF n = 0 /\ x = 0 THEN None ELSE base)
    BY DEF Finish, IInv, TypeOK
  <1> HIDE DEF n, x
  <1>3. round'.lease = None
    BY <1>1, <1>2 DEF Advanced, Fresh, Round
  <1>4. \A u \in Threads : ~StillMine(u)'
    BY <1>3 DEF StillMine
  <1>5. CASE n = 0 /\ x = 0
    BY <1>2, <1>4, <1>5 DEF RoundInv, BaseBehind, Progress, Steady
  <1>6. CASE ~(n = 0 /\ x = 0)
    <2>1. /\ round'.lcur = n /\ round'.pcur = x /\ base' = base
          /\ round'.ldone = (n = 0) /\ round'.pdone = (x = 0)
      BY <1>1, <1>2, <1>6 DEF Advanced, Round
    <2>2. BaseBehind'
      <3>1. db' \in [Sides -> Account] /\ Forward
        <4>1. Good
          BY FinishGood
        <4> QED BY <4>1 DEF Good, IInv, TypeOK
      <3>2. \A s \in Sides : /\ db[s].prefs \in Records /\ db'[s].prefs \in Records
                             /\ More(db'[s].prefs, db[s].prefs)
        BY <3>1, ForwardMore
      <3> QED BY <2>1, <3>2, BaseTyped, MoreTransitive DEF RoundInv, BaseBehind
    <2>3. Progress'
      <3>1. Forthcoming' = Forthcoming /\ Returning' = Returning
        BY <1>1 DEF Forthcoming, Returning
      <3> QED BY <2>1, <3>1, FinishReaches DEF Progress, n, x
    <2> QED BY <1>4, <2>2, <2>3 DEF RoundInv, Steady
  <1> QED BY <1>5, <1>6

LEMMA StepRound == ASSUME IInv, Sources, RoundInv, [Next]_vars PROVE RoundInv'
  <1>0. db' \in [Sides -> Account] /\ Forward
    <2>1. Good
      BY Steps
    <2> QED BY <2>1 DEF Good, IInv, TypeOK
  <1>1. ASSUME UNCHANGED <<setting, base>>, round'.gen = round.gen, round'.lease \in {round.lease, None},
               round'.lcur = round.lcur, round'.pcur = round.pcur,
               round'.ldone = round.ldone, round'.pdone = round.pdone,
               \A t \in Threads : job'[t] # None => job'[t] = job[t]
        PROVE  RoundInv'
    BY <1>0, <1>1, QuietRound
  <1>2. ASSUME NEW s \in Sides, OwnerStep(s) PROVE RoundInv'
    <2>1. CASE \E c \in Choices : Settings(s, c)
      BY <2>1, SettingsRound
    <2>2. CASE UNCHANGED <<setting, base, round, job>>
      BY <1>1, <2>2
    <2> QED BY <1>2, <2>1, <2>2 DEF OwnerStep, Native, Favorite, Edited, Look, End
  <1>3. CASE \E k \in Keys : Show(k)
    BY <1>1, <1>3 DEF Show
  <1>4. ASSUME NEW t \in Threads, Fail(t) \/ Crash(t) PROVE RoundInv'
    <2>1. round' = round \/ round' = [round EXCEPT !.lease = None, !.lapsed = FALSE]
      BY <1>4 DEF Fail, Crash
    <2>2. /\ round'.gen = round.gen /\ round'.lease \in {round.lease, None}
          /\ round'.lcur = round.lcur /\ round'.pcur = round.pcur
          /\ round'.ldone = round.ldone /\ round'.pdone = round.pdone
      <3>1. round \in Round
        BY DEF IInv, TypeOK
      <3>2. CASE round' = round
        BY <3>2
      <3>3. CASE round' = [round EXCEPT !.lease = None, !.lapsed = FALSE]
        BY <3>1, <3>3 DEF Round
      <3> QED BY <2>1, <3>2, <3>3
    <2>3. UNCHANGED <<setting, base>> /\ GivenUp(t)
      BY <1>4 DEF Fail, Crash
    <2> QED BY <1>1, <2>2, <2>3, GivenUpShapes
  <1>5. CASE ReceiveLate
    BY <1>1, <1>5 DEF ReceiveLate
  <1>6. CASE Lapse
    BY <1>1, <1>6 DEF Lapse, IInv, TypeOK, Round
  <1>7. CASE UNCHANGED vars
    BY <1>1, <1>7 DEF vars
  <1> QED BY <1>2, <1>3, <1>4, <1>5, <1>6, <1>7, StartRound, ReceiveRound, FinishRound
       DEF Next, ExchangeStep

LEMMA InitialRound == Init => RoundInv
  BY DEF Init, RoundInv, BaseBehind, Progress, Steady

LEMMA SourcesAndRounds == Spec => [](Sources /\ RoundInv)
  <1>1. IInv /\ Sources /\ RoundInv /\ [Next]_vars => (Sources /\ RoundInv)'
    <2> SUFFICES ASSUME IInv, Sources, RoundInv, [Next]_vars PROVE (Sources /\ RoundInv)'
      OBVIOUS
    <2>1. db' \in [Sides -> Account] /\ Forward
      <3>1. Good
        BY Steps
      <3> QED BY <3>1 DEF Good, IInv, TypeOK
    <2>2. Sources'
      BY <2>1, StepOrigins, SourcesKept DEF Origins
    <2> QED BY <2>2, StepRound
  <1> QED BY <1>1, InitialSources, InitialRound, Invariant, PTL DEF Spec

(* Only a step that finishes ends a round without a change of settings. *)
LEMMA StepDelivers ==
    ASSUME IInv, Sources, RoundInv, [Next]_vars,
           base # None, base' = None, round'.gen = round.gen, NEW k \in Keys
    PROVE  /\ Kind[k] \in Forthcoming => AtLeast(db'[B].prefs[k], base[A][k])
           /\ Kind[k] \in Returning => AtLeast(db'[A].prefs[k], base[B][k])
  <1>1. round.gen \in Nat
    BY DEF IInv, TypeOK, Round
  <1>2. \E t \in Threads : Finish(t)
    <2>1. ASSUME NEW s \in Sides, OwnerStep(s) PROVE FALSE
      <3>1. PICK c \in Choices : Settings(s, c)
        BY <2>1 DEF OwnerStep, Native, Favorite, Edited, Look, End
      <3>2. CASE s = A
        BY <1>1, <3>1, <3>2 DEF Settings, Fresh
      <3>3. CASE s # A
        <4>1. base' = [x \in Sides |-> Empty] /\ [x \in Sides |-> Empty] \in [Sides -> Records]
          BY <3>1, <3>3 DEF Settings, Empty, Records
        <4> QED BY <4>1
      <3> QED BY <3>2, <3>3
    <2>2. ASSUME NEW t \in Threads, Start(t) PROVE FALSE
      <3>1. Seeded(db[A], A).prefs \in Records /\ db[B].prefs \in Records
        BY Accounts, SeededEvolves DEF Evolves, Account, Sides
      <3>2. \A e \in Records, f \in Records : [s \in Sides |-> IF s = A THEN e ELSE f] # None
        <4> SUFFICES ASSUME NEW e \in Records, NEW f \in Records
                     PROVE  [s \in Sides |-> IF s = A THEN e ELSE f] \in [Sides -> Records]
          OBVIOUS
        <4> QED OBVIOUS
      <3> QED BY <2>2, <3>1, <3>2 DEF Start
    <2> QED BY <2>1, <2>2
         DEF Next, ExchangeStep, Show, Receive, Fail, Crash, ReceiveLate, Lapse, vars
  <1>3. PICK t \in Threads : Finish(t)
    BY <1>2
  <1>4. job[t].lnext = 0 /\ job[t].reply.next = 0
    BY <1>3 DEF Finish
  <1> QED BY <1>3, <1>4, FinishReaches DEF Reached

(* A round that ends has carried all that both sides had when it began and *)
(* were allowed to exchange, however many steps overlapped, were repeated, *)
(* lost or late, and whatever changed meanwhile (ProfileSync.step).        *)
THEOREM RoundsDeliver == Spec => RoundDelivers
  <1>1. IInv /\ Sources /\ RoundInv /\ [Next]_vars =>
          [base # None /\ base' = None /\ round'.gen = round.gen =>
              \A k \in Keys :
                  /\ Kind[k] \in Forth \cap setting[A].send \cap setting[B].receive
                        => AtLeast(db'[B].prefs[k], base[A][k])
                  /\ Kind[k] \in Back \cap setting[B].send \cap setting[A].receive
                        => AtLeast(db'[A].prefs[k], base[B][k])]_vars
    BY StepDelivers DEF Forthcoming, Returning
  <1> QED BY <1>1, Invariant, SourcesAndRounds, PTL DEF Spec, RoundDelivers
=============================================================================
