---------------------------- MODULE SocialProofs ----------------------------
(***************************************************************************)
(* Safety of Social for every set of people, points and proposals, and of  *)
(* the Weights its votes are counted with, for all people and shares.      *)
(*                                                                         *)
(* A handler composes operators on graphs, so the argument is about an     *)
(* arbitrary graph g and the numbers m of texts its points have had: each  *)
(* operator keeps Good(g, m), under the guard its handlers have checked.   *)
(***************************************************************************)
EXTENDS Social, Weights, TLAPS, FiniteSetTheorems, WellFoundedInduction

-----------------------------------------------------------------------------
(* Sums.  The community operators add the values of a function on a set in *)
(* some order, by a function on its subsets; any order gives the same sum. *)

Taken(s) == CHOOSE x \in s : TRUE

Sums(f, w, S) ==
    f = [s \in SUBSET S |-> IF s = {} THEN 0 ELSE w[Taken(s)] + f[s \ {Taken(s)}]]

(* A family of subsets of a finite set has a smallest member. *)
LEMMA SmallestSubset ==
    ASSUME NEW S, IsFiniteSet(S), NEW T \in SUBSET SUBSET S, T # {}
    PROVE  \E X \in T : \A Y \in SUBSET X : Y # X => Y \notin T
<1>1. FiniteSubsetsOf(S) = SUBSET S
  BY FS_FiniteSubsetsOfFinite
<1>2. IsWellFoundedOn(StrictSubsetOrdering(S), SUBSET S)
  BY <1>1, FS_StrictSubsetOrderingWellFounded
<1>3. PICK X \in T : \A Y \in T : <<Y, X>> \notin StrictSubsetOrdering(S)
  BY <1>2, WFMin
<1>4. ASSUME NEW Y \in SUBSET X, Y # X, Y \in T PROVE FALSE
  BY <1>3, <1>4 DEF StrictSubsetOrdering
<1> QED BY <1>3, <1>4

LEMMA TakenIn == \A s : s # {} => Taken(s) \in s
  BY DEF Taken

LEMMA SumsOf ==
    ASSUME NEW f, NEW w, NEW S, Sums(f, w, S), NEW s \in SUBSET S
    PROVE  f[s] = IF s = {} THEN 0 ELSE w[Taken(s)] + f[s \ {Taken(s)}]
  BY DEF Sums

LEMMA SumsAgree ==
    ASSUME NEW w, NEW A, NEW B, IsFiniteSet(A), NEW f, NEW h, Sums(f, w, A), Sums(h, w, B),
           NEW r, r \subseteq A, r \subseteq B
    PROVE  f[r] = h[r]
<1> DEFINE T == {s \in SUBSET (A \cap B) : f[s] # h[s]}
<1> SUFFICES ASSUME T # {} PROVE FALSE
  OBVIOUS
<1>1. PICK X \in T : \A Y \in SUBSET X : Y # X => Y \notin T
  <2>1. IsFiniteSet(A \cap B)
    BY FS_Subset
  <2>2. T \in SUBSET SUBSET (A \cap B)
    OBVIOUS
  <2> HIDE DEF T
  <2> QED BY <2>1, <2>2, SmallestSubset
<1>2. X \in SUBSET A /\ X \in SUBSET B /\ f[X] # h[X]
  OBVIOUS
<1>3. X # {}
  BY <1>2, SumsOf
<1>4. Taken(X) \in X
  BY <1>3, TakenIn
<1>5. f[X \ {Taken(X)}] = h[X \ {Taken(X)}]
  BY <1>1, <1>4
<1>6. f[X] = w[Taken(X)] + f[X \ {Taken(X)}] /\ h[X] = w[Taken(X)] + h[X \ {Taken(X)}]
  BY <1>2, <1>3, SumsOf
<1> QED BY <1>2, <1>5, <1>6

LEMMA SumsExist ==
    ASSUME NEW w, NEW S, IsFiniteSet(S)
    PROVE  \E f : Sums(f, w, S)
<1> DEFINE T == {s \in SUBSET S : ~\E f : Sums(f, w, s)}
<1> SUFFICES ASSUME T # {} PROVE FALSE
  OBVIOUS
<1>1. PICK X \in T : \A Y \in SUBSET X : Y # X => Y \notin T
  <2>1. T \in SUBSET SUBSET S
    OBVIOUS
  <2> HIDE DEF T
  <2> QED BY <2>1, SmallestSubset
<1>2. X \in SUBSET S /\ ~\E f : Sums(f, w, X)
  OBVIOUS
<1> DEFINE of(s) == CHOOSE f : Sums(f, w, s)
<1>3. ASSUME NEW s \in SUBSET X, s # X PROVE Sums(of(s), w, s)
  BY <1>1, <1>2, <1>3
<1> DEFINE step(s) == w[Taken(s)] + of(s \ {Taken(s)})[s \ {Taken(s)}]
           sum == [s \in SUBSET X |-> IF s = {} THEN 0 ELSE step(s)]
<1> HIDE DEF T, of
<1>4. ASSUME NEW s \in SUBSET X, s # X PROVE sum[s] = of(s)[s]
  <2>1. CASE s = {}
    BY <1>3, <1>4, <2>1, SumsOf
  <2>2. CASE s # {}
    <3>1. Taken(s) \in s /\ s \ {Taken(s)} \in SUBSET s /\ s \ {Taken(s)} # X
      BY <1>4, <2>2, TakenIn
    <3>2. of(s)[s] = w[Taken(s)] + of(s)[s \ {Taken(s)}]
      BY <1>3, <1>4, <2>2, SumsOf
    <3>3. Sums(of(s), w, s) /\ Sums(of(s \ {Taken(s)}), w, s \ {Taken(s)})
      BY <1>3, <1>4, <3>1
    <3>4. IsFiniteSet(s)
      BY <1>2, FS_Subset
    <3>5. of(s)[s \ {Taken(s)}] = of(s \ {Taken(s)})[s \ {Taken(s)}]
      <4>1. PICK r, f, h : r = s \ {Taken(s)} /\ f = of(s) /\ h = of(r)
        OBVIOUS
      <4>2. Sums(f, w, s) /\ Sums(h, w, r) /\ r \subseteq s /\ r \subseteq r
        BY <3>1, <3>3, <4>1
      <4>3. f[r] = h[r]
        BY <3>4, <4>2, SumsAgree
      <4> QED BY <4>1, <4>3
    <3> QED BY <2>2, <3>2, <3>5
  <2> QED BY <2>1, <2>2
<1>5. ASSUME NEW s \in SUBSET X
      PROVE  sum[s] = IF s = {} THEN 0 ELSE w[Taken(s)] + sum[s \ {Taken(s)}]
  <2>1. CASE s = {}
    BY <2>1
  <2>2. CASE s # {}
    <3>1. s \ {Taken(s)} \in SUBSET X /\ s \ {Taken(s)} # X
      BY <2>2, TakenIn
    <3>2. sum[s \ {Taken(s)}] = of(s \ {Taken(s)})[s \ {Taken(s)}]
      BY <1>4, <3>1
    <3>3. sum[s] = w[Taken(s)] + of(s \ {Taken(s)})[s \ {Taken(s)}]
      BY <2>2
    <3> QED BY <2>2, <3>2, <3>3
  <2> QED BY <2>1, <2>2
<1>6. PICK f : f = sum
  OBVIOUS
<1>7. f = [s \in SUBSET X |-> f[s]]
  BY <1>6
<1>8. \A s \in SUBSET X : f[s] = IF s = {} THEN 0 ELSE w[Taken(s)] + f[s \ {Taken(s)}]
  BY <1>5, <1>6
<1>9. Sums(f, w, X)
  BY <1>7, <1>8 DEF Sums
<1> QED BY <1>2, <1>9

(* A sum of naturals is a natural, whichever element is taken first. *)
LEMMA SumsTake ==
    ASSUME NEW D, NEW w \in [D -> Nat], NEW S \in SUBSET D, IsFiniteSet(S), NEW f, Sums(f, w, S)
    PROVE  \A s \in SUBSET S : f[s] \in Nat /\ \A x \in s : f[s] = w[x] + f[s \ {x}]
<1> DEFINE T == {s \in SUBSET S : ~(f[s] \in Nat /\ \A x \in s : f[s] = w[x] + f[s \ {x}])}
<1> SUFFICES ASSUME T # {} PROVE FALSE
  OBVIOUS
<1>1. PICK X \in T : \A Y \in SUBSET X : Y # X => Y \notin T
  <2>1. T \in SUBSET SUBSET S
    OBVIOUS
  <2> HIDE DEF T
  <2> QED BY <2>1, SmallestSubset
<1>2. X \in SUBSET S /\ ~(f[X] \in Nat /\ \A x \in X : f[X] = w[x] + f[X \ {x}])
  OBVIOUS
<1>3. ASSUME NEW Y \in SUBSET X, Y # X
      PROVE  f[Y] \in Nat /\ \A x \in Y : f[Y] = w[x] + f[Y \ {x}]
  BY <1>1, <1>2, <1>3
<1> HIDE DEF T
<1>4. X # {}
  <2>1. X = {} => f[X] = 0
    BY <1>2, SumsOf
  <2> QED BY <1>2, <2>1
<1>5. PICK t : t = Taken(X)
  OBVIOUS
<1>6. t \in X /\ f[X] = w[t] + f[X \ {t}] /\ w[t] \in Nat /\ f[X \ {t}] \in Nat
  <2>1. t \in X /\ X \ {t} # X /\ X \ {t} \in SUBSET X
    BY <1>4, <1>5, TakenIn
  <2>2. f[X] = w[t] + f[X \ {t}]
    <3>1. X \in SUBSET S
      BY <1>2
    <3>2. f[X] = w[Taken(X)] + f[X \ {Taken(X)}]
      BY <1>4, <3>1, SumsOf
    <3> QED BY <1>5, <3>2
  <2>3. f[X \ {t}] \in Nat
    BY <1>3, <2>1
  <2>4. w[t] \in Nat
    BY <1>2, <2>1
  <2> QED BY <2>1, <2>2, <2>3, <2>4
<1>7. ASSUME NEW x \in X, x # t PROVE f[X] = w[x] + f[X \ {x}]
  <2>1. /\ X \ {t} \in SUBSET X /\ X \ {t} # X /\ x \in X \ {t}
        /\ X \ {x} \in SUBSET X /\ X \ {x} # X /\ t \in X \ {x}
    BY <1>6, <1>7
  <2>2. f[X \ {t}] = w[x] + f[(X \ {t}) \ {x}]
    BY <1>3, <2>1
  <2>3. f[X \ {x}] = w[t] + f[(X \ {x}) \ {t}]
    BY <1>3, <2>1
  <2>4. (X \ {t}) \ {x} = (X \ {x}) \ {t}
    OBVIOUS
  <2>5. (X \ {x}) \ {t} \in SUBSET X /\ (X \ {x}) \ {t} # X
    BY <2>1
  <2>6. w[x] \in Nat /\ f[(X \ {x}) \ {t}] \in Nat
    BY <1>2, <1>3, <2>5
  <2>7. PICK a, b, c : a = w[t] /\ b = w[x] /\ c = f[(X \ {x}) \ {t}]
    OBVIOUS
  <2>8. a \in Nat /\ b \in Nat /\ c \in Nat
    BY <1>6, <2>6, <2>7
  <2>9. f[X] = a + f[X \ {t}] /\ f[X \ {t}] = b + c
    BY <1>6, <2>2, <2>4, <2>7
  <2>10. f[X \ {x}] = a + c
    BY <2>3, <2>7
  <2>11. f[X] = b + (a + c)
    BY <2>8, <2>9
  <2> QED BY <2>7, <2>10, <2>11
<1>8. f[X] \in Nat
  BY <1>6
<1> QED BY <1>2, <1>6, <1>7, <1>8

LEMMA SumOver ==
    ASSUME NEW w, NEW S, IsFiniteSet(S)
    PROVE  \E f : Sums(f, w, S) /\ SumFunctionOnSet(w, S) = f[S]
<1> DEFINE Def(f) == f = [s \in SUBSET S |->
                            IF s = {} THEN 0 ELSE w[Taken(s)] + f[s \ {Taken(s)}]]
<1>1. SumFunctionOnSet(w, S) = (CHOOSE f : Def(f))[S]
  BY DEF SumFunctionOnSet, FoldFunctionOnSet, MapThenFoldSet, Taken
<1>2. \E f : Def(f)
  <2>1. PICK f : Sums(f, w, S)
    BY SumsExist
  <2> QED BY <2>1 DEF Sums
<1> HIDE DEF Def
<1>3. Def(CHOOSE f : Def(f))
  BY <1>2
<1>4. PICK f : f = CHOOSE h : Def(h)
  OBVIOUS
<1>5. Sums(f, w, S)
  BY <1>3, <1>4 DEF Sums, Def
<1> QED BY <1>1, <1>4, <1>5

(* A sum of naturals is a natural; any member may be added last. *)
LEMMA SumTake ==
    ASSUME NEW S, IsFiniteSet(S), NEW w, \A x \in S : w[x] \in Nat
    PROVE  /\ SumFunctionOnSet(w, S) \in Nat
           /\ S = {} => SumFunctionOnSet(w, S) = 0
           /\ \A x \in S : SumFunctionOnSet(w, S) = w[x] + SumFunctionOnSet(w, S \ {x})
<1>1. PICK f : Sums(f, w, S) /\ SumFunctionOnSet(w, S) = f[S]
  BY SumOver
<1>2. PICK v : v = [x \in S |-> w[x]]
  OBVIOUS
<1>3. v \in [S -> Nat] /\ Sums(f, v, S)
  <2>1. \A s \in SUBSET S : s # {} => v[Taken(s)] = w[Taken(s)]
    BY <1>2, TakenIn
  <2> QED BY <1>1, <1>2, <2>1 DEF Sums
<1>4. \A s \in SUBSET S : f[s] \in Nat /\ \A x \in s : f[s] = v[x] + f[s \ {x}]
  BY <1>3, SumsTake
<1>5. S = {} => f[S] = 0
  BY <1>1, SumsOf
<1>6. ASSUME NEW x \in S PROVE SumFunctionOnSet(w, S) = w[x] + SumFunctionOnSet(w, S \ {x})
  <2>1. IsFiniteSet(S \ {x})
    BY FS_RemoveElement
  <2>2. PICK h : Sums(h, w, S \ {x}) /\ SumFunctionOnSet(w, S \ {x}) = h[S \ {x}]
    BY <2>1, SumOver
  <2>3. PICK r : r = S \ {x}
    OBVIOUS
  <2>4. f[r] = h[r]
    <3>1. Sums(h, w, r) /\ r \subseteq S /\ r \subseteq r
      BY <2>2, <2>3
    <3> QED BY <1>1, <3>1, SumsAgree
  <2>5. f[S] = v[x] + f[r] /\ v[x] = w[x]
    BY <1>2, <1>4, <2>3
  <2> QED BY <1>1, <2>2, <2>3, <2>4, <2>5
<1> QED BY <1>1, <1>4, <1>5, <1>6

(* Sums are linear. *)
LEMMA SumCombine ==
    ASSUME NEW S, IsFiniteSet(S), NEW c \in Nat, NEW u, NEW v, NEW w,
           \A x \in S : v[x] \in Nat /\ w[x] \in Nat /\ u[x] = c * v[x] + w[x]
    PROVE  SumFunctionOnSet(u, S) = c * SumFunctionOnSet(v, S) + SumFunctionOnSet(w, S)
<1> DEFINE Fine(s) ==
             SumFunctionOnSet(u, s) = c * SumFunctionOnSet(v, s) + SumFunctionOnSet(w, s)
           T == {s \in SUBSET S : ~Fine(s)}
<1> SUFFICES ASSUME T # {} PROVE FALSE
  OBVIOUS
<1>1. PICK X \in T : \A Y \in SUBSET X : Y # X => Y \notin T
  <2>1. T \in SUBSET SUBSET S
    OBVIOUS
  <2> HIDE DEF T
  <2> QED BY <2>1, SmallestSubset
<1>2. X \in SUBSET S /\ ~Fine(X) /\ IsFiniteSet(X)
  BY FS_Subset
<1>3. \A x \in S : u[x] \in Nat
  OBVIOUS
<1>4. \A x \in X : u[x] \in Nat /\ v[x] \in Nat /\ w[x] \in Nat /\ u[x] = c * v[x] + w[x]
  BY <1>2, <1>3
<1>5. X # {}
  <2>1. X = {} => /\ SumFunctionOnSet(u, X) = 0 /\ SumFunctionOnSet(v, X) = 0
                  /\ SumFunctionOnSet(w, X) = 0
    BY <1>2, <1>4, SumTake
  <2>2. c * 0 + 0 = 0
    OBVIOUS
  <2> QED BY <1>2, <2>1, <2>2
<1>6. PICK x \in X : TRUE
  BY <1>5
<1>7. PICK Y : Y = X \ {x}
  OBVIOUS
<1>8. Y \in SUBSET X /\ Y # X /\ Y \in SUBSET S /\ IsFiniteSet(Y)
  BY <1>2, <1>7, FS_RemoveElement
<1>9. Fine(Y)
  BY <1>1, <1>8
<1>10. /\ SumFunctionOnSet(u, X) = u[x] + SumFunctionOnSet(u, Y)
       /\ SumFunctionOnSet(v, X) = v[x] + SumFunctionOnSet(v, Y)
       /\ SumFunctionOnSet(w, X) = w[x] + SumFunctionOnSet(w, Y)
  <2>1. SumFunctionOnSet(u, X) = u[x] + SumFunctionOnSet(u, Y)
    BY <1>2, <1>4, <1>7, SumTake
  <2>2. SumFunctionOnSet(v, X) = v[x] + SumFunctionOnSet(v, Y)
    BY <1>2, <1>4, <1>7, SumTake
  <2>3. SumFunctionOnSet(w, X) = w[x] + SumFunctionOnSet(w, Y)
    BY <1>2, <1>4, <1>7, SumTake
  <2> QED BY <2>1, <2>2, <2>3
<1>11. SumFunctionOnSet(v, Y) \in Nat /\ SumFunctionOnSet(w, Y) \in Nat
  <2>1. \A y \in Y : v[y] \in Nat /\ w[y] \in Nat
    BY <1>4, <1>8
  <2> QED BY <1>8, <2>1, SumTake
<1>12. PICK a, b, p, q : /\ a = v[x] /\ b = w[x]
                         /\ p = SumFunctionOnSet(v, Y) /\ q = SumFunctionOnSet(w, Y)
  OBVIOUS
<1>13. a \in Nat /\ b \in Nat /\ p \in Nat /\ q \in Nat
  BY <1>4, <1>11, <1>12
<1>14. (c * a + b) + (c * p + q) = c * (a + p) + (b + q)
  <2>1. c * (a + p) = c * a + c * p
    BY <1>13
  <2>2. c * a \in Nat /\ c * p \in Nat
    BY <1>13
  <2> QED BY <1>13, <2>1, <2>2
<1>15. SumFunctionOnSet(u, X) = (c * a + b) + (c * p + q)
  BY <1>4, <1>9, <1>10, <1>12
<1>16. c * SumFunctionOnSet(v, X) + SumFunctionOnSet(w, X) = c * (a + p) + (b + q)
  BY <1>10, <1>12
<1> QED BY <1>2, <1>14, <1>15, <1>16

LEMMA SumSame ==
    ASSUME NEW S, IsFiniteSet(S), NEW u, NEW w, \A x \in S : w[x] \in Nat /\ u[x] = w[x]
    PROVE  SumFunctionOnSet(u, S) = SumFunctionOnSet(w, S)
<1>1. PICK c \in Nat : c = 0
  OBVIOUS
<1>2. \A x \in S : w[x] \in Nat /\ w[x] \in Nat /\ u[x] = c * w[x] + w[x]
  BY <1>1
<1>3. SumFunctionOnSet(u, S) = c * SumFunctionOnSet(w, S) + SumFunctionOnSet(w, S)
  BY <1>2, SumCombine
<1>4. SumFunctionOnSet(w, S) \in Nat
  BY SumTake
<1> QED BY <1>1, <1>3, <1>4

LEMMA SumAdd ==
    ASSUME NEW S, IsFiniteSet(S), NEW u, NEW v, NEW w,
           \A x \in S : v[x] \in Nat /\ w[x] \in Nat /\ u[x] = v[x] + w[x]
    PROVE  SumFunctionOnSet(u, S) = SumFunctionOnSet(v, S) + SumFunctionOnSet(w, S)
<1>1. PICK c \in Nat : c = 1
  OBVIOUS
<1>2. \A x \in S : v[x] \in Nat /\ w[x] \in Nat /\ u[x] = c * v[x] + w[x]
  BY <1>1
<1>3. SumFunctionOnSet(u, S) = c * SumFunctionOnSet(v, S) + SumFunctionOnSet(w, S)
  BY <1>2, SumCombine
<1>4. SumFunctionOnSet(v, S) \in Nat
  BY SumTake
<1> QED BY <1>1, <1>3, <1>4

LEMMA SumZero ==
    ASSUME NEW S, IsFiniteSet(S), NEW w, \A x \in S : w[x] = 0
    PROVE  SumFunctionOnSet(w, S) = 0
<1>1. \A x \in S : w[x] \in Nat /\ w[x] = w[x] + w[x]
  OBVIOUS
<1>2. SumFunctionOnSet(w, S) = SumFunctionOnSet(w, S) + SumFunctionOnSet(w, S)
  BY <1>1, SumAdd
<1>3. PICK a : a = SumFunctionOnSet(w, S)
  OBVIOUS
<1>4. a \in Nat
  BY <1>1, <1>3, SumTake
<1>5. a = a + a
  BY <1>2, <1>3
<1>6. ASSUME NEW b \in Nat, b = b + b PROVE b = 0
  BY <1>6
<1> QED BY <1>3, <1>4, <1>5, <1>6

LEMMA SumScale ==
    ASSUME NEW S, IsFiniteSet(S), NEW c \in Nat, NEW u, NEW v,
           \A x \in S : v[x] \in Nat /\ u[x] = c * v[x]
    PROVE  SumFunctionOnSet(u, S) = c * SumFunctionOnSet(v, S)
<1>1. PICK w : w = [x \in S |-> 0]
  OBVIOUS
<1>2. \A x \in S : v[x] \in Nat /\ w[x] \in Nat /\ u[x] = c * v[x] + w[x]
  BY <1>1
<1>3. SumFunctionOnSet(u, S) = c * SumFunctionOnSet(v, S) + SumFunctionOnSet(w, S)
  BY <1>2, SumCombine
<1>4. SumFunctionOnSet(w, S) = 0 /\ SumFunctionOnSet(v, S) \in Nat
  BY <1>1, SumZero, SumTake
<1> QED BY <1>3, <1>4

LEMMA SumLess ==
    ASSUME NEW S, IsFiniteSet(S), NEW v, NEW w,
           \A x \in S : v[x] \in Nat /\ w[x] \in Nat /\ v[x] <= w[x]
    PROVE  SumFunctionOnSet(v, S) <= SumFunctionOnSet(w, S)
<1>1. PICK d : d = [x \in S |-> w[x] - v[x]]
  OBVIOUS
<1>2. \A x \in S : v[x] \in Nat /\ d[x] \in Nat /\ w[x] = v[x] + d[x]
  BY <1>1
<1>3. SumFunctionOnSet(w, S) = SumFunctionOnSet(v, S) + SumFunctionOnSet(d, S)
  BY <1>2, SumAdd
<1>4. SumFunctionOnSet(v, S) \in Nat /\ SumFunctionOnSet(d, S) \in Nat
  BY <1>2, SumTake
<1> QED BY <1>3, <1>4

(* A sum of ones and zeros counts the ones. *)
LEMMA SumOfOnes ==
    ASSUME NEW S, IsFiniteSet(S), NEW w, \A x \in S : w[x] \in {0, 1}
    PROVE  SumFunctionOnSet(w, S) = Cardinality({x \in S : w[x] = 1})
<1> DEFINE Ones(s) == {x \in s : w[x] = 1}
           Fine(s) == SumFunctionOnSet(w, s) = Cardinality(Ones(s))
           T == {s \in SUBSET S : ~Fine(s)}
<1> SUFFICES ASSUME T # {} PROVE FALSE
  OBVIOUS
<1>1. PICK X \in T : \A Y \in SUBSET X : Y # X => Y \notin T
  <2>1. T \in SUBSET SUBSET S
    OBVIOUS
  <2> HIDE DEF T
  <2> QED BY <2>1, SmallestSubset
<1>2. X \in SUBSET S /\ ~Fine(X) /\ IsFiniteSet(X)
  BY FS_Subset
<1>3. \A x \in X : w[x] \in Nat /\ w[x] \in {0, 1}
  BY <1>2
<1> HIDE DEF T
<1>4. X # {}
  <2>1. X = {} => SumFunctionOnSet(w, X) = 0
    BY <1>2, <1>3, SumTake
  <2>2. X = {} => Ones(X) = {}
    OBVIOUS
  <2> QED BY <1>2, <2>1, <2>2, FS_EmptySet
<1>5. PICK x \in X : TRUE
  BY <1>4
<1>6. PICK Y : Y = X \ {x}
  OBVIOUS
<1>7. Y \in SUBSET X /\ Y # X /\ IsFiniteSet(Y) /\ Y \in SUBSET S
  BY <1>2, <1>6, FS_RemoveElement
<1>8. Fine(Y)
  BY <1>1, <1>7 DEF T
<1>9. SumFunctionOnSet(w, X) = w[x] + SumFunctionOnSet(w, Y)
  BY <1>2, <1>3, <1>6, SumTake
<1>10. IsFiniteSet(Ones(Y)) /\ IsFiniteSet(Ones(X)) /\ Cardinality(Ones(Y)) \in Nat
  BY <1>2, <1>7, FS_Subset, FS_CardinalityType
<1>11. CASE w[x] = 0
  <2>1. Ones(X) = Ones(Y)
    BY <1>6, <1>11
  <2>2. Cardinality(Ones(X)) = Cardinality(Ones(Y))
    BY <2>1
  <2> QED BY <1>2, <1>8, <1>9, <1>10, <1>11, <2>2
<1>12. CASE w[x] = 1
  <2>1. Ones(X) = Ones(Y) \cup {x} /\ x \notin Ones(Y)
    BY <1>6, <1>12
  <2>2. Cardinality(Ones(X)) = Cardinality(Ones(Y)) + 1
    <3>1. PICK O : O = Ones(Y)
      OBVIOUS
    <3>2. Cardinality(O \cup {x}) = Cardinality(O) + 1
      BY <1>10, <2>1, <3>1, FS_AddElement
    <3> QED BY <2>1, <3>1, <3>2
  <2> QED BY <1>2, <1>8, <1>9, <1>10, <1>12, <2>2
<1> QED BY <1>3, <1>11, <1>12

(* A set is summed part by part. *)
LEMMA SumParts ==
    ASSUME NEW S, IsFiniteSet(S), NEW w, \A x \in S : w[x] \in Nat, NEW A \in SUBSET S
    PROVE  SumFunctionOnSet(w, S) = SumFunctionOnSet(w, A) + SumFunctionOnSet(w, S \ A)
<1> DEFINE Fine(s) ==
             SumFunctionOnSet(w, s) = SumFunctionOnSet(w, s \cap A) + SumFunctionOnSet(w, s \ A)
           T == {s \in SUBSET S : ~Fine(s)}
<1> SUFFICES ASSUME T # {} PROVE FALSE
  <2>1. Fine(S) => S \cap A = A
    OBVIOUS
  <2>2. S \cap A = A
    OBVIOUS
  <2> QED BY <2>2
<1>1. PICK X \in T : \A Y \in SUBSET X : Y # X => Y \notin T
  <2>1. T \in SUBSET SUBSET S
    OBVIOUS
  <2> HIDE DEF T
  <2> QED BY <2>1, SmallestSubset
<1>2. X \in SUBSET S /\ ~Fine(X) /\ IsFiniteSet(X)
  BY FS_Subset
<1>3. \A s \in SUBSET X : IsFiniteSet(s) /\ \A x \in s : w[x] \in Nat
  BY <1>2, FS_Subset
<1> HIDE DEF T
<1>4. X # {}
  <2>1. ASSUME X = {} PROVE FALSE
    <3>1. X \cap A = X /\ X \ A = X
      BY <2>1
    <3>2. SumFunctionOnSet(w, X) = 0
      BY <1>3, <2>1, SumTake
    <3>3. SumFunctionOnSet(w, X \cap A) = 0 /\ SumFunctionOnSet(w, X \ A) = 0
      BY <3>1, <3>2
    <3> QED BY <1>2, <3>2, <3>3
  <2> QED BY <2>1
<1>5. PICK x \in X : TRUE
  BY <1>4
<1>6. PICK Y : Y = X \ {x}
  OBVIOUS
<1>7. Y \in SUBSET X /\ Y # X /\ Y \in SUBSET S
  BY <1>2, <1>6
<1>8. Fine(Y)
  BY <1>1, <1>7 DEF T
<1>9. SumFunctionOnSet(w, X) = w[x] + SumFunctionOnSet(w, Y) /\ w[x] \in Nat
  BY <1>3, <1>6, SumTake
<1>10. /\ SumFunctionOnSet(w, Y \cap A) \in Nat /\ SumFunctionOnSet(w, Y \ A) \in Nat
  <2>1. Y \cap A \in SUBSET X /\ Y \ A \in SUBSET X
    BY <1>7
  <2> QED BY <1>3, <2>1, SumTake
<1>11. CASE x \in A
  <2>1. PICK B : B = X \cap A
    OBVIOUS
  <2>2. B \in SUBSET X /\ x \in B /\ B \ {x} = Y \cap A /\ X \ A = Y \ A
    BY <1>6, <1>11, <2>1
  <2>3. SumFunctionOnSet(w, B) = w[x] + SumFunctionOnSet(w, B \ {x})
    BY <1>3, <2>2, SumTake
  <2>4. SumFunctionOnSet(w, X \cap A) = w[x] + SumFunctionOnSet(w, Y \cap A)
    BY <2>1, <2>2, <2>3
  <2>5. SumFunctionOnSet(w, X \ A) = SumFunctionOnSet(w, Y \ A)
    BY <2>2
  <2> QED BY <1>2, <1>8, <1>9, <1>10, <2>4, <2>5
<1>12. CASE x \notin A
  <2>1. PICK B : B = X \ A
    OBVIOUS
  <2>2. B \in SUBSET X /\ x \in B /\ B \ {x} = Y \ A /\ X \cap A = Y \cap A
    BY <1>6, <1>12, <2>1
  <2>3. SumFunctionOnSet(w, B) = w[x] + SumFunctionOnSet(w, B \ {x})
    BY <1>3, <2>2, SumTake
  <2>4. SumFunctionOnSet(w, X \ A) = w[x] + SumFunctionOnSet(w, Y \ A)
    BY <2>1, <2>2, <2>3
  <2>5. SumFunctionOnSet(w, X \cap A) = SumFunctionOnSet(w, Y \cap A)
    BY <2>2
  <2> QED BY <1>2, <1>8, <1>9, <1>10, <2>4, <2>5
<1> QED BY <1>11, <1>12
-----------------------------------------------------------------------------
(* Ranks.  A ranking says who comes before whom among finitely many; the   *)
(* first k of them are k.                                                  *)

Before(R, S, x) == {y \in S : <<y, x>> \in R}

Ranking(R, S) ==
    /\ \A x \in S : <<x, x>> \notin R
    /\ \A x, y \in S : x # y => <<x, y>> \in R \/ <<y, x>> \in R
    /\ \A x, y, z \in S : <<x, y>> \in R /\ <<y, z>> \in R => <<x, z>> \in R

LEMMA LastOf ==
    ASSUME NEW R, NEW S, Ranking(R, S), IsFiniteSet(S), S # {}
    PROVE  \E m \in S : \A y \in S : y # m => <<y, m>> \in R
<1> DEFINE Fine(s) == \E m \in s : \A y \in s : y # m => <<y, m>> \in R
           T == {s \in SUBSET S : s # {} /\ ~Fine(s)}
<1> SUFFICES ASSUME T # {} PROVE FALSE
  OBVIOUS
<1>1. PICK X \in T : \A Y \in SUBSET X : Y # X => Y \notin T
  <2>1. T \in SUBSET SUBSET S
    OBVIOUS
  <2> HIDE DEF T
  <2> QED BY <2>1, SmallestSubset
<1>2. X \in SUBSET S /\ X # {} /\ ~Fine(X)
  OBVIOUS
<1> HIDE DEF T
<1>3. PICK x \in X : TRUE
  BY <1>2
<1>4. PICK Y : Y = X \ {x}
  OBVIOUS
<1>5. Y # {}
  <2>1. Y = {} => \A y \in X : y = x
    BY <1>4
  <2> QED BY <1>2, <1>3, <2>1
<1>6. Fine(Y)
  <2>1. Y \in SUBSET X /\ Y # X /\ Y \in SUBSET S
    BY <1>2, <1>3, <1>4
  <2> QED BY <1>1, <1>5, <2>1 DEF T
<1>7. PICK m \in Y : \A y \in Y : y # m => <<y, m>> \in R
  BY <1>6
<1>8. m \in S /\ x \in S /\ m \in X /\ m # x /\ Y \in SUBSET S
  BY <1>2, <1>3, <1>4, <1>7
<1>9. CASE <<x, m>> \in R
  <2>1. \A y \in X : y # m => <<y, m>> \in R
    BY <1>4, <1>7, <1>9
  <2> QED BY <1>2, <1>8, <2>1
<1>10. CASE <<m, x>> \in R
  <2>1. ASSUME NEW y \in X, y # x PROVE <<y, x>> \in R
    <3>1. y \in Y /\ y \in S
      BY <1>2, <1>4, <2>1
    <3>2. y = m \/ <<y, m>> \in R
      BY <1>7, <3>1
    <3> QED BY <1>8, <1>10, <3>1, <3>2 DEF Ranking
  <2> QED BY <1>2, <1>3, <2>1
<1> QED BY <1>8, <1>9, <1>10 DEF Ranking

LEMMA FirstOnes ==
    ASSUME NEW R, NEW S, Ranking(R, S), IsFiniteSet(S), NEW k \in 0..Cardinality(S)
    PROVE  Cardinality({x \in S : Cardinality(Before(R, S, x)) < k}) = k
<1> DEFINE First(s, i) == {x \in s : Cardinality(Before(R, s, x)) < i}
           Fine(s) == \A i \in 0..Cardinality(s) : Cardinality(First(s, i)) = i
           T == {s \in SUBSET S : ~Fine(s)}
<1> SUFFICES ASSUME T # {} PROVE FALSE
  OBVIOUS
<1>1. PICK X \in T : \A Y \in SUBSET X : Y # X => Y \notin T
  <2>1. T \in SUBSET SUBSET S
    OBVIOUS
  <2> HIDE DEF T
  <2> QED BY <2>1, SmallestSubset
<1>2. X \in SUBSET S /\ ~Fine(X) /\ IsFiniteSet(X) /\ Ranking(R, X)
  BY FS_Subset DEF Ranking
<1>3. PICK i \in 0..Cardinality(X) : Cardinality(First(X, i)) # i
  BY <1>2
<1>4. Cardinality(X) \in Nat
  BY <1>2, FS_CardinalityType
<1>5. ASSUME NEW x \in X
      PROVE  IsFiniteSet(Before(R, X, x)) /\ Cardinality(Before(R, X, x)) < Cardinality(X)
  <2>1. Before(R, X, x) \in SUBSET (X \ {x}) /\ IsFiniteSet(X \ {x})
    BY <1>2, FS_RemoveElement DEF Before, Ranking
  <2>2. Cardinality(X \ {x}) = Cardinality(X) - 1
    BY <1>2, <1>5, FS_RemoveElement
  <2>3. IsFiniteSet(Before(R, X, x)) /\ Cardinality(Before(R, X, x)) <= Cardinality(X \ {x})
    BY <2>1, FS_Subset
  <2>4. Cardinality(Before(R, X, x)) \in Nat
    BY <2>3, FS_CardinalityType
  <2> QED BY <1>4, <2>2, <2>3, <2>4
<1>6. i # Cardinality(X)
  <2>1. i = Cardinality(X) => First(X, i) = X
    BY <1>5
  <2> QED BY <1>3, <2>1
<1>7. X # {}
  <2>1. X = {} => Cardinality(X) = 0
    BY FS_EmptySet
  <2> QED BY <1>3, <1>6, <2>1
<1>8. PICK m \in X : \A y \in X : y # m => <<y, m>> \in R
  BY <1>2, <1>7, LastOf
<1>9. PICK Y : Y = X \ {m}
  OBVIOUS
<1>10. /\ Y \in SUBSET X /\ Y # X /\ Y \in SUBSET S /\ IsFiniteSet(Y)
       /\ Cardinality(Y) = Cardinality(X) - 1
  BY <1>2, <1>9, FS_RemoveElement
<1>11. Fine(Y)
  BY <1>1, <1>10
<1> HIDE DEF T
<1>12. i \in 0..Cardinality(Y)
  BY <1>3, <1>4, <1>6, <1>10
<1>13. Before(R, X, m) = Y
  BY <1>2, <1>8, <1>9 DEF Before, Ranking
<1>14. ASSUME NEW x \in Y PROVE Before(R, X, x) = Before(R, Y, x)
  <2>1. <<x, m>> \in R /\ x \in X
    BY <1>8, <1>9
  <2>2. <<m, x>> \notin R
    BY <1>2, <1>8, <2>1 DEF Ranking
  <2> QED BY <1>9, <2>2 DEF Before
<1>15. First(X, i) = First(Y, i)
  <2>1. ~(Cardinality(Before(R, X, m)) < i)
    BY <1>4, <1>10, <1>12, <1>13
  <2>2. \A x \in Y : x \in First(X, i) <=> x \in First(Y, i)
    BY <1>10, <1>14
  <2>3. m \notin First(X, i) /\ m \notin Y
    BY <1>9, <2>1
  <2>4. First(X, i) \subseteq X /\ First(Y, i) \subseteq Y
    OBVIOUS
  <2> QED BY <1>9, <2>2, <2>3, <2>4
<1> QED BY <1>3, <1>11, <1>12, <1>15

LEMMA Divided ==
    ASSUME NEW a \in Nat, NEW d \in Nat \ {0}
    PROVE  a \div d \in Nat /\ a % d \in 0..d - 1 /\ a = d * (a \div d) + (a % d)
<1>1. a % d \in 0..d - 1 /\ a \div d \in Int
  OBVIOUS
<1>2. a = d * (a \div d) + (a % d)
  OBVIOUS
<1>3. a \div d >= 0
  BY <1>1, <1>2
<1> QED BY <1>1, <1>2, <1>3

LEMMA Product == \A a, b \in Nat : a * b \in Nat
  OBVIOUS

(* Whole shares and, for the first k of a ranking, a unit each. *)
LEMMA ExtraUnits ==
    ASSUME NEW R, NEW S, Ranking(R, S), IsFiniteSet(S), NEW k \in 0..Cardinality(S), NEW c, NEW f,
           \A x \in S : /\ c[x] \in Nat
                        /\ f[x] = c[x] + (IF Cardinality(Before(R, S, x)) < k THEN 1 ELSE 0)
    PROVE  SumFunctionOnSet(f, S) = SumFunctionOnSet(c, S) + k
<1>1. PICK e : e = [x \in S |-> IF Cardinality(Before(R, S, x)) < k THEN 1 ELSE 0]
  OBVIOUS
<1>2. \A x \in S : e[x] \in {0, 1}
  BY <1>1
<1>3. SumFunctionOnSet(e, S) = Cardinality({x \in S : e[x] = 1})
  BY <1>2, SumOfOnes
<1>4. {x \in S : e[x] = 1} = {x \in S : Cardinality(Before(R, S, x)) < k}
  BY <1>1
<1>5. SumFunctionOnSet(e, S) = k
  BY <1>3, <1>4, FirstOnes
<1>6. \A x \in S : c[x] \in Nat /\ e[x] \in Nat /\ f[x] = c[x] + e[x]
  BY <1>1
<1>7. SumFunctionOnSet(f, S) = SumFunctionOnSet(c, S) + SumFunctionOnSet(e, S)
  BY <1>6, SumAdd
<1> QED BY <1>5, <1>7

LEMMA SumConstant ==
    ASSUME NEW S, IsFiniteSet(S), NEW c \in Nat, NEW w, \A x \in S : w[x] = c
    PROVE  SumFunctionOnSet(w, S) = c * Cardinality(S)
<1>1. PICK one : one = [x \in S |-> 1]
  OBVIOUS
<1>2. SumFunctionOnSet(one, S) = Cardinality(S)
  <2>1. {x \in S : one[x] = 1} = S /\ \A x \in S : one[x] \in {0, 1}
    BY <1>1
  <2> QED BY <2>1, SumOfOnes
<1>3. \A x \in S : one[x] \in Nat /\ w[x] = c * one[x]
  BY <1>1
<1> QED BY <1>2, <1>3, SumScale

LEMMA NumbersRank ==
    ASSUME NEW S \in SUBSET Nat
    PROVE  \E R : Ranking(R, S) /\ \A p \in S : Before(R, S, p) = {q \in S : q < p}
<1>1. PICK R : R = {r \in S \X S : r[1] < r[2]}
  OBVIOUS
<1>2. \A x, y \in S : <<x, y>> \in R <=> x < y
  BY <1>1
<1>3. Ranking(R, S)
  <2>1. \A x \in S : <<x, x>> \notin R
    BY <1>2
  <2>2. \A x, y \in S : x # y => <<x, y>> \in R \/ <<y, x>> \in R
    BY <1>2
  <2>3. \A x, y, z \in S : <<x, y>> \in R /\ <<y, z>> \in R => <<x, z>> \in R
    BY <1>2
  <2> QED BY <2>1, <2>2, <2>3 DEF Ranking
<1>4. \A p \in S : Before(R, S, p) = {q \in S : q < p}
  BY <1>2 DEF Before
<1> QED BY <1>3, <1>4

(* Half a weight divided over the points of a person is used up, and the   *)
(* parts differ by a unit at most.                                         *)
LEMMA DividedEvenly ==
    ASSUME NEW S, IsFiniteSet(S), S # {}, NEW h \in Nat,
           NEW R, Ranking(R, S), \A p \in S : Before(R, S, p) = {q \in S : q < p},
           NEW f, \A p \in S : f[p] = PointShare(h, S, p)
    PROVE  SumFunctionOnSet(f, S) = h /\ \A p, q \in S : f[p] \in Nat /\ f[p] <= f[q] + 1
<1>1. PICK n : n = Cardinality(S)
  OBVIOUS
<1>2. n \in Nat \ {0}
  BY <1>1, FS_CardinalityType, FS_EmptySet
<1>3. PICK a, k : a = h \div n /\ k = h % n
  OBVIOUS
<1>4. a \in Nat /\ k \in 0..n - 1 /\ h = n * a + k
  BY <1>2, <1>3, Divided
<1>9. PICK c : c = [p \in S |-> a]
  OBVIOUS
<1>10. \A p \in S : /\ c[p] \in Nat
                    /\ f[p] = c[p] + (IF Cardinality(Before(R, S, p)) < k THEN 1 ELSE 0)
  <2>1. ASSUME NEW p \in S
        PROVE  f[p] = a + (IF Cardinality({q \in S : q < p}) < k THEN 1 ELSE 0)
    BY <1>1, <1>3 DEF PointShare, Rank
  <2> QED BY <1>4, <1>9, <2>1
<1>11. SumFunctionOnSet(f, S) = SumFunctionOnSet(c, S) + k
  <2>1. k \in 0..Cardinality(S)
    BY <1>1, <1>2, <1>4
  <2> QED BY <1>10, <2>1, ExtraUnits
<1>12. SumFunctionOnSet(c, S) = a * n
  BY <1>1, <1>4, <1>9, SumConstant
<1>14. SumFunctionOnSet(f, S) = a * n + k
  BY <1>11, <1>12
<1>15. a * n + k = h
  BY <1>2, <1>4
<1>16. \A p, q \in S : f[p] \in Nat /\ f[p] <= f[q] + 1
  BY <1>4, <1>9, <1>10
<1> QED BY <1>14, <1>15, <1>16
-----------------------------------------------------------------------------
WeightsOK ==
    /\ share \in [People -> 1..MaxShare]
    /\ reacts \in [People -> SUBSET Targets]

LEMMA WeightsShape ==
    /\ IsFiniteSet(People) /\ Cardinality(People) \in Nat /\ Units \in Nat \ {0}
    /\ People \in SUBSET Nat /\ Targets \in SUBSET Nat
    /\ \A S \in SUBSET Targets : IsFiniteSet(S)
    /\ \A u \in People : Cardinality(People) \in Nat \ {0}
<1>1. IsFiniteSet(People) /\ Cardinality(People) \in Nat
  BY WeightsAssumption, FS_CardinalityType
<1>2. People # {} => Cardinality(People) # 0
  BY <1>1, FS_EmptySet
<1>3. \A S \in SUBSET Targets : IsFiniteSet(S)
  BY WeightsAssumption, FS_Subset
<1> QED BY <1>1, <1>2, <1>3, WeightsAssumption

(* What each is owed, as a fraction of the sum of all shares. *)
LEMMA QuotaParts ==
    ASSUME WeightsOK, NEW t, t = SumFunction(share), NEW u \in People
    PROVE  /\ t \in Nat \ {0} /\ Quota(u) \in Nat /\ Whole[u] \in Nat
           /\ Fraction[u] \in 0..t - 1 /\ Quota(u) = t * Whole[u] + Fraction[u]
<1>1. DOMAIN share = People /\ \A x \in People : share[x] \in Nat \ {0}
  BY WeightsAssumption DEF WeightsOK
<1>2. t = SumFunctionOnSet(share, People)
  BY <1>1 DEF SumFunction
<1>3. t \in Nat \ {0}
  <2>1. IsFiniteSet(People) /\ \A x \in People : share[x] \in Nat
    BY <1>1, WeightsShape
  <2>2. t = share[u] + SumFunctionOnSet(share, People \ {u})
    BY <1>2, <2>1, SumTake
  <2>3. SumFunctionOnSet(share, People \ {u}) \in Nat
    <3>1. IsFiniteSet(People \ {u})
      BY <2>1, FS_RemoveElement
    <3>2. \A x \in People \ {u} : share[x] \in Nat
      BY <2>1
    <3> QED BY <3>1, <3>2, SumTake
  <2> QED BY <1>1, <2>2, <2>3
<1>4. Quota(u) \in Nat
  <2>1. PICK n : n = Cardinality(People)
    OBVIOUS
  <2>2. n \in Nat /\ Units \in Nat /\ share[u] \in Nat
    BY <1>1, <2>1, WeightsShape
  <2>3. share[u] * n \in Nat
    BY <2>2
  <2>4. share[u] * n * Units \in Nat
    BY <2>2, <2>3
  <2> QED BY <2>1, <2>4 DEF Quota
<1>5. Whole[u] = Quota(u) \div t /\ Fraction[u] = Quota(u) % t
  BY DEF Whole, Fraction
<1>6. PICK a : a = Quota(u)
  OBVIOUS
<1>7. a \div t \in Nat /\ a % t \in 0..t - 1 /\ a = t * (a \div t) + (a % t)
  BY <1>3, <1>4, <1>6, Divided
<1> QED BY <1>3, <1>4, <1>5, <1>6, <1>7

LEMMA Between ==
    ASSUME NEW t \in Nat \ {0}, NEW n \in Nat \ {0}, NEW r \in Int,
           0 <= t * r, t * r <= (t - 1) * n
    PROVE  r \in 0..n
<1>1. ~(r < 0)
  <2>1. ASSUME r < 0 PROVE FALSE
    <3>1. PICK k \in Nat : k = 0 - (r + 1)
      BY <2>1
    <3>2. t * k \in Nat
      BY Product
    <3>3. t * r = 0 - (t * k + t)
      BY <3>1
    <3> QED BY <3>2, <3>3
  <2> QED BY <2>1
<1>2. ~(r > n)
  <2>1. ASSUME r > n PROVE FALSE
    <3>1. PICK k \in Nat : r = n + k
      <4>1. r - n \in Nat /\ r = n + (r - n)
        BY <2>1
      <4> QED BY <4>1
    <3>2. t * k \in Nat /\ t * n \in Nat
      BY Product
    <3>3. t * r = t * n + t * k
      BY <3>1
    <3>4. (t - 1) * n = t * n - n
      OBVIOUS
    <3> QED BY <3>2, <3>3, <3>4
  <2> QED BY <2>1
<1> QED BY <1>1, <1>2

(* The units left after cutting fractions off are fewer than people. *)
LEMMA RemainderSmall ==
    ASSUME WeightsOK
    PROVE  Remainder \in 0..Cardinality(People)
<1>1. PICK n, c, t, W, F : /\ n = Cardinality(People) /\ c = n * Units /\ t = SumFunction(share)
                           /\ W = SumFunction(Whole) /\ F = SumFunction(Fraction)
  OBVIOUS
<1>2. /\ W = SumFunctionOnSet(Whole, People) /\ F = SumFunctionOnSet(Fraction, People)
      /\ t = SumFunctionOnSet(share, People)
  <2>1. DOMAIN Whole = People /\ DOMAIN Fraction = People /\ DOMAIN share = People
    BY DEF Whole, Fraction, WeightsOK
  <2> QED BY <1>1, <2>1 DEF SumFunction
<1>3. \A u \in People : /\ t \in Nat \ {0} /\ Quota(u) \in Nat /\ Whole[u] \in Nat
                         /\ Fraction[u] \in 0..t - 1 /\ Quota(u) = t * Whole[u] + Fraction[u]
  BY <1>1, QuotaParts
<1>4. n \in Nat /\ c \in Nat /\ IsFiniteSet(People)
  BY <1>1, WeightsShape
<1>5. CASE People = {}
  <2>1. n = 0 /\ c = 0
    <3>1. n = 0
      BY <1>1, <1>5, FS_EmptySet
    <3> QED BY <1>1, <3>1, WeightsShape
  <2>2. W = 0
    BY <1>2, <1>4, <1>5, SumTake
  <2> QED BY <1>1, <2>1, <2>2 DEF Remainder
<1>6. CASE People # {}
  <2>1. t \in Nat \ {0} /\ n \in Nat \ {0}
    BY <1>1, <1>3, <1>6, WeightsShape
  <2>2. PICK q : q = [u \in People |-> Quota(u)]
    OBVIOUS
  <2>3. SumFunctionOnSet(q, People) = c * t
    <3>1. \A u \in People : share[u] \in Nat /\ q[u] = c * share[u]
      <4>1. SUFFICES ASSUME NEW u \in People PROVE share[u] \in Nat /\ q[u] = c * share[u]
        OBVIOUS
      <4>2. share[u] \in Nat
        BY WeightsAssumption DEF WeightsOK
      <4>3. Units \in Nat
        BY WeightsShape
      <4>4. share[u] * n * Units = n * Units * share[u]
        BY <1>4, <4>2, <4>3
      <4> QED BY <1>1, <2>2, <4>2, <4>4 DEF Quota
    <3> QED BY <1>2, <1>4, <3>1, SumScale
  <2>4. SumFunctionOnSet(q, People) = t * W + F
    <3>1. \A u \in People : Whole[u] \in Nat /\ Fraction[u] \in Nat /\ q[u] = t * Whole[u] + Fraction[u]
      BY <1>3, <2>2
    <3>2. t \in Nat
      BY <2>1
    <3> QED BY <1>2, <1>4, <3>1, <3>2, SumCombine
  <2>5. W \in Nat /\ F \in Nat
    <3>1. \A u \in People : Whole[u] \in Nat /\ Fraction[u] \in Nat
      BY <1>3
    <3> QED BY <1>2, <1>4, <3>1, SumTake
  <2>6. F <= (t - 1) * n
    <3>1. PICK m : m = [u \in People |-> t - 1]
      OBVIOUS
    <3>2. SumFunctionOnSet(m, People) = (t - 1) * n
      <4>1. t - 1 \in Nat /\ \A u \in People : m[u] = t - 1
        BY <2>1, <3>1
      <4> QED BY <1>1, <1>4, <4>1, SumConstant
    <3>3. \A u \in People : Fraction[u] \in Nat /\ m[u] \in Nat /\ Fraction[u] <= m[u]
      BY <1>3, <2>1, <3>1
    <3>4. SumFunctionOnSet(Fraction, People) <= SumFunctionOnSet(m, People)
      BY <1>4, <3>3, SumLess
    <3> QED BY <1>2, <3>2, <3>4
  <2>7. t * (c - W) = F
    <3>1. c * t = t * W + F
      BY <2>3, <2>4
    <3>2. t * (c - W) = c * t - t * W /\ t * W \in Nat
      BY <1>4, <2>1, <2>5
    <3> QED BY <2>5, <3>1, <3>2
  <2>8. PICK r \in Int : r = c - W
    BY <1>4, <2>5
  <2>9. 0 <= t * r /\ t * r <= (t - 1) * n
    BY <2>5, <2>6, <2>7, <2>8
  <2>10. r \in 0..n
    BY <2>1, <2>9, Between
  <2> QED BY <1>1, <2>8, <2>10 DEF Remainder
<1> QED BY <1>5, <1>6
LEMMA PeopleRank ==
    ASSUME WeightsOK, NEW F, F = Fraction
    PROVE  \E R : /\ Ranking(R, People)
                  /\ \A u \in People : Before(R, People, u) = {v \in People : Ahead(F, v, u)}
                  /\ \A u, v \in People : <<v, u>> \in R <=> Ahead(F, v, u)
<1>1. PICK R : R = {r \in People \X People : Ahead(F, r[1], r[2])}
  OBVIOUS
<1>2. \A x, y \in People : <<x, y>> \in R <=> Ahead(F, x, y)
  BY <1>1
<1>3. \A u \in People : F[u] \in Int /\ u \in Int
  <2>1. SUFFICES ASSUME NEW u \in People PROVE F[u] \in Int /\ u \in Int
    OBVIOUS
  <2>2. PICK t : t = SumFunction(share)
    OBVIOUS
  <2>3. t \in Nat \ {0} /\ F[u] \in 0..t - 1
    BY <2>2, QuotaParts
  <2> QED BY <2>3, WeightsShape
<1>4. Ranking(R, People)
  <2>1. \A x \in People : <<x, x>> \notin R
    BY <1>2, <1>3 DEF Ahead
  <2>2. \A x, y \in People : x # y => <<x, y>> \in R \/ <<y, x>> \in R
    BY <1>2, <1>3 DEF Ahead
  <2>3. \A x, y, z \in People : <<x, y>> \in R /\ <<y, z>> \in R => <<x, z>> \in R
    BY <1>2, <1>3 DEF Ahead
  <2> QED BY <2>1, <2>2, <2>3 DEF Ranking
<1>5. \A u \in People : Before(R, People, u) = {v \in People : Ahead(F, v, u)}
  BY <1>2 DEF Before
<1> QED BY <1>2, <1>4, <1>5

(* Nothing is lost by cutting off and handing out the units, and whoever   *)
(* is trusted more does not get less.                                      *)
LEMMA HalvesSum ==
    ASSUME WeightsOK, NEW half, half = Halves
    PROVE  /\ DOMAIN half = People /\ \A u \in People : half[u] \in Nat
           /\ SumFunctionOnSet(half, People) = Cardinality(People) * Units
<1>1. PICK F, x : F = Fraction /\ x = Remainder
  OBVIOUS
<1>2. PICK R : /\ Ranking(R, People)
               /\ \A u \in People : Before(R, People, u) = {v \in People : Ahead(F, v, u)}
  BY <1>1, PeopleRank
<1>3. x \in 0..Cardinality(People) /\ IsFiniteSet(People)
  BY <1>1, RemainderSmall, WeightsShape
<1>4. DOMAIN half = People
  BY DEF Halves
<1>5. ASSUME NEW u \in People
      PROVE  /\ Whole[u] \in Nat
             /\ half[u] = Whole[u] + (IF Cardinality(Before(R, People, u)) < x THEN 1 ELSE 0)
  <2>1. Whole[u] \in Nat
    BY QuotaParts
  <2>2. half[u] = Whole[u] + (IF Cardinality({v \in People : Ahead(F, v, u)}) < x THEN 1 ELSE 0)
    BY <1>1 DEF Halves
  <2> QED BY <1>2, <2>1, <2>2
<1>6. SumFunctionOnSet(half, People) = SumFunctionOnSet(Whole, People) + x
  BY <1>2, <1>3, <1>5, ExtraUnits
<1>7. SumFunctionOnSet(Whole, People) + x = Cardinality(People) * Units
  <2>1. SumFunction(Whole) = SumFunctionOnSet(Whole, People)
    BY DEF SumFunction, Whole
  <2>2. SumFunctionOnSet(Whole, People) \in Nat
    BY <1>3, <1>5, SumTake
  <2>3. Cardinality(People) * Units \in Nat
    <3>1. PICK n : n = Cardinality(People)
      OBVIOUS
    <3>2. n \in Nat /\ Units \in Nat
      BY <3>1, WeightsShape
    <3> QED BY <3>1, <3>2, Product
  <2> QED BY <1>1, <2>1, <2>2, <2>3 DEF Remainder
<1>8. \A u \in People : half[u] \in Nat
  BY <1>5
<1> QED BY <1>4, <1>6, <1>7, <1>8

LEMMA HalvesOrder ==
    ASSUME WeightsOK, NEW half, half = Halves, NEW u \in People, NEW v \in People,
           share[u] > share[v]
    PROVE  half[u] >= half[v]
<1>1. PICK F, x, t : F = Fraction /\ x = Remainder /\ t = SumFunction(share)
  OBVIOUS
<1>2. PICK R : /\ Ranking(R, People)
               /\ \A y \in People : Before(R, People, y) = {z \in People : Ahead(F, z, y)}
               /\ \A y, z \in People : <<z, y>> \in R <=> Ahead(F, z, y)
  BY <1>1, PeopleRank
<1>3. PICK a, b : a = Whole[u] /\ b = Whole[v]
  OBVIOUS
<1>4. /\ t \in Nat \ {0} /\ a \in Nat /\ b \in Nat /\ F[u] \in 0..t - 1 /\ F[v] \in 0..t - 1
      /\ Quota(u) = t * a + F[u] /\ Quota(v) = t * b + F[v]
  <2>1. /\ t \in Nat \ {0} /\ Whole[u] \in Nat /\ F[u] \in 0..t - 1
        /\ Quota(u) = t * Whole[u] + F[u]
    BY <1>1, QuotaParts
  <2>2. Whole[v] \in Nat /\ F[v] \in 0..t - 1 /\ Quota(v) = t * Whole[v] + F[v]
    BY <1>1, QuotaParts
  <2> QED BY <1>3, <2>1, <2>2
<1>5. Quota(u) > Quota(v)
  <2>1. PICK c : c = Cardinality(People) * Units
    OBVIOUS
  <2>2. c \in Nat \ {0}
    <3>1. PICK n \in Nat \ {0} : n = Cardinality(People)
      BY WeightsShape
    <3> QED BY <2>1, <3>1, WeightsShape
  <2>3. ASSUME NEW y \in People PROVE share[y] \in Nat /\ Quota(y) = c * share[y]
    <3>1. share[y] \in Nat
      BY WeightsAssumption DEF WeightsOK
    <3>2. PICK n \in Nat : n = Cardinality(People)
      BY WeightsShape
    <3>3. Units \in Nat
      BY WeightsShape
    <3>4. share[y] * n * Units = n * Units * share[y]
      BY <3>1, <3>2, <3>3
    <3> QED BY <2>1, <3>1, <3>2, <3>4 DEF Quota
  <2>4. PICK p, q : p = share[u] /\ q = share[v]
    OBVIOUS
  <2>5. PICK d \in Nat \ {0} : p = q + d
    <3>1. p \in Nat /\ q \in Nat /\ p > q
      BY <2>3, <2>4
    <3>2. p - q \in Nat \ {0} /\ p = q + (p - q)
      BY <3>1
    <3> QED BY <3>2
  <2>6. c * p = c * q + c * d /\ c * d \in Nat \ {0} /\ c * q \in Nat
    BY <2>2, <2>3, <2>4, <2>5
  <2> QED BY <2>3, <2>4, <2>6
<1>6. ASSUME NEW y \in People
      PROVE  half[y] = Whole[y] + (IF Cardinality(Before(R, People, y)) < x THEN 1 ELSE 0)
  <2>1. half[y] = Whole[y] + (IF Cardinality({z \in People : Ahead(F, z, y)}) < x THEN 1 ELSE 0)
    BY <1>1 DEF Halves
  <2> QED BY <1>2, <2>1
<1>7. a >= b
  <2>1. ASSUME a < b PROVE FALSE
    <3>1. PICK k \in Nat : b = a + k + 1
      <4>1. b - a - 1 \in Nat /\ b = a + (b - a - 1) + 1
        BY <1>4, <2>1
      <4> QED BY <4>1
    <3>2. t * b = t * a + t * k + t /\ t * a \in Nat /\ t * k \in Nat
      BY <1>4, <3>1
    <3> QED BY <1>4, <1>5, <3>2
  <2> QED BY <1>4, <2>1
<1>8. CASE a > b
  BY <1>3, <1>4, <1>6, <1>8
<1>9. CASE a = b
  <2>1. F[u] > F[v]
    <3>1. t * a \in Nat
      BY <1>4
    <3> QED BY <1>4, <1>5, <1>9, <3>1
  <2>2. Before(R, People, u) \in SUBSET Before(R, People, v)
    <3>1. <<u, v>> \in R
      BY <1>2, <2>1 DEF Ahead
    <3> QED BY <1>2, <3>1 DEF Ranking, Before
  <2>3. IsFiniteSet(Before(R, People, v)) /\ IsFiniteSet(Before(R, People, u))
    BY WeightsShape, FS_Subset DEF Before
  <2>4. PICK i, j : i = Cardinality(Before(R, People, u)) /\ j = Cardinality(Before(R, People, v))
    OBVIOUS
  <2>5. i \in Nat /\ j \in Nat /\ i <= j
    BY <2>2, <2>3, <2>4, FS_Subset, FS_CardinalityType
  <2>6. x \in Int
    <3>1. Cardinality(People) \in Nat
      BY WeightsShape
    <3> QED BY <1>1, <3>1, RemainderSmall
  <2>7. half[u] = a + (IF i < x THEN 1 ELSE 0) /\ half[v] = b + (IF j < x THEN 1 ELSE 0)
    BY <1>3, <1>6, <2>4
  <2> QED BY <1>4, <1>9, <2>5, <2>6, <2>7
<1> QED BY <1>4, <1>7, <1>8, <1>9

(* What the points of all people get and what those without points keep. *)
LEMMA GivenSum ==
    ASSUME WeightsOK, NEW half, half = Halves,
           NEW given, given = [u \in People |-> SumFunction(Allocated(half, u))]
    PROVE  /\ \A u \in People : reacts[u] # {} => given[u] = half[u]
           /\ \A u \in People : \A p, q \in reacts[u] :
                  Allocated(half, u)[p] <= Allocated(half, u)[q] + 1
           /\ SumFunction(given) + IdleUnits(half) = Cardinality(People) * Units
<1>1. \A u \in People : half[u] \in Nat
  BY HalvesSum
<1>2. ASSUME NEW u \in People, reacts[u] # {}
      PROVE  /\ given[u] = half[u]
             /\ \A p, q \in reacts[u] : Allocated(half, u)[p] <= Allocated(half, u)[q] + 1
  <2>1. PICK S, h, f : S = reacts[u] /\ h = half[u] /\ f = Allocated(half, u)
    OBVIOUS
  <2>2. IsFiniteSet(S) /\ S # {} /\ h \in Nat
    BY <1>1, <1>2, <2>1, WeightsShape DEF WeightsOK
  <2>3. DOMAIN f = S /\ \A p \in S : f[p] = PointShare(h, S, p)
    BY <2>1 DEF Allocated
  <2>4. PICK R : Ranking(R, S) /\ \A p \in S : Before(R, S, p) = {q \in S : q < p}
    <3>1. S \in SUBSET Nat
      BY <2>1, WeightsShape DEF WeightsOK
    <3> QED BY <3>1, NumbersRank
  <2>5. SumFunctionOnSet(f, S) = h /\ \A p, q \in S : f[p] \in Nat /\ f[p] <= f[q] + 1
    BY <2>2, <2>3, <2>4, DividedEvenly
  <2>6. given[u] = SumFunctionOnSet(f, S)
    BY <2>1, <2>3 DEF SumFunction
  <2> QED BY <2>1, <2>5, <2>6
<1>3. ASSUME NEW u \in People, reacts[u] = {} PROVE given[u] = 0
  <2>1. PICK f : f = Allocated(half, u)
    OBVIOUS
  <2>2. DOMAIN f = {}
    BY <1>3, <2>1 DEF Allocated
  <2>3. given[u] = SumFunctionOnSet(f, {})
    BY <2>1, <2>2 DEF SumFunction
  <2>4. IsFiniteSet({}) /\ \A p \in {} : f[p] \in Nat
    BY FS_EmptySet
  <2>5. SumFunctionOnSet(f, {}) = 0
    BY <2>4, SumTake
  <2> QED BY <2>3, <2>5
<1>4. PICK I, B : I = {u \in People : reacts[u] = {}} /\ B = People \ I
  OBVIOUS
<1>5. /\ I \in SUBSET People /\ IsFiniteSet(People) /\ IsFiniteSet(I) /\ IsFiniteSet(B)
  BY <1>4, WeightsShape, FS_Subset
<1>6. \A u \in People : given[u] \in Nat
  BY <1>1, <1>2, <1>3
<1>7. SumFunctionOnSet(given, People) = SumFunctionOnSet(given, I) + SumFunctionOnSet(given, B)
  BY <1>4, <1>5, <1>6, SumParts
<1>8. SumFunctionOnSet(half, People) = SumFunctionOnSet(half, I) + SumFunctionOnSet(half, B)
  BY <1>1, <1>4, <1>5, SumParts
<1>9. SumFunctionOnSet(given, I) = 0
  <2>1. \A u \in I : given[u] = 0
    BY <1>3, <1>4
  <2> QED BY <1>5, <2>1, SumZero
<1>10. SumFunctionOnSet(given, B) = SumFunctionOnSet(half, B)
  <2>1. \A u \in B : half[u] \in Nat /\ given[u] = half[u]
    BY <1>1, <1>2, <1>4
  <2> QED BY <1>5, <2>1, SumSame
<1>11. SumFunctionOnSet(half, I) \in Nat /\ SumFunctionOnSet(half, B) \in Nat
  <2>1. \A s \in {I, B} : IsFiniteSet(s) /\ \A u \in s : half[u] \in Nat
    BY <1>1, <1>4, <1>5
  <2> QED BY <2>1, SumTake
<1>12. SumFunctionOnSet(half, People) = Cardinality(People) * Units
  BY HalvesSum
<1>13. SumFunction(given) = SumFunctionOnSet(given, People) /\ IdleUnits(half) = SumFunctionOnSet(half, I)
  BY <1>4 DEF SumFunction, IdleUnits
<1> QED BY <1>2, <1>7, <1>8, <1>9, <1>10, <1>11, <1>12, <1>13

(* No unit of influence is made or lost, whatever the trust, the number of *)
(* people and what they react to; who is trusted more never weighs less;   *)
(* and the points of one person differ by at most a unit (calculate).      *)
THEOREM InfluenceIsConserved == WeightsSpec => []InfluenceConserved
<1>1. WeightsInit => WeightsOK
  BY DEF WeightsInit, WeightsOK
<1>2. WeightsOK /\ [WeightsNext]_weights => WeightsOK'
  BY DEF WeightsOK, WeightsNext, React, weights
<1>3. ASSUME WeightsOK PROVE InfluenceConserved
  <2>1. PICK half : half = Halves
    OBVIOUS
  <2>2. PICK given : given = [u \in People |-> SumFunction(Allocated(half, u))]
    OBVIOUS
  <2>3. Remainder \in 0..Cardinality(People)
    BY <1>3, RemainderSmall
  <2>4. SumFunction(half) = Cardinality(People) * Units
    BY <1>3, <2>1, HalvesSum DEF SumFunction
  <2>5. \A u, v \in People : share[u] > share[v] => half[u] >= half[v]
    BY <1>3, <2>1, HalvesOrder
  <2>6. /\ \A u \in People : reacts[u] # {} => given[u] = half[u]
        /\ \A u \in People : \A p, q \in reacts[u] :
               Allocated(half, u)[p] <= Allocated(half, u)[q] + 1
        /\ SumFunction(given) + IdleUnits(half) = Cardinality(People) * Units
    BY <1>3, <2>1, <2>2, GivenSum
  <2> QED BY <2>1, <2>2, <2>3, <2>4, <2>5, <2>6 DEF InfluenceConserved
<1> QED BY <1>1, <1>2, <1>3, PTL DEF WeightsSpec

-----------------------------------------------------------------------------
(* The graph of Social. *)

USE SetsAssumption, BoundsAssumption, NoProposalAssumption

Stance(g) ==
    \A u \in Users, p \in Points : g.support[u][p] = NoPin \/ g.blocked[u][p] = NoPin

(* The ballots of the proposal q on p belong to people pinned to the text  *)
(* they voted for.                                                         *)
Backed(g, p, q) ==
    \A u \in Users :
        /\ q.ballot[u] # "none" => g.support[u][p] # NoPin
        /\ g.text[p] = q.base =>
            /\ q.ballot[u] = "old" => g.support[u][p] = q.base
            /\ q.ballot[u] = "new" => g.support[u][p] = q.candidate

(* A text that has been replaced never comes back to a proposal's base.    *)
Counted(g, m) ==
    \A p \in Points :
        /\ g.text[p] <= m[p]
        /\ IsOpen(g, p) => /\ p \in Posts
                           /\ g.proposal[p].base <= m[p]
                           /\ g.proposal[p].candidate <= m[p]

Ballots(g) == \A p \in Points : IsOpen(g, p) => Backed(g, p, g.proposal[p])

Bare(g) == \A p \in g.purged : Unsupported(g, p) /\ ~IsOpen(g, p)

Good(g, m) == g \in GraphType /\ Stance(g) /\ Counted(g, m) /\ Ballots(g) /\ Bare(g)

IInv == TypeOK /\ Good(graph, minted)

Counts == [Points -> OptPin]
-----------------------------------------------------------------------------
(* Fields of graphs. *)

LEMMA GraphFields ==
    ASSUME NEW g \in GraphType
    PROVE  /\ g.text \in [Points -> OptPin]
           /\ g.dirty \in SUBSET Posts
           /\ g.purged \in SUBSET Points
           /\ g.support \in [Users -> [Points -> OptPin]]
           /\ g.blocked \in [Users -> [Points -> OptPin]]
           /\ g.proposal \in [Points -> Proposal \cup {NoProposal}]
  BY DEF GraphType

LEMMA OpenFields ==
    ASSUME NEW g \in GraphType, NEW p \in Points, IsOpen(g, p)
    PROVE  /\ g.proposal[p] \in Proposal
           /\ g.proposal[p].id \in ProposalIds
           /\ g.proposal[p].base \in Pins
           /\ g.proposal[p].candidate \in Pins
           /\ g.proposal[p].closes \in Nat
           /\ g.proposal[p].ballot \in [Users -> BallotValues]
<1>1. g.proposal[p] \in Proposal
  BY GraphFields DEF IsOpen
<1> QED BY <1>1 DEF Proposal

LEMMA PinFacts == Pins \subseteq OptPin /\ OptPin \subseteq Int /\ NoPin \in OptPin /\ NoPin \notin Pins
  BY DEF Pins, OptPin, NoPin

LEMMA SetSupportFields ==
    ASSUME NEW g \in GraphType, NEW u \in Users, NEW p \in Points, NEW pin \in OptPin
    PROVE  LET h == SetSupport(g, u, p, pin) IN
           /\ h \in GraphType /\ h.text = g.text /\ h.purged = g.purged /\ h.proposal = g.proposal
           /\ \A x \in Users, q \in Points :
                  /\ h.support[x][q] = IF x = u /\ q = p THEN pin ELSE g.support[x][q]
                  /\ h.blocked[x][q] = IF x = u /\ q = p THEN NoPin ELSE g.blocked[x][q]
  BY GraphFields, PinFacts DEF SetSupport, GraphType

LEMMA DropSupportFields ==
    ASSUME NEW g \in GraphType, NEW u \in Users, NEW p \in Points
    PROVE  LET h == DropSupport(g, u, p) IN
           /\ h \in GraphType /\ h.text = g.text /\ h.purged = g.purged /\ h.proposal = g.proposal
           /\ h.blocked = g.blocked
           /\ \A x \in Users, q \in Points :
                  h.support[x][q] = IF x = u /\ q = p THEN NoPin ELSE g.support[x][q]
  BY GraphFields, PinFacts DEF DropSupport, GraphType

LEMMA SetBlockFields ==
    ASSUME NEW g \in GraphType, NEW u \in Users, NEW p \in Points, NEW pin \in OptPin
    PROVE  LET h == SetBlock(g, u, p, pin) IN
           /\ h \in GraphType /\ h.text = g.text /\ h.purged = g.purged /\ h.proposal = g.proposal
           /\ \A x \in Users, q \in Points :
                  /\ h.support[x][q] = IF x = u /\ q = p THEN NoPin ELSE g.support[x][q]
                  /\ h.blocked[x][q] = IF x = u /\ q = p THEN pin ELSE g.blocked[x][q]
  BY GraphFields, PinFacts DEF SetBlock, GraphType

LEMMA RemoveBlockFields ==
    ASSUME NEW g \in GraphType, NEW u \in Users, NEW p \in Points
    PROVE  LET h == RemoveBlock(g, u, p) IN
           /\ h \in GraphType /\ h.text = g.text /\ h.purged = g.purged /\ h.proposal = g.proposal
           /\ h.support = g.support
           /\ \A x \in Users, q \in Points :
                  h.blocked[x][q] = IF x = u /\ q = p THEN NoPin ELSE g.blocked[x][q]
  BY GraphFields, PinFacts DEF RemoveBlock, GraphType

LEMMA CastFields ==
    ASSUME NEW g \in GraphType, NEW u \in Users, NEW p \in Points, NEW choice \in BallotValues
    PROVE  LET h == Cast(g, u, p, choice) IN
           /\ h \in GraphType /\ h.text = g.text /\ h.purged = g.purged
           /\ h.support = g.support /\ h.blocked = g.blocked
           /\ \A q \in Points : /\ IsOpen(h, q) <=> IsOpen(g, q)
                                /\ q # p => h.proposal[q] = g.proposal[q]
           /\ IsOpen(g, p) =>
                  /\ h.proposal[p].base = g.proposal[p].base
                  /\ h.proposal[p].candidate = g.proposal[p].candidate
                  /\ \A x \in Users : h.proposal[p].ballot[x] =
                         IF x = u THEN choice ELSE g.proposal[p].ballot[x]
<1>1. CASE ~IsOpen(g, p)
  BY <1>1 DEF Cast
<1>2. CASE IsOpen(g, p)
  <2> DEFINE r == [g.proposal[p] EXCEPT !.ballot[u] = choice]
  <2>1. Cast(g, u, p, choice) = [g EXCEPT !.proposal = [g.proposal EXCEPT ![p] = r]]
    BY <1>2, GraphFields DEF Cast, GraphType
  <2>2. /\ r \in Proposal /\ r.base = g.proposal[p].base /\ r.candidate = g.proposal[p].candidate
        /\ \A x \in Users : r.ballot[x] = IF x = u THEN choice ELSE g.proposal[p].ballot[x]
    BY <1>2, OpenFields DEF Proposal
  <2> HIDE DEF r
  <2>3. [g.proposal EXCEPT ![p] = r] \in [Points -> Proposal \cup {NoProposal}]
    BY <2>2, GraphFields
  <2>4. PICK h : h = Cast(g, u, p, choice)
    OBVIOUS
  <2>5. /\ h \in GraphType /\ h.text = g.text /\ h.purged = g.purged
        /\ h.support = g.support /\ h.blocked = g.blocked
        /\ h.proposal = [g.proposal EXCEPT ![p] = r]
    BY <2>1, <2>3, <2>4 DEF GraphType
  <2>6. h.proposal[p] = r /\ \A q \in Points : q # p => h.proposal[q] = g.proposal[q]
    BY <2>5, GraphFields
  <2>7. \A q \in Points : IsOpen(h, q) <=> IsOpen(g, q)
    BY <1>2, <2>2, <2>6 DEF IsOpen
  <2> QED BY <2>2, <2>4, <2>5, <2>6, <2>7
<1> QED BY <1>1, <1>2

LEMMA CloseFields ==
    ASSUME NEW g \in GraphType, NEW p \in Points
    PROVE  LET h == Close(g, p) IN
           /\ h \in GraphType /\ h.text = g.text /\ h.purged = g.purged
           /\ h.support = g.support /\ h.blocked = g.blocked
           /\ \A q \in Points : h.proposal[q] = IF q = p THEN NoProposal ELSE g.proposal[q]
  BY GraphFields DEF Close, GraphType

LEMMA AdoptFields ==
    ASSUME NEW g \in GraphType, NEW p \in Posts, IsOpen(g, p)
    PROVE  LET h == Adopt(g, p) IN
           /\ h \in GraphType /\ h.purged = g.purged /\ h.proposal = g.proposal
           /\ h.support = g.support /\ h.blocked = g.blocked
           /\ \A q \in Points :
                  h.text[q] = IF q = p THEN g.proposal[p].candidate ELSE g.text[q]
<1>1. p \in Points /\ g.proposal[p].candidate \in OptPin
  BY OpenFields, PinFacts DEF Points
<1>2. Touched(g, p) \in SUBSET Posts
  BY GraphFields DEF Touched
<1>3. [g.text EXCEPT ![p] = g.proposal[p].candidate] \in [Points -> OptPin]
  BY <1>1, GraphFields
<1>4. PICK T : T = [g.text EXCEPT ![p] = g.proposal[p].candidate]
  OBVIOUS
<1>5. PICK h : h = Adopt(g, p)
  OBVIOUS
<1>6. h = [g EXCEPT !.text = T, !.dirty = Touched(g, p)]
  BY <1>4, <1>5, GraphFields DEF Adopt, GraphType
<1>7. h \in GraphType /\ h.text = T /\ h.purged = g.purged /\ h.proposal = g.proposal
      /\ h.support = g.support /\ h.blocked = g.blocked
  BY <1>2, <1>3, <1>4, <1>6 DEF GraphType
<1> QED BY <1>1, <1>4, <1>5, <1>7, GraphFields

LEMMA TransferFields ==
    ASSUME NEW g \in GraphType, NEW S \in SUBSET Points,
           \A p \in S : g.text[p] # NoPin
    PROVE  LET h == Transfer(g, S) IN
           /\ h \in GraphType /\ h.text = g.text /\ h.purged = g.purged /\ h.proposal = g.proposal
           /\ \A u \in Users, p \in Points :
                  /\ h.support[u][p] = IF p \in S /\ g.support[u][p] # NoPin
                                       THEN g.text[p] ELSE g.support[u][p]
                  /\ h.blocked[u][p] = IF p \in S /\ g.blocked[u][p] # NoPin
                                       THEN g.text[p] ELSE g.blocked[u][p]
<1>1. ASSUME NEW r \in [Users -> [Points -> OptPin]]
      PROVE  /\ Moved(r, S, g.text) \in [Users -> [Points -> OptPin]]
             /\ \A u \in Users, p \in Points : Moved(r, S, g.text)[u][p] =
                    IF p \in S /\ r[u][p] # NoPin THEN g.text[p] ELSE r[u][p]
  BY GraphFields DEF Moved
<1>2. PICK A, B : A = Moved(g.support, S, g.text) /\ B = Moved(g.blocked, S, g.text)
  OBVIOUS
<1>3. PICK h : h = Transfer(g, S)
  OBVIOUS
<1>4. A \in [Users -> [Points -> OptPin]] /\ B \in [Users -> [Points -> OptPin]]
  BY <1>1, <1>2, GraphFields
<1>5. h \in GraphType /\ h.text = g.text /\ h.purged = g.purged /\ h.proposal = g.proposal
      /\ h.support = A /\ h.blocked = B
  BY <1>2, <1>3, <1>4 DEF Transfer, GraphType
<1> QED BY <1>1, <1>2, <1>3, <1>5, GraphFields, SMTT(30)

LEMMA PurgeFields ==
    ASSUME NEW g \in GraphType, NEW S \in SUBSET Points
    PROVE  LET h == Purge(g, S) IN
           /\ h \in GraphType /\ h.text = g.text /\ h.blocked = g.blocked
           /\ h.purged = g.purged \cup S
           /\ \A u \in Users, p \in Points :
                  h.support[u][p] = IF p \in S THEN NoPin ELSE g.support[u][p]
           /\ \A p \in Points :
                  h.proposal[p] = IF p \in S THEN NoProposal ELSE g.proposal[p]
<1>1. PICK A : A = [u \in Users |-> [p \in Points |->
                       IF p \in S THEN NoPin ELSE g.support[u][p]]]
  OBVIOUS
<1>2. PICK Q : Q = [p \in Points |-> IF p \in S THEN NoProposal ELSE g.proposal[p]]
  OBVIOUS
<1>3. PICK h : h = Purge(g, S)
  OBVIOUS
<1>4. A \in [Users -> [Points -> OptPin]] /\ Q \in [Points -> Proposal \cup {NoProposal}]
  BY <1>1, <1>2, GraphFields, PinFacts
<1>5. h = [g EXCEPT !.purged = g.purged \cup S, !.support = A, !.proposal = Q]
  BY <1>1, <1>2, <1>3 DEF Purge, GraphType
<1>6. h \in GraphType /\ h.text = g.text /\ h.blocked = g.blocked
      /\ h.purged = g.purged \cup S /\ h.support = A /\ h.proposal = Q
  BY <1>4, <1>5, GraphFields DEF GraphType
<1> QED BY <1>1, <1>2, <1>3, <1>6

-----------------------------------------------------------------------------
(* Each operator keeps a graph good. *)

LEMMA CloseGood ==
    ASSUME NEW g, NEW m, Good(g, m), NEW p \in Points
    PROVE  Good(Close(g, p), m)
<1>1. PICK h : h = Close(g, p)
  OBVIOUS
<1>2. /\ g \in GraphType /\ h \in GraphType /\ h.text = g.text /\ h.purged = g.purged
      /\ h.support = g.support /\ h.blocked = g.blocked
      /\ \A q \in Points : h.proposal[q] = IF q = p THEN NoProposal ELSE g.proposal[q]
  BY <1>1, CloseFields DEF Good
<1>3. \A q \in Points : /\ IsOpen(h, q) => IsOpen(g, q) /\ h.proposal[q] = g.proposal[q]
                        /\ q \in g.purged => q \in Points
  BY <1>2 DEF IsOpen
<1>4. Stance(h)
  BY <1>2 DEF Good, Stance
<1>5. Counted(h, m)
  BY <1>2, <1>3 DEF Good, Counted
<1>6. Ballots(h)
  BY <1>2, <1>3 DEF Good, Ballots, Backed
<1>7. Bare(h)
  <2>1. g.purged \subseteq Points
    BY <1>2, GraphFields
  <2> QED BY <1>2, <1>3, <2>1 DEF Good, Bare, Unsupported
<1> QED BY <1>1, <1>2, <1>4, <1>5, <1>6, <1>7 DEF Good

LEMMA AdoptCloseGood ==
    ASSUME NEW g, NEW m \in Counts, Good(g, m), NEW p \in Points, IsOpen(g, p)
    PROVE  Good(Close(Adopt(g, p), p), m)
<1>1. PICK a, h : a = Adopt(g, p) /\ h = Close(a, p)
  OBVIOUS
<1>2. g \in GraphType /\ p \in Posts
  BY DEF Good, Counted
<1>3. /\ a \in GraphType /\ a.purged = g.purged /\ a.proposal = g.proposal
      /\ a.support = g.support /\ a.blocked = g.blocked
      /\ \A q \in Points : a.text[q] = IF q = p THEN g.proposal[p].candidate ELSE g.text[q]
  BY <1>1, <1>2, AdoptFields
<1>4. /\ h \in GraphType /\ h.text = a.text /\ h.purged = a.purged
      /\ h.support = a.support /\ h.blocked = a.blocked
      /\ \A q \in Points : h.proposal[q] = IF q = p THEN NoProposal ELSE a.proposal[q]
  BY <1>1, <1>3, CloseFields
<1>5. \A q \in Points : IsOpen(h, q) => /\ IsOpen(g, q) /\ q # p
                                        /\ h.proposal[q] = g.proposal[q]
  BY <1>3, <1>4 DEF IsOpen
<1>6. \A q \in Points : h.text[q] = IF q = p THEN g.proposal[p].candidate ELSE g.text[q]
  BY <1>3, <1>4
<1>7. Stance(h)
  BY <1>3, <1>4 DEF Good, Stance
<1>8. Counted(h, m)
  BY <1>5, <1>6 DEF Good, Counted
<1>9. Ballots(h)
  BY <1>3, <1>4, <1>5, <1>6 DEF Good, Ballots, Backed
<1>10. Bare(h)
  <2>1. g.purged \subseteq Points
    BY <1>2, GraphFields
  <2> QED BY <1>3, <1>4, <1>5, <2>1 DEF Good, Bare, Unsupported
<1> QED BY <1>1, <1>4, <1>7, <1>8, <1>9, <1>10 DEF Good

(* What the votes weigh does not matter: a decision closes the proposal,   *)
(* with or without its candidate.                                          *)
LEMMA FinalizeGood ==
    ASSUME NEW g, NEW m \in Counts, Good(g, m), NEW p \in Points
    PROVE  Good(Finalize(g, p), m)
<1>1. \/ Finalize(g, p) = g
      \/ Finalize(g, p) = Close(g, p)
      \/ IsOpen(g, p) /\ Finalize(g, p) = Close(Adopt(g, p), p)
  BY DEF Finalize, Decide
<1> QED BY <1>1, CloseGood, AdoptCloseGood

LEMMA SupportGood ==
    ASSUME NEW g, NEW m, Good(g, m), NEW u \in Users, NEW p \in Points \ g.purged,
           g.text[p] # NoPin, IsOpen(g, p) => g.proposal[p].ballot[u] # "new"
    PROVE  Good(SetSupport(g, u, p, g.text[p]), m)
<1>1. PICK h : h = SetSupport(g, u, p, g.text[p])
  OBVIOUS
<1>2. g \in GraphType /\ g.text[p] \in OptPin
  BY GraphFields DEF Good
<1>3. /\ h \in GraphType /\ h.text = g.text /\ h.purged = g.purged /\ h.proposal = g.proposal
      /\ \A x \in Users, q \in Points :
             /\ h.support[x][q] = IF x = u /\ q = p THEN g.text[p] ELSE g.support[x][q]
             /\ h.blocked[x][q] = IF x = u /\ q = p THEN NoPin ELSE g.blocked[x][q]
  BY <1>1, <1>2, SetSupportFields
<1>4. Stance(h)
  BY <1>3 DEF Good, Stance
<1>5. Counted(h, m)
  BY <1>3 DEF Good, Counted, IsOpen
<1>6. Ballots(h)
  <2> SUFFICES ASSUME NEW q \in Points, IsOpen(g, q), NEW x \in Users
               PROVE  LET r == g.proposal[q] IN
                      /\ r.ballot[x] # "none" => h.support[x][q] # NoPin
                      /\ g.text[q] = r.base =>
                          /\ r.ballot[x] = "old" => h.support[x][q] = r.base
                          /\ r.ballot[x] = "new" => h.support[x][q] = r.candidate
    BY <1>3 DEF Ballots, Backed, IsOpen
  <2>1. Backed(g, q, g.proposal[q])
    BY DEF Good, Ballots
  <2>2. CASE x = u /\ q = p
    BY <1>3, <2>2
  <2>3. CASE ~(x = u /\ q = p)
    BY <1>3, <2>1, <2>3 DEF Backed
  <2> QED BY <2>2, <2>3
<1>7. Bare(h)
  <2>1. g.purged \subseteq Points
    BY <1>2, GraphFields
  <2> QED BY <1>3, <2>1 DEF Good, Bare, Unsupported, IsOpen
<1> QED BY <1>1, <1>3, <1>4, <1>5, <1>6, <1>7 DEF Good

LEMMA VoteGood ==
    ASSUME NEW g, NEW m, Good(g, m), NEW u \in Users, NEW p \in Points \ g.purged,
           NEW choice \in {"old", "new"}, IsOpen(g, p), g.text[p] = g.proposal[p].base,
           NEW pin, pin = IF choice = "old" THEN g.text[p] ELSE g.proposal[p].candidate
    PROVE  Good(Cast(SetSupport(g, u, p, pin), u, p, choice), m)
<1>1. PICK s, h : s = SetSupport(g, u, p, pin) /\ h = Cast(s, u, p, choice)
  OBVIOUS
<1>2. g \in GraphType /\ pin \in OptPin /\ pin # NoPin /\ choice \in BallotValues /\ p \in Points
  <2>1. g \in GraphType
    BY DEF Good
  <2>2. g.proposal[p].base \in Pins /\ g.proposal[p].candidate \in Pins
    BY <2>1, OpenFields
  <2> QED BY <2>1, <2>2, PinFacts DEF BallotValues
<1>3. /\ s \in GraphType /\ s.text = g.text /\ s.purged = g.purged /\ s.proposal = g.proposal
      /\ \A x \in Users, q \in Points :
             /\ s.support[x][q] = IF x = u /\ q = p THEN pin ELSE g.support[x][q]
             /\ s.blocked[x][q] = IF x = u /\ q = p THEN NoPin ELSE g.blocked[x][q]
  BY <1>1, <1>2, SetSupportFields
<1>4. IsOpen(s, p) /\ \A q \in Points : IsOpen(s, q) <=> IsOpen(g, q)
  BY <1>3 DEF IsOpen
<1>5. /\ h \in GraphType /\ h.text = s.text /\ h.purged = s.purged
      /\ h.support = s.support /\ h.blocked = s.blocked
      /\ \A q \in Points : /\ IsOpen(h, q) <=> IsOpen(s, q)
                           /\ q # p => h.proposal[q] = s.proposal[q]
      /\ IsOpen(s, p) =>
             /\ h.proposal[p].base = s.proposal[p].base
             /\ h.proposal[p].candidate = s.proposal[p].candidate
             /\ \A x \in Users : h.proposal[p].ballot[x] =
                    IF x = u THEN choice ELSE s.proposal[p].ballot[x]
  <2>1. s \in GraphType
    BY <1>3
  <2>2. \A k \in GraphType : k = Cast(s, u, p, choice) =>
           /\ k \in GraphType /\ k.text = s.text /\ k.purged = s.purged
           /\ k.support = s.support /\ k.blocked = s.blocked
           /\ \A q \in Points : /\ IsOpen(k, q) <=> IsOpen(s, q)
                                /\ q # p => k.proposal[q] = s.proposal[q]
           /\ IsOpen(s, p) =>
                  /\ k.proposal[p].base = s.proposal[p].base
                  /\ k.proposal[p].candidate = s.proposal[p].candidate
                  /\ \A x \in Users : k.proposal[p].ballot[x] =
                         IF x = u THEN choice ELSE s.proposal[p].ballot[x]
    BY <1>2, <2>1, CastFields
  <2>3. h \in GraphType /\ h = Cast(s, u, p, choice)
    BY <1>1, <1>2, <2>1, CastFields
  <2> QED BY <2>2, <2>3
<1>6. Stance(h)
  BY <1>3, <1>5 DEF Good, Stance
<1>7. Counted(h, m)
  <2>1. \A q \in Points : IsOpen(h, q) => /\ IsOpen(g, q)
                                          /\ h.proposal[q].base = g.proposal[q].base
                                          /\ h.proposal[q].candidate = g.proposal[q].candidate
    BY <1>3, <1>4, <1>5
  <2> QED BY <1>3, <1>5, <2>1 DEF Good, Counted
<1>8. Ballots(h)
  <2> SUFFICES ASSUME NEW q \in Points, IsOpen(h, q) PROVE Backed(h, q, h.proposal[q])
    BY DEF Ballots
  <2>1. Backed(g, q, g.proposal[q])
    BY <1>4, <1>5 DEF Good, Ballots
  <2>2. CASE q # p
    BY <1>3, <1>5, <2>1, <2>2 DEF Backed
  <2>3. CASE q = p
    BY <1>2, <1>3, <1>5, <2>1, <2>3 DEF Backed
  <2> QED BY <2>2, <2>3
<1>9. Bare(h)
  <2>1. g.purged \subseteq Points
    BY <1>2, GraphFields
  <2> QED BY <1>3, <1>4, <1>5, <2>1 DEF Good, Bare, Unsupported
<1> QED BY <1>1, <1>5, <1>6, <1>7, <1>8, <1>9 DEF Good

LEMMA WithdrawGood ==
    ASSUME NEW g, NEW m, Good(g, m), NEW u \in Users, NEW p \in Points
    PROVE  Good(DropSupport(Cast(g, u, p, "none"), u, p), m)
<1>1. PICK c, h : c = Cast(g, u, p, "none") /\ h = DropSupport(c, u, p)
  OBVIOUS
<1>2. g \in GraphType /\ "none" \in BallotValues
  BY DEF Good, BallotValues
<1>3. /\ c \in GraphType /\ c.text = g.text /\ c.purged = g.purged
      /\ c.support = g.support /\ c.blocked = g.blocked
      /\ \A q \in Points : /\ IsOpen(c, q) <=> IsOpen(g, q)
                           /\ q # p => c.proposal[q] = g.proposal[q]
      /\ IsOpen(g, p) =>
             /\ c.proposal[p].base = g.proposal[p].base
             /\ c.proposal[p].candidate = g.proposal[p].candidate
             /\ \A x \in Users : c.proposal[p].ballot[x] =
                    IF x = u THEN "none" ELSE g.proposal[p].ballot[x]
  BY <1>1, <1>2, CastFields
<1>4. /\ h \in GraphType /\ h.text = c.text /\ h.purged = c.purged /\ h.proposal = c.proposal
      /\ h.blocked = c.blocked
      /\ \A x \in Users, q \in Points :
             h.support[x][q] = IF x = u /\ q = p THEN NoPin ELSE c.support[x][q]
  BY <1>1, <1>3, DropSupportFields
<1>5. \A q \in Points : IsOpen(h, q) =>
          /\ IsOpen(g, q)
          /\ h.proposal[q].base = g.proposal[q].base
          /\ h.proposal[q].candidate = g.proposal[q].candidate
          /\ \A x \in Users : h.proposal[q].ballot[x] =
                 IF x = u /\ q = p THEN "none" ELSE g.proposal[q].ballot[x]
  BY <1>3, <1>4 DEF IsOpen
<1>6. Stance(h)
  BY <1>3, <1>4 DEF Good, Stance
<1>7. Counted(h, m)
  BY <1>3, <1>4, <1>5 DEF Good, Counted
<1>8. Ballots(h)
  <2> SUFFICES ASSUME NEW q \in Points, IsOpen(h, q) PROVE Backed(h, q, h.proposal[q])
    BY DEF Ballots
  <2>1. Backed(g, q, g.proposal[q])
    BY <1>5 DEF Good, Ballots
  <2> QED BY <1>3, <1>4, <1>5, <2>1 DEF Backed
<1>9. Bare(h)
  <2>1. g.purged \subseteq Points
    BY <1>2, GraphFields
  <2> QED BY <1>3, <1>4, <1>5, <2>1 DEF Good, Bare, Unsupported
<1> QED BY <1>1, <1>4, <1>6, <1>7, <1>8, <1>9 DEF Good

(* Blocking is withdrawing and recording the block. *)
LEMMA BlockGood ==
    ASSUME NEW g, NEW m, Good(g, m), NEW u \in Users, NEW p \in Points, NEW pin \in OptPin
    PROVE  Good(SetBlock(Cast(g, u, p, "none"), u, p, pin), m)
<1>1. PICK c, d, h : /\ c = Cast(g, u, p, "none") /\ d = DropSupport(c, u, p)
                     /\ h = SetBlock(c, u, p, pin)
  OBVIOUS
<1>2. Good(d, m)
  BY <1>1, WithdrawGood
<1>3. c \in GraphType
  BY <1>1, CastFields DEF Good, BallotValues
<1>4. /\ d \in GraphType /\ d.text = c.text /\ d.purged = c.purged /\ d.proposal = c.proposal
      /\ d.blocked = c.blocked
      /\ \A x \in Users, q \in Points :
             d.support[x][q] = IF x = u /\ q = p THEN NoPin ELSE c.support[x][q]
  BY <1>1, <1>3, DropSupportFields
<1>5. /\ h \in GraphType /\ h.text = c.text /\ h.purged = c.purged /\ h.proposal = c.proposal
      /\ \A x \in Users, q \in Points :
             /\ h.support[x][q] = IF x = u /\ q = p THEN NoPin ELSE c.support[x][q]
             /\ h.blocked[x][q] = IF x = u /\ q = p THEN pin ELSE c.blocked[x][q]
  BY <1>1, <1>3, SetBlockFields
<1>6. /\ h.text = d.text /\ h.purged = d.purged /\ h.proposal = d.proposal
      /\ \A x \in Users, q \in Points : h.support[x][q] = d.support[x][q]
  BY <1>4, <1>5
<1>7. Stance(h)
  BY <1>2, <1>4, <1>5, <1>6 DEF Good, Stance
<1>8. Counted(h, m)
  BY <1>2, <1>6 DEF Good, Counted, IsOpen
<1>9. Ballots(h)
  BY <1>2, <1>6 DEF Good, Ballots, Backed, IsOpen
<1>10. Bare(h)
  <2>1. d.purged \subseteq Points
    BY <1>4, GraphFields
  <2> QED BY <1>2, <1>6, <2>1 DEF Good, Bare, Unsupported, IsOpen
<1> QED BY <1>1, <1>5, <1>7, <1>8, <1>9, <1>10 DEF Good

LEMMA UnblockGood ==
    ASSUME NEW g, NEW m, Good(g, m), NEW u \in Users, NEW p \in Points
    PROVE  Good(RemoveBlock(g, u, p), m)
<1>1. PICK h : h = RemoveBlock(g, u, p)
  OBVIOUS
<1>2. /\ h \in GraphType /\ h.text = g.text /\ h.purged = g.purged /\ h.proposal = g.proposal
      /\ h.support = g.support
      /\ \A x \in Users, q \in Points :
             h.blocked[x][q] = IF x = u /\ q = p THEN NoPin ELSE g.blocked[x][q]
  BY <1>1, RemoveBlockFields DEF Good
<1>3. Stance(h)
  BY <1>2 DEF Good, Stance
<1>4. Counted(h, m)
  BY <1>2 DEF Good, Counted, IsOpen
<1>5. Ballots(h)
  BY <1>2 DEF Good, Ballots, Backed, IsOpen
<1>6. Bare(h)
  BY <1>2 DEF Good, Bare, Unsupported, IsOpen
<1> QED BY <1>1, <1>2, <1>3, <1>4, <1>5, <1>6 DEF Good

(* Readers follow a text no open proposal was written against. *)
LEMMA TransferGood ==
    ASSUME NEW g, NEW m, Good(g, m), NEW S \in SUBSET Points,
           \A p \in S : g.text[p] # NoPin /\ (IsOpen(g, p) => g.text[p] # g.proposal[p].base)
    PROVE  Good(Transfer(g, S), m)
<1>1. PICK h : h = Transfer(g, S)
  OBVIOUS
<1>2. /\ h \in GraphType /\ h.text = g.text /\ h.purged = g.purged /\ h.proposal = g.proposal
      /\ \A u \in Users, p \in Points :
             /\ h.support[u][p] = IF p \in S /\ g.support[u][p] # NoPin
                                  THEN g.text[p] ELSE g.support[u][p]
             /\ h.blocked[u][p] = IF p \in S /\ g.blocked[u][p] # NoPin
                                  THEN g.text[p] ELSE g.blocked[u][p]
  BY <1>1, TransferFields DEF Good
<1>3. \A u \in Users, p \in Points :
          /\ h.support[u][p] = NoPin <=> g.support[u][p] = NoPin
          /\ h.blocked[u][p] = NoPin <=> g.blocked[u][p] = NoPin
  BY <1>2
<1>4. Stance(h)
  BY <1>3 DEF Good, Stance
<1>5. Counted(h, m)
  BY <1>2 DEF Good, Counted, IsOpen
<1>6. Ballots(h)
  <2> SUFFICES ASSUME NEW q \in Points, IsOpen(g, q) PROVE Backed(h, q, g.proposal[q])
    BY <1>2 DEF Ballots, IsOpen
  <2>1. Backed(g, q, g.proposal[q])
    BY DEF Good, Ballots
  <2>2. CASE q \in S
    BY <1>2, <1>3, <2>1, <2>2 DEF Backed
  <2>3. CASE q \notin S
    BY <1>2, <2>1, <2>3 DEF Backed
  <2> QED BY <2>2, <2>3
<1>7. Bare(h)
  <2>1. g.purged \subseteq Points
    BY GraphFields DEF Good
  <2> QED BY <1>2, <1>3, <2>1 DEF Good, Bare, Unsupported, IsOpen
<1> QED BY <1>1, <1>2, <1>4, <1>5, <1>6, <1>7 DEF Good

LEMMA PurgeGood ==
    ASSUME NEW g, NEW m, Good(g, m), NEW S \in SUBSET Points
    PROVE  Good(Purge(g, S), m)
<1>1. PICK h : h = Purge(g, S)
  OBVIOUS
<1>2. /\ h \in GraphType /\ h.text = g.text /\ h.blocked = g.blocked
      /\ h.purged = g.purged \cup S
      /\ \A u \in Users, p \in Points :
             h.support[u][p] = IF p \in S THEN NoPin ELSE g.support[u][p]
      /\ \A p \in Points :
             h.proposal[p] = IF p \in S THEN NoProposal ELSE g.proposal[p]
  BY <1>1, PurgeFields DEF Good
<1>3. \A p \in Points : IsOpen(h, p) <=> IsOpen(g, p) /\ p \notin S
  BY <1>2 DEF IsOpen
<1>4. Stance(h)
  BY <1>2 DEF Good, Stance
<1>5. Counted(h, m)
  BY <1>2, <1>3 DEF Good, Counted
<1>6. Ballots(h)
  BY <1>2, <1>3 DEF Good, Ballots, Backed
<1>7. Bare(h)
  <2>1. g.purged \subseteq Points
    BY GraphFields DEF Good
  <2> QED BY <1>2, <1>3, <2>1 DEF Good, Bare, Unsupported
<1> QED BY <1>1, <1>2, <1>4, <1>5, <1>6, <1>7 DEF Good

(* A text changes to one the point has never had. *)
LEMMA RetextGood ==
    ASSUME NEW g, NEW m \in Counts, NEW n \in Counts, Good(g, m),
           NEW T \in [Points -> OptPin], NEW D \in SUBSET Posts,
           \A p \in Points : /\ m[p] <= n[p] /\ T[p] <= n[p]
                             /\ IsOpen(g, p) => T[p] = g.text[p] \/ T[p] > m[p]
    PROVE  Good([g EXCEPT !.text = T, !.dirty = D], n)
<1>1. PICK h : h = [g EXCEPT !.text = T, !.dirty = D]
  OBVIOUS
<1>2. /\ h \in GraphType /\ h.text = T /\ h.purged = g.purged /\ h.proposal = g.proposal
      /\ h.support = g.support /\ h.blocked = g.blocked
  BY <1>1 DEF Good, GraphType
<1>3. \A p \in Points : m[p] \in Int /\ n[p] \in Int /\ T[p] \in Int
  BY PinFacts DEF Counts
<1>4. \A p \in Points : IsOpen(g, p) => /\ g.proposal[p].base \in Int
                                        /\ g.proposal[p].candidate \in Int
                                        /\ g.proposal[p].base <= m[p]
                                        /\ g.proposal[p].candidate <= m[p]
                                        /\ p \in Posts
  BY OpenFields, PinFacts DEF Good, Counted
<1>5. Stance(h)
  BY <1>2 DEF Good, Stance
<1>6. Counted(h, n)
  BY <1>2, <1>3, <1>4 DEF Counted, IsOpen
<1>7. Ballots(h)
  <2> SUFFICES ASSUME NEW q \in Points, IsOpen(g, q) PROVE Backed(h, q, g.proposal[q])
    BY <1>2 DEF Ballots, IsOpen
  <2>1. Backed(g, q, g.proposal[q])
    BY DEF Good, Ballots
  <2>2. h.text[q] = g.proposal[q].base => g.text[q] = g.proposal[q].base
    BY <1>2, <1>3, <1>4
  <2> QED BY <1>2, <2>1, <2>2 DEF Backed
<1>8. Bare(h)
  BY <1>2 DEF Good, Bare, Unsupported, IsOpen
<1> QED BY <1>1, <1>2, <1>5, <1>6, <1>7, <1>8 DEF Good

-----------------------------------------------------------------------------
(* The graph after each handler. *)

LEMMA InvFacts ==
    ASSUME IInv
    PROVE  /\ graph \in GraphType /\ minted \in Counts /\ Good(graph, minted)
           /\ \A p \in Points : graph.text[p] <= minted[p] /\ minted[p] \in OptPin
  BY DEF IInv, TypeOK, Good, Counted, Counts

LEMMA UserGood ==
    ASSUME IInv, NEW u \in Users, NEW p \in Points,
           Subscribe(u, p) \/ Unsubscribe(u, p) \/ Block(u, p) \/ Unblock(u, p)
    PROVE  Good(graph', minted')
<1>1. /\ Good(graph, minted) /\ minted \in Counts /\ graph \in GraphType /\ minted' = minted
      /\ graph.text[p] \in OptPin
  BY InvFacts, GraphFields DEF Subscribe, Unsubscribe, Block, Unblock
<1>2. CASE Subscribe(u, p)
  <2>1. /\ p \in Points \ graph.purged /\ graph.text[p] # NoPin
        /\ IsOpen(graph, p) => graph.proposal[p].ballot[u] # "new"
        /\ graph' = Finalize(SetSupport(graph, u, p, graph.text[p]), p)
    BY <1>2 DEF Subscribe, Visible
  <2>2. Good(SetSupport(graph, u, p, graph.text[p]), minted)
    BY <1>1, <2>1, SupportGood
  <2> QED BY <1>1, <2>1, <2>2, FinalizeGood
<1>3. CASE Unsubscribe(u, p)
  <2>1. graph' = Finalize(DropSupport(Cast(graph, u, p, "none"), u, p), p)
    BY <1>3 DEF Unsubscribe
  <2> QED BY <1>1, <2>1, WithdrawGood, FinalizeGood
<1>4. CASE Block(u, p)
  <2>1. graph' = Finalize(SetBlock(Cast(graph, u, p, "none"), u, p, graph.text[p]), p)
    BY <1>4 DEF Block
  <2> QED BY <1>1, <2>1, BlockGood, FinalizeGood
<1>5. CASE Unblock(u, p)
  <2>1. graph' = Finalize(RemoveBlock(graph, u, p), p)
    BY <1>5 DEF Unblock
  <2> QED BY <1>1, <2>1, UnblockGood, FinalizeGood
<1> QED BY <1>2, <1>3, <1>4, <1>5

LEMMA VoteStepGood ==
    ASSUME IInv, NEW u \in Users, NEW p \in Posts, NEW choice \in {"old", "new"},
           Vote(u, p, choice)
    PROVE  Good(graph', minted')
<1>1. /\ Good(graph, minted) /\ minted \in Counts /\ minted' = minted
      /\ p \in Points \ graph.purged /\ IsOpen(graph, p)
      /\ graph.text[p] = graph.proposal[p].base
  BY InvFacts DEF Vote, Visible, Points
<1>2. PICK pin : pin = IF choice = "old" THEN graph.text[p] ELSE graph.proposal[p].candidate
  OBVIOUS
<1>3. graph' = Finalize(Cast(SetSupport(graph, u, p, pin), u, p, choice), p)
  BY <1>2 DEF Vote
<1>4. Good(Cast(SetSupport(graph, u, p, pin), u, p, choice), minted)
  BY <1>1, <1>2, VoteGood
<1> QED BY <1>1, <1>3, <1>4, FinalizeGood

LEMMA ProposeGood ==
    ASSUME IInv, NEW u \in Users, NEW p \in Posts, NEW S \in SUBSET Points,
           NEW id \in ProposalIds, Propose(u, p, S, id)
    PROVE  Good(graph', minted')
<1>1. PICK q : q = [id |-> id, author |-> u, base |-> graph.text[p],
                    candidate |-> minted[p] + 1, closes |-> now + VotingDays,
                    cites |-> [t \in Points |-> IF t \in S THEN graph.text[t] ELSE NoPin],
                    ballot |-> [x \in Users |-> "none"]]
  OBVIOUS
<1>2. PICK h : h = graph'
  OBVIOUS
<1>3. /\ h = [graph EXCEPT !.proposal[p] = q] /\ minted' = [minted EXCEPT ![p] = @ + 1]
      /\ p \notin graph.purged /\ graph.text[p] # NoPin /\ minted[p] < MaxPin
      /\ p \in Points
  BY <1>1, <1>2 DEF Propose, Visible, Points
<1>4. /\ graph \in GraphType /\ minted \in Counts /\ Good(graph, minted)
      /\ \A x \in Points : graph.text[x] <= minted[x] /\ minted[x] \in OptPin
      /\ now \in Nat
  BY InvFacts DEF IInv, TypeOK
<1>5. q \in Proposal
  <2>1. graph.text[p] \in Pins /\ minted[p] + 1 \in Pins
    BY <1>3, <1>4, GraphFields DEF OptPin, Pins, NoPin
  <2>2. now + VotingDays \in Nat
    BY <1>4
  <2>3. [t \in Points |-> IF t \in S THEN graph.text[t] ELSE NoPin] \in [Points -> OptPin]
    BY <1>4, GraphFields, PinFacts
  <2>4. [x \in Users |-> "none"] \in [Users -> BallotValues]
    BY DEF BallotValues
  <2> QED BY <1>1, <2>1, <2>2, <2>3, <2>4 DEF Proposal
<1>6. /\ h \in GraphType /\ h.text = graph.text /\ h.purged = graph.purged
      /\ h.support = graph.support /\ h.blocked = graph.blocked
      /\ \A x \in Points : h.proposal[x] = IF x = p THEN q ELSE graph.proposal[x]
  <2>1. h = [graph EXCEPT !.proposal = [graph.proposal EXCEPT ![p] = q]]
    BY <1>3, <1>4, GraphFields DEF GraphType
  <2>2. [graph.proposal EXCEPT ![p] = q] \in [Points -> Proposal \cup {NoProposal}]
    BY <1>4, <1>5, GraphFields
  <2>3. PICK Q : Q = [graph.proposal EXCEPT ![p] = q]
    OBVIOUS
  <2>4. \A x \in Points : Q[x] = IF x = p THEN q ELSE graph.proposal[x]
    BY <1>3, <1>4, <2>3, GraphFields
  <2>5. /\ h \in GraphType /\ h.text = graph.text /\ h.purged = graph.purged
        /\ h.support = graph.support /\ h.blocked = graph.blocked /\ h.proposal = Q
    BY <1>4, <2>1, <2>2, <2>3 DEF GraphType
  <2> QED BY <2>4, <2>5
<1>7. /\ q.base = graph.text[p] /\ q.candidate = minted[p] + 1
      /\ \A x \in Users : q.ballot[x] = "none"
  BY <1>1
<1>8. \A x \in Points : minted[x] \in Int /\ minted[x] <= minted'[x] /\ minted'[x] \in Int
  BY <1>3, <1>4, PinFacts DEF Counts
<1>9. Stance(h)
  BY <1>4, <1>6 DEF Good, Stance
<1>10. Counted(h, minted')
  <2> SUFFICES ASSUME NEW x \in Points
               PROVE  /\ graph.text[x] <= minted'[x]
                      /\ IsOpen(h, x) => /\ x \in Posts
                                         /\ h.proposal[x].base <= minted'[x]
                                         /\ h.proposal[x].candidate <= minted'[x]
    BY <1>6 DEF Counted
  <2>1. graph.text[x] \in Int /\ graph.text[x] <= minted[x]
    BY <1>4, GraphFields, PinFacts
  <2>2. CASE x = p
    <3>1. minted'[p] = minted[p] + 1
      BY <1>3, <1>4 DEF Counts
    <3> QED BY <1>6, <1>7, <1>8, <2>1, <2>2, <3>1
  <2>3. CASE x # p
    <3>1. IsOpen(h, x) => IsOpen(graph, x) /\ h.proposal[x] = graph.proposal[x]
      BY <1>6, <2>3 DEF IsOpen
    <3>2. IsOpen(graph, x) => /\ x \in Posts
                              /\ graph.proposal[x].base <= minted[x]
                              /\ graph.proposal[x].candidate <= minted[x]
                              /\ graph.proposal[x].base \in Int
                              /\ graph.proposal[x].candidate \in Int
      BY <1>4, OpenFields, PinFacts DEF Good, Counted
    <3> QED BY <1>8, <2>1, <3>1, <3>2
  <2> QED BY <2>2, <2>3
<1>11. Ballots(h)
  <2> SUFFICES ASSUME NEW x \in Points, IsOpen(h, x) PROVE Backed(h, x, h.proposal[x])
    BY DEF Ballots
  <2>1. CASE x = p
    BY <1>6, <1>7, <2>1 DEF Backed
  <2>2. CASE x # p
    <3>1. Backed(graph, x, graph.proposal[x])
      BY <1>4, <1>6, <2>2 DEF Good, Ballots, IsOpen
    <3> QED BY <1>6, <2>2, <3>1 DEF Backed
  <2> QED BY <2>1, <2>2
<1>12. Bare(h)
  <2>1. graph.purged \subseteq Points
    BY <1>4, GraphFields
  <2> QED BY <1>3, <1>4, <1>6, <2>1 DEF Good, Bare, Unsupported, IsOpen
<1> QED BY <1>2, <1>6, <1>9, <1>10, <1>11, <1>12 DEF Good

LEMMA DirectEditGood ==
    ASSUME IInv, NEW p \in Posts, DirectEdit(p)
    PROVE  Good(graph', minted') /\ minted' \in Counts
<1>1. PICK T, D : T = [graph.text EXCEPT ![p] = minted[p] + 1] /\ D = Touched(graph, p)
  OBVIOUS
<1>2. /\ graph \in GraphType /\ minted \in Counts /\ Good(graph, minted)
      /\ \A x \in Points : graph.text[x] <= minted[x] /\ minted[x] \in OptPin
  BY InvFacts
<1>3. p \in Points /\ minted[p] < MaxPin /\ minted' = [minted EXCEPT ![p] = @ + 1]
  BY DEF DirectEdit, Points
<1>4. minted[p] + 1 \in OptPin
  BY <1>2, <1>3 DEF OptPin, Pins, NoPin
<1>5. T \in [Points -> OptPin] /\ D \in SUBSET Posts /\ minted' \in Counts
  BY <1>1, <1>2, <1>3, <1>4, GraphFields DEF Touched, Counts
<1>6. graph' = [graph EXCEPT !.text = T, !.dirty = D]
  BY <1>1, <1>2, GraphFields DEF DirectEdit, GraphType
<1>7. ASSUME NEW x \in Points
      PROVE  /\ minted[x] <= minted'[x] /\ T[x] <= minted'[x]
             /\ T[x] = graph.text[x] \/ T[x] > minted[x]
  <2>1. graph.text[x] \in Int /\ minted[x] \in Int
    BY <1>2, GraphFields, PinFacts
  <2>2. CASE x = p
    <3>1. T[x] = minted[x] + 1 /\ minted'[x] = minted[x] + 1
      BY <1>1, <1>2, <1>3, <2>2, GraphFields DEF Counts
    <3> QED BY <2>1, <3>1
  <2>3. CASE x # p
    <3>1. T[x] = graph.text[x] /\ minted'[x] = minted[x]
      BY <1>1, <1>2, <1>3, <2>3, GraphFields DEF Counts
    <3> QED BY <1>2, <2>1, <3>1
  <2> QED BY <2>2, <2>3
<1> QED BY <1>2, <1>5, <1>6, <1>7, RetextGood

LEMMA GitPublishGood ==
    ASSUME IInv, NEW S \in SUBSET Sites, GitPublish(S)
    PROVE  Good(graph', minted') /\ minted' \in Counts
<1>1. PICK T : T = [p \in Points |-> IF p \in S THEN minted[p] + 1 ELSE graph.text[p]]
  OBVIOUS
<1>2. PICK h : h = [graph EXCEPT !.text = T]
  OBVIOUS
<1>3. /\ graph \in GraphType /\ minted \in Counts /\ Good(graph, minted)
      /\ \A x \in Points : graph.text[x] <= minted[x] /\ minted[x] \in OptPin
  BY InvFacts
<1>4. /\ S \subseteq Points /\ \A p \in S : minted[p] < MaxPin
      /\ minted' = [p \in Points |-> IF p \in S THEN minted[p] + 1 ELSE minted[p]]
      /\ graph' = Transfer(h, S)
  BY <1>1, <1>2 DEF GitPublish, Points
<1>5. \A p \in S : minted[p] + 1 \in OptPin
  BY <1>3, <1>4 DEF OptPin, Pins, NoPin
<1>6. T \in [Points -> OptPin] /\ minted' \in Counts
  BY <1>1, <1>3, <1>4, <1>5, GraphFields DEF Counts
<1>7. ASSUME NEW x \in Points
      PROVE  /\ minted[x] <= minted'[x] /\ T[x] <= minted'[x]
             /\ T[x] = graph.text[x] \/ T[x] > minted[x]
             /\ x \in S => T[x] > minted[x] /\ T[x] # NoPin
  <2>1. graph.text[x] \in Int /\ minted[x] \in Int /\ minted[x] >= 0
    BY <1>3, GraphFields, PinFacts DEF OptPin, Pins, NoPin
  <2>2. CASE x \in S
    <3>1. T[x] = minted[x] + 1 /\ minted'[x] = minted[x] + 1
      BY <1>1, <1>4, <2>2
    <3> QED BY <2>1, <3>1 DEF NoPin
  <2>3. CASE x \notin S
    <3>1. T[x] = graph.text[x] /\ minted'[x] = minted[x]
      BY <1>1, <1>4, <2>3
    <3> QED BY <1>3, <2>1, <2>3, <3>1
  <2> QED BY <2>2, <2>3
<1>8. h = [graph EXCEPT !.text = T, !.dirty = graph.dirty]
  BY <1>2, <1>3 DEF GraphType
<1>9. Good(h, minted')
  BY <1>3, <1>6, <1>7, <1>8, GraphFields, RetextGood
<1>10. h.text = T /\ h.proposal = graph.proposal
  BY <1>2, <1>3 DEF GraphType
<1>11. \A p \in S : h.text[p] # NoPin /\ (IsOpen(h, p) => h.text[p] # h.proposal[p].base)
  <2> SUFFICES ASSUME NEW p \in S
               PROVE  T[p] # NoPin /\ (IsOpen(graph, p) => T[p] # graph.proposal[p].base)
    BY <1>10 DEF IsOpen
  <2>1. p \in Points /\ T[p] > minted[p] /\ T[p] # NoPin /\ T[p] \in Int /\ minted[p] \in Int
    BY <1>3, <1>4, <1>6, <1>7, PinFacts
  <2>2. IsOpen(graph, p) => graph.proposal[p].base <= minted[p] /\ graph.proposal[p].base \in Int
    BY <1>3, <2>1, OpenFields, PinFacts DEF Good, Counted
  <2> QED BY <2>1, <2>2
<1> QED BY <1>4, <1>6, <1>9, <1>11, TransferGood

LEMMA DeployGood ==
    ASSUME IInv, NEW r \in CoreRoots, NEW pin \in OptPin, Deploy(r, pin)
    PROVE  Good(graph', minted') /\ minted' \in Counts
<1>1. PICK T : T = [graph.text EXCEPT ![r] = pin]
  OBVIOUS
<1>2. /\ graph \in GraphType /\ minted \in Counts /\ Good(graph, minted)
      /\ \A x \in Points : graph.text[x] <= minted[x] /\ minted[x] \in OptPin
  BY InvFacts
<1>3. r \in Points /\ minted' = [minted EXCEPT ![r] = IF pin > @ THEN pin ELSE @]
  BY DEF Deploy, Points
<1>4. T \in [Points -> OptPin] /\ minted' \in Counts
  BY <1>1, <1>2, <1>3, GraphFields DEF Counts
<1>5. graph' = [graph EXCEPT !.text = T, !.dirty = graph.dirty]
  BY <1>1, <1>2, GraphFields DEF Deploy, GraphType
<1>6. ASSUME NEW x \in Points
      PROVE  /\ minted[x] <= minted'[x] /\ T[x] <= minted'[x]
             /\ IsOpen(graph, x) => T[x] = graph.text[x]
  <2>1. graph.text[x] \in Int /\ minted[x] \in Int /\ pin \in Int
    BY <1>2, GraphFields, PinFacts
  <2>2. CASE x = r
    <3>1. T[x] = pin /\ minted'[x] = IF pin > minted[x] THEN pin ELSE minted[x]
      BY <1>1, <1>2, <1>3, <2>2, GraphFields DEF Counts
    <3>2. ~IsOpen(graph, x)
      BY <1>2, <2>2 DEF Good, Counted
    <3> QED BY <2>1, <3>1, <3>2
  <2>3. CASE x # r
    <3>1. T[x] = graph.text[x] /\ minted'[x] = minted[x]
      BY <1>1, <1>2, <1>3, <2>3, GraphFields DEF Counts
    <3> QED BY <1>2, <2>1, <3>1
  <2> QED BY <2>2, <2>3
<1> QED BY <1>2, <1>4, <1>5, <1>6, GraphFields, RetextGood, ZenonT(40)

LEMMA BanGood ==
    ASSUME IInv, NEW u \in Users, NEW mode \in {"none", "quarantine", "block"}, Ban(u, mode)
    PROVE  Good(graph', minted')
<1>1. PICK D : D = IF mode = "none" THEN {p \in graph.dirty : Author[p] # u} ELSE graph.dirty
  OBVIOUS
<1>2. /\ graph \in GraphType /\ minted \in Counts /\ Good(graph, minted)
      /\ \A x \in Points : graph.text[x] <= minted[x] /\ minted[x] \in OptPin
  BY InvFacts
<1>3. D \in SUBSET Posts
  BY <1>1, <1>2, GraphFields
<1>4. graph' = [graph EXCEPT !.text = graph.text, !.dirty = D] /\ minted' = minted
  BY <1>1, <1>2 DEF Ban, GraphType
<1>5. ASSUME NEW x \in Points PROVE minted[x] <= minted[x]
  <2>1. minted[x] \in Int
    BY <1>2, PinFacts
  <2> QED BY <2>1
<1> QED BY <1>2, <1>3, <1>4, <1>5, GraphFields, RetextGood

LEMMA FinalizeEachGood ==
    ASSUME NEW g, NEW m \in Counts, Good(g, m), NEW S \in SUBSET Points
    PROVE  Good(FinalizeEach(g, S), m)
  BY FinalizeGood DEF FinalizeEach

LEMMA WorkGood ==
    ASSUME IInv, Work
    PROVE  Good(graph', minted') /\ cursor' \in Nat
<1>1. PICK kept, synced, closed, swept :
          /\ kept = Purge(graph, Dead)
          /\ synced = Transfer(kept, Outdated(kept))
          /\ closed = FinalizeEach(synced, FirstDue(synced))
          /\ swept = Swept(closed)
          /\ graph' = FinalizeEach(closed, swept)
          /\ cursor' = IF swept = {} THEN cursor
                       ELSE closed.proposal[CHOOSE p \in swept : TRUE].id
          /\ minted' = minted
  BY DEF Work
<1>2. Good(graph, minted) /\ minted \in Counts /\ cursor \in Nat
  BY InvFacts DEF IInv, TypeOK
<1>3. Good(kept, minted)
  BY <1>1, <1>2, PurgeGood DEF Dead, PurgeDue
<1>4. Good(synced, minted)
  <2>1. Outdated(kept) \in SUBSET Points /\ \A p \in Outdated(kept) : kept.text[p] # NoPin
    BY DEF Outdated, Points
  <2>2. \A p \in Outdated(kept) : ~IsOpen(kept, p)
    BY <1>3, <2>1 DEF Outdated, Good, Counted
  <2> QED BY <1>1, <1>3, <2>1, <2>2, TransferGood
<1>5. Good(closed, minted)
  <2>1. FirstDue(synced) \in SUBSET Points
    BY DEF FirstDue, OpenDue
  <2> QED BY <1>1, <1>2, <1>4, <2>1, FinalizeEachGood
<1>6. swept \in SUBSET {p \in Points : IsOpen(closed, p)}
  BY <1>1 DEF Swept, FirstOf
<1>7. Good(graph', minted')
  BY <1>1, <1>2, <1>5, <1>6, FinalizeEachGood
<1>8. cursor' \in Nat
  <2>1. CASE swept = {}
    BY <1>1, <1>2, <2>1
  <2>2. CASE swept # {}
    <3>1. PICK p \in Points : IsOpen(closed, p) /\ cursor' = closed.proposal[p].id
      BY <1>1, <1>6, <2>2
    <3> QED BY <1>5, <3>1, OpenFields DEF Good
  <2> QED BY <2>1, <2>2
<1> QED BY <1>7, <1>8

-----------------------------------------------------------------------------
(* The rest of the typing, and the theorems. *)

TypeRest ==
    /\ minted \in Counts
    /\ now \in 0..MaxNow
    /\ lastProposed \in [Users -> {Never} \cup 0..MaxNow]
    /\ cursor \in Nat
    /\ hiddenSince \in [Points -> {NotHidden} \cup 0..MaxNow]
    /\ ban \in [Users -> {"none", "quarantine", "block"}]
    /\ gitManaged \subseteq Sites
    /\ baseline \in [CoreRoots -> OptPin]
    /\ retired \subseteq CoreRoots

LEMMA SplitType == TypeOK <=> graph \in GraphType /\ TypeRest
  BY DEF TypeOK, TypeRest, Counts

LEMMA GoodIsGraph == ASSUME NEW g, NEW m, Good(g, m) PROVE g \in GraphType
  BY DEF Good

LEMMA UserRest ==
    ASSUME IInv, NEW u \in Users, UserStep(u)
    PROVE  TypeRest'
<1>1. TypeRest /\ graph \in GraphType
  BY SplitType DEF IInv
<1>2. ASSUME NEW p \in Points, Subscribe(u, p) \/ Unsubscribe(u, p) \/ Block(u, p) \/ Unblock(u, p)
      PROVE  TypeRest'
  <2>1. /\ baseline' = Baselined(p) \/ baseline' = baseline
        /\ UNCHANGED <<minted, now, lastProposed, cursor, moderation, gitManaged, retired>>
    BY <1>2 DEF Subscribe, Unsubscribe, Block, Unblock, sources
  <2>2. Baselined(p) \in [CoreRoots -> OptPin]
    BY <1>1, GraphFields DEF Baselined, TypeRest
  <2>3. baseline' \in [CoreRoots -> OptPin]
    BY <1>1, <2>1, <2>2 DEF TypeRest
  <2> QED BY <1>1, <2>1, <2>3 DEF TypeRest, moderation
<1>3. ASSUME NEW p \in Posts, NEW S \in SUBSET Points, NEW id \in ProposalIds,
             Propose(u, p, S, id)
      PROVE  TypeRest'
  <2>1. /\ UNCHANGED <<now, cursor, moderation, sources>>
        /\ minted' = [minted EXCEPT ![p] = @ + 1] /\ minted[p] < MaxPin /\ p \in Points
        /\ lastProposed' = [lastProposed EXCEPT ![u] = now]
    BY <1>3 DEF Propose, Points
  <2>2. minted' \in Counts
    <3>1. minted[p] + 1 \in OptPin
      BY <1>1, <2>1 DEF TypeRest, Counts, OptPin, Pins, NoPin
    <3> QED BY <1>1, <2>1, <3>1 DEF TypeRest, Counts
  <2>3. lastProposed' \in [Users -> {Never} \cup 0..MaxNow]
    BY <1>1, <2>1 DEF TypeRest
  <2> QED BY <1>1, <2>1, <2>2, <2>3 DEF TypeRest, moderation, sources
<1>4. ASSUME NEW p \in Posts, NEW choice \in {"old", "new"}, Vote(u, p, choice)
      PROVE  TypeRest'
  <2>1. UNCHANGED <<minted, now, lastProposed, cursor, moderation, sources>>
    BY <1>4 DEF Vote
  <2> QED BY <1>1, <2>1 DEF TypeRest, moderation, sources
<1> QED BY <1>2, <1>3, <1>4 DEF UserStep

LEMMA SourceRest ==
    ASSUME IInv, SourceStep, minted' \in Counts
    PROVE  TypeRest'
<1>1. TypeRest
  BY SplitType DEF IInv
<1>2. CASE \E p \in Posts : DirectEdit(p)
  <2>1. UNCHANGED <<now, lastProposed, cursor, moderation, sources>>
    BY <1>2 DEF DirectEdit
  <2> QED BY <1>1, <2>1 DEF TypeRest, moderation, sources
<1>3. CASE \E S \in SUBSET Sites : GitPublish(S)
  <2>1. PICK S \in SUBSET Sites : GitPublish(S)
    BY <1>3
  <2>2. /\ UNCHANGED <<now, lastProposed, cursor, moderation, baseline, retired>>
        /\ gitManaged' = gitManaged \cup S
    BY <2>1 DEF GitPublish
  <2> QED BY <1>1, <2>2 DEF TypeRest, moderation
<1>4. CASE \E r \in CoreRoots, pin \in OptPin : Deploy(r, pin)
  <2>1. UNCHANGED <<now, lastProposed, cursor, moderation, sources>>
    BY <1>4 DEF Deploy
  <2> QED BY <1>1, <2>1 DEF TypeRest, moderation, sources
<1> QED BY <1>2, <1>3, <1>4 DEF SourceStep

LEMMA ModeratorRest ==
    ASSUME IInv, ModeratorStep
    PROVE  TypeRest'
<1>1. TypeRest
  BY SplitType DEF IInv
<1>2. ASSUME NEW p \in Hideable, Hide(p) \/ Restore(p) PROVE TypeRest'
  <2>1. /\ hiddenSince' = [hiddenSince EXCEPT ![p] = now] \/
           hiddenSince' = [hiddenSince EXCEPT ![p] = NotHidden]
        /\ UNCHANGED <<minted, now, lastProposed, cursor, ban, sources>>
    BY <1>2 DEF Hide, Restore
  <2>2. hiddenSince' \in [Points -> {NotHidden} \cup 0..MaxNow]
    BY <1>1, <2>1 DEF TypeRest
  <2> QED BY <1>1, <2>1, <2>2 DEF TypeRest, sources
<1>3. ASSUME NEW u \in Restrictable, NEW mode \in {"none", "quarantine", "block"}, Ban(u, mode)
      PROVE  TypeRest'
  <2>1. /\ ban' = [ban EXCEPT ![u] = mode]
        /\ UNCHANGED <<minted, now, lastProposed, cursor, hiddenSince, sources>>
    BY <1>3 DEF Ban
  <2> QED BY <1>1, <2>1 DEF TypeRest, sources
<1> QED BY <1>2, <1>3 DEF ModeratorStep

LEMMA WorkRest ==
    ASSUME IInv, Work
    PROVE  TypeRest'
<1>1. TypeRest /\ Good(graph, minted) /\ cursor' \in Nat
  BY SplitType, InvFacts, WorkGood DEF IInv
<1>2. PICK kept :
          /\ kept = Purge(graph, Dead) /\ baseline' = SyncedBaseline(kept)
          /\ retired' = SyncedRetired(kept)
          /\ UNCHANGED <<minted, now, lastProposed, moderation, gitManaged>>
  BY DEF Work
<1>3. kept.text \in [Points -> OptPin]
  <2>1. Good(kept, minted)
    BY <1>1, <1>2, PurgeGood DEF Dead, PurgeDue
  <2> QED BY <2>1, GraphFields DEF Good
<1>4. baseline' \in [CoreRoots -> OptPin]
  BY <1>1, <1>2, <1>3 DEF SyncedBaseline, TypeRest, Points
<1>5. retired' \subseteq CoreRoots
  BY <1>1, <1>2 DEF SyncedRetired, TypeRest
<1> QED BY <1>1, <1>2, <1>4, <1>5 DEF TypeRest, moderation

LEMMA Step ==
    ASSUME IInv, [Next]_vars
    PROVE  IInv'
<1> SUFFICES Good(graph', minted') /\ TypeRest'
  BY SplitType, GoodIsGraph DEF IInv, TypeOK, TypeRest, Counts
<1>1. Good(graph, minted) /\ TypeRest
  BY SplitType, InvFacts DEF IInv
<1>2. ASSUME NEW u \in Users, UserStep(u) PROVE Good(graph', minted') /\ TypeRest'
  BY <1>2, UserRest, UserGood, ProposeGood, VoteStepGood DEF UserStep
<1>3. CASE SourceStep
  <2>1. Good(graph', minted') /\ minted' \in Counts
    BY <1>3, DirectEditGood, GitPublishGood, DeployGood DEF SourceStep
  <2> QED BY <1>3, <2>1, SourceRest
<1>4. CASE ModeratorStep
  <2>1. Good(graph', minted')
    <3>1. CASE \E p \in Hideable : Hide(p) \/ Restore(p)
      BY <1>1, <3>1 DEF Hide, Restore
    <3>2. CASE \E u \in Restrictable, mode \in {"none", "quarantine", "block"} : Ban(u, mode)
      BY <3>2, BanGood
    <3> QED BY <1>4, <3>1, <3>2 DEF ModeratorStep
  <2> QED BY <1>4, <2>1, ModeratorRest
<1>5. CASE Work
  BY <1>5, WorkGood, WorkRest
<1>6. CASE Tick
  BY <1>1, <1>6 DEF Tick, TypeRest, moderation, sources
<1>7. CASE UNCHANGED vars
  BY <1>1, <1>7 DEF vars, TypeRest, moderation, sources
<1> QED BY <1>2, <1>3, <1>4, <1>5, <1>6, <1>7 DEF Next

LEMMA Start == Init => IInv
<1> SUFFICES ASSUME Init PROVE IInv
  OBVIOUS
<1>1. 1 \in OptPin
  BY DEF OptPin, Pins
<1>2. graph \in GraphType
  BY <1>1, PinFacts DEF Init, GraphType
<1>3. TypeRest
  BY <1>1, PinFacts DEF Init, TypeRest, Counts
<1>4. /\ graph.text = [p \in Points |-> 1] /\ graph.purged = {}
      /\ graph.support = [u \in Users |-> [p \in Points |-> NoPin]]
      /\ graph.proposal = [p \in Points |-> NoProposal]
      /\ minted = [p \in Points |-> 1]
  BY DEF Init
<1>5. Stance(graph) /\ Counted(graph, minted) /\ Ballots(graph) /\ Bare(graph)
  BY <1>4 DEF Stance, Counted, Ballots, Bare, IsOpen
<1> QED BY <1>2, <1>3, <1>5, SplitType DEF IInv, Good

THEOREM Invariant == Spec => []IInv
BY Start, Step, PTL DEF Spec

(* Every state the handlers reach has the types of the schema.             *)
THEOREM TypeCorrect == Spec => []TypeOK
<1>1. IInv => TypeOK
  BY DEF IInv
<1> QED BY <1>1, Invariant, PTL

(* Nobody supports and blocks one point (social._set_support, _block).     *)
THEOREM OneStanceAlways == Spec => []OneStance
<1>1. IInv => OneStance
  BY DEF IInv, Good, Stance, OneStance
<1> QED BY <1>1, Invariant, PTL

(* Each ballot is that of an active supporter, pinned to the text voted    *)
(* for while the base is current (social._vote, _subscription, _block).    *)
THEOREM BallotsBacked == Spec => []BallotBacked
<1>1. IInv => BallotBacked
  BY DEF IInv, Good, Ballots, Backed, BallotBacked
<1> QED BY <1>1, Invariant, PTL

(* A purged point has no supporters and no proposal (purge.sweep).         *)
THEOREM PurgedStaysBare == Spec => []PurgedIsBare
<1>1. IInv => PurgedIsBare
  BY DEF IInv, Good, Bare, PurgedIsBare, IsOpen
<1> QED BY <1>1, Invariant, PTL
-----------------------------------------------------------------------------
(* What a step may do to texts and stances.                                *)

Decided(g, p) == Due(g, p) \/ Early(g, p, NewInfluence(g, p))

(* h comes from g by deciding or closing the proposal on p, or is g. *)
Closing(g, h, p) ==
    /\ h \in GraphType /\ h.purged = g.purged
    /\ h.support = g.support /\ h.blocked = g.blocked
    /\ \A q \in Points : q # p => /\ h.text[q] = g.text[q] /\ h.proposal[q] = g.proposal[q]
                                  /\ q \in h.dirty <=> q \in g.dirty
    /\ h.proposal[p] \in {g.proposal[p], NoProposal}
    /\ h.text[p] # g.text[p] =>
        /\ IsOpen(g, p) /\ Fresh(g, p) /\ TargetsKept(g, p) /\ Decided(g, p)
        /\ h.text[p] = g.proposal[p].candidate
        /\ h.proposal[p] = NoProposal

LEMMA FinalizeCloses ==
    ASSUME NEW g \in GraphType, NEW p \in Points, IsOpen(g, p) => p \in Posts
    PROVE  Closing(g, Finalize(g, p), p)
<1>1. CASE Finalize(g, p) = g
  BY <1>1 DEF Closing
<1>2. CASE Finalize(g, p) = Close(g, p)
  <2>1. PICK h : h = Close(g, p)
    OBVIOUS
  <2>2. /\ h \in GraphType /\ h.text = g.text /\ h.purged = g.purged
        /\ h.support = g.support /\ h.blocked = g.blocked
        /\ \A q \in Points : h.proposal[q] = IF q = p THEN NoProposal ELSE g.proposal[q]
    BY <2>1, CloseFields
  <2>5. h.dirty = g.dirty
    BY <2>1 DEF Close, GraphType
  <2>3. Closing(g, h, p)
    BY <2>2, <2>5 DEF Closing
  <2> QED BY <1>2, <2>1, <2>3
<1>3. CASE /\ IsOpen(g, p) /\ Fresh(g, p) /\ TargetsKept(g, p) /\ Decided(g, p)
           /\ Finalize(g, p) = Close(Adopt(g, p), p)
  <2>1. PICK a, h : a = Adopt(g, p) /\ h = Close(a, p)
    OBVIOUS
  <2>2. /\ a \in GraphType /\ a.purged = g.purged /\ a.proposal = g.proposal
        /\ a.support = g.support /\ a.blocked = g.blocked
        /\ \A q \in Points : a.text[q] = IF q = p THEN g.proposal[p].candidate ELSE g.text[q]
    BY <1>3, <2>1, AdoptFields
  <2>3. /\ h \in GraphType /\ h.text = a.text /\ h.purged = a.purged
        /\ h.support = a.support /\ h.blocked = a.blocked
        /\ \A q \in Points : h.proposal[q] = IF q = p THEN NoProposal ELSE a.proposal[q]
    BY <2>1, <2>2, CloseFields
  <2>5. h.dirty = a.dirty /\ a.dirty = Touched(g, p)
    BY <2>1, <2>2 DEF Close, Adopt, GraphType
  <2>6. \A q \in Points : q # p => (q \in h.dirty <=> q \in g.dirty)
    BY <2>5 DEF Touched
  <2>4. Closing(g, h, p)
    BY <1>3, <2>2, <2>3, <2>6 DEF Closing
  <2> QED BY <1>3, <2>1, <2>4
<1> QED BY <1>1, <1>2, <1>3 DEF Finalize, Decide, Decided

SameTerms(q, r) ==
    /\ r.author = q.author /\ r.base = q.base /\ r.candidate = q.candidate
    /\ r.closes = q.closes /\ r.cites = q.cites

(* h differs from g in the stance of u on p and in u's ballot there. *)
Reacting(g, h, u, p) ==
    /\ h \in GraphType /\ h.text = g.text /\ h.purged = g.purged
    /\ \A q \in Points : /\ IsOpen(h, q) <=> IsOpen(g, q)
                         /\ IsOpen(g, q) => SameTerms(g.proposal[q], h.proposal[q])
    /\ \A x \in Users, q \in Points : x # u \/ q # p =>
            h.support[x][q] = g.support[x][q] /\ h.blocked[x][q] = g.blocked[x][q]

LEMMA CastReacts ==
    ASSUME NEW g \in GraphType, NEW u \in Users, NEW p \in Points, NEW choice \in BallotValues
    PROVE  Reacting(g, Cast(g, u, p, choice), u, p)
<1>1. CASE ~IsOpen(g, p)
  BY <1>1 DEF Cast, Reacting, SameTerms
<1>2. CASE IsOpen(g, p)
  <2> DEFINE r == [g.proposal[p] EXCEPT !.ballot[u] = choice]
  <2>1. PICK h : h = Cast(g, u, p, choice)
    OBVIOUS
  <2>2. h = [g EXCEPT !.proposal = [g.proposal EXCEPT ![p] = r]]
    BY <1>2, <2>1, GraphFields DEF Cast, GraphType
  <2>3. SameTerms(g.proposal[p], r) /\ r # NoProposal
    BY <1>2, OpenFields DEF Proposal, SameTerms
  <2> HIDE DEF r
  <2>4. /\ h \in GraphType /\ h.text = g.text /\ h.purged = g.purged
        /\ h.support = g.support /\ h.blocked = g.blocked
        /\ \A q \in Points : /\ IsOpen(h, q) <=> IsOpen(g, q)
                             /\ q # p => h.proposal[q] = g.proposal[q]
    BY <2>1, CastFields
  <2>5. h.proposal[p] = r
    BY <2>2, GraphFields DEF GraphType
  <2>6. ASSUME NEW q \in Points, IsOpen(g, q) PROVE SameTerms(g.proposal[q], h.proposal[q])
    BY <2>3, <2>4, <2>5 DEF SameTerms
  <2> QED BY <2>1, <2>4, <2>6 DEF Reacting
<1> QED BY <1>1, <1>2

LEMMA ReactingTwice ==
    ASSUME NEW g, NEW h, NEW k, NEW u, NEW p, Reacting(g, h, u, p), Reacting(h, k, u, p)
    PROVE  Reacting(g, k, u, p)
<1>1. ASSUME NEW q \in Points, IsOpen(g, q) PROVE SameTerms(g.proposal[q], k.proposal[q])
  <2>1. IsOpen(h, q) /\ SameTerms(g.proposal[q], h.proposal[q])
    BY <1>1 DEF Reacting
  <2>2. SameTerms(h.proposal[q], k.proposal[q])
    BY <2>1 DEF Reacting
  <2> QED BY <2>1, <2>2 DEF SameTerms
<1> QED BY <1>1 DEF Reacting

LEMMA StanceReacts ==
    ASSUME NEW g \in GraphType, NEW u \in Users, NEW p \in Points, NEW pin \in OptPin
    PROVE  /\ Reacting(g, SetSupport(g, u, p, pin), u, p)
           /\ Reacting(g, DropSupport(g, u, p), u, p)
           /\ Reacting(g, SetBlock(g, u, p, pin), u, p)
           /\ Reacting(g, RemoveBlock(g, u, p), u, p)
<1>1. PICK h : h = SetSupport(g, u, p, pin)
  OBVIOUS
<1>2. Reacting(g, h, u, p)
  BY <1>1, SetSupportFields DEF Reacting, SameTerms, IsOpen
<1>3. PICK d : d = DropSupport(g, u, p)
  OBVIOUS
<1>4. Reacting(g, d, u, p)
  BY <1>3, DropSupportFields DEF Reacting, SameTerms, IsOpen
<1>5. PICK b : b = SetBlock(g, u, p, pin)
  OBVIOUS
<1>6. Reacting(g, b, u, p)
  BY <1>5, SetBlockFields DEF Reacting, SameTerms, IsOpen
<1>7. PICK r : r = RemoveBlock(g, u, p)
  OBVIOUS
<1>8. Reacting(g, r, u, p)
  BY <1>7, RemoveBlockFields DEF Reacting, SameTerms, IsOpen
<1> QED BY <1>1, <1>2, <1>3, <1>4, <1>5, <1>6, <1>7, <1>8

(* The pins a person may take up: the current text or the candidate. *)
Offered(p) ==
    {NoPin, graph.text[p]} \cup (IF IsOpen(graph, p) THEN {graph.proposal[p].candidate} ELSE {})

(* What u's pins on p may become, and which texts the handler publishes. *)
Takes(g, u, p) ==
    \/ /\ Visible(graph, p) /\ baseline' = Baselined(p)
       /\ g.support[u][p] \in {NoPin, graph.text[p]}
       /\ g.blocked[u][p] \in {NoPin, graph.text[p]}
    \/ /\ baseline' = baseline
       /\ g.support[u][p] \in {NoPin, graph.support[u][p]}
       /\ g.blocked[u][p] \in {NoPin, graph.blocked[u][p]}
    \/ /\ baseline' = baseline
       /\ p \in Posts /\ IsOpen(graph, p) /\ graph.text[p] = graph.proposal[p].base

ReactionStep(u, p) ==
    \/ Subscribe(u, p) \/ Unsubscribe(u, p) \/ Block(u, p) \/ Unblock(u, p)
    \/ p \in Posts /\ \E choice \in {"old", "new"} : Vote(u, p, choice)

(* A reaction or a vote is one stance and one decision about the point. *)
LEMMA ReactionShape ==
    ASSUME IInv, NEW u \in Users, NEW p \in Points, ReactionStep(u, p)
    PROVE  \E g : /\ Reacting(graph, g, u, p) /\ Good(g, minted)
                  /\ g.support[u][p] \in Offered(p) \/ g.support[u][p] = graph.support[u][p]
                  /\ g.support[u][p] \in Offered(p) \/ g.blocked[u][p] = graph.blocked[u][p]
                  /\ Takes(g, u, p)
                  /\ graph' = Finalize(g, p)
                  /\ UNCHANGED <<minted, now, moderation, gitManaged, retired>>
<1>1. /\ Good(graph, minted) /\ minted \in Counts /\ graph \in GraphType
      /\ graph.text[p] \in OptPin /\ NoPin \in OptPin /\ "none" \in BallotValues
  BY InvFacts, GraphFields, PinFacts DEF BallotValues
<1>2. NoPin \in Offered(p) /\ graph.text[p] \in Offered(p)
  BY DEF Offered
<1>3. CASE Subscribe(u, p)
  <2>1. PICK g : g = SetSupport(graph, u, p, graph.text[p])
    OBVIOUS
  <2>2. /\ p \in Points \ graph.purged /\ graph.text[p] # NoPin /\ minted' = minted
        /\ IsOpen(graph, p) => graph.proposal[p].ballot[u] # "new"
        /\ graph' = Finalize(g, p)
    BY <1>3, <2>1 DEF Subscribe, Visible
  <2>3. Good(g, minted) /\ Reacting(graph, g, u, p)
    BY <1>1, <2>1, <2>2, SupportGood, StanceReacts
  <2>4. g.support[u][p] = graph.text[p] /\ g.blocked[u][p] = NoPin
    BY <1>1, <2>1, SetSupportFields
  <2>5. Takes(g, u, p) /\ UNCHANGED <<minted, now, moderation, gitManaged, retired>>
    BY <1>3, <2>4 DEF Subscribe, Takes
  <2> QED BY <1>2, <2>2, <2>3, <2>4, <2>5
<1>4. CASE Unsubscribe(u, p)
  <2>1. PICK c, g : c = Cast(graph, u, p, "none") /\ g = DropSupport(c, u, p)
    OBVIOUS
  <2>2. graph' = Finalize(g, p) /\ minted' = minted
    BY <1>4, <2>1 DEF Unsubscribe
  <2>3. c \in GraphType /\ Reacting(graph, c, u, p)
    BY <1>1, <2>1, CastFields, CastReacts
  <2>4. Reacting(c, g, u, p) /\ g.support[u][p] = NoPin /\ g.blocked = graph.blocked
    BY <1>1, <2>1, <2>3, StanceReacts, DropSupportFields, CastFields
  <2>5. Good(g, minted)
    BY <1>1, <2>1, WithdrawGood
  <2>6. Takes(g, u, p) /\ UNCHANGED <<minted, now, moderation, gitManaged, retired>>
    BY <1>4, <2>4 DEF Unsubscribe, Takes, sources
  <2> QED BY <1>2, <2>2, <2>3, <2>4, <2>5, <2>6, ReactingTwice
<1>5. CASE Block(u, p)
  <2>1. PICK c, g : c = Cast(graph, u, p, "none") /\ g = SetBlock(c, u, p, graph.text[p])
    OBVIOUS
  <2>2. graph' = Finalize(g, p) /\ minted' = minted
    BY <1>5, <2>1 DEF Block
  <2>3. c \in GraphType /\ Reacting(graph, c, u, p)
    BY <1>1, <2>1, CastFields, CastReacts
  <2>4. Reacting(c, g, u, p) /\ g.support[u][p] = NoPin /\ g.blocked[u][p] = graph.text[p]
    BY <1>1, <2>1, <2>3, StanceReacts, SetBlockFields
  <2>5. Good(g, minted)
    BY <1>1, <2>1, BlockGood
  <2>6. Takes(g, u, p) /\ UNCHANGED <<minted, now, moderation, gitManaged, retired>>
    BY <1>5, <2>4 DEF Block, Takes
  <2> QED BY <1>2, <2>2, <2>3, <2>4, <2>5, <2>6, ReactingTwice
<1>6. CASE Unblock(u, p)
  <2>1. PICK g : g = RemoveBlock(graph, u, p)
    OBVIOUS
  <2>2. graph' = Finalize(g, p) /\ minted' = minted
    BY <1>6, <2>1 DEF Unblock
  <2>3. Good(g, minted) /\ Reacting(graph, g, u, p)
    BY <1>1, <2>1, UnblockGood, StanceReacts
  <2>4. g.support[u][p] = graph.support[u][p] /\ g.blocked[u][p] = NoPin
    BY <1>1, <2>1, RemoveBlockFields
  <2>5. graph.blocked[u][p] # NoPin => graph.support[u][p] = NoPin
    BY <1>1 DEF Good, Stance
  <2>6. Takes(g, u, p) /\ UNCHANGED <<minted, now, moderation, gitManaged, retired>>
    BY <1>6, <2>4 DEF Unblock, Takes, sources
  <2> QED BY <1>2, <2>2, <2>3, <2>4, <2>5, <2>6
<1>7. ASSUME NEW choice \in {"old", "new"}, Vote(u, p, choice), p \in Posts
      PROVE  \E g : /\ Reacting(graph, g, u, p) /\ Good(g, minted)
                    /\ g.support[u][p] \in Offered(p) /\ Takes(g, u, p)
                    /\ graph' = Finalize(g, p)
                    /\ UNCHANGED <<minted, now, moderation, gitManaged, retired>>
  <2>1. PICK pin : pin = IF choice = "old" THEN graph.text[p] ELSE graph.proposal[p].candidate
    OBVIOUS
  <2>2. PICK s, g : s = SetSupport(graph, u, p, pin) /\ g = Cast(s, u, p, choice)
    OBVIOUS
  <2>3. /\ p \in Points \ graph.purged /\ IsOpen(graph, p) /\ minted' = minted
        /\ graph.text[p] = graph.proposal[p].base
        /\ graph' = Finalize(g, p)
    BY <1>7, <2>1, <2>2 DEF Vote, Visible
  <2>4. pin \in OptPin /\ pin \in Offered(p) /\ choice \in BallotValues
    BY <1>1, <2>1, <2>3, OpenFields, PinFacts DEF Offered, BallotValues
  <2>5. s \in GraphType /\ Reacting(graph, s, u, p) /\ s.support[u][p] = pin
    BY <1>1, <2>2, <2>4, StanceReacts, SetSupportFields
  <2>6. Reacting(s, g, u, p) /\ g.support = s.support
    BY <2>2, <2>4, <2>5, CastReacts, CastFields
  <2>7. Good(g, minted)
    BY <1>1, <2>1, <2>2, <2>3, VoteGood
  <2>8. Takes(g, u, p) /\ UNCHANGED <<minted, now, moderation, gitManaged, retired>>
    BY <1>7, <2>3 DEF Vote, Takes, sources
  <2> QED BY <2>3, <2>4, <2>5, <2>6, <2>7, <2>8, ReactingTwice
<1> QED BY <1>3, <1>4, <1>5, <1>6, <1>7 DEF ReactionStep

(* The pass up to its first decision: the purge and the synchronization. *)
Prepared(g) ==
    /\ Good(g, minted) /\ g.text = graph.text /\ graph.purged \subseteq g.purged
    /\ \A q \in Points : g.proposal[q] \in {graph.proposal[q], NoProposal}
    /\ \A x \in Users, q \in Posts \ g.purged :
            g.support[x][q] = graph.support[x][q] /\ g.blocked[x][q] = graph.blocked[x][q]

Pinned(g, p, pins) == \A u \in Users : g.support[u][p] \in pins /\ g.blocked[u][p] \in pins

(* A root in the build is published in its text, and readers who reacted   *)
(* to another one have come along; a root outside the build waits.         *)
Synced(g) ==
    \A r \in CoreRoots \ g.purged :
        /\ \/ \A u \in Users : /\ g.support[u][r] = graph.support[u][r]
                               /\ g.blocked[u][r] = graph.blocked[u][r]
           \/ graph.text[r] # NoPin /\ Pinned(g, r, {NoPin, graph.text[r]})
        /\ \/ graph.text[r] = NoPin /\ baseline'[r] = baseline[r]
           \/ /\ graph.text[r] # NoPin /\ baseline'[r] = graph.text[r]
              /\ \/ baseline[r] \in {NoPin, graph.text[r]}
                 \/ Pinned(g, r, {NoPin, graph.text[r]})

LEMMA FinalizeEachCloses ==
    ASSUME NEW g \in GraphType, NEW S \in SUBSET {p \in Points : IsOpen(g, p) /\ p \in Posts}
    PROVE  FinalizeEach(g, S) = g \/ \E p \in S : Closing(g, FinalizeEach(g, S), p)
  BY FinalizeCloses DEF FinalizeEach

(* A pass decides about a due proposal, then about another open one. *)
LEMMA WorkShape ==
    ASSUME IInv, Work
    PROVE  \E g, c :
              /\ Prepared(g) /\ Synced(g) /\ Good(c, minted)
              /\ \/ c = g
                 \/ \E p \in Points : IsOpen(g, p) /\ Due(g, p) /\ Closing(g, c, p)
              /\ \/ graph' = c
                 \/ \E p \in Points : IsOpen(c, p) /\ Closing(c, graph', p)
              /\ UNCHANGED <<minted, now, moderation, gitManaged>>
<1>1. PICK kept, synced, closed, swept :
          /\ kept = Purge(graph, Dead)
          /\ synced = Transfer(kept, Outdated(kept))
          /\ closed = FinalizeEach(synced, FirstDue(synced))
          /\ swept = Swept(closed)
          /\ graph' = FinalizeEach(closed, swept)
          /\ baseline' = SyncedBaseline(kept)
          /\ UNCHANGED <<minted, now, moderation, gitManaged>>
  BY DEF Work
<1>2. Good(graph, minted) /\ minted \in Counts /\ Dead \in SUBSET Points
  BY InvFacts DEF Dead, PurgeDue
<1>3. Good(kept, minted)
  BY <1>1, <1>2, PurgeGood
<1>4. /\ Outdated(kept) \in SUBSET Points /\ \A p \in Outdated(kept) : kept.text[p] # NoPin
      /\ Outdated(kept) \subseteq CoreRoots
  BY DEF Outdated, Points
<1>5. Good(synced, minted)
  <2>1. \A p \in Outdated(kept) : ~IsOpen(kept, p)
    BY <1>3, <1>4 DEF Good, Counted
  <2> QED BY <1>1, <1>3, <1>4, <2>1, TransferGood
<1>6. Prepared(synced)
  <2>1. /\ kept.text = graph.text /\ kept.purged = graph.purged \cup Dead
        /\ kept.blocked = graph.blocked
        /\ \A u \in Users, p \in Points :
               kept.support[u][p] = IF p \in Dead THEN NoPin ELSE graph.support[u][p]
        /\ \A p \in Points :
               kept.proposal[p] = IF p \in Dead THEN NoProposal ELSE graph.proposal[p]
    BY <1>1, <1>2, PurgeFields DEF Good
  <2>2. /\ synced.text = kept.text /\ synced.purged = kept.purged
        /\ synced.proposal = kept.proposal
        /\ \A u \in Users, p \in Points : p \notin Outdated(kept) =>
               synced.support[u][p] = kept.support[u][p] /\ synced.blocked[u][p] = kept.blocked[u][p]
    BY <1>1, <1>3, <1>4, TransferFields DEF Good
  <2>3. \A p \in Posts \ synced.purged : p \in Points /\ p \notin Dead /\ p \notin Outdated(kept)
    BY <1>4, <2>1, <2>2 DEF Points
  <2> QED BY <1>5, <2>1, <2>2, <2>3 DEF Prepared
<1>10. Synced(synced)
  <2>1. /\ kept.text = graph.text /\ kept.purged = graph.purged \cup Dead
        /\ kept.blocked = graph.blocked
        /\ \A u \in Users, p \in Points :
               kept.support[u][p] = IF p \in Dead THEN NoPin ELSE graph.support[u][p]
    BY <1>1, <1>2, PurgeFields DEF Good
  <2>2. /\ synced.purged = kept.purged
        /\ \A u \in Users, p \in Points :
               /\ synced.support[u][p] = IF p \in Outdated(kept) /\ kept.support[u][p] # NoPin
                                         THEN kept.text[p] ELSE kept.support[u][p]
               /\ synced.blocked[u][p] = IF p \in Outdated(kept) /\ kept.blocked[u][p] # NoPin
                                         THEN kept.text[p] ELSE kept.blocked[u][p]
    BY <1>1, <1>3, <1>4, TransferFields DEF Good
  <2> SUFFICES ASSUME NEW r \in CoreRoots \ synced.purged
               PROVE  /\ \/ \A u \in Users : /\ synced.support[u][r] = graph.support[u][r]
                                              /\ synced.blocked[u][r] = graph.blocked[u][r]
                         \/ graph.text[r] # NoPin /\ Pinned(synced, r, {NoPin, graph.text[r]})
                      /\ \/ graph.text[r] = NoPin /\ baseline'[r] = baseline[r]
                         \/ /\ graph.text[r] # NoPin /\ baseline'[r] = graph.text[r]
                            /\ \/ baseline[r] \in {NoPin, graph.text[r]}
                               \/ Pinned(synced, r, {NoPin, graph.text[r]})
    BY DEF Synced
  <2>3. /\ r \in Points /\ r \notin Dead /\ r \notin kept.purged
        /\ baseline'[r] = IF graph.text[r] = NoPin THEN baseline[r] ELSE graph.text[r]
    BY <1>1, <2>1, <2>2 DEF SyncedBaseline, Points
  <2>4. CASE r \in Outdated(kept)
    <3>1. graph.text[r] # NoPin
      BY <2>1, <2>4 DEF Outdated
    <3>2. Pinned(synced, r, {NoPin, graph.text[r]})
      BY <2>1, <2>2, <2>3, <2>4 DEF Pinned
    <3> QED BY <2>3, <3>1, <3>2
  <2>5. CASE r \notin Outdated(kept)
    <3>1. graph.text[r] # NoPin => baseline[r] \in {NoPin, graph.text[r]}
      BY <2>1, <2>3, <2>5 DEF Outdated
    <3> QED BY <2>1, <2>2, <2>3, <2>5, <3>1
  <2> QED BY <2>4, <2>5
<1>7. closed = synced \/ \E p \in Points : IsOpen(synced, p) /\ Due(synced, p) /\ Closing(synced, closed, p)
  <2>1. FirstDue(synced) \in SUBSET {p \in Points : IsOpen(synced, p) /\ p \in Posts}
    BY <1>5 DEF FirstDue, OpenDue, Good, Counted
  <2>2. \A p \in FirstDue(synced) : p \in Points /\ IsOpen(synced, p) /\ Due(synced, p)
    BY DEF FirstDue, OpenDue
  <2> QED BY <1>1, <1>5, <2>1, <2>2, FinalizeEachCloses DEF Good
<1>8. Good(closed, minted)
  <2>1. FirstDue(synced) \in SUBSET Points
    BY DEF FirstDue, OpenDue
  <2> QED BY <1>1, <1>2, <1>5, <2>1, FinalizeEachGood
<1>9. graph' = closed \/ \E p \in Points : IsOpen(closed, p) /\ Closing(closed, graph', p)
  <2>1. swept \in SUBSET {p \in Points : IsOpen(closed, p) /\ p \in Posts}
    BY <1>1, <1>8 DEF Swept, FirstOf, Good, Counted
  <2> QED BY <1>1, <1>8, <2>1, FinalizeEachCloses DEF Good
<1> QED BY <1>1, <1>6, <1>7, <1>8, <1>9, <1>10

(* The four ways a text is replaced. *)
LEMMA TextWriters ==
    ASSUME IInv, [Next]_vars, NEW p \in Points, graph'.text[p] # graph.text[p]
    PROVE  \/ p \in Posts /\ DirectEdit(p)
           \/ \E S \in SUBSET Sites : GitPublish(S) /\ p \in S
           \/ p \in CoreRoots
           \/ Adopted(p)
<1>1. graph \in GraphType /\ Good(graph, minted)
  BY InvFacts
<1>2. ASSUME NEW u \in Users, NEW q \in Points, ReactionStep(u, q) PROVE Adopted(p)
  <2>1. PICK g : Reacting(graph, g, u, q) /\ Good(g, minted) /\ graph' = Finalize(g, q)
    BY <1>2, ReactionShape
  <2>2. Closing(g, graph', q)
    BY <2>1, FinalizeCloses DEF Good, Counted
  <2>3. p = q /\ IsOpen(g, p) /\ graph'.text[p] = g.proposal[p].candidate
    BY <2>1, <2>2 DEF Closing, Reacting
  <2>4. IsOpen(graph, p) /\ g.proposal[p].candidate = graph.proposal[p].candidate
    BY <2>1, <2>3 DEF Reacting, SameTerms
  <2> QED BY <2>3, <2>4 DEF Adopted
<1>3. ASSUME NEW u \in Users, NEW q \in Posts, NEW S \in SUBSET Points, NEW id \in ProposalIds,
             Propose(u, q, S, id)
      PROVE  FALSE
  BY <1>1, <1>3 DEF Propose, GraphType
<1>4. ASSUME NEW u \in Users, UserStep(u) PROVE Adopted(p)
  BY <1>2, <1>3, <1>4 DEF UserStep, ReactionStep, Points
<1>5. CASE SourceStep
  <2>1. ASSUME NEW q \in Posts, DirectEdit(q) PROVE p = q
    <3>1. graph'.text = [graph.text EXCEPT ![q] = minted[q] + 1]
      BY <1>1, <2>1 DEF DirectEdit, GraphType
    <3> QED BY <1>1, <3>1, GraphFields
  <2>2. ASSUME NEW S \in SUBSET Sites, GitPublish(S) PROVE p \in S
    <3>1. PICK T, h : /\ T = [q \in Points |-> IF q \in S THEN minted[q] + 1 ELSE graph.text[q]]
                      /\ h = [graph EXCEPT !.text = T] /\ graph' = Transfer(h, S)
      BY <2>2 DEF GitPublish
    <3>2. graph'.text = T
      BY <1>1, <3>1 DEF Transfer, GraphType
    <3> QED BY <3>1, <3>2
  <2>3. ASSUME NEW r \in CoreRoots, NEW pin \in OptPin, Deploy(r, pin) PROVE p = r
    <3>1. graph'.text = [graph.text EXCEPT ![r] = pin]
      BY <1>1, <2>3 DEF Deploy, GraphType
    <3> QED BY <1>1, <3>1, GraphFields
  <2> QED BY <1>5, <2>1, <2>2, <2>3 DEF SourceStep
<1>6. CASE ModeratorStep
  BY <1>1, <1>6 DEF ModeratorStep, Hide, Restore, Ban, GraphType
<1>7. CASE Work
  <2>1. PICK g, c :
              /\ Prepared(g) /\ Good(c, minted)
              /\ c = g \/ \E q \in Points : IsOpen(g, q) /\ Due(g, q) /\ Closing(g, c, q)
              /\ graph' = c \/ \E q \in Points : IsOpen(c, q) /\ Closing(c, graph', q)
    BY <1>7, WorkShape
  <2>2. CASE c.text[p] # g.text[p]
    <3>1. IsOpen(g, p) /\ c.text[p] = g.proposal[p].candidate /\ c.proposal[p] = NoProposal
      BY <2>1, <2>2 DEF Closing
    <3>2. graph'.text[p] = c.text[p]
      BY <2>1, <3>1 DEF Closing, IsOpen
    <3>3. g.proposal[p] = graph.proposal[p]
      BY <2>1, <3>1 DEF Prepared, IsOpen
    <3> QED BY <3>1, <3>2, <3>3 DEF Adopted, IsOpen
  <2>3. CASE c.text[p] = g.text[p]
    <3>1. c.text[p] = graph.text[p]
      BY <2>1, <2>3 DEF Prepared
    <3>2. IsOpen(c, p) /\ graph'.text[p] = c.proposal[p].candidate
      BY <2>1, <3>1 DEF Closing
    <3>3. c.proposal[p] \in {g.proposal[p], NoProposal}
      BY <2>1 DEF Closing
    <3>4. c.proposal[p] = graph.proposal[p]
      BY <2>1, <3>2, <3>3 DEF Prepared, IsOpen
    <3> QED BY <3>2, <3>4 DEF Adopted, IsOpen
  <2> QED BY <2>2, <2>3
<1>8. ~(Tick \/ UNCHANGED vars)
  BY DEF Tick, vars
<1> QED BY <1>4, <1>5, <1>6, <1>7, <1>8 DEF Next

(* A supported text goes only by decision or to Git (Social._finalize,     *)
(* authoring.save, root_publish.publish_on).                               *)
THEOREM SupportedTextIsKept == Spec => SupportedTextKept
<1>1. ASSUME IInv, [Next]_vars, NEW p \in Posts \ gitManaged', graph'.text[p] # graph.text[p]
      PROVE  Adopted(p) \/ Unsupported(graph, p)
  <2>1. p \in Points /\ p \notin CoreRoots
    BY DEF Points
  <2>2. DirectEdit(p) => Unsupported(graph, p)
    BY DEF DirectEdit, MayEdit
  <2>3. \A S \in SUBSET Sites : GitPublish(S) => p \notin S
    BY DEF GitPublish
  <2> QED BY <1>1, <2>1, <2>2, <2>3, TextWriters
<1>2. IInv /\ [Next]_vars =>
          [\A p \in Posts \ gitManaged' :
               graph'.text[p] # graph.text[p] => Adopted(p) \/ Unsupported(graph, p)]_vars
  BY <1>1
<1> QED BY <1>2, Invariant, PTL DEF Spec, SupportedTextKept

(* Decisions move nobody; a pass moves pins of purged points and of roots. *)
LEMMA WorkKeepsStances ==
    ASSUME IInv, Work, NEW u \in Users, NEW p \in Posts \ graph'.purged
    PROVE  graph'.support[u][p] = graph.support[u][p] /\ graph'.blocked[u][p] = graph.blocked[u][p]
<1>1. PICK g, c :
            /\ Prepared(g)
            /\ c = g \/ \E q \in Points : Closing(g, c, q)
            /\ graph' = c \/ \E q \in Points : Closing(c, graph', q)
  BY WorkShape
<1>2. c.purged = g.purged /\ c.support = g.support /\ c.blocked = g.blocked
  BY <1>1 DEF Closing
<1>3. graph'.purged = c.purged /\ graph'.support = c.support /\ graph'.blocked = c.blocked
  BY <1>1 DEF Closing
<1> QED BY <1>1, <1>2, <1>3 DEF Prepared

StancesOn(p) ==
    LET Changed == {u \in Users : \/ graph'.support[u][p] # graph.support[u][p]
                                  \/ graph'.blocked[u][p] # graph.blocked[u][p]}
    IN  /\ \A u, x \in Changed : u = x
        /\ \A u \in Changed : graph'.support[u][p] \in Offered(p)

LEMMA UnmovedStances ==
    ASSUME NEW p, \A u \in Users : /\ graph'.support[u][p] = graph.support[u][p]
                                   /\ graph'.blocked[u][p] = graph.blocked[u][p]
    PROVE  StancesOn(p)
  BY DEF StancesOn

LEMMA StanceStep ==
    ASSUME IInv, [Next]_vars, NEW p \in Posts \ (gitManaged' \cup graph'.purged)
    PROVE  StancesOn(p)
<1>1. graph \in GraphType /\ Good(graph, minted) /\ p \in Points /\ p \notin CoreRoots
  BY InvFacts DEF Points
<1>2. ASSUME NEW u \in Users, NEW q \in Points, ReactionStep(u, q) PROVE StancesOn(p)
  <2>1. PICK g : /\ Reacting(graph, g, u, q) /\ Good(g, minted)
                 /\ g.support[u][q] \in Offered(q) \/ g.support[u][q] = graph.support[u][q]
                 /\ g.support[u][q] \in Offered(q) \/ g.blocked[u][q] = graph.blocked[u][q]
                 /\ graph' = Finalize(g, q)
    BY <1>2, ReactionShape
  <2>2. Closing(g, graph', q)
    BY <2>1, FinalizeCloses DEF Good, Counted
  <2>3. graph'.support = g.support /\ graph'.blocked = g.blocked
    BY <2>2 DEF Closing
  <2>4. \A x \in Users : x # u \/ p # q =>
            graph'.support[x][p] = graph.support[x][p] /\ graph'.blocked[x][p] = graph.blocked[x][p]
    BY <1>1, <2>1, <2>3 DEF Reacting
  <2>5. CASE p # q
    BY <2>4, <2>5, UnmovedStances
  <2>6. CASE p = q
    BY <2>1, <2>3, <2>4, <2>6 DEF StancesOn
  <2> QED BY <2>5, <2>6
<1>3. ASSUME NEW u \in Users, UserStep(u) PROVE StancesOn(p)
  <2>1. ASSUME NEW q \in Posts, NEW S \in SUBSET Points, NEW id \in ProposalIds,
               Propose(u, q, S, id)
        PROVE  graph'.support = graph.support /\ graph'.blocked = graph.blocked
    BY <1>1, <2>1 DEF Propose, GraphType
  <2> QED BY <1>2, <1>3, <2>1, UnmovedStances DEF UserStep, ReactionStep, Points
<1>4. CASE SourceStep
  <2>1. ASSUME NEW q \in Posts, DirectEdit(q)
        PROVE  graph'.support = graph.support /\ graph'.blocked = graph.blocked
    BY <1>1, <2>1 DEF DirectEdit, GraphType
  <2>2. ASSUME NEW S \in SUBSET Sites, GitPublish(S)
        PROVE  \A u \in Users : /\ graph'.support[u][p] = graph.support[u][p]
                                /\ graph'.blocked[u][p] = graph.blocked[u][p]
    <3>1. PICK T, h : /\ T = [q \in Points |-> IF q \in S THEN minted[q] + 1 ELSE graph.text[q]]
                      /\ h = [graph EXCEPT !.text = T] /\ graph' = Transfer(h, S)
      BY <2>2 DEF GitPublish
    <3>2. p \notin S
      BY <2>2 DEF GitPublish
    <3>3. /\ graph'.support = Moved(graph.support, S, T)
          /\ graph'.blocked = Moved(graph.blocked, S, T)
      BY <1>1, <3>1 DEF Transfer, GraphType
    <3> QED BY <1>1, <3>2, <3>3 DEF Moved
  <2>3. ASSUME NEW r \in CoreRoots, NEW pin \in OptPin, Deploy(r, pin)
        PROVE  graph'.support = graph.support /\ graph'.blocked = graph.blocked
    BY <1>1, <2>3 DEF Deploy, GraphType
  <2> QED BY <1>4, <2>1, <2>2, <2>3, UnmovedStances DEF SourceStep
<1>5. CASE ModeratorStep
  <2>1. graph'.support = graph.support /\ graph'.blocked = graph.blocked
    BY <1>1, <1>5 DEF ModeratorStep, Hide, Restore, Ban, GraphType
  <2> QED BY <2>1, UnmovedStances
<1>6. CASE Work
  BY <1>6, WorkKeepsStances, UnmovedStances
<1>7. CASE Tick \/ UNCHANGED vars
  <2>1. graph' = graph
    BY <1>7 DEF Tick, vars
  <2> QED BY <2>1, UnmovedStances
<1> QED BY <1>3, <1>4, <1>5, <1>6, <1>7 DEF Next

(* A step moves the pin of the person acting, to a text that was offered   *)
(* (social._vote, _subscription, _block).                                  *)
THEOREM StancesArePersonal == Spec => StanceIsPersonal
<1>1. IInv /\ [Next]_vars =>
          [\A p \in Posts \ (gitManaged' \cup graph'.purged) :
             LET Changed == {u \in Users : \/ graph'.support[u][p] # graph.support[u][p]
                                           \/ graph'.blocked[u][p] # graph.blocked[u][p]}
             IN  /\ \A u, x \in Changed : u = x
                 /\ \A u \in Changed : graph'.support[u][p] \in
                        {NoPin, graph.text[p]} \cup
                        (IF IsOpen(graph, p) THEN {graph.proposal[p].candidate} ELSE {})]_vars
  BY StanceStep DEF StancesOn, Offered
<1> QED BY <1>1, Invariant, PTL DEF Spec, StanceIsPersonal

-----------------------------------------------------------------------------
(* Adoption.                                                               *)

(* A citation names a text the point has had, never one that is still     *)
(* being proposed.                                                         *)
CitesPast(g, m, q) ==
    \A t \in Points : /\ q.cites[t] <= m[t]
                      /\ IsOpen(g, t) => q.cites[t] # g.proposal[t].candidate

Cited(g, m) ==
    \A p \in Points : IsOpen(g, p) =>
        /\ g.text[p] # g.proposal[p].candidate
        /\ g.proposal[p].cites[p] = NoPin
        /\ CitesPast(g, m, g.proposal[p])

(* Fewer open proposals about the same or adopted texts. *)
LEMMA CitedKept ==
    ASSUME NEW g, NEW m, NEW h, Cited(g, m),
           \A p \in Points : IsOpen(h, p) =>
               /\ IsOpen(g, p) /\ SameTerms(g.proposal[p], h.proposal[p])
               /\ h.text[p] = g.text[p]
    PROVE  Cited(h, m)
<1> SUFFICES ASSUME NEW p \in Points, IsOpen(h, p)
             PROVE  /\ h.text[p] # h.proposal[p].candidate
                    /\ h.proposal[p].cites[p] = NoPin
                    /\ CitesPast(h, m, h.proposal[p])
  BY DEF Cited
<1>1. /\ IsOpen(g, p) /\ h.proposal[p].cites = g.proposal[p].cites
      /\ h.proposal[p].candidate = g.proposal[p].candidate /\ h.text[p] = g.text[p]
  BY DEF SameTerms
<1>2. CitesPast(g, m, g.proposal[p])
  BY <1>1 DEF Cited
<1>3. CitesPast(h, m, h.proposal[p])
  BY <1>1, <1>2 DEF CitesPast, SameTerms
<1> QED BY <1>1, <1>3 DEF Cited

LEMMA ClosingKeepsCited ==
    ASSUME NEW g, NEW m, NEW h, NEW p, Cited(g, m), Closing(g, h, p)
    PROVE  Cited(h, m)
<1>1. ASSUME NEW q \in Points, IsOpen(h, q)
      PROVE  IsOpen(g, q) /\ SameTerms(g.proposal[q], h.proposal[q]) /\ h.text[q] = g.text[q]
  BY <1>1 DEF Closing, IsOpen, SameTerms
<1> QED BY <1>1, CitedKept

(* A text changes to one the point has never had. *)
LEMMA RetextKeepsCited ==
    ASSUME NEW g, NEW m \in Counts, NEW n \in Counts, NEW h, Good(g, m), Cited(g, m),
           h.proposal = g.proposal,
           \A p \in Points : /\ m[p] <= n[p]
                             /\ IsOpen(g, p) => /\ h.text[p] = g.text[p] \/ h.text[p] > m[p]
                                                /\ h.text[p] \in Int
    PROVE  Cited(h, n)
<1> SUFFICES ASSUME NEW p \in Points, IsOpen(g, p)
             PROVE  /\ h.text[p] # g.proposal[p].candidate
                    /\ g.proposal[p].cites[p] = NoPin
                    /\ CitesPast(h, n, g.proposal[p])
  BY DEF Cited, IsOpen
<1>1. /\ g.proposal[p].candidate \in Int /\ g.proposal[p].candidate <= m[p] /\ m[p] \in Int
      /\ g \in GraphType
  BY OpenFields, PinFacts DEF Good, Counted, Counts
<1>2. h.text[p] # g.proposal[p].candidate
  BY <1>1 DEF Cited
<1>3. CitesPast(g, m, g.proposal[p])
  BY DEF Cited
<1>4. ASSUME NEW t \in Points
      PROVE  /\ g.proposal[p].cites[t] <= n[t]
             /\ IsOpen(h, t) => g.proposal[p].cites[t] # h.proposal[t].candidate
  <2>1. g.proposal[p] \in Proposal
    BY <1>1, OpenFields
  <2>2. g.proposal[p].cites \in [Points -> OptPin]
    BY <2>1 DEF Proposal
  <2>3. g.proposal[p].cites[t] \in Int /\ m[t] \in Int /\ n[t] \in Int /\ m[t] <= n[t]
    BY <2>2, PinFacts DEF Counts
  <2>4. g.proposal[p].cites[t] <= m[t]
    BY <1>3 DEF CitesPast
  <2>5. IsOpen(h, t) => IsOpen(g, t) /\ h.proposal[t] = g.proposal[t]
    BY DEF IsOpen
  <2> QED BY <1>3, <2>3, <2>4, <2>5 DEF CitesPast
<1> QED BY <1>2, <1>4 DEF Cited, CitesPast

LEMMA ProposeKeepsCited ==
    ASSUME IInv, Cited(graph, minted), NEW u \in Users, NEW p \in Posts,
           NEW S \in SUBSET Points, NEW id \in ProposalIds, Propose(u, p, S, id)
    PROVE  Cited(graph', minted')
<1>1. /\ graph \in GraphType /\ minted \in Counts /\ Good(graph, minted) /\ p \in Points
      /\ \A x \in Points : graph.text[x] <= minted[x] /\ minted[x] \in OptPin
  BY InvFacts DEF Points
<1>2. PICK q : q = [id |-> id, author |-> u, base |-> graph.text[p],
                    candidate |-> minted[p] + 1, closes |-> now + VotingDays,
                    cites |-> [t \in Points |-> IF t \in S THEN graph.text[t] ELSE NoPin],
                    ballot |-> [x \in Users |-> "none"]]
  OBVIOUS
<1>3. /\ graph' = [graph EXCEPT !.proposal[p] = q] /\ minted' = [minted EXCEPT ![p] = @ + 1]
      /\ p \notin S
  BY <1>2 DEF Propose
<1>4. /\ graph'.text = graph.text
      /\ \A x \in Points : graph'.proposal[x] = IF x = p THEN q ELSE graph.proposal[x]
  <2>1. graph' = [graph EXCEPT !.proposal = [graph.proposal EXCEPT ![p] = q]]
    BY <1>1, <1>3, GraphFields DEF GraphType
  <2>2. graph'.text = graph.text /\ graph'.proposal = [graph.proposal EXCEPT ![p] = q]
    BY <1>1, <2>1 DEF GraphType
  <2> QED BY <1>1, <2>2, GraphFields
<1>5. /\ q.candidate = minted[p] + 1
      /\ \A t \in Points : q.cites[t] = IF t \in S THEN graph.text[t] ELSE NoPin
  BY <1>2
<1>6. \A x \in Points : /\ minted[x] \in Int /\ minted[x] >= 0 /\ graph.text[x] \in Int
                        /\ graph.text[x] >= 0 /\ graph.text[x] <= minted[x]
                        /\ minted'[x] = IF x = p THEN minted[x] + 1 ELSE minted[x]
  BY <1>1, <1>3, GraphFields DEF OptPin, Pins, NoPin, Counts
<1>7. ASSUME NEW x \in Points, x # p, IsOpen(graph', x)
      PROVE  IsOpen(graph, x) /\ graph'.proposal[x] = graph.proposal[x]
  BY <1>4, <1>7 DEF IsOpen
<1>8. ASSUME NEW x \in Points, IsOpen(graph', x)
      PROVE  /\ graph.text[x] # graph'.proposal[x].candidate
             /\ graph'.proposal[x].cites[x] = NoPin
  <2>1. CASE x = p
    BY <1>3, <1>4, <1>5, <1>6, <2>1
  <2>2. CASE x # p
    BY <1>7, <1>8, <2>2 DEF Cited
  <2> QED BY <2>1, <2>2
<1>9. ASSUME NEW x \in Points, IsOpen(graph', x), NEW t \in Points
      PROVE  /\ graph'.proposal[x].cites[t] \in Int
             /\ graph'.proposal[x].cites[t] <= minted[t]
             /\ t # p /\ IsOpen(graph, t) =>
                    graph'.proposal[x].cites[t] # graph.proposal[t].candidate
  <2>1. CASE x = p
    <3>1. graph'.proposal[x].cites[t] \in {NoPin, graph.text[t]}
      BY <1>4, <1>5, <2>1
    <3>2. IsOpen(graph, t) => graph.proposal[t].candidate # graph.text[t]
      BY DEF Cited
    <3>3. IsOpen(graph, t) => graph.proposal[t].candidate # NoPin
      BY <1>1, OpenFields, PinFacts
    <3> QED BY <1>6, <3>1, <3>2, <3>3 DEF NoPin
  <2>2. CASE x # p
    <3>1. IsOpen(graph, x) /\ graph'.proposal[x] = graph.proposal[x]
      BY <1>7, <1>9, <2>2
    <3>2. CitesPast(graph, minted, graph.proposal[x])
      BY <3>1 DEF Cited
    <3>3. graph.proposal[x] \in Proposal
      BY <1>1, <3>1, OpenFields
    <3>4. graph.proposal[x].cites[t] \in Int
      BY <3>3, PinFacts DEF Proposal
    <3> QED BY <3>1, <3>2, <3>4 DEF CitesPast
  <2> QED BY <2>1, <2>2
<1>10. ASSUME NEW x \in Points, IsOpen(graph', x), NEW t \in Points
       PROVE  /\ graph'.proposal[x].cites[t] <= minted'[t]
              /\ IsOpen(graph', t) =>
                     graph'.proposal[x].cites[t] # graph'.proposal[t].candidate
  <2>1. graph'.proposal[x].cites[t] <= minted'[t]
    BY <1>6, <1>9, <1>10
  <2>2. CASE t = p
    <3>1. graph'.proposal[t].candidate = minted[t] + 1 /\ minted[t] \in Int
      BY <1>4, <1>5, <1>6, <2>2
    <3>2. graph'.proposal[x].cites[t] \in Int /\ graph'.proposal[x].cites[t] <= minted[t]
      BY <1>9, <1>10
    <3> QED BY <2>1, <3>1, <3>2
  <2>3. CASE t # p
    BY <1>7, <1>9, <1>10, <2>1, <2>3
  <2> QED BY <2>2, <2>3
<1> QED BY <1>4, <1>8, <1>10 DEF Cited, CitesPast

LEMMA SourceKeepsCited ==
    ASSUME IInv, Cited(graph, minted), SourceStep
    PROVE  Cited(graph', minted')
<1>1. /\ graph \in GraphType /\ minted \in Counts /\ Good(graph, minted)
      /\ \A x \in Points : /\ graph.text[x] <= minted[x] /\ minted[x] \in OptPin
                           /\ minted[x] \in Int /\ graph.text[x] \in Int
  BY InvFacts, GraphFields, PinFacts
<1>2. ASSUME NEW p \in Posts, DirectEdit(p) PROVE Cited(graph', minted')
  <2>1. minted' \in Counts
    BY <1>2, DirectEditGood
  <2>2. /\ p \in Points /\ graph'.proposal = graph.proposal
        /\ graph'.text = [graph.text EXCEPT ![p] = minted[p] + 1]
        /\ minted' = [minted EXCEPT ![p] = @ + 1]
    BY <1>1, <1>2 DEF DirectEdit, GraphType, Points
  <2>3. \A x \in Points :
            /\ graph'.text[x] = IF x = p THEN minted[p] + 1 ELSE graph.text[x]
            /\ minted'[x] = IF x = p THEN minted[p] + 1 ELSE minted[x]
    BY <1>1, <2>2, GraphFields DEF Counts
  <2>4. \A x \in Points : /\ minted[x] <= minted'[x] /\ graph'.text[x] \in Int
                          /\ graph'.text[x] = graph.text[x] \/ graph'.text[x] > minted[x]
    BY <1>1, <2>3
  <2> QED BY <1>1, <2>1, <2>2, <2>4, RetextKeepsCited
<1>3. ASSUME NEW S \in SUBSET Sites, GitPublish(S) PROVE Cited(graph', minted')
  <2>1. minted' \in Counts
    BY <1>3, GitPublishGood
  <2>2. PICK T, h : /\ T = [q \in Points |-> IF q \in S THEN minted[q] + 1 ELSE graph.text[q]]
                    /\ h = [graph EXCEPT !.text = T] /\ graph' = Transfer(h, S)
                    /\ minted' = [q \in Points |-> IF q \in S THEN minted[q] + 1 ELSE minted[q]]
    BY <1>3 DEF GitPublish
  <2>3. graph'.text = T /\ graph'.proposal = graph.proposal
    BY <1>1, <2>2 DEF Transfer, GraphType
  <2>4. \A x \in Points : /\ minted[x] <= minted'[x] /\ graph'.text[x] \in Int
                          /\ graph'.text[x] = graph.text[x] \/ graph'.text[x] > minted[x]
    BY <1>1, <2>2, <2>3
  <2> QED BY <1>1, <2>1, <2>3, <2>4, RetextKeepsCited
<1>4. ASSUME NEW r \in CoreRoots, NEW pin \in OptPin, Deploy(r, pin) PROVE Cited(graph', minted')
  <2>1. minted' \in Counts
    BY <1>4, DeployGood
  <2>2. /\ r \in Points /\ graph'.proposal = graph.proposal /\ pin \in Int
        /\ graph'.text = [graph.text EXCEPT ![r] = pin]
        /\ minted' = [minted EXCEPT ![r] = IF pin > @ THEN pin ELSE @]
    BY <1>1, <1>4, PinFacts DEF Deploy, GraphType, Points
  <2>3. \A x \in Points : minted[x] <= minted'[x]
    BY <1>1, <2>2 DEF Counts
  <2>4. \A x \in Points : IsOpen(graph, x) => graph'.text[x] = graph.text[x] /\ graph'.text[x] \in Int
    <3>1. ~IsOpen(graph, r)
      BY <1>1, <2>2 DEF Good, Counted
    <3> QED BY <1>1, <2>2, <3>1, GraphFields
  <2>5. \A x \in Points : /\ minted[x] <= minted'[x]
                          /\ IsOpen(graph, x) => /\ graph'.text[x] = graph.text[x] \/ graph'.text[x] > minted[x]
                                                 /\ graph'.text[x] \in Int
    BY <2>3, <2>4
  <2> QED BY <1>1, <2>1, <2>2, <2>5, RetextKeepsCited
<1> QED BY <1>2, <1>3, <1>4 DEF SourceStep

LEMMA CitedStep ==
    ASSUME IInv, Cited(graph, minted), [Next]_vars
    PROVE  Cited(graph', minted')
<1>1. graph \in GraphType /\ Good(graph, minted)
  BY InvFacts
<1>2. ASSUME NEW u \in Users, NEW p \in Points, ReactionStep(u, p) PROVE Cited(graph', minted')
  <2>1. PICK g : /\ Reacting(graph, g, u, p) /\ Good(g, minted)
                 /\ graph' = Finalize(g, p) /\ minted' = minted
    BY <1>2, ReactionShape
  <2>2. Closing(g, graph', p)
    BY <2>1, FinalizeCloses DEF Good, Counted
  <2>3. Cited(g, minted)
    BY <2>1, CitedKept DEF Reacting
  <2> QED BY <2>1, <2>2, <2>3, ClosingKeepsCited
<1>3. ASSUME NEW u \in Users, UserStep(u) PROVE Cited(graph', minted')
  BY <1>2, <1>3, ProposeKeepsCited DEF UserStep, ReactionStep, Points
<1>4. CASE SourceStep
  BY <1>4, SourceKeepsCited
<1>5. CASE ModeratorStep
  <2>1. graph'.text = graph.text /\ graph'.proposal = graph.proposal /\ minted' = minted
    BY <1>1, <1>5 DEF ModeratorStep, Hide, Restore, Ban, GraphType
  <2> QED BY <2>1, CitedKept DEF IsOpen, SameTerms
<1>6. CASE Work
  <2>1. PICK g, c :
              /\ Prepared(g) /\ minted' = minted
              /\ c = g \/ \E q \in Points : Closing(g, c, q)
              /\ graph' = c \/ \E q \in Points : Closing(c, graph', q)
    BY <1>6, WorkShape
  <2>2. Cited(g, minted)
    BY <2>1, CitedKept DEF Prepared, IsOpen, SameTerms
  <2>3. Cited(c, minted)
    BY <2>1, <2>2, ClosingKeepsCited
  <2> QED BY <2>1, <2>3, ClosingKeepsCited
<1>7. CASE Tick \/ UNCHANGED vars
  <2>1. graph' = graph /\ minted' = minted
    BY <1>7 DEF Tick, vars
  <2> QED BY <2>1
<1> QED BY <1>3, <1>4, <1>5, <1>6, <1>7 DEF Next

LEMMA AlwaysCited == Spec => []Cited(graph, minted)
<1>1. Init => Cited(graph, minted)
  BY DEF Init, Cited, IsOpen
<1>2. IInv /\ Cited(graph, minted) /\ [Next]_vars => Cited(graph, minted)'
  BY CitedStep
<1> QED BY <1>1, <1>2, Invariant, PTL DEF Spec

(* The text adopted in a decision was written against the text it replaces. *)
FreshlyAdopted(p) ==
    LET q == graph.proposal[p] IN
    /\ graph.text[p] = q.base
    /\ graph'.proposal[p] = NoProposal
    /\ ban[q.author] = "none"
    /\ \A t \in Points : q.cites[t] # NoPin =>
        /\ graph.text[t] = q.cites[t]
        /\ Adopted(t) => graph.proposal[t].cites[p] = NoPin

(* No source step is taken for an adoption: it brings a new text. *)
LEMMA SourceAdoptsNothing ==
    ASSUME IInv, SourceStep, NEW p \in Points
    PROVE  ~Adopted(p)
<1>1. SUFFICES ASSUME Adopted(p) PROVE FALSE
  OBVIOUS
<1>2. /\ graph \in GraphType /\ Good(graph, minted) /\ minted[p] \in Int
      /\ IsOpen(graph, p) /\ graph'.text[p] # graph.text[p]
      /\ graph'.text[p] = graph.proposal[p].candidate
      /\ p \in Posts /\ p \notin CoreRoots
      /\ graph.proposal[p].candidate \in Int /\ graph.proposal[p].candidate <= minted[p]
  BY <1>1, InvFacts, OpenFields, PinFacts DEF Adopted, Good, Counted
<1>3. ASSUME NEW q \in Posts, DirectEdit(q) PROVE FALSE
  <2>1. graph'.text = [graph.text EXCEPT ![q] = minted[q] + 1]
    BY <1>2, <1>3 DEF DirectEdit, GraphType
  <2>2. graph'.text[p] = minted[p] + 1
    BY <1>2, <2>1, GraphFields
  <2> QED BY <1>2, <2>2
<1>4. ASSUME NEW S \in SUBSET Sites, GitPublish(S) PROVE FALSE
  <2>1. PICK T, h : /\ T = [q \in Points |-> IF q \in S THEN minted[q] + 1 ELSE graph.text[q]]
                    /\ h = [graph EXCEPT !.text = T] /\ graph' = Transfer(h, S)
    BY <1>4 DEF GitPublish
  <2>2. graph'.text = T
    BY <1>2, <2>1 DEF Transfer, GraphType
  <2>3. graph'.text[p] = minted[p] + 1
    BY <1>2, <2>1, <2>2
  <2> QED BY <1>2, <2>3
<1>5. ASSUME NEW r \in CoreRoots, NEW pin \in OptPin, Deploy(r, pin) PROVE FALSE
  <2>1. graph'.text = [graph.text EXCEPT ![r] = pin]
    BY <1>2, <1>5 DEF Deploy, GraphType
  <2> QED BY <1>2, <2>1, GraphFields
<1> QED BY <1>1, <1>3, <1>4, <1>5 DEF SourceStep

LEMMA ReactionAdoptsFresh ==
    ASSUME IInv, Cited(graph, minted), NEW u \in Users, NEW x \in Points, ReactionStep(u, x),
           NEW p \in Points, Adopted(p)
    PROVE  FreshlyAdopted(p)
<1>1. PICK g : Reacting(graph, g, u, x) /\ Good(g, minted) /\ graph' = Finalize(g, x)
  BY ReactionShape
<1>2. Closing(g, graph', x)
  BY <1>1, FinalizeCloses DEF Good, Counted
<1>3. \A t \in Points : Adopted(t) => t = x
  BY <1>1, <1>2 DEF Adopted, Closing, Reacting
<1>4. /\ p = x /\ IsOpen(graph, p) /\ graph'.text[p] # g.text[p] /\ g.text = graph.text
  BY <1>1, <1>3 DEF Adopted, Reacting
<1>5. /\ IsOpen(g, p) /\ Fresh(g, p) /\ TargetsKept(g, p) /\ graph'.proposal[p] = NoProposal
  BY <1>2, <1>4 DEF Closing
<1>6. SameTerms(graph.proposal[p], g.proposal[p]) /\ graph.proposal[p].cites[p] = NoPin
  BY <1>1, <1>4 DEF Reacting, Cited
<1> QED BY <1>3, <1>4, <1>5, <1>6 DEF FreshlyAdopted, Fresh, TargetsKept, SameTerms

(* Of the two texts a pass may adopt neither cites the other: the second   *)
(* would cite a text that was still proposed when it was written.          *)
LEMMA WorkAdoptsFresh ==
    ASSUME IInv, Cited(graph, minted), Work, NEW p \in Points, Adopted(p)
    PROVE  FreshlyAdopted(p)
<1>1. PICK g, c :
            /\ Prepared(g)
            /\ c = g \/ \E q \in Points : Closing(g, c, q)
            /\ graph' = c \/ \E q \in Points : Closing(c, graph', q)
  BY WorkShape
<1>2. ASSUME NEW t \in Points, c.text[t] # g.text[t]
      PROVE  /\ c.text[t] = graph.proposal[t].candidate /\ c.proposal[t] = NoProposal
             /\ IsOpen(graph, t) /\ Fresh(g, t) /\ TargetsKept(g, t)
             /\ g.proposal[t] = graph.proposal[t]
             /\ \A q \in Points : q # t => c.text[q] = graph.text[q]
             /\ graph'.proposal[t] = NoProposal /\ graph'.text[t] = c.text[t]
  <2>1. /\ IsOpen(g, t) /\ Fresh(g, t) /\ TargetsKept(g, t)
        /\ c.text[t] = g.proposal[t].candidate /\ c.proposal[t] = NoProposal
        /\ \A q \in Points : q # t => c.text[q] = g.text[q]
    BY <1>1, <1>2 DEF Closing
  <2>2. g.text = graph.text /\ g.proposal[t] = graph.proposal[t]
    BY <1>1, <2>1 DEF Prepared, IsOpen
  <2>3. graph'.proposal[t] = NoProposal /\ graph'.text[t] = c.text[t]
    BY <1>1, <2>1 DEF Closing, IsOpen
  <2> QED BY <2>1, <2>2, <2>3 DEF IsOpen
<1>3. ASSUME NEW t \in Points, graph'.text[t] # c.text[t]
      PROVE  /\ IsOpen(c, t) /\ Fresh(c, t) /\ TargetsKept(c, t)
             /\ c.proposal[t] = graph.proposal[t] /\ graph'.proposal[t] = NoProposal
             /\ c.text[t] = graph.text[t]
             /\ \A q \in Points : q # t => graph'.text[q] = c.text[q]
  <2>1. /\ IsOpen(c, t) /\ Fresh(c, t) /\ TargetsKept(c, t)
        /\ graph'.proposal[t] = NoProposal
        /\ \A q \in Points : q # t => graph'.text[q] = c.text[q]
    BY <1>1, <1>3 DEF Closing
  <2>2. c.proposal[t] \in {g.proposal[t], NoProposal}
    BY <1>1 DEF Closing
  <2>3. c.proposal[t] = graph.proposal[t]
    BY <1>1, <2>1, <2>2 DEF Prepared, IsOpen
  <2>4. c.text[t] = graph.text[t]
    <3>1. c.text[t] = g.text[t]
      BY <1>2, <2>1 DEF IsOpen
    <3> QED BY <1>1, <3>1 DEF Prepared
  <2> QED BY <2>1, <2>3, <2>4
<1>4. IsOpen(graph, p) /\ graph'.text[p] # graph.text[p] /\ g.text = graph.text
  BY <1>1 DEF Adopted, Prepared
<1>5. graph.proposal[p].cites[p] = NoPin
  BY <1>4 DEF Cited
<1>6. CASE c.text[p] # g.text[p]
  <2>1. ASSUME NEW t \in Points, graph.proposal[p].cites[t] # NoPin, Adopted(t)
        PROVE  graph.proposal[t].cites[p] = NoPin
    <3>1. t # p /\ c.text[t] = graph.text[t] /\ graph'.text[t] # c.text[t] /\ IsOpen(graph, t)
      BY <1>2, <1>5, <1>6, <2>1 DEF Adopted
    <3>2. TargetsKept(c, t) /\ c.proposal[t] = graph.proposal[t]
      BY <1>3, <3>1
    <3>3. CitesPast(graph, minted, graph.proposal[t])
      BY <3>1 DEF Cited
    <3>4. graph.proposal[t].cites[p] # c.text[p]
      BY <1>2, <1>4, <1>6, <3>3 DEF CitesPast
    <3> QED BY <3>2, <3>4 DEF TargetsKept
  <2> QED BY <1>2, <1>4, <1>6, <2>1 DEF FreshlyAdopted, Fresh, TargetsKept
<1>7. CASE c.text[p] = g.text[p]
  <2>1. graph'.text[p] # c.text[p]
    BY <1>4, <1>7
  <2>2. /\ Fresh(c, p) /\ TargetsKept(c, p) /\ c.proposal[p] = graph.proposal[p]
        /\ graph'.proposal[p] = NoProposal
    BY <1>3, <2>1
  <2>3. CitesPast(graph, minted, graph.proposal[p])
    BY <1>4 DEF Cited
  <2>4. ASSUME NEW t \in Points, graph.proposal[p].cites[t] # NoPin
        PROVE  graph.text[t] = graph.proposal[p].cites[t] /\ ~Adopted(t)
    <3>1. c.text[t] = graph.proposal[p].cites[t]
      BY <2>2, <2>4 DEF TargetsKept
    <3>2. c.text[t] = g.text[t]
      BY <1>2, <2>3, <3>1 DEF CitesPast
    <3>3. t # p
      BY <1>5, <2>4
    <3>4. graph'.text[t] = c.text[t]
      BY <1>3, <2>1, <3>3
    <3> QED BY <1>4, <3>1, <3>2, <3>4 DEF Adopted
  <2> QED BY <1>4, <1>7, <2>2, <2>4 DEF FreshlyAdopted, Fresh
<1> QED BY <1>6, <1>7

LEMMA AdoptionStep ==
    ASSUME IInv, Cited(graph, minted), [Next]_vars, NEW p \in Points, Adopted(p)
    PROVE  FreshlyAdopted(p)
<1>1. graph \in GraphType /\ graph' .text[p] # graph.text[p]
  BY InvFacts DEF Adopted
<1>2. ASSUME NEW u \in Users, UserStep(u) PROVE FreshlyAdopted(p)
  <2>1. ASSUME NEW q \in Posts, NEW S \in SUBSET Points, NEW id \in ProposalIds,
               Propose(u, q, S, id)
        PROVE  graph'.text = graph.text
    BY <1>1, <2>1 DEF Propose, GraphType
  <2> QED BY <1>1, <1>2, <2>1, ReactionAdoptsFresh DEF UserStep, ReactionStep, Points
<1>3. CASE ModeratorStep
  BY <1>1, <1>3 DEF ModeratorStep, Hide, Restore, Ban, GraphType
<1>4. ~(Tick \/ UNCHANGED vars)
  BY <1>1 DEF Tick, vars
<1> QED BY <1>2, <1>3, <1>4, SourceAdoptsNothing, WorkAdoptsFresh DEF Next

(* No decision overwrites a text it was not written against, cites one     *)
(* that is gone, or outlives its author's right to publish                 *)
(* (Social._finalize, Social.work).                                        *)
THEOREM AdoptionsAreFresh == Spec => AdoptedOnBase
<1>1. IInv /\ Cited(graph, minted) /\ [Next]_vars => [AdoptedFresh]_vars
  BY AdoptionStep DEF AdoptedFresh, FreshlyAdopted, Points
<1> QED BY <1>1, AlwaysCited, Invariant, PTL DEF Spec, AdoptedOnBase

-----------------------------------------------------------------------------
(* Texts that Git and the build manage.                                    *)

(* The open proposal on a site that Git has taken over is stale, so nobody *)
(* votes for its candidate any more.                                       *)
GitFollows(g, managed) ==
    \A p \in managed \ g.purged :
        /\ IsOpen(g, p) => g.text[p] # g.proposal[p].base
        /\ Pinned(g, p, {NoPin, g.text[p]})

(* Readers of a root react to its newest text or to the published one.     *)
RootsFollow(g, m, published) ==
    \A r \in CoreRoots \ g.purged :
        /\ g.text[r] \in {NoPin, m[r]}
        /\ published[r] <= m[r]
        /\ published[r] = NoPin => Pinned(g, r, {NoPin})
        /\ published[r] = m[r] => Pinned(g, r, {NoPin, m[r]})

LEMMA ClosingKeepsGit ==
    ASSUME IInv, NEW g, NEW h, NEW p \in Points, Closing(g, h, p), GitFollows(g, gitManaged)
    PROVE  GitFollows(h, gitManaged)
<1> SUFFICES ASSUME NEW q \in gitManaged \ h.purged
             PROVE  /\ IsOpen(h, q) => h.text[q] # h.proposal[q].base
                    /\ Pinned(h, q, {NoPin, h.text[q]})
  BY DEF GitFollows
<1>1. q \in Points
  BY DEF IInv, TypeOK, Points
<1>2. /\ h.text[q] = g.text[q] /\ q \notin g.purged
      /\ h.support = g.support /\ h.blocked = g.blocked
      /\ IsOpen(h, q) => IsOpen(g, q) /\ h.proposal[q] = g.proposal[q]
  BY <1>1 DEF Closing, Fresh, IsOpen
<1> QED BY <1>2 DEF GitFollows, Pinned

LEMMA ClosingKeepsRoots ==
    ASSUME NEW g, NEW h, NEW m, NEW published, NEW p \in Points,
           Good(g, m), Closing(g, h, p), RootsFollow(g, m, published)
    PROVE  RootsFollow(h, m, published)
<1> SUFFICES ASSUME NEW r \in CoreRoots \ h.purged
             PROVE  /\ h.text[r] \in {NoPin, m[r]}
                    /\ published[r] <= m[r]
                    /\ published[r] = NoPin => Pinned(h, r, {NoPin})
                    /\ published[r] = m[r] => Pinned(h, r, {NoPin, m[r]})
  BY DEF RootsFollow
<1>1. ~IsOpen(g, r) /\ r \in Points
  BY DEF Good, Counted, Points
<1>2. /\ h.text[r] = g.text[r] /\ r \notin g.purged
      /\ h.support = g.support /\ h.blocked = g.blocked
  BY <1>1 DEF Closing
<1> QED BY <1>2 DEF RootsFollow, Pinned

LEMMA ReactionFollows ==
    ASSUME IInv, GitFollows(graph, gitManaged), RootsFollow(graph, minted, baseline),
           NEW u \in Users, NEW p \in Points, ReactionStep(u, p)
    PROVE  GitFollows(graph', gitManaged') /\ RootsFollow(graph', minted', baseline')
<1>1. PICK g : /\ Reacting(graph, g, u, p) /\ Good(g, minted) /\ Takes(g, u, p)
               /\ graph' = Finalize(g, p) /\ minted' = minted /\ gitManaged' = gitManaged
  BY ReactionShape
<1>2. Closing(g, graph', p)
  BY <1>1, FinalizeCloses DEF Good, Counted
<1>3. gitManaged \subseteq Points
  BY DEF IInv, TypeOK, Points
<1>4. GitFollows(g, gitManaged)
  <2> SUFFICES ASSUME NEW q \in gitManaged \ g.purged
               PROVE  /\ IsOpen(g, q) => g.text[q] # g.proposal[q].base
                      /\ Pinned(g, q, {NoPin, g.text[q]})
    BY DEF GitFollows
  <2>1. /\ q \in Points /\ q \notin graph.purged /\ g.text[q] = graph.text[q]
        /\ IsOpen(g, q) => IsOpen(graph, q) /\ g.proposal[q].base = graph.proposal[q].base
        /\ \A x \in Users : x # u \/ q # p =>
               g.support[x][q] = graph.support[x][q] /\ g.blocked[x][q] = graph.blocked[x][q]
    BY <1>1, <1>3 DEF Reacting, SameTerms
  <2>2. /\ IsOpen(graph, q) => graph.text[q] # graph.proposal[q].base
        /\ Pinned(graph, q, {NoPin, graph.text[q]})
    BY <2>1 DEF GitFollows
  <2>3. CASE q # p
    BY <2>1, <2>2, <2>3 DEF Pinned
  <2>4. CASE q = p
    <3>1. /\ g.support[u][p] \in {NoPin, graph.text[p], graph.support[u][p]}
          /\ g.blocked[u][p] \in {NoPin, graph.text[p], graph.blocked[u][p]}
      BY <1>1, <2>2, <2>4 DEF Takes
    <3> QED BY <2>1, <2>2, <2>4, <3>1 DEF Pinned
  <2> QED BY <2>3, <2>4
<1>5. RootsFollow(g, minted, baseline')
  <2> SUFFICES ASSUME NEW r \in CoreRoots \ g.purged
               PROVE  /\ g.text[r] \in {NoPin, minted[r]}
                      /\ baseline'[r] <= minted[r]
                      /\ baseline'[r] = NoPin => Pinned(g, r, {NoPin})
                      /\ baseline'[r] = minted[r] => Pinned(g, r, {NoPin, minted[r]})
    BY DEF RootsFollow
  <2>1. /\ r \in Points /\ r \notin graph.purged /\ g.text[r] = graph.text[r] /\ r \notin Posts
        /\ \A x \in Users : x # u \/ r # p =>
               g.support[x][r] = graph.support[x][r] /\ g.blocked[x][r] = graph.blocked[x][r]
    BY <1>1 DEF Reacting, Points
  <2>2. /\ graph.text[r] \in {NoPin, minted[r]} /\ baseline[r] <= minted[r]
        /\ baseline[r] = NoPin => Pinned(graph, r, {NoPin})
        /\ baseline[r] = minted[r] => Pinned(graph, r, {NoPin, minted[r]})
    BY <2>1 DEF RootsFollow
  <2>3. baseline \in [CoreRoots -> OptPin] /\ minted[r] \in Int
    BY <2>1, InvFacts, PinFacts DEF IInv, TypeOK
  <2>4. CASE r # p
    <3>1. baseline'[r] = baseline[r]
      BY <1>1, <2>3, <2>4 DEF Takes, Baselined
    <3> QED BY <2>1, <2>2, <2>4, <3>1 DEF Pinned
  <2>5. CASE r = p /\ baseline' = baseline /\ g.support[u][p] \in {NoPin, graph.support[u][p]}
             /\ g.blocked[u][p] \in {NoPin, graph.blocked[u][p]}
    BY <2>1, <2>2, <2>5 DEF Pinned
  <2>6. CASE /\ r = p /\ Visible(graph, p) /\ baseline' = Baselined(p)
             /\ g.support[u][p] \in {NoPin, graph.text[p]}
             /\ g.blocked[u][p] \in {NoPin, graph.text[p]}
    <3>1. graph.text[r] = minted[r] /\ minted[r] # NoPin
      BY <2>2, <2>6 DEF Visible
    <3>2. CASE baseline[r] = NoPin
      <4>1. baseline'[r] = minted[r]
        BY <2>3, <2>6, <3>1, <3>2 DEF Baselined
      <4>2. Pinned(graph, r, {NoPin})
        BY <2>2, <3>2
      <4> QED BY <2>1, <2>2, <2>3, <2>6, <3>1, <4>1, <4>2 DEF Pinned
    <3>3. CASE baseline[r] # NoPin
      <4>1. baseline' = baseline
        BY <2>6, <3>3 DEF Baselined
      <4> QED BY <2>1, <2>2, <2>6, <3>1, <3>3, <4>1 DEF Pinned
    <3> QED BY <3>2, <3>3
  <2> QED BY <1>1, <2>1, <2>4, <2>5, <2>6 DEF Takes
<1> QED BY <1>1, <1>2, <1>4, <1>5, ClosingKeepsGit, ClosingKeepsRoots

LEMMA ProposeFollows ==
    ASSUME IInv, GitFollows(graph, gitManaged), RootsFollow(graph, minted, baseline),
           NEW u \in Users, NEW p \in Posts, NEW S \in SUBSET Points, NEW id \in ProposalIds,
           Propose(u, p, S, id)
    PROVE  GitFollows(graph', gitManaged') /\ RootsFollow(graph', minted', baseline')
<1>1. graph \in GraphType /\ minted \in Counts /\ p \notin CoreRoots /\ p \in Points
      /\ gitManaged \subseteq Points
  BY InvFacts DEF Points, IInv, TypeOK
<1>2. PICK q : graph' = [graph EXCEPT !.proposal = [graph.proposal EXCEPT ![p] = q]]
  BY <1>1, GraphFields DEF Propose, GraphType
<1>3. /\ graph'.text = graph.text /\ graph'.support = graph.support
      /\ graph'.blocked = graph.blocked /\ graph'.purged = graph.purged
      /\ \A x \in Points : x # p => graph'.proposal[x] = graph.proposal[x]
  BY <1>1, <1>2, GraphFields DEF GraphType
<1>4. /\ p \notin gitManaged /\ gitManaged' = gitManaged /\ baseline' = baseline
      /\ \A r \in CoreRoots : minted'[r] = minted[r]
  BY <1>1 DEF Propose, sources, Counts, Points
<1>5. GitFollows(graph', gitManaged')
  BY <1>1, <1>3, <1>4 DEF GitFollows, Pinned, IsOpen
<1>6. RootsFollow(graph', minted', baseline')
  BY <1>3, <1>4 DEF RootsFollow, Pinned
<1> QED BY <1>5, <1>6

LEMMA EditFollows ==
    ASSUME IInv, GitFollows(graph, gitManaged), RootsFollow(graph, minted, baseline),
           NEW p \in Posts, DirectEdit(p)
    PROVE  GitFollows(graph', gitManaged') /\ RootsFollow(graph', minted', baseline')
<1>1. graph \in GraphType /\ minted \in Counts /\ p \notin CoreRoots /\ p \in Points
      /\ gitManaged \subseteq Points /\ p \notin gitManaged
  BY InvFacts DEF Points, IInv, TypeOK, DirectEdit, MayEdit
<1>2. /\ graph'.text = [graph.text EXCEPT ![p] = minted[p] + 1]
      /\ graph'.support = graph.support /\ graph'.blocked = graph.blocked
      /\ graph'.purged = graph.purged /\ graph'.proposal = graph.proposal
      /\ minted' = [minted EXCEPT ![p] = @ + 1]
      /\ gitManaged' = gitManaged /\ baseline' = baseline
  BY <1>1 DEF DirectEdit, GraphType, sources
<1>3. \A x \in Points : x # p => graph'.text[x] = graph.text[x] /\ minted'[x] = minted[x]
  BY <1>1, <1>2, GraphFields DEF Counts
<1>4. GitFollows(graph', gitManaged')
  BY <1>1, <1>2, <1>3 DEF GitFollows, Pinned, IsOpen
<1>5. \A r \in CoreRoots : graph'.text[r] = graph.text[r] /\ minted'[r] = minted[r]
  BY <1>1, <1>3 DEF Points
<1>6. RootsFollow(graph', minted', baseline')
  BY <1>2, <1>5 DEF RootsFollow, Pinned
<1> QED BY <1>4, <1>6

LEMMA PublishFollows ==
    ASSUME IInv, GitFollows(graph, gitManaged), RootsFollow(graph, minted, baseline),
           NEW S \in SUBSET Sites, GitPublish(S)
    PROVE  GitFollows(graph', gitManaged') /\ RootsFollow(graph', minted', baseline')
<1>1. /\ graph \in GraphType /\ Good(graph, minted) /\ gitManaged \subseteq Points
      /\ S \subseteq Points /\ S \cap CoreRoots = {}
      /\ \A x \in Points : minted[x] \in OptPin
  BY InvFacts DEF Points, IInv, TypeOK
<1>2. PICK T, h : /\ T = [q \in Points |-> IF q \in S THEN minted[q] + 1 ELSE graph.text[q]]
                  /\ h = [graph EXCEPT !.text = T] /\ graph' = Transfer(h, S)
  BY DEF GitPublish
<1>3. /\ minted' = [q \in Points |-> IF q \in S THEN minted[q] + 1 ELSE minted[q]]
      /\ gitManaged' = gitManaged \cup S /\ baseline' = baseline
  BY DEF GitPublish
<1>4. /\ graph'.text = T /\ graph'.proposal = graph.proposal /\ graph'.purged = graph.purged
      /\ graph'.support = Moved(graph.support, S, T)
      /\ graph'.blocked = Moved(graph.blocked, S, T)
  BY <1>1, <1>2 DEF Transfer, GraphType
<1>5. \A u \in Users, x \in Points :
          /\ graph'.support[u][x] = IF x \in S /\ graph.support[u][x] # NoPin THEN T[x]
                                    ELSE graph.support[u][x]
          /\ graph'.blocked[u][x] = IF x \in S /\ graph.blocked[u][x] # NoPin THEN T[x]
                                    ELSE graph.blocked[u][x]
  BY <1>4 DEF Moved
<1>6. ASSUME NEW x \in gitManaged' \ graph'.purged
      PROVE  /\ IsOpen(graph', x) => graph'.text[x] # graph'.proposal[x].base
             /\ Pinned(graph', x, {NoPin, graph'.text[x]})
  <2>1. x \in Points
    BY <1>1, <1>3
  <2>2. CASE x \in S
    <3>1. T[x] = minted[x] + 1 /\ minted[x] \in Int
      BY <1>1, <1>2, <2>1, <2>2, PinFacts
    <3>2. IsOpen(graph, x) => graph.proposal[x].base \in Int /\ graph.proposal[x].base <= minted[x]
      BY <1>1, <2>1, OpenFields, PinFacts DEF Good, Counted
    <3>3. IsOpen(graph, x) => T[x] # graph.proposal[x].base
      BY <3>1, <3>2
    <3> QED BY <1>4, <1>5, <2>1, <2>2, <3>3 DEF Pinned, IsOpen
  <2>3. CASE x \notin S
    <3>1. x \in gitManaged \ graph.purged /\ T[x] = graph.text[x]
      BY <1>2, <1>3, <1>4, <1>6, <2>1, <2>3
    <3> QED BY <1>4, <1>5, <2>1, <2>3, <3>1 DEF GitFollows, Pinned, IsOpen
  <2> QED BY <2>2, <2>3
<1>7. ASSUME NEW r \in CoreRoots
      PROVE  /\ graph'.text[r] = graph.text[r] /\ minted'[r] = minted[r]
             /\ \A u \in Users : /\ graph'.support[u][r] = graph.support[u][r]
                                 /\ graph'.blocked[u][r] = graph.blocked[u][r]
  <2>1. r \in Points /\ r \notin S
    BY <1>1 DEF Points
  <2>2. T[r] = graph.text[r] /\ minted'[r] = minted[r]
    BY <1>2, <1>3, <2>1
  <2> QED BY <1>4, <1>5, <2>1, <2>2
<1>8. RootsFollow(graph', minted', baseline')
  BY <1>3, <1>4, <1>7 DEF RootsFollow, Pinned
<1> QED BY <1>6, <1>8 DEF GitFollows

LEMMA DeployFollows ==
    ASSUME IInv, ~Rollbacks,
           GitFollows(graph, gitManaged), RootsFollow(graph, minted, baseline),
           NEW r \in CoreRoots, NEW pin \in OptPin, Deploy(r, pin)
    PROVE  GitFollows(graph', gitManaged') /\ RootsFollow(graph', minted', baseline')
<1>1. /\ graph \in GraphType /\ minted \in Counts /\ r \in Points /\ r \notin gitManaged
      /\ gitManaged \subseteq Points /\ pin \in Int /\ minted[r] \in Int /\ minted[r] >= 0
      /\ baseline \in [CoreRoots -> OptPin]
  BY InvFacts DEF Points, IInv, TypeOK, OptPin, Pins, NoPin
<1>2. /\ graph'.text = [graph.text EXCEPT ![r] = pin]
      /\ graph'.support = graph.support /\ graph'.blocked = graph.blocked
      /\ graph'.purged = graph.purged /\ graph'.proposal = graph.proposal
      /\ minted' = [minted EXCEPT ![r] = IF pin > @ THEN pin ELSE @]
      /\ gitManaged' = gitManaged /\ baseline' = baseline
      /\ pin \in {NoPin, minted[r], minted[r] + 1}
  BY <1>1 DEF Deploy, GraphType, sources
<1>3. \A x \in Points : x # r => graph'.text[x] = graph.text[x] /\ minted'[x] = minted[x]
  BY <1>1, <1>2, GraphFields DEF Counts
<1>4. GitFollows(graph', gitManaged')
  BY <1>1, <1>2, <1>3 DEF GitFollows, Pinned, IsOpen
<1>5. ASSUME NEW x \in CoreRoots \ graph'.purged
      PROVE  /\ graph'.text[x] \in {NoPin, minted'[x]}
             /\ baseline[x] <= minted'[x]
             /\ baseline[x] = NoPin => Pinned(graph', x, {NoPin})
             /\ baseline[x] = minted'[x] => Pinned(graph', x, {NoPin, minted'[x]})
  <2>1. /\ graph.text[x] \in {NoPin, minted[x]} /\ baseline[x] <= minted[x]
        /\ baseline[x] = NoPin => Pinned(graph, x, {NoPin})
        /\ baseline[x] = minted[x] => Pinned(graph, x, {NoPin, minted[x]})
    BY <1>2, <1>5 DEF RootsFollow
  <2>2. CASE x # r
    BY <1>2, <1>3, <2>1, <2>2 DEF Points, Pinned
  <2>3. CASE x = r
    <3>1. graph'.text[x] = pin /\ minted'[x] = IF pin > minted[x] THEN pin ELSE minted[x]
      BY <1>1, <1>2, <2>3, GraphFields DEF Counts
    <3>2. baseline[x] \in Int
      BY <1>1, PinFacts
    <3> QED BY <1>1, <1>2, <2>1, <2>3, <3>1, <3>2 DEF Pinned, NoPin
  <2> QED BY <2>2, <2>3
<1> QED BY <1>2, <1>4, <1>5 DEF RootsFollow

LEMMA WorkFollows ==
    ASSUME IInv, GitFollows(graph, gitManaged), RootsFollow(graph, minted, baseline), Work
    PROVE  GitFollows(graph', gitManaged') /\ RootsFollow(graph', minted', baseline')
<1>1. PICK g, c :
            /\ Prepared(g) /\ Synced(g) /\ Good(c, minted)
            /\ c = g \/ \E q \in Points : Closing(g, c, q)
            /\ graph' = c \/ \E q \in Points : Closing(c, graph', q)
            /\ minted' = minted /\ gitManaged' = gitManaged
  BY WorkShape
<1>2. Good(g, minted) /\ gitManaged \subseteq Points /\ gitManaged \subseteq Posts
  BY <1>1 DEF Prepared, IInv, TypeOK, Points
<1>3. GitFollows(g, gitManaged)
  BY <1>1, <1>2 DEF Prepared, GitFollows, Pinned, IsOpen
<1>4. RootsFollow(g, minted, baseline')
  <2> SUFFICES ASSUME NEW r \in CoreRoots \ g.purged
               PROVE  /\ g.text[r] \in {NoPin, minted[r]}
                      /\ baseline'[r] <= minted[r]
                      /\ baseline'[r] = NoPin => Pinned(g, r, {NoPin})
                      /\ baseline'[r] = minted[r] => Pinned(g, r, {NoPin, minted[r]})
    BY DEF RootsFollow
  <2>1. /\ r \in Points /\ r \notin graph.purged /\ g.text[r] = graph.text[r]
        /\ minted[r] \in Int
    BY <1>1, InvFacts, PinFacts DEF Prepared, Points
  <2>2. /\ graph.text[r] \in {NoPin, minted[r]} /\ baseline[r] <= minted[r]
        /\ baseline[r] = NoPin => Pinned(graph, r, {NoPin})
        /\ baseline[r] = minted[r] => Pinned(graph, r, {NoPin, minted[r]})
    BY <2>1 DEF RootsFollow
  <2>3. CASE graph.text[r] = NoPin
    <3>1. baseline'[r] = baseline[r]
      BY <1>1, <2>3 DEF Synced
    <3>2. \A u \in Users : /\ g.support[u][r] = graph.support[u][r]
                           /\ g.blocked[u][r] = graph.blocked[u][r]
      BY <1>1, <2>3 DEF Synced
    <3> QED BY <2>1, <2>2, <3>1, <3>2 DEF Pinned
  <2>4. CASE graph.text[r] # NoPin
    <3>1. baseline'[r] = minted[r] /\ graph.text[r] = minted[r]
      BY <1>1, <2>2, <2>4 DEF Synced
    <3>2. Pinned(g, r, {NoPin, minted[r]})
      BY <1>1, <2>2, <2>4, <3>1 DEF Synced, Pinned
    <3> QED BY <2>1, <2>4, <3>1, <3>2
  <2> QED BY <2>3, <2>4
<1>5. GitFollows(c, gitManaged) /\ RootsFollow(c, minted, baseline')
  BY <1>1, <1>2, <1>3, <1>4, ClosingKeepsGit, ClosingKeepsRoots
<1> QED BY <1>1, <1>5, ClosingKeepsGit, ClosingKeepsRoots

LEMMA FollowStep ==
    ASSUME ~Rollbacks, IInv, GitFollows(graph, gitManaged), RootsFollow(graph, minted, baseline),
           [Next]_vars
    PROVE  GitFollows(graph', gitManaged') /\ RootsFollow(graph', minted', baseline')
<1>1. graph \in GraphType
  BY InvFacts
<1>2. ASSUME NEW u \in Users, UserStep(u)
      PROVE  GitFollows(graph', gitManaged') /\ RootsFollow(graph', minted', baseline')
  BY <1>2, ReactionFollows, ProposeFollows DEF UserStep, ReactionStep, Points
<1>3. CASE SourceStep
  BY <1>3, EditFollows, PublishFollows, DeployFollows DEF SourceStep
<1>4. CASE ModeratorStep
  <2>1. /\ graph'.text = graph.text /\ graph'.proposal = graph.proposal
        /\ graph'.support = graph.support /\ graph'.blocked = graph.blocked
        /\ graph'.purged = graph.purged
        /\ minted' = minted /\ baseline' = baseline /\ gitManaged' = gitManaged
    BY <1>1, <1>4 DEF ModeratorStep, Hide, Restore, Ban, GraphType, sources
  <2> QED BY <2>1 DEF GitFollows, RootsFollow, Pinned, IsOpen
<1>5. CASE Tick \/ UNCHANGED vars
  <2>1. graph' = graph /\ minted' = minted /\ baseline' = baseline /\ gitManaged' = gitManaged
    BY <1>5 DEF Tick, vars, sources
  <2> QED BY <2>1
<1> QED BY <1>2, <1>3, <1>4, <1>5, WorkFollows DEF Next

(* As long as no build brings an earlier text back, readers follow the     *)
(* texts of Git and of the build (social.git_update, _sync_core,           *)
(* root_publish.publish_on).  With rollbacks they need not: the run        *)
(* social_rollback shows how a pin is left behind.                         *)
THEOREM PinsFollowSources ==
    ASSUME ~Rollbacks
    PROVE  Spec => []SourcePinsTransferred
<1>1. Init => GitFollows(graph, gitManaged) /\ RootsFollow(graph, minted, baseline)
  BY DEF Init, GitFollows, RootsFollow, Pinned, Points, NoPin
<1>2. /\ IInv /\ GitFollows(graph, gitManaged) /\ RootsFollow(graph, minted, baseline)
      /\ [Next]_vars
      => (GitFollows(graph, gitManaged) /\ RootsFollow(graph, minted, baseline))'
  BY FollowStep
<1>3. ASSUME GitFollows(graph, gitManaged), RootsFollow(graph, minted, baseline)
      PROVE  SourcePinsTransferred
  <2> SUFFICES ASSUME NEW p \in Points \ graph.purged,
                      \/ p \in gitManaged
                      \/ p \in CoreRoots /\ graph.text[p] # NoPin /\ baseline[p] = graph.text[p]
               PROVE  Pinned(graph, p, {NoPin, graph.text[p]})
    BY DEF SourcePinsTransferred, Pinned
  <2> QED BY <1>3 DEF GitFollows, RootsFollow
<1> QED BY <1>1, <1>2, <1>3, Invariant, PTL DEF Spec

-----------------------------------------------------------------------------
(* The influence on a point is a sum of shares. *)

SharesOn(g, p) == [u \in Users |-> Share(g, u, p)]

LEMMA InfluencedSums ==
    ASSUME NEW g, NEW p, NEW S \in SUBSET Users, \E f : Sums(f, SharesOn(g, p), S)
    PROVE  \E f : Sums(f, SharesOn(g, p), S) /\ Influenced(g, p, S) = f[S]
<1> DEFINE Def(f) == f = [s \in SUBSET S |->
                            IF s = {} THEN 0
                            ELSE Share(g, Taken(s), p) + f[s \ {Taken(s)}]]
<1>1. Influenced(g, p, S) = (CHOOSE f : Def(f))[S]
  BY DEF Influenced, MapThenSumSet, MapThenFoldSet, Taken
<1>2. ASSUME NEW f PROVE Def(f) <=> Sums(f, SharesOn(g, p), S)
  <2>1. \A s \in SUBSET S : s # {} => SharesOn(g, p)[Taken(s)] = Share(g, Taken(s), p)
    BY DEF Taken, SharesOn
  <2> QED BY <2>1 DEF Sums
<1>3. \E f : Def(f)
  BY <1>2
<1> HIDE DEF Def
<1>4. Def(CHOOSE f : Def(f))
  BY <1>3
<1> QED BY <1>1, <1>2, <1>4

(* Leaving elements out does not make a sum larger, and leaves it as it is *)
(* only if they count nothing.                                             *)
LEMMA SumsGrow ==
    ASSUME NEW D, NEW w \in [D -> Nat], NEW S \in SUBSET D, IsFiniteSet(S), NEW f, Sums(f, w, S),
           NEW V \in SUBSET S
    PROVE  f[V] <= f[S] /\ (f[V] = f[S] => \A x \in S \ V : w[x] = 0)
<1> DEFINE Fine(s) == f[V] <= f[s] /\ (f[V] = f[s] => \A x \in s \ V : w[x] = 0)
           T == {s \in SUBSET S : V \subseteq s /\ ~Fine(s)}
<1> SUFFICES ASSUME T # {} PROVE FALSE
  OBVIOUS
<1>1. PICK X \in T : \A Y \in SUBSET X : Y # X => Y \notin T
  <2>1. T \in SUBSET SUBSET S
    OBVIOUS
  <2> HIDE DEF T
  <2> QED BY <2>1, SmallestSubset
<1>2. X \in SUBSET S /\ V \subseteq X /\ ~Fine(X)
  OBVIOUS
<1>3. \A s \in SUBSET S : f[s] \in Nat /\ \A x \in s : f[s] = w[x] + f[s \ {x}]
  BY SumsTake
<1>4. X # V
  <2>1. f[V] \in Nat
    BY <1>3
  <2> QED BY <1>2, <2>1
<1>5. PICK y \in X : y \notin V
  BY <1>2, <1>4
<1>6. X \ {y} \in SUBSET X /\ X \ {y} # X /\ V \subseteq X \ {y} /\ X \ {y} \in SUBSET S
  BY <1>2, <1>5
<1>7. Fine(X \ {y})
  BY <1>1, <1>6
<1>8. f[X] = w[y] + f[X \ {y}] /\ f[X \ {y}] \in Nat /\ w[y] \in Nat /\ f[V] \in Nat
  BY <1>2, <1>3, <1>5, <1>6
<1>9. Fine(X)
  BY <1>7, <1>8
<1> QED BY <1>2, <1>9

LEMMA PointsFinite == IsFiniteSet(Points) /\ IsFiniteSet(Users)
  BY FiniteAssumption, FS_Union DEF Points

LEMMA ShareNat ==
    ASSUME NEW g, NEW u \in Users, NEW p \in Points
    PROVE  Share(g, u, p) \in Nat
<1>1. CASE g.support[u][p] = NoPin \/ ~Visible(g, p)
  BY <1>1 DEF Share
<1>2. CASE ~(g.support[u][p] = NoPin \/ ~Visible(g, p))
  <2>1. PICK n, r, half :
            n = Cardinality(Slots(g, u)) /\ r = Rank(Slots(g, u), p) /\ half = Half[u]
    OBVIOUS
  <2>2. p \in Slots(g, u) /\ Slots(g, u) \in SUBSET Points
    BY <1>2 DEF Slots
  <2>3. IsFiniteSet(Slots(g, u))
    BY <2>2, PointsFinite, FS_Subset
  <2>4. n \in Nat /\ n # 0
    BY <2>1, <2>2, <2>3, FS_CardinalityType, FS_EmptySet
  <2>5. half \in Nat
    BY <2>1
  <2>6. half \div n \in Nat
    BY <2>4, <2>5
  <2>7. Share(g, u, p) = (half \div n) + (IF r < half % n THEN 1 ELSE 0)
    <3>1. Share(g, u, p) = PointShare(Half[u], Slots(g, u), p)
      BY <1>2 DEF Share
    <3>2. PointShare(Half[u], Slots(g, u), p) = (half \div n) + (IF r < half % n THEN 1 ELSE 0)
      BY <2>1 DEF PointShare
    <3> QED BY <3>1, <3>2
  <2> QED BY <2>6, <2>7
<1> QED BY <1>1, <1>2

(* Whoever is left out of a vote that gathers all the influence has none.  *)
LEMMA Unanimity ==
    ASSUME NEW g, NEW p \in Points, NEW V \in SUBSET Users,
           Influenced(g, p, V) = Influenced(g, p, Users)
    PROVE  \A u \in Users \ V : Share(g, u, p) = 0
<1>1. PICK w : w = SharesOn(g, p)
  OBVIOUS
<1>2. w \in [Users -> Nat] /\ \A u \in Users : w[u] = Share(g, u, p)
  BY <1>1, ShareNat DEF SharesOn
<1>3. IsFiniteSet(V) /\ IsFiniteSet(Users)
  BY PointsFinite, FS_Subset
<1>4. PICK f : Sums(f, w, V) /\ Influenced(g, p, V) = f[V]
  BY <1>1, <1>3, SumsExist, InfluencedSums
<1>5. PICK h : Sums(h, w, Users) /\ Influenced(g, p, Users) = h[Users]
  BY <1>1, <1>3, SumsExist, InfluencedSums
<1>6. f[V] = h[V]
  BY <1>3, <1>4, <1>5, SumsAgree
<1>7. h[V] = h[Users]
  BY <1>4, <1>5, <1>6
<1>8. \A u \in Users \ V : w[u] = 0
  BY <1>2, <1>3, <1>5, <1>7, SumsGrow
<1> QED BY <1>2, <1>8

EarlyAdoption(g, h, m, p) ==
    Good(g, m) /\ Closing(g, h, p) /\ h.text[p] # g.text[p] /\ ~Due(g, p)

(* An adoption hides no other point and shows none: shares stay.           *)
LEMMA EarlyHolds ==
    ASSUME NEW g, NEW h, NEW m, NEW p \in Points, EarlyAdoption(g, h, m, p),
           NEW u \in Users, Share(h, u, p) > 0
    PROVE  h.support[u][p] = g.proposal[p].candidate
<1> USE DEF EarlyAdoption
<1>1. /\ IsOpen(g, p) /\ Fresh(g, p) /\ Early(g, p, NewInfluence(g, p))
      /\ h.text[p] = g.proposal[p].candidate
      /\ h.support = g.support /\ h.blocked = g.blocked /\ h.purged = g.purged
  BY DEF Closing, Decided
<1>2. g \in GraphType /\ Visible(g, p) /\ g.text[p] = g.proposal[p].base
  BY <1>1 DEF Good, Fresh
<1>3. Visible(h, p) /\ h.support[u][p] # NoPin
  BY DEF Share
<1>4. ASSUME NEW q \in Points PROVE Visible(h, q) <=> Visible(g, q)
  <2>1. CASE q = p
    BY <1>2, <1>3, <2>1
  <2>2. CASE q # p
    BY <1>1, <2>2 DEF Closing, Visible, Masked
  <2> QED BY <2>1, <2>2
<1>5. Slots(h, u) = Slots(g, u)
  BY <1>1, <1>4 DEF Slots
<1>6. Share(h, u, p) = Share(g, u, p)
  BY <1>1, <1>2, <1>3, <1>5 DEF Share
<1>7. Influenced(g, p, Voters(g, p, "new")) = Influenced(g, p, Users)
  BY <1>1 DEF Early, NewInfluence
<1>8. u \in Voters(g, p, "new")
  <2>1. Voters(g, p, "new") \in SUBSET Users
    BY DEF Voters
  <2>2. u \notin Voters(g, p, "new") => Share(g, u, p) = 0
    BY <1>7, <2>1, Unanimity
  <2> QED BY <1>6, <2>2
<1>9. Backed(g, p, g.proposal[p])
  BY <1>1 DEF Good, Ballots
<1> QED BY <1>1, <1>2, <1>8, <1>9 DEF Backed, Voters

LEMMA EarlyStep ==
    ASSUME IInv, [Next]_vars, NEW p \in Posts, Adopted(p), now < graph.proposal[p].closes,
           NEW u \in Users, Share(graph', u, p) > 0
    PROVE  graph'.support[u][p] = graph.proposal[p].candidate
<1>1. /\ graph \in GraphType /\ Good(graph, minted) /\ p \in Points
      /\ graph'.text[p] # graph.text[p] /\ IsOpen(graph, p)
      /\ now \in Int /\ graph.proposal[p].closes \in Int
  <2>1. graph'.text[p] # graph.text[p] /\ IsOpen(graph, p) /\ p \in Points
    BY DEF Adopted, Points
  <2>2. graph \in GraphType /\ now \in Int
    BY DEF IInv, TypeOK
  <2> QED BY <2>1, <2>2, InvFacts, OpenFields
<1>2. ASSUME NEW x \in Users, NEW q \in Points, ReactionStep(x, q)
      PROVE  graph'.support[u][p] = graph.proposal[p].candidate
  <2>1. PICK g : Reacting(graph, g, x, q) /\ Good(g, minted) /\ graph' = Finalize(g, q)
    BY <1>2, ReactionShape
  <2>2. Closing(g, graph', q)
    BY <2>1, FinalizeCloses DEF Good, Counted
  <2>3. /\ p = q /\ graph'.text[p] # g.text[p]
        /\ g.proposal[p].candidate = graph.proposal[p].candidate
        /\ g.proposal[p].closes = graph.proposal[p].closes
    BY <1>1, <2>1, <2>2 DEF Closing, Reacting, SameTerms
  <2>4. ~Due(g, p)
    BY <1>1, <2>3 DEF Due
  <2>5. EarlyAdoption(g, graph', minted, p)
    BY <2>1, <2>2, <2>3, <2>4 DEF EarlyAdoption
  <2> QED BY <1>1, <2>3, <2>5, EarlyHolds
<1>3. ASSUME NEW x \in Users, UserStep(x)
      PROVE  graph'.support[u][p] = graph.proposal[p].candidate
  <2>1. ASSUME NEW q \in Posts, NEW S \in SUBSET Points, NEW id \in ProposalIds,
               Propose(x, q, S, id)
        PROVE  FALSE
    BY <1>1, <2>1 DEF Propose, GraphType
  <2> QED BY <1>2, <1>3, <2>1 DEF UserStep, ReactionStep, Points
<1>4. CASE Work
  <2>1. PICK g, c :
              /\ Prepared(g) /\ Good(c, minted)
              /\ c = g \/ \E q \in Points : Due(g, q) /\ Closing(g, c, q)
              /\ graph' = c \/ \E q \in Points : Closing(c, graph', q)
    BY <1>4, WorkShape
  <2>2. c.text[p] = graph.text[p]
    <3>1. SUFFICES ASSUME c.text[p] # g.text[p] PROVE FALSE
      BY <2>1 DEF Prepared
    <3>2. Due(g, p) /\ IsOpen(g, p)
      BY <1>1, <2>1, <3>1 DEF Closing
    <3>3. g.proposal[p] = graph.proposal[p]
      BY <1>1, <2>1, <3>2 DEF Prepared, IsOpen
    <3> QED BY <1>1, <3>2, <3>3 DEF Due
  <2>3. graph'.text[p] # c.text[p] /\ Closing(c, graph', p)
    BY <1>1, <2>1, <2>2 DEF Closing
  <2>4. IsOpen(c, p) /\ c.proposal[p] \in {g.proposal[p], NoProposal}
    BY <1>1, <2>1, <2>3 DEF Closing
  <2>5. c.proposal[p] = graph.proposal[p]
    BY <1>1, <2>1, <2>4 DEF Prepared, IsOpen
  <2>6. ~Due(c, p)
    BY <1>1, <2>5 DEF Due
  <2>7. EarlyAdoption(c, graph', minted, p)
    BY <2>1, <2>3, <2>6 DEF EarlyAdoption
  <2> QED BY <1>1, <2>5, <2>7, EarlyHolds
<1>5. CASE ModeratorStep
  BY <1>1, <1>5 DEF ModeratorStep, Hide, Restore, Ban, GraphType
<1>6. ~(Tick \/ UNCHANGED vars)
  BY <1>1 DEF Tick, vars
<1> QED BY <1>1, <1>3, <1>4, <1>5, <1>6, SourceAdoptsNothing DEF Next

(* Before its deadline a proposal is adopted only with everyone who has    *)
(* influence on the point pinned to it (Social._finalize).                 *)
THEOREM EarlyDecisionsUnanimous == Spec => EarlyIsUnanimous
<1>1. IInv /\ [Next]_vars =>
          [\A p \in Posts : Adopted(p) /\ now < graph.proposal[p].closes =>
               \A u \in Users :
                   Share(graph', u, p) > 0 =>
                       graph'.support[u][p] = graph.proposal[p].candidate]_vars
  BY EarlyStep
<1> QED BY <1>1, Invariant, PTL DEF Spec, EarlyIsUnanimous
=============================================================================
