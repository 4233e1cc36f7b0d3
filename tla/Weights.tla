------------------------------ MODULE Weights ------------------------------
(***************************************************************************)
(* influence.calculate: what each person's voice weighs and how it is      *)
(* divided.  The trust between people is given here by its result, the     *)
(* weights the iteration ends with: any positive shares of a total.  Half  *)
(* of each weight belongs to the points the person supports or blocks; it  *)
(* is a whole number of units, and the units of all people are as many as  *)
(* there are people times half the SCALE.                                  *)
(***************************************************************************)
EXTENDS Influence, Functions

CONSTANTS
    People, Targets,    \* ids, compared as in the code
    Units,              \* SCALE // 2
    MaxShare            \* bound: the largest share of the total

ASSUME WeightsAssumption ==
    /\ People \subseteq Nat /\ IsFiniteSet(People)
    /\ Targets \subseteq Nat /\ IsFiniteSet(Targets)
    /\ Units \in Nat \ {0} /\ MaxShare \in Nat \ {0}

VARIABLES
    share,      \* what the iteration gave each person, as shares of their sum
    reacts      \* subscriptions and blocks of each person

weights == <<share, reacts>>

(* quotas: half weights times the sum of all shares.  Decimal is exact enough *)
(* to be exact.                                                             *)
Quota(u) == share[u] * Cardinality(People) * Units

(* int(quotas[uid]), and what the conversion cuts off. *)
Whole == LET total == SumFunction(share) IN [u \in People |-> Quota(u) \div total]
Fraction == LET total == SumFunction(share) IN [u \in People |-> Quota(u) % total]

Remainder == Cardinality(People) * Units - SumFunction(Whole)

(* Fault: the remainder goes to the first names, as it does among points. *)
AheadByName(fraction, v, u) == v < u

(* sorted by (-fraction, id) *)
Ahead(fraction, v, u) ==
    fraction[v] > fraction[u] \/ (fraction[v] = fraction[u] /\ v < u)

Halves ==
    LET whole == Whole
        fraction == Fraction
        extra == Remainder
    IN  [u \in People |-> whole[u] +
            (IF Cardinality({v \in People : Ahead(fraction, v, u)}) < extra THEN 1 ELSE 0)]

Allocated(half, u) == [p \in reacts[u] |-> PointShare(half[u], reacts[u], p)]

(* Those who react to nothing. *)
IdleUnits(half) == SumFunctionOnSet(half, {u \in People : reacts[u] = {}})
-----------------------------------------------------------------------------
WeightsInit ==
    /\ share \in [People -> 1..MaxShare]
    /\ reacts = [u \in People |-> {}]

(* A subscription, a block or the end of one. *)
React(u) ==
    /\ reacts' \in {[reacts EXCEPT ![u] = R] : R \in SUBSET Targets}
    /\ UNCHANGED share

WeightsNext == \E u \in People : React(u)

WeightsSpec == WeightsInit /\ [][WeightsNext]_weights
-----------------------------------------------------------------------------
(* No unit of influence is made or lost, whatever the number of people and *)
(* points; who is trusted more never weighs less; and the points of one    *)
(* person differ by at most a unit (calculate).                            *)
InfluenceConserved ==
    LET half == Halves
        given == [u \in People |-> SumFunction(Allocated(half, u))]
    IN  /\ Remainder \in 0..Cardinality(People)
        /\ SumFunction(half) = Cardinality(People) * Units
        /\ \A u, v \in People : share[u] > share[v] => half[u] >= half[v]
        /\ \A u \in People : reacts[u] # {} => given[u] = half[u]
        /\ \A u \in People : \A p, q \in reacts[u] :
               Allocated(half, u)[p] <= Allocated(half, u)[q] + 1
        /\ SumFunction(given) + IdleUnits(half) = Cardinality(People) * Units
=============================================================================
