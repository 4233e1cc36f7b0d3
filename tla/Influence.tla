----------------------------- MODULE Influence -----------------------------
(***************************************************************************)
(* The last step of influence.calculate: the point half of one person's    *)
(* influence is divided over the points the person reacts to.  Units are   *)
(* integers, points are compared by their ids, and the remainder of the    *)
(* division goes, one unit each, to the smallest ids.                      *)
(***************************************************************************)
EXTENDS Integers, FiniteSets, FiniteSetsExt

(* The position of p in sorted(set(points)), counted from zero. *)
Rank(slots, p) == Cardinality({q \in slots : q < p})

(* divmod(half, len(points)) and the extra unit of the first points. *)
PointShare(half, slots, p) ==
    LET n == Cardinality(slots)
    IN  (half \div n) + (IF Rank(slots, p) < half % n THEN 1 ELSE 0)
=============================================================================
