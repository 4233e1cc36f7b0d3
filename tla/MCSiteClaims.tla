---------------------------- MODULE MCSiteClaims ----------------------------
(***************************************************************************)
(* Two sites compete for two origins; verify requests overlap.  Only bans  *)
(* look at the owner, so one owner is enough, and the names of requests,   *)
(* sites and origins are interchangeable.                                  *)
(***************************************************************************)
EXTENDS SiteClaims, FiniteSets, TLC

MCOwner == [s \in Sites |-> CHOOSE u \in Users : TRUE]
MCSymmetry == Permutations(Requests) \cup Permutations(Sites) \cup Permutations(Origins)

(* Bound: documents ever served, of the six that may be. *)
FewServed == Cardinality(shown) <= 3
=============================================================================
