---------------------------- MODULE MCGitScenes ----------------------------
(***************************************************************************)
(* Worlds of GitSource that share nothing.                                 *)
(*   following  s1 and its repository p1: refreshes, deployments, edits    *)
(*              and a policy that changes, over two commits;               *)
(*   proving    the owner of s1 has a choice of p1 and p2, configures      *)
(*              twice and refreshes by hand; p1 is transferred;            *)
(*   purging    s1 is published from p1, by its owner or by the operator,  *)
(*              and s2 from p3 by the operator; the first commits of both  *)
(*              carry the root r1, and sites and roots are purged;         *)
(*   moving     as "following", with a transfer and no purge.              *)
(***************************************************************************)
EXTENDS GitSource

CONSTANTS s1, s2, p1, p2, p3, r1

MCFor == [p \in Repos |-> IF p = p3 THEN s2 ELSE s1]

(* The first commits of p1 and p3 carry the root r1, later ones drop it. *)
MCCarries == [p \in Repos |-> [c \in 1..MaxCommit |-> IF p # p2 /\ c = 1 THEN {r1} ELSE {}]]

VARIABLE scene

sceneVars == <<vars, scene>>

(* Nobody touches s2, nor any repository but those in P. *)
OnlyFirstSite(P) ==
    /\ row[s2] = None /\ site[s2].settings = 1 /\ site[s2].commit = 0
    /\ s2 \notin purged \cup banned
    /\ row[s1] = None \/ row[s1].repo \in P
    /\ \A p \in Repos \ P : head[p].commit = 0 /\ head[p].id = 1

Untransferred == \A p \in Repos : head[p].id = 1
OneCommit == \A p \in Repos : head[p].commit <= 1

(* The bounds of each world. *)
Following == OnlyFirstSite({p1}) /\ Untransferred /\ gens <= 1 /\ ids <= 2 /\ purged = {}
Proving ==
    /\ OnlyFirstSite({p1, p2}) /\ OneCommit /\ ids <= 2 /\ purged = {}
    /\ row[s1] = None \/ ~row[s1].auto
    /\ head[p2].id = 1
Purging ==
    /\ row[s1] = None \/ row[s1].repo = p1
    /\ row[s2] = None /\ head[p2].commit = 0
    /\ Untransferred /\ OneCommit /\ gens <= 1 /\ ids <= 2
Moving == OnlyFirstSite({p1}) /\ gens <= 1 /\ ids <= 1 /\ purged = {}

World ==
    \/ scene = "following" /\ Following
    \/ scene = "proving" /\ Proving
    \/ scene = "purging" /\ Purging
    \/ scene = "moving" /\ Moving

(* Settings are edited in the first world only. *)
Edited == \E s \in Sites : Edit(s)

SceneNext ==
    /\ Next /\ UNCHANGED scene /\ World'
    /\ scene \in {"proving", "purging", "moving"} => ~Edited

(* No other source delays the polling of s1. *)
SceneFairness == Answered /\ WF_vars(Pass(s1)) /\ WF_vars(Poll(s1))

SceneInit == Init /\ scene \in {"following", "proving", "purging"}
ScenesSpec == SceneInit /\ [][SceneNext]_sceneVars /\ SceneFairness

MovingInit == Init /\ scene = "moving"
MovingSpec == MovingInit /\ [][SceneNext]_sceneVars

(* Only the world with edits and deployments follows its branch for good. *)
SourceFollows == scene = "following" => AutoFollows(s1)
=============================================================================
