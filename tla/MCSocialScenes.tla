--------------------------- MODULE MCSocialScenes ---------------------------
(***************************************************************************)
(* Three corners of one small instance of Social; the corner is chosen at  *)
(* the start and stays.  "sources": a site entrance that Git takes over    *)
(* and a core root of the build, with no day passing.  "citations": two    *)
(* posts whose proposals may cite each other, while their author may be    *)
(* banned.  "sweep": one reader and a worker whose sweep has to reach      *)
(* every proposal.                                                         *)
(***************************************************************************)
EXTENDS Social

CONSTANTS
    Talk,        \* the posts that are discussed
    Texts,       \* bound: texts per post in "citations"
    Readers      \* bound: people in "sweep"

VARIABLE scene

Places == Sites \cup CoreRoots

SceneAuthor == [p \in Posts |-> 1]
SceneHalf == [u \in Users |-> 4 - u]

React(u, p) == Subscribe(u, p) \/ Unsubscribe(u, p) \/ Block(u, p) \/ Unblock(u, p)

Discuss(u) ==
    \/ \E p \in Talk : React(u, p)
    \/ \E p \in Talk, choice \in {"old", "new"} : Vote(u, p, choice)

SourcesStep ==
    \/ \E u \in Users, p \in Places : React(u, p)
    \/ \E p \in Sites : DirectEdit(p)
    \/ \E S \in SUBSET Sites : GitPublish(S)
    \/ \E r \in CoreRoots, pin \in OptPin : Deploy(r, pin)
    \/ \E p \in Hideable : Hide(p) \/ Restore(p)

CitationsStep ==
    /\ \/ \E u \in Users : Discuss(u)
       \/ \E u \in Users, p \in Talk, S \in SUBSET Talk, id \in ProposalIds :
              Propose(u, p, S, id)
       \/ \E p \in Talk : DirectEdit(p)
       \/ \E u \in Restrictable, mode \in {"none", "quarantine", "block"} : Ban(u, mode)
       \/ Tick
    /\ \A p \in Talk : minted'[p] <= Texts

SweepStep ==
    \/ \E u \in Readers : Discuss(u)
    \/ \E u \in Users, p \in Talk, id \in ProposalIds : Propose(u, p, {}, id)
    \/ \E p \in Talk : DirectEdit(p)
    \/ Tick

SceneInit == Init /\ scene \in {"sources", "citations", "sweep"}

SweepWork == scene = "sweep" /\ Work /\ UNCHANGED scene

SceneNext ==
    \/ /\ \/ scene = "sources" /\ (SourcesStep \/ Work)
          \/ scene = "citations" /\ (CitationsStep \/ Work)
          \/ scene = "sweep" /\ SweepStep
       /\ UNCHANGED scene
    \/ SweepWork

SceneVars == <<vars, scene>>

(* Only the worker of "sweep" is fair: no day ever has to end. *)
SceneSpec == SceneInit /\ [][SceneNext]_SceneVars /\ WF_SceneVars(SweepWork)

(* A proposal that can no longer be adopted is closed by the round-robin   *)
(* sweep alone, before and without its deadline, however many other        *)
(* proposals are open and whatever the worker's batch has to do first      *)
(* (social.Social.work).                                                   *)
SweepSettles ==
    \A p \in Talk :
        (scene = "sweep" /\ IsOpen(graph, p) /\ graph.text[p] # graph.proposal[p].base)
            ~> ~IsOpen(graph, p)
=============================================================================
