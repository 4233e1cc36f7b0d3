---------------------------- MODULE MCManagement ----------------------------
(***************************************************************************)
(* What a logged-in person and those in charge do, in scenes that share no *)
(* state: two requests of a widget one at a time, one request with two     *)
(* threads, roles, bans and hides, reports, the settings of a site, the     *)
(* weights of all people, and the rate limit all of these pass.            *)
(***************************************************************************)
EXTENDS EmbedGrants, Moderation, SiteSettings, RateLimit, Weights, TLC

CONSTANTS
    Involved    \* bound: who is there in "bans" and "reports"

VARIABLE scene

MCSymmetry == Permutations(Tokens) \cup Permutations(Slots) \cup Permutations(Requests)

(* One member owns the site, another wrote the points. *)
MCOwner == [s \in SiteScopes |-> "a"]
MCAuthor == [p \in Points |-> "u"]

(* Any shares for the weights, and equal ones elsewhere. *)
Weighed == scene = "weights" \/ (share = [u \in People |-> 1])

ManagementInit ==
    /\ scene \in {"resume", "race", "roles", "bans", "reports", "settings", "limits", "weights"}
    /\ IF scene = "race"
         THEN /\ AccountsInit /\ open = Sites /\ applied = [u \in Users |-> 0] /\ agreed = {}
              /\ \E r \in Requests : row = [q \in Requests |-> IF q = r THEN None ELSE Gone]
         ELSE Init
    /\ ModerationInit /\ SettingsInit /\ LimitInit
    /\ WeightsInit /\ Weighed

OneAtATime == Cardinality({w \in Slots : op'[w] # None}) <= 1

Widget ==
    \/ scene = "resume" /\ Next /\ OneAtATime
    \/ scene = "race" /\ Next

(* Three members appoint and dismiss each other. *)
Appointing ==
    \E u \in Members, r \in Grants :
        Bootstrap(u, r) \/ \E s \in Scopes, t \in Members : SetRole(u, s, t, r)

(* The owner and the author; the operator makes either a moderator. *)
Deciding(u) ==
    \/ Bootstrap(u, "moderator")
    \/ \E s \in Scopes, p \in Points : HidePoint(u, s, p) \/ Restore(u, s, p)
    \/ \E s \in Scopes, t \in Involved :
        \/ SetRole(u, s, t, "moderator")
        \/ \E m \in Modes, d \in Durations : SetBan(u, s, t, m, d)
        \/ Unban(u, s, t)

Restricting ==
    \/ \E u \in Involved : Deciding(u)
    \/ \E s \in Scopes, p \in Points : Edit(s, p)
    \/ \E p \in Points : Sweep(p)
    \/ DayPasses

Reporting ==
    \/ \E u \in Involved : Deciding(u)
    \/ \E s \in Scopes, p \in Points :
        \/ Edit(s, p)
        \/ \E u \in Involved : CloseCase(u, s, p)
        \/ \E u \in Reporters : Report(u, s, p)

ManagementNext ==
    /\ UNCHANGED scene
    /\ \/ Widget /\ UNCHANGED <<moderation, settings, limit, weights>>
       \/ /\ \/ scene = "roles" /\ Appointing
             \/ scene = "bans" /\ Restricting
             \/ scene = "reports" /\ Reporting
          /\ UNCHANGED <<vars, settings, limit, weights>>
       \/ scene = "settings" /\ SettingsNext /\ UNCHANGED <<vars, moderation, limit, weights>>
       \/ scene = "limits" /\ LimitNext /\ UNCHANGED <<vars, moderation, settings, weights>>
       \/ scene = "weights" /\ WeightsNext /\ UNCHANGED <<vars, moderation, settings, limit>>

ManagementSpec ==
    ManagementInit /\ [][ManagementNext]_<<vars, moderation, settings, limit, weights, scene>>
=============================================================================
