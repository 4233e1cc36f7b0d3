----------------------------- MODULE SiteClaims -----------------------------
(***************************************************************************)
(* Pending sites, their claims and the verification of an origin           *)
(* (node06_service/site_registry).  verify_site is two transactions with a *)
(* fetch in between, and everything may change meanwhile: the challenge is *)
(* renewed, the owner banned, the site purged, another request finishes.   *)
(*                                                                         *)
(* A challenge is a number, used as the claim's id, as its digest and as   *)
(* the document to be published: all three are drawn afresh together.      *)
(***************************************************************************)
EXTENDS Integers

CONSTANTS
    Users, Sites, Origins, Requests,
    Owner,          \* of each site; nothing transfers a site
    Life,           \* of a claim: 30 minutes, in coarse units
    MaxAttempts,    \* claim_max_attempts
    MaxNonce,       \* bound: challenges issued
    NoSite, NoRequest

ASSUME OwnerAssumption == Owner \in [Sites -> Users]
ASSUME LimitsAssumption == Life \in Nat \ {0} /\ MaxAttempts \in Nat /\ MaxNonce \in Nat

Nonces == 1..MaxNonce
Site == [active: BOOLEAN, origin: Origins, nonce: Nonces, attempts: 0..MaxAttempts]
Request == [proved: BOOLEAN, site: Sites, nonce: Nonces]

ASSUME NoValueAssumption == NoSite \notin Site /\ NoRequest \notin Request

VARIABLES
    site,       \* a row of sites with its one row of site_claims
    left,       \* time to expires_at of each claim
    minted,     \* challenges issued so far
    served,     \* what each origin serves as its proof file; 0: nothing
    shown,      \* history: <<origin, challenge>> ever served
    banned,     \* users who may not publish
    purged,     \* point_tombstones of sites
    req,        \* what each verify request keeps between its transactions
    tries       \* history: fetches ever begun for each challenge

vars == <<site, left, minted, served, shown, banned, purged, req, tries>>
world == <<served, shown, banned, purged>>

TypeOK ==
    /\ site \in [Sites -> Site \cup {NoSite}]
    /\ left \in [Sites -> 0..Life]
    /\ minted \in 0..MaxNonce
    /\ served \in [Origins -> 0..MaxNonce]
    /\ shown \subseteq Origins \X Nonces
    /\ banned \subseteq Users
    /\ purged \subseteq Sites
    /\ req \in [Requests -> Request \cup {NoRequest}]
    /\ tries \in [Nonces -> Nat]

Init ==
    /\ site = [s \in Sites |-> NoSite]
    /\ left = [s \in Sites |-> 0]
    /\ minted = 0
    /\ served = [o \in Origins |-> 0]
    /\ shown = {}
    /\ banned = {}
    /\ purged = {}
    /\ req = [r \in Requests |-> NoRequest]
    /\ tries = [n \in Nonces |-> 0]

Pending(s) == site[s] # NoSite /\ ~site[s].active
Active(s) == site[s] # NoSite /\ site[s].active

Live(s) == s \notin purged
MayPublish(s) == Live(s) /\ Owner[s] \notin banned

(* Any site, pending or active, keeps its origin. *)
Occupied(o) == \E s \in Sites : site[s] # NoSite /\ site[s].origin = o

Create(s, o) ==
    /\ site[s] = NoSite
    /\ Owner[s] \notin banned
    /\ minted < MaxNonce
    /\ ~Occupied(o)
    /\ site' = [site EXCEPT ![s] = [active |-> FALSE, origin |-> o,
                                   nonce |-> minted + 1, attempts |-> 0]]
    /\ left' = [left EXCEPT ![s] = Life]
    /\ minted' = minted + 1
    /\ UNCHANGED <<world, req, tries>>

Renewable(s) == Live(s) /\ Pending(s)

(* renew_claim with the current claim id. *)
Renew(s) ==
    /\ Renewable(s)
    /\ minted < MaxNonce
    /\ site' = [site EXCEPT ![s].nonce = minted + 1, ![s].attempts = 0]
    /\ left' = [left EXCEPT ![s] = Life]
    /\ minted' = minted + 1
    /\ UNCHANGED <<world, req, tries>>

(* The challenge has neither expired nor been tried too often. *)
TryLeft(s) == left[s] > 0 /\ site[s].attempts < MaxAttempts

(* Phase 1: the attempt is on record before the network is used. *)
Attempt(r, s) ==
    /\ req[r] = NoRequest
    /\ MayPublish(s)
    /\ Pending(s)
    /\ TryLeft(s)
    /\ site' = [site EXCEPT ![s].attempts = @ + 1]
    /\ tries' = [tries EXCEPT ![site[s].nonce] = @ + 1]
    /\ req' = [req EXCEPT ![r] = [proved |-> FALSE, site |-> s, nonce |-> site[s].nonce]]
    /\ UNCHANGED <<left, minted, world>>

(* The origin serves the document of this site and this challenge. *)
Read(r) ==
    /\ req[r] # NoRequest /\ ~req[r].proved
    /\ served[site[req[r].site].origin] = req[r].nonce
    /\ req' = [req EXCEPT ![r].proved = TRUE]
    /\ UNCHANGED <<site, left, minted, world, tries>>

(* Fault: only the site is looked at again. *)
SameSite(r) == Pending(req[r].site)

(* The claim read in phase 1 is still the one to be proved. *)
SameClaim(r) == Pending(req[r].site) /\ site[req[r].site].nonce = req[r].nonce

(* Phase 2 *)
Activate(r) ==
    /\ req[r] # NoRequest /\ req[r].proved
    /\ MayPublish(req[r].site)
    /\ SameClaim(r)
    /\ left[req[r].site] > 0
    /\ site' = [site EXCEPT ![req[r].site].active = TRUE]
    /\ req' = [req EXCEPT ![r] = NoRequest]
    /\ UNCHANGED <<left, minted, world, tries>>

(* Fault: a failure rolls the attempt back. *)
DropRefunded(r) ==
    /\ req[r] # NoRequest
    /\ req' = [req EXCEPT ![r] = NoRequest]
    /\ site' = [site EXCEPT ![req[r].site].attempts = IF @ = 0 THEN 0 ELSE @ - 1]
    /\ UNCHANGED <<left, minted, world, tries>>

(* No proof, a refusal in phase 2, or the end of the process. *)
Drop(r) ==
    /\ req[r] # NoRequest
    /\ req' = [req EXCEPT ![r] = NoRequest]
    /\ UNCHANGED <<site, left, minted, world, tries>>

-----------------------------------------------------------------------------
(* The administrator of an origin publishes a document, or removes it. *)
Serve(o, n) ==
    /\ n <= minted
    /\ served[o] # n
    /\ served' = [served EXCEPT ![o] = n]
    /\ shown' = IF n = 0 THEN shown ELSE shown \cup {<<o, n>>}
    /\ UNCHANGED <<site, left, minted, banned, purged, req, tries>>

Ban(u) ==
    /\ banned' = IF u \in banned THEN banned \ {u} ELSE banned \cup {u}
    /\ UNCHANGED <<site, left, minted, served, shown, purged, req, tries>>

Purge(s) ==
    /\ site[s] # NoSite /\ Live(s)
    /\ purged' = purged \cup {s}
    /\ UNCHANGED <<site, left, minted, served, shown, banned, req, tries>>

Tick ==
    /\ left' = [s \in Sites |-> IF left[s] > 0 THEN left[s] - 1 ELSE 0]
    /\ UNCHANGED <<site, minted, world, req, tries>>

Next ==
    \/ \E s \in Sites, o \in Origins : Create(s, o)
    \/ \E s \in Sites : Renew(s) \/ Purge(s)
    \/ \E r \in Requests : Read(r) \/ Activate(r) \/ Drop(r)
    \/ \E r \in Requests, s \in Sites : Attempt(r, s)
    \/ \E o \in Origins, n \in 0..MaxNonce : Serve(o, n)
    \/ \E u \in Users : Ban(u)
    \/ Tick

Spec == Init /\ [][Next]_vars

-----------------------------------------------------------------------------
(* The origin of an active site has served the very challenge under which  *)
(* the site stands: nobody activates a site on an origin they do not       *)
(* administer, however renewals, retries and foreign claims overlap with a *)
(* fetch (verify_site, phase 2).                                           *)
ActiveIsShown ==
    \A s \in Sites : Active(s) => <<site[s].origin, site[s].nonce>> \in shown

(* One challenge is fetched for at most claim_max_attempts times, and each *)
(* of these fetches is on record in its claim: neither a failure, a crash  *)
(* nor a rival request gives an attempt back, and only a new challenge     *)
(* begins at 0 (verify_site, phase 1; renew_claim).                        *)
AttemptsPaid ==
    /\ \A n \in Nonces : tries[n] <= MaxAttempts
    /\ \A s \in Sites : site[s] # NoSite => site[s].attempts = tries[site[s].nonce]

(* What has been verified stays: no renewal, attempt or late request       *)
(* touches the claim of an active site again (renew_claim, verify_site).   *)
ActiveIsFinal ==
    [][\A s \in Sites : Active(s) => site'[s] = site[s]]_vars
=============================================================================
