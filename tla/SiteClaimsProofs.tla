------------------------- MODULE SiteClaimsProofs -------------------------
(***************************************************************************)
(* Proofs about SiteClaims, for any number of sites, origins and requests. *)
(*                                                                         *)
(* A verify request carries the challenge it read before its fetch; a      *)
(* proof it holds was served by the origin its site claims.  No two sites  *)
(* stand under one challenge and none that is still to be issued has been  *)
(* fetched for, so the counter of a claim starts and moves together with   *)
(* the fetches for its challenge.                                          *)
(***************************************************************************)
EXTENDS SiteClaims, TLAPS

ServedIsShown == \A o \in Origins : served[o] # 0 => <<o, served[o]>> \in shown

(* What each request under way may rely on. *)
Carried(r) ==
    req[r] # NoRequest =>
        /\ site[req[r].site] # NoSite
        /\ req[r].proved => <<site[req[r].site].origin, req[r].nonce>> \in shown

Issued == \A s \in Sites : site[s] # NoSite => site[s].nonce <= minted

OwnChallenge ==
    \A s, x \in Sites :
        site[s] # NoSite /\ site[x] # NoSite /\ site[s].nonce = site[x].nonce => s = x

Untried == \A n \in Nonces : n > minted => tries[n] = 0

IInv ==
    /\ TypeOK
    /\ ServedIsShown
    /\ Issued /\ OwnChallenge /\ Untried
    /\ \A r \in Requests : Carried(r)
    /\ ActiveIsShown
    /\ AttemptsPaid

USE LimitsAssumption, NoValueAssumption

THEOREM Initially == Init => IInv
  BY DEF Init, IInv, TypeOK, ServedIsShown, Issued, OwnChallenge, Untried, Carried, ActiveIsShown,
         AttemptsPaid, Active

(* A challenge that has just been issued is one site's own, and untried. *)
LEMMA FreshChallenge ==
    ASSUME TypeOK, Issued, OwnChallenge, Untried, AttemptsPaid,
           NEW s \in Sites, minted + 1 \in Nonces,
           site'[s].nonce = minted + 1, site'[s].attempts = 0,
           \A x \in Sites \ {s} : site'[x] = site[x],
           minted' = minted + 1, tries' = tries
    PROVE  OwnChallenge' /\ Untried' /\ AttemptsPaid'
  <1>1. minted \in Nat /\ tries[minted + 1] = 0
    BY DEF TypeOK, Untried, Nonces
  <1>2. ASSUME NEW x \in Sites \ {s}, site'[x] # NoSite
        PROVE  site'[x] = site[x] /\ site[x].nonce \in Nonces /\ site[x].nonce <= minted
    BY <1>2 DEF TypeOK, Site, Issued
  <1>3. OwnChallenge'
    <2> SUFFICES ASSUME NEW x \in Sites, NEW y \in Sites, site'[x] # NoSite, site'[y] # NoSite,
                        site'[x].nonce = site'[y].nonce, x # y
                 PROVE  FALSE
      BY DEF OwnChallenge
    <2>1. CASE x # s /\ y # s
      BY <1>2, <2>1 DEF OwnChallenge
    <2>2. CASE x = s \/ y = s
      <3>1. PICK z \in Sites \ {s} : site'[z] # NoSite /\ site'[z].nonce = minted + 1
        BY <2>2
      <3> QED BY <1>1, <1>2, <3>1
    <2> QED BY <2>1, <2>2
  <1>4. Untried'
    BY <1>1 DEF Untried, Nonces
  <1>5. AttemptsPaid'
    BY <1>1, <1>2 DEF AttemptsPaid
  <1> QED BY <1>3, <1>4, <1>5

LEMMA CreateKeeps ==
    ASSUME IInv, NEW s \in Sites, NEW o \in Origins, Create(s, o) PROVE IInv'
  <1>1. TypeOK'
    BY DEF IInv, TypeOK, Create, world, Site, Nonces
  <1>2. ServedIsShown' /\ Issued'
    BY DEF IInv, TypeOK, ServedIsShown, Issued, Create, world, Site, Nonces
  <1>3. ASSUME NEW r \in Requests PROVE Carried(r)'
    <2>1. CASE req[r] = NoRequest
      BY <2>1 DEF Carried, Create
    <2>2. CASE req[r] # NoRequest
      <3>1. req[r].site # s /\ req[r].site \in Sites /\ req[r].nonce \in Nonces
        <4>1. req[r] \in Request
          BY <2>2 DEF IInv, TypeOK
        <4>2. site[req[r].site] # NoSite /\ site[s] = NoSite
          BY <2>2 DEF IInv, Carried, Create
        <4> QED BY <4>1, <4>2 DEF Request
      <3>2. site'[req[r].site] = site[req[r].site]
        BY <3>1 DEF Create, IInv, TypeOK
      <3> QED BY <2>2, <3>1, <3>2 DEF IInv, TypeOK, Carried, Create, world, Nonces
    <2> QED BY <2>1, <2>2
  <1>4. ActiveIsShown'
    BY DEF IInv, TypeOK, ActiveIsShown, Active, Create, world
  <1>5. OwnChallenge' /\ Untried' /\ AttemptsPaid'
    <2>1. site[s] = NoSite /\ minted + 1 \in Nonces /\ minted \in Nat
      BY DEF Create, IInv, TypeOK, Nonces
    <2>2. /\ site'[s].nonce = minted + 1 /\ site'[s].attempts = 0
          /\ \A x \in Sites \ {s} : site'[x] = site[x]
          /\ minted' = minted + 1 /\ tries' = tries
      BY DEF Create, IInv, TypeOK
    <2> QED BY <2>1, <2>2, FreshChallenge DEF IInv
  <1> QED BY <1>1, <1>2, <1>3, <1>4, <1>5 DEF IInv

LEMMA RenewKeeps ==
    ASSUME IInv, NEW s \in Sites, Renew(s) PROVE IInv'
  <1>0. site[s] \in Site /\ ~site[s].active
    BY DEF IInv, TypeOK, Renew, Renewable, Pending
  <1>1. site' = [site EXCEPT ![s] = [site[s] EXCEPT !.nonce = minted + 1, !.attempts = 0]]
    BY DEF Renew, IInv, TypeOK
  <1>2. /\ site'[s] \in Site /\ ~site'[s].active /\ site'[s].origin = site[s].origin
        /\ site'[s].nonce = minted + 1 /\ site'[s].attempts = 0
        /\ \A x \in Sites \ {s} : site'[x] = site[x]
    <2>1. minted + 1 \in Nonces /\ 0 \in 0..MaxAttempts
      BY LimitsAssumption DEF Renew, IInv, TypeOK, Nonces
    <2>2. site'[s] = [site[s] EXCEPT !.nonce = minted + 1, !.attempts = 0]
      BY <1>1 DEF IInv, TypeOK
    <2>3. site \in [Sites -> Site \cup {NoSite}]
      BY DEF IInv, TypeOK
    <2>4. \A x \in Sites \ {s} : site'[x] = site[x]
      BY <1>1, <2>3
    <2>5. /\ site'[s] \in Site /\ ~site'[s].active /\ site'[s].origin = site[s].origin
          /\ site'[s].nonce = minted + 1 /\ site'[s].attempts = 0
      BY <1>0, <2>1, <2>2 DEF Site
    <2> QED BY <2>4, <2>5
  <1>3. TypeOK'
    <2>1. site' \in [Sites -> Site \cup {NoSite}]
      BY <1>1, <1>2 DEF IInv, TypeOK
    <2>2. left' \in [Sites -> 0..Life] /\ minted' \in 0..MaxNonce
      <3>1. Life \in 0..Life
        BY LimitsAssumption
      <3>2. minted \in Nat /\ minted < MaxNonce /\ MaxNonce \in Nat
        BY LimitsAssumption DEF IInv, TypeOK, Renew
      <3>3. left \in [Sites -> 0..Life] /\ left' = [left EXCEPT ![s] = Life]
        BY DEF IInv, TypeOK, Renew
      <3>4. minted' = minted + 1
        BY DEF Renew
      <3>5. left' \in [Sites -> 0..Life]
        BY <3>1, <3>3
      <3>6. minted' \in 0..MaxNonce
        BY <3>2, <3>4
      <3> QED BY <3>5, <3>6
    <2>3. UNCHANGED <<served, shown, banned, purged, req, tries>>
      BY DEF Renew, world
    <2> QED BY <2>1, <2>2, <2>3 DEF IInv, TypeOK
  <1>4. ServedIsShown' /\ Issued'
    BY <1>2 DEF IInv, TypeOK, ServedIsShown, Issued, Renew, world, Site, Nonces
  <1>5. ASSUME NEW r \in Requests PROVE Carried(r)'
    <2>1. CASE req[r] = NoRequest
      BY <2>1 DEF Carried, Renew
    <2>2. CASE req[r] # NoRequest
      <3>1. req[r].site \in Sites /\ req[r].nonce \in Nonces
        BY <2>2 DEF IInv, TypeOK, Request
      <3>2. site'[req[r].site] # NoSite /\ site'[req[r].site].origin = site[req[r].site].origin
        BY <1>2, <2>2, <3>1 DEF IInv, Carried
      <3> QED BY <2>2, <3>1, <3>2 DEF IInv, TypeOK, Carried, Renew, world, Nonces
    <2> QED BY <2>1, <2>2
  <1>6. ActiveIsShown'
    <2>1. shown' = shown
      BY DEF Renew, world
    <2>2. ASSUME NEW x \in Sites, Active(x)' PROVE <<site'[x].origin, site'[x].nonce>> \in shown'
      <3>1. x # s /\ site'[x] = site[x]
        BY <2>2, <1>2 DEF Active
      <3> QED BY <2>1, <2>2, <3>1 DEF IInv, ActiveIsShown, Active
    <2> QED BY <2>2 DEF ActiveIsShown
  <1>7. OwnChallenge' /\ Untried' /\ AttemptsPaid'
    <2>1. minted + 1 \in Nonces /\ minted' = minted + 1 /\ tries' = tries
      BY DEF Renew, IInv, TypeOK, Nonces
    <2> QED BY <1>2, <2>1, FreshChallenge DEF IInv
  <1> QED BY <1>3, <1>4, <1>5, <1>6, <1>7 DEF IInv

LEMMA AttemptKeeps ==
    ASSUME IInv, NEW r \in Requests, NEW s \in Sites, Attempt(r, s) PROVE IInv'
  <1>0. site[s] \in Site /\ ~site[s].active /\ site[s].attempts < MaxAttempts
    BY DEF IInv, TypeOK, Attempt, Pending, TryLeft
  <1>1. site' = [site EXCEPT ![s] = [site[s] EXCEPT !.attempts = site[s].attempts + 1]]
    BY DEF Attempt, IInv, TypeOK
  <1>2. /\ site'[s] \in Site /\ ~site'[s].active /\ site'[s].origin = site[s].origin
        /\ site'[s].nonce = site[s].nonce /\ site'[s].attempts = site[s].attempts + 1
        /\ \A x \in Sites \ {s} : site'[x] = site[x]
    BY <1>0, <1>1 DEF IInv, TypeOK, Site
  <1>3. /\ req'[r] = [proved |-> FALSE, site |-> s, nonce |-> site[s].nonce]
        /\ req'[r] \in Request
        /\ \A q \in Requests \ {r} : req'[q] = req[q]
    BY <1>0 DEF Attempt, IInv, TypeOK, Request, Site
  <1>4. TypeOK'
    <2>1. site' \in [Sites -> Site \cup {NoSite}]
      BY <1>1, <1>2 DEF IInv, TypeOK
    <2>2. req' \in [Requests -> Request \cup {NoRequest}]
      BY <1>3 DEF IInv, TypeOK, Attempt
    <2>3. tries' \in [Nonces -> Nat]
      <3>1. site[s].nonce \in Nonces /\ tries \in [Nonces -> Nat]
        BY <1>0 DEF IInv, TypeOK, Site
      <3> QED BY <3>1 DEF Attempt
    <2> QED BY <2>1, <2>2, <2>3 DEF IInv, TypeOK, Attempt, world
  <1>5. ServedIsShown' /\ Issued'
    BY <1>0, <1>2 DEF IInv, ServedIsShown, Issued, Attempt, world
  <1>6. ASSUME NEW q \in Requests PROVE Carried(q)'
    <2>1. CASE q = r
      BY <2>1, <1>0, <1>2, <1>3 DEF IInv, Carried, Issued, Attempt, Pending
    <2>2. CASE q # r
      <3>1. req'[q] = req[q]
        BY <2>2, <1>3
      <3>2. req[q] # NoRequest => req[q].site \in Sites
        BY DEF IInv, TypeOK, Request
      <3> QED BY <3>1, <3>2, <1>0, <1>2 DEF IInv, Carried, Attempt, world
    <2> QED BY <2>1, <2>2
  <1>7. ActiveIsShown'
    BY <1>2 DEF IInv, ActiveIsShown, Active, Attempt, world
  <1>8. OwnChallenge' /\ Untried' /\ AttemptsPaid'
    <2> DEFINE n == site[s].nonce
    <2>1. n \in Nonces /\ n <= minted /\ minted' = minted /\ minted \in Nat
      BY <1>0 DEF IInv, TypeOK, Issued, Attempt, Site, Pending
    <2>2. /\ tries'[n] = tries[n] + 1 /\ tries[n] = site[s].attempts
          /\ \A m \in Nonces \ {n} : tries'[m] = tries[m]
      BY <1>0, <2>1 DEF IInv, TypeOK, AttemptsPaid, Attempt, Pending
    <2>3. ASSUME NEW x \in Sites \ {s}, site'[x] # NoSite
          PROVE  site'[x] = site[x] /\ site[x].nonce \in Nonces \ {n}
      <3>1. site'[x] = site[x] /\ site[x] \in Site
        BY <1>2, <2>3 DEF IInv, TypeOK
      <3>2. site[x].nonce # n
        BY <1>0, <3>1 DEF IInv, OwnChallenge, Attempt, Pending, TypeOK
      <3> QED BY <3>1, <3>2 DEF Site
    <2>4. OwnChallenge'
      <3>1. site[s] # NoSite /\ site'[s].nonce = site[s].nonce
        BY <1>2 DEF Attempt, Pending
      <3>2. \A x \in Sites : site'[x] # NoSite => site[x] # NoSite /\ site'[x].nonce = site[x].nonce
        BY <2>3, <3>1
      <3> QED BY <3>2 DEF IInv, OwnChallenge
    <2>5. Untried'
      BY <2>1, <2>2 DEF IInv, Untried, Nonces
    <2>6. \A m \in Nonces : tries'[m] <= MaxAttempts
      BY <1>0, <2>1, <2>2 DEF IInv, AttemptsPaid, Site
    <2>7. \A x \in Sites : site'[x] # NoSite => site'[x].attempts = tries'[site'[x].nonce]
      BY <1>2, <2>1, <2>2, <2>3 DEF IInv, AttemptsPaid
    <2> QED BY <2>4, <2>5, <2>6, <2>7 DEF AttemptsPaid
  <1> QED BY <1>4, <1>5, <1>6, <1>7, <1>8 DEF IInv

(* The steps that leave every site and every request as it is. *)
LEMMA WorldKeeps ==
    ASSUME IInv, TypeOK', ServedIsShown', shown \subseteq shown', UNCHANGED <<site, minted, req, tries>>
    PROVE  IInv'
  BY DEF IInv, Issued, OwnChallenge, Untried, Carried, ActiveIsShown, Active, AttemptsPaid

(* A request learns of its proof, or ends. *)
LEMMA RequestKeeps ==
    ASSUME IInv, NEW r \in Requests, Read(r) \/ Drop(r) PROVE IInv'
  <1>1. UNCHANGED <<site, left, minted, world, tries>>
    BY DEF Read, Drop
  <1>2. /\ \A q \in Requests \ {r} : req'[q] = req[q]
        /\ \/ req'[r] = NoRequest
           \/ /\ req[r] # NoRequest /\ req'[r] \in Request
              /\ req'[r] = [req[r] EXCEPT !.proved = TRUE]
              /\ req'[r].site = req[r].site /\ req'[r].nonce = req[r].nonce
              /\ served[site[req[r].site].origin] = req[r].nonce
    BY ZenonT(40) DEF Read, Drop, IInv, TypeOK, Request
  <1>3. TypeOK'
    <2>1. req' \in [Requests -> Request \cup {NoRequest}]
      BY <1>2 DEF Read, Drop, IInv, TypeOK
    <2> QED BY <1>1, <2>1 DEF IInv, TypeOK, world
  <1>4. ServedIsShown' /\ Issued' /\ ActiveIsShown'
    BY <1>1 DEF IInv, ServedIsShown, Issued, ActiveIsShown, Active, world
  <1>5. ASSUME NEW q \in Requests PROVE Carried(q)'
    <2>1. CASE q # r
      BY <2>1, <1>1, <1>2 DEF IInv, Carried, world
    <2>2. CASE q = r /\ req'[r] = NoRequest
      BY <2>2 DEF Carried
    <2>3. CASE q = r /\ req[r] # NoRequest /\ req'[r] \in Request
               /\ req'[r].site = req[r].site /\ req'[r].nonce = req[r].nonce
               /\ served[site[req[r].site].origin] = req[r].nonce
      <3>1. req[r].site \in Sites /\ req[r].nonce \in Nonces
        BY <2>3 DEF IInv, TypeOK, Request
      <3>2. site[req[r].site] # NoSite
        BY <2>3 DEF IInv, Carried
      <3>3. site[req[r].site].origin \in Origins
        BY <3>1, <3>2 DEF IInv, TypeOK, Site
      <3>4. <<site[req[r].site].origin, req[r].nonce>> \in shown
        BY <2>3, <3>1, <3>3 DEF IInv, ServedIsShown, Nonces
      <3> QED BY <2>3, <3>2, <3>4, <1>1 DEF Carried, world
    <2> QED BY <2>1, <2>2, <2>3, <1>2
  <1>6. OwnChallenge' /\ Untried' /\ AttemptsPaid'
    BY <1>1 DEF IInv, OwnChallenge, Untried, AttemptsPaid
  <1> QED BY <1>3, <1>4, <1>5, <1>6 DEF IInv

LEMMA ActivateKeeps ==
    ASSUME IInv, NEW r \in Requests, Activate(r) PROVE IInv'
  <1> DEFINE s == req[r].site
  <1>1. UNCHANGED <<left, minted, world, tries>>
    BY DEF Activate
  <1>2. req[r] \in Request /\ s \in Sites
    BY DEF IInv, TypeOK, Activate, Request
  <1>3. /\ site[s] \in Site /\ ~site[s].active /\ site[s].nonce = req[r].nonce
        /\ <<site[s].origin, site[s].nonce>> \in shown
    BY <1>2 DEF IInv, TypeOK, Activate, SameClaim, Pending, Carried
  <1>4. /\ site' = [site EXCEPT ![s] = [site[s] EXCEPT !.active = TRUE]]
        /\ req' = [req EXCEPT ![r] = NoRequest]
    BY DEF Activate, IInv, TypeOK
  <1>5. /\ site'[s] \in Site /\ site'[s].origin = site[s].origin
        /\ site'[s].nonce = site[s].nonce /\ site'[s].attempts = site[s].attempts
        /\ \A x \in Sites \ {s} : site'[x] = site[x]
    BY <1>2, <1>3, <1>4 DEF IInv, TypeOK, Site
  <1>6. req'[r] = NoRequest /\ \A q \in Requests \ {r} : req'[q] = req[q]
    BY <1>4 DEF IInv, TypeOK
  <1>7. TypeOK'
    <2>1. site' \in [Sites -> Site \cup {NoSite}] /\ req' \in [Requests -> Request \cup {NoRequest}]
      BY <1>4, <1>5, <1>6 DEF IInv, TypeOK
    <2> QED BY <1>1, <2>1 DEF IInv, TypeOK, world
  <1>8. ServedIsShown' /\ Issued' /\ ActiveIsShown'
    <2>1. ServedIsShown' /\ Issued'
      BY <1>1, <1>3, <1>5 DEF IInv, ServedIsShown, Issued, world
    <2>2. ASSUME NEW x \in Sites, Active(x)' PROVE <<site'[x].origin, site'[x].nonce>> \in shown'
      <3>1. shown' = shown
        BY <1>1 DEF world
      <3>2. CASE x = s
        BY <3>1, <3>2, <1>3, <1>5
      <3>3. CASE x # s
        BY <3>1, <3>3, <2>2, <1>5 DEF IInv, ActiveIsShown, Active
      <3> QED BY <3>2, <3>3
    <2> QED BY <2>1, <2>2 DEF ActiveIsShown
  <1>9. ASSUME NEW q \in Requests PROVE Carried(q)'
    <2>1. CASE q = r
      BY <2>1, <1>6 DEF Carried
    <2>2. CASE q # r
      <3>1. req'[q] = req[q] /\ (req[q] # NoRequest => req[q].site \in Sites)
        BY <2>2, <1>6 DEF IInv, TypeOK, Request
      <3>2. Carried(q)
        BY DEF IInv
      <3> QED BY <3>1, <3>2, <1>1, <1>3, <1>5 DEF Carried, world
    <2> QED BY <2>1, <2>2
  <1>10. OwnChallenge' /\ Untried' /\ AttemptsPaid'
    <2>1. ASSUME NEW x \in Sites, site'[x] # NoSite
          PROVE  /\ site[x] # NoSite /\ site'[x].nonce = site[x].nonce
                 /\ site'[x].attempts = site[x].attempts
      BY <1>3, <1>5, <2>1
    <2> QED BY <1>1, <2>1 DEF IInv, OwnChallenge, Untried, AttemptsPaid
  <1> QED BY <1>7, <1>8, <1>9, <1>10 DEF IInv

THEOREM Inductive == IInv /\ [Next]_vars => IInv'
  <1> SUFFICES ASSUME IInv, [Next]_vars PROVE IInv'
    OBVIOUS
  <1>1. CASE \E s \in Sites, o \in Origins : Create(s, o)
    BY <1>1, CreateKeeps
  <1>2. CASE \E s \in Sites : Renew(s)
    BY <1>2, RenewKeeps
  <1>3. CASE \E r \in Requests : Read(r) \/ Drop(r)
    BY <1>3, RequestKeeps
  <1>4. CASE \E r \in Requests : Activate(r)
    BY <1>4, ActivateKeeps
  <1>5. CASE \E r \in Requests, s \in Sites : Attempt(r, s)
    BY <1>5, AttemptKeeps
  <1>6. CASE \E o \in Origins, n \in 0..MaxNonce : Serve(o, n)
    <2> PICK o \in Origins, n \in 0..MaxNonce : Serve(o, n)
      BY <1>6
    <2>1. shown' \subseteq Origins \X Nonces /\ shown \subseteq shown'
      BY DEF Serve, IInv, TypeOK, Nonces
    <2>2. TypeOK'
      BY <2>1 DEF Serve, IInv, TypeOK
    <2>3. ServedIsShown'
      BY DEF Serve, IInv, TypeOK, ServedIsShown
    <2> QED BY <2>1, <2>2, <2>3, WorldKeeps DEF Serve
  <1>7. CASE (\E s \in Sites : Purge(s)) \/ (\E u \in Users : Ban(u)) \/ Tick
    <2>1. TypeOK'
      BY <1>7 DEF Purge, Ban, Tick, IInv, TypeOK, world
    <2>2. ServedIsShown' /\ shown \subseteq shown' /\ UNCHANGED <<site, minted, req, tries>>
      BY <1>7 DEF Purge, Ban, Tick, IInv, ServedIsShown, world
    <2> QED BY <2>1, <2>2, WorldKeeps
  <1>8. CASE UNCHANGED vars
    BY <1>8, WorldKeeps DEF vars, IInv, TypeOK, ServedIsShown
  <1> QED BY <1>1, <1>2, <1>3, <1>4, <1>5, <1>6, <1>7, <1>8 DEF Next

THEOREM Invariant == Spec => []IInv
  BY Initially, Inductive, PTL DEF Spec

(* The shapes of sites and requests; no attempt counter exceeds            *)
(* claim_max_attempts.                                                     *)
THEOREM TypeCorrect == Spec => []TypeOK
  <1>1. IInv => TypeOK
    BY DEF IInv
  <1> QED BY <1>1, Invariant, PTL

(* No site is active whose origin has not served its own challenge         *)
(* (verify_site, phase 2).                                                 *)
THEOREM OnlyProvenSites == Spec => []ActiveIsShown
  <1>1. IInv => ActiveIsShown
    BY DEF IInv
  <1> QED BY <1>1, Invariant, PTL

(* However requests overlap, fail or die, a challenge is fetched for at    *)
(* most claim_max_attempts times in all, and the counter of its claim has  *)
(* every one of these fetches (verify_site, phase 1; renew_claim).         *)
THEOREM EveryFetchPaid == Spec => []AttemptsPaid
  <1>1. IInv => AttemptsPaid
    BY DEF IInv
  <1> QED BY <1>1, Invariant, PTL

(* No step changes an active site (renew_claim, verify_site). *)
THEOREM VerifiedForGood == Spec => ActiveIsFinal
  <1>1. IInv /\ [Next]_vars => [\A s \in Sites : Active(s) => site'[s] = site[s]]_vars
    <2> SUFFICES ASSUME IInv, [Next]_vars, NEW s \in Sites, Active(s) PROVE site'[s] = site[s]
      OBVIOUS
    <2>1. site[s] # NoSite /\ ~Pending(s) /\ site \in [Sites -> Site \cup {NoSite}]
      BY DEF Active, Pending, IInv, TypeOK
    <2>2. CASE \E x \in Sites, o \in Origins : Create(x, o)
      BY <2>1, <2>2 DEF Create
    <2>3. CASE \E x \in Sites : Renew(x)
      BY <2>1, <2>3 DEF Renew, Renewable
    <2>4. CASE \E r \in Requests : Activate(r)
      BY <2>1, <2>4 DEF Activate, SameClaim
    <2>5. CASE \E r \in Requests, x \in Sites : Attempt(r, x)
      BY <2>1, <2>5 DEF Attempt
    <2>6. CASE UNCHANGED site
      BY <2>6
    <2> QED BY <2>2, <2>3, <2>4, <2>5, <2>6
        DEF Next, Read, Drop, Serve, Ban, Purge, Tick, vars
  <1> QED BY <1>1, Invariant, PTL DEF Spec, ActiveIsFinal
=============================================================================
