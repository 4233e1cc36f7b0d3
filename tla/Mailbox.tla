------------------------------ MODULE Mailbox ------------------------------
(***************************************************************************)
(* What the durable notices of the community promise: a notice about a     *)
(* point is owed to exactly the people who support the point when it is    *)
(* posted, joining or leaving later changes nothing about it, and          *)
(* everything owed arrives, once, and nothing else does.                   *)
(***************************************************************************)
EXTENDS Integers

CONSTANTS Users, Points, Notices

VARIABLES
    members,    \* the supporters of each point
    owed,       \* pairs <<person, notice>>
    inbox       \* pairs that have arrived

vars == <<members, owed, inbox>>

Init ==
    /\ members = [p \in Points |-> {}]
    /\ owed = {}
    /\ inbox = {}

Fresh(n) == \A u \in Users : <<u, n>> \notin owed

(* The audience of a notice is complete when it is posted. *)
Post(S, n) == owed' = owed \cup (S \X {n})

(* One person joins or leaves; the change may decide a vote, whose notice  *)
(* goes to the supporters after the change.                                *)
Change(u, p) ==
    /\ members' = [members EXCEPT ![p] = IF u \in @ THEN @ \ {u} ELSE @ \cup {u}]
    /\ \/ owed' = owed
       \/ \E n \in Notices : Fresh(n) /\ Post(members'[p], n)
    /\ inbox' = inbox

Announce(p) ==
    /\ \E n \in Notices : Fresh(n) /\ Post(members[p], n)
    /\ UNCHANGED <<members, inbox>>

Dissolve(p) ==
    /\ members' = [members EXCEPT ![p] = {}]
    /\ UNCHANGED <<owed, inbox>>

Deliver ==
    /\ inbox # owed
    /\ \E S \in SUBSET (owed \ inbox) : inbox' = inbox \cup S
    /\ UNCHANGED <<members, owed>>

Next ==
    \/ \E u \in Users, p \in Points : Change(u, p)
    \/ \E p \in Points : Announce(p) \/ Dissolve(p)
    \/ Deliver

Spec == Init /\ [][Next]_vars
=============================================================================
