----------------------------- MODULE RateLimit -----------------------------
(***************************************************************************)
(* One row of auth_limits (AuthService._limit): an upsert that counts the  *)
(* admitted requests of a window and refuses the rest.  The window begins  *)
(* with the first request after the last one ended.  Registration, login,  *)
(* recovery, claims and all writes of an account pass such a row, each     *)
(* under a key and with a maximum of its own.  A row that is not there yet *)
(* is one whose window has ended.                                          *)
(***************************************************************************)
EXTENDS Integers

CONSTANTS Maximum, Seconds

ASSUME RateLimitAssumption == Maximum \in Nat \ {0} /\ Seconds \in Nat \ {0}

VARIABLES
    count, left,    \* left: of the window, resets_at counted from now
    admitted        \* history: how many were admitted so many units ago

limit == <<count, left, admitted>>

LimitOK ==
    /\ count \in 0..Maximum /\ left \in 0..Seconds
    /\ admitted \in [0..Seconds - 1 -> 0..Maximum]

LimitInit ==
    /\ count = 0 /\ left = 0
    /\ admitted = [a \in 0..Seconds - 1 |-> 0]

Expired == left = 0

(* The condition under which the row is written. *)
Admits == Expired \/ count < Maximum

(* Fault: refused requests prolong the window. *)
RenewedBy(refused) == IF refused THEN Seconds ELSE left

(* A refused request leaves the row as it was. *)
Renewed(refused) == left

Request ==
    IF Admits
      THEN /\ count' = IF Expired THEN 1 ELSE count + 1
           /\ left' = IF Expired THEN Seconds ELSE left
           /\ admitted' = [admitted EXCEPT ![0] = @ + 1]
      ELSE /\ left' = Renewed(TRUE)
           /\ UNCHANGED <<count, admitted>>

TimePasses ==
    /\ left' = IF left > 0 THEN left - 1 ELSE 0
    /\ admitted' = [a \in 0..Seconds - 1 |-> IF a = 0 THEN 0 ELSE admitted[a - 1]]
    /\ UNCHANGED count

LimitNext == Request \/ TimePasses

LimitSpec == LimitInit /\ [][LimitNext]_limit

-----------------------------------------------------------------------------
(* How many were admitted in the last n units. *)
Lately[n \in 0..Seconds] == IF n = 0 THEN 0 ELSE Lately[n - 1] + admitted[n - 1]

(* In no period as long as the window are twice the maximum admitted, and  *)
(* a request is refused only if the maximum was admitted in the last such  *)
(* period: refused requests neither count nor prolong anything (_limit).   *)
LimitExact == 
    /\ Lately[Seconds] < 2 * Maximum
    /\ ~Admits => Lately[Seconds] >= Maximum
=============================================================================
