--------------------------- MODULE MCProfileLinks ---------------------------
(***************************************************************************)
(* Two servers, one of which invites, and two threads between them: a      *)
(* confirmation overlaps an approval, a cancellation, a refresh or another *)
(* confirmation.  The names of rows and threads are interchangeable.       *)
(* Beside it, in a world of its own, the exchange of preferences over a    *)
(* link: two keys, two steps at a time, changing settings.                 *)
(***************************************************************************)
EXTENDS ProfileLinks, TLC

VARIABLES db, shown, live, setting, round, job, late, base, edits, stalls, scene

MCConsents == {[send |-> TRUE, receive |-> FALSE]}
MCSymmetry == Permutations(Links) \cup Permutations(Threads) \cup Permutations(Servers)

Exchange == INSTANCE ProfileSync WITH
    A <- "a", B <- "b", Keys <- {1, 2},
    Kind <- <<"favorites", "own_points">>, Home <- <<"b", "b">>,
    Old <- [s \in {"a", "b"} |->
        <<IF s = "b" THEN [value |-> 1, clock |-> 1, writer |-> "b"] ELSE NoLink, NoLink>>],
    Skew <- [s \in {"a", "b"} |-> IF s = "a" THEN 1 ELSE 0], Ahead <- 3,
    Forth <- {"favorites"}, Back <- {"favorites", "own_points"},
    Choices <- {[enabled |-> FALSE, send |-> {}, receive |-> {}],
                [enabled |-> TRUE, send |-> {"favorites"}, receive |-> {"own_points"}]},
    PageSize <- 1, Threads <- {"w", "h"}, Worker <- "w",
    MaxEdits <- 2, MaxStalls <- 1, None <- NoLink

exchange == <<db, shown, live, setting, round, job, late, base, edits, stalls>>

LinksInit == Init /\ Exchange!Init /\ scene \in {"links", "exchange"}

LinksNext ==
    /\ UNCHANGED scene
    /\ \/ scene = "links" /\ Next /\ UNCHANGED exchange
       \/ scene = "exchange" /\ Exchange!Next /\ UNCHANGED vars

LinksSpec == LinksInit /\ [][LinksNext]_<<vars, exchange, scene>>

-----------------------------------------------------------------------------
(* A round that ends has carried all that both sides had when it began     *)
(* (ProfileSync.RoundDelivers; the cursors of ProfileSync.step).           *)
RoundDelivers == Exchange!RoundDelivers
=============================================================================
