------------------------------ MODULE MCSocial ------------------------------
(***************************************************************************)
(* Small instances of Social.  People and points are numbers; person 1     *)
(* writes every post.  Person 3 has a half that does not divide evenly.    *)
(***************************************************************************)
EXTENDS Social

MCAuthor == [p \in Posts |-> 1]
MCHalf == [u \in Users |-> CASE u = 1 -> 3 [] u = 2 -> 2 [] OTHER -> 5]
=============================================================================
