-------------------------- MODULE MCVerifierSlots --------------------------
(***************************************************************************)
(* Three requests compete for two slots; the third is a Git preview, whose  *)
(* deadline is longer than that of a site's proof file.                    *)
(***************************************************************************)
EXTENDS VerifierSlots

CONSTANTS r1, r2, r3

MCSlots == {0, 1}
MCSeconds == [r \in Requests |-> IF r = r3 THEN 2 ELSE 1]
=============================================================================
