---------------------------- MODULE MCGuestPipeline ----------------------------
(***************************************************************************)
(* Small instances of GuestPipeline for TLC.                               *)
(***************************************************************************)
EXTENDS GuestPipeline

CONSTANTS r1, r2, r3, k1, k2, k3

\* Every signup has a key of its own, or the first two, of one phone within one
\* second, share theirs.
OwnKey == [r \in Rows |-> IF r = r1 THEN k1 ELSE IF r = r2 THEN k2 ELSE k3]
SharedKey == [r \in Rows |-> IF r \in {r1, r2} THEN k1 ELSE k3]

=============================================================================
