------------------------------- MODULE MCPortal -------------------------------
(***************************************************************************)
(* Small instances of Portal for TLC.                                      *)
(***************************************************************************)
EXTENDS Portal, TLC

\* No station and no handler is special: actions and invariants treat them alike.
Symmetry == Permutations(Clients) \cup Permutations(Workers)

=============================================================================
