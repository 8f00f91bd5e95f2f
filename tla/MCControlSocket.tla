--------------------------- MODULE MCControlSocket ---------------------------
(***************************************************************************)
(* A small instance of ControlSocket for TLC.  p1 asks for something and p2 *)
(* sends "stop".  With a buffer of three bytes p1's line fits exactly, or  *)
(* is longer by one or by two.                                             *)
(***************************************************************************)
EXTENDS ControlSocket

CONSTANTS p1, p2

Setting(f, len, entries) ==
    [faults |-> f, size |-> [p \in Peers |-> IF p = p1 THEN len ELSE 2],
     maxEvents |-> entries]

\* Every combination of faults, with lines that fit and entries for all events that
\* come at a time; lines that are too long; and an array that two events overrun.
SmallSettings ==
    {Setting(f, 3, 2) : f \in SUBSET {"overlap", "sloppy", "nofds"}}
    \cup {Setting(f, len, 2) : f \in SUBSET {"overlap", "sloppy"}, len \in {4, 5}}
    \cup {Setting(f, 3, 1) : f \in SUBSET {"overlap", "sloppy"}}

=============================================================================
