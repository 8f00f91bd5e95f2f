----------------------------- MODULE AccessPolicy -----------------------------
(***************************************************************************)
(* What the daemon promises about access, without its threads, locks and   *)
(* client list: a station gets online by a signup, each signup is paid for *)
(* with at most one row in the spool, and nobody is let in or put out      *)
(* while a row is still owed.                                              *)
(***************************************************************************)
EXTENDS Naturals

CONSTANTS
    Clients,       \* the stations
    SpoolMayFail   \* the row of a signup may be dropped

VARIABLES
    online,    \* the stations the firewall lets through
    owed,      \* the last signup's row has not been dealt with
    signups,
    rows

policyVars == <<online, owed, signups, rows>>

Init == online = {} /\ owed = FALSE /\ signups = 0 /\ rows = 0

\* A station that was not online signs up.
Open(c) ==
    /\ ~owed /\ owed' = TRUE
    /\ c \notin online /\ online' = online \cup {c}
    /\ signups' = signups + 1
    /\ UNCHANGED rows

\* Its row is written, or given up.
Settle ==
    /\ owed /\ owed' = FALSE
    /\ rows' = rows + 1 \/ (SpoolMayFail /\ UNCHANGED rows)
    /\ UNCHANGED <<online, signups>>

\* A station goes offline: on demand, by a timeout or by the shutdown.
Close(c) ==
    /\ ~owed
    /\ c \in online /\ online' = online \ {c}
    /\ UNCHANGED <<owed, signups, rows>>

Next == Settle \/ \E c \in Clients : Open(c) \/ Close(c)

Spec == Init /\ [][Next]_policyVars

=============================================================================
