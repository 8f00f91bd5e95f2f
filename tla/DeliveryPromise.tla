---------------------------- MODULE DeliveryPromise ----------------------------
(***************************************************************************)
(* What the spool and the forwarder promise about guests, without lines,   *)
(* caches, processes and power losses: a guest signs up, is stored, is     *)
(* confirmed as stored, reaches the CMS and is marked.  A step adds one    *)
(* guest to what it changes, only after what that depends on, and takes    *)
(* none back: neither from the disk nor from the file of marks.            *)
(***************************************************************************)
CONSTANTS
    Rows,   \* the signups
    Keys,   \* the dedupe keys
    Key     \* the key of each signup

VARIABLES
    signed,     \* the signups the daemon has come to
    stored,     \* those who are on the disk and can be read from it
    confirmed,  \* those the daemon has been told are on the disk
    delivered,  \* the keys the CMS has
    marked      \* the keys no forwarder posts again

promiseVars == <<signed, stored, confirmed, delivered, marked>>

Init ==
    /\ signed = {} /\ stored = {} /\ confirmed = {}
    /\ delivered = {} /\ marked = {}

Sign(r) == /\ r \notin signed /\ signed' = signed \cup {r}
           /\ UNCHANGED <<stored, confirmed, delivered, marked>>

\* The guest is on the disk; the daemon may be gone before it is told so.
Save(r) == /\ r \in signed /\ stored' = stored \cup {r}
           /\ confirmed' = confirmed \/ confirmed' = confirmed \cup {r}
           /\ UNCHANGED <<signed, delivered, marked>>

\* The CMS hears only of guests who signed up.
Deliver(k) == /\ \E r \in signed : Key[r] = k
              /\ delivered' = delivered \cup {k}
              /\ UNCHANGED <<signed, stored, confirmed, marked>>

Mark(k) == /\ k \in delivered /\ marked' = marked \cup {k}
           /\ UNCHANGED <<signed, stored, confirmed, delivered>>

Next == \/ \E r \in Rows : Sign(r) \/ Save(r)
        \/ \E k \in Keys : Deliver(k) \/ Mark(k)

Spec == Init /\ [][Next]_promiseVars

=============================================================================
