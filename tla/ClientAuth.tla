------------------------------ MODULE ClientAuth ------------------------------
(***************************************************************************)
(* The client list, the firewall state behind it and the operations of     *)
(* auth.c: the state changes of a client, the timeout thread, the          *)
(* trusted/allowed/blocked MAC lists and the deauthentication at shutdown. *)
(* HttpHandlers and NdsctlCommands add the two threads that call them and  *)
(* Portal puts the threads together.                                       *)
(*                                                                         *)
(* A client is one station, a (mac, ip) pair.  client_list.c, conf.c and   *)
(* fw_iptables.c are not part of the repository: what is modelled of them  *)
(* is how auth.c and http_microhttpd.c use them.                           *)
(***************************************************************************)
EXTENDS Naturals, FiniteSets

CONSTANTS
    Clients,              \* the stations
    NoClient,             \* a thread that handles no client
    Workers,              \* the threads that run libmicrohttpd_cb
    ListKinds,            \* which of the MAC lists are modelled
    PreauthIdle,          \* 60 * config->preauth_idle_timeout, 0 = never
    AuthIdle,             \* 60 * config->auth_idle_timeout, 0 = never
    SessionTimeoutBlock,  \* config->session_timeout_block > 0
    SessionLimitBlock,    \* config->session_limit_block > 0
    FwMayFail,            \* an iptables call may fail
    SpoolMayFail,         \* the spool file may fail to open
    MaxTime               \* bound: the clock stops here

Timer == "timer"   \* thread_client_timeout_check
Ctl == "ctl"       \* thread_ndsctl
Main == "main"     \* the thread that shuts the daemon down
Free == "free"     \* the owner of a lock nobody holds
Threads == Workers \cup {Timer, Ctl, Main}

ASSUME ClientAuthAssumption ==
    /\ NoClient \notin Clients
    /\ Workers \cap {Timer, Ctl, Main, Free} = {}
    /\ ListKinds \subseteq {"blocked", "trusted", "allowed"}
    /\ "blocked" \in ListKinds
    /\ PreauthIdle \in Nat /\ AuthIdle \in Nat /\ MaxTime \in Nat
    /\ SessionTimeoutBlock \in BOOLEAN /\ SessionLimitBlock \in BOOLEAN
    /\ FwMayFail \in BOOLEAN /\ SpoolMayFail \in BOOLEAN

VARIABLES
    now,       \* time(NULL)
    client,    \* the client list: a record per station, mark "absent" if not on it
    nextId,    \* the id the next client added to the list gets
    fwAuth,    \* the stations the firewall lets through to the internet
    macList,   \* the configured MAC lists
    fwMac,     \* the stations the firewall has a rule of that list for
    listLock,  \* the owner of client_list_mutex
    cfgLock,   \* the owner of config_mutex
    pc,        \* where each thread is
    loc,       \* the local variables of each thread
    todo,      \* the clients a loop over the client list has still to visit
    signups,   \* authenticated_since_start
    spooled    \* rows appended to guest_spool.jsonl

listVars == <<client, nextId>>
fwVars == <<fwAuth, macList, fwMac>>
lockVars == <<listLock, cfgLock>>
rowVars == <<signups, spooled>>
vars == <<now, listVars, fwVars, lockVars, pc, loc, todo, rowVars>>

-----------------------------------------------------------------------------
(* The client list.                                                        *)

Preauth == "preauthenticated"
Auth == "authenticated"
Marks == {Preauth, Auth, "blocked", "trusted"}

Off == [mark |-> "absent", id |-> 0, seen |-> 0, end |-> 0, over |-> FALSE]
ClientRecord == [mark : Marks \cup {"absent"}, id : Nat, seen : Nat,
                 end : Nat, over : BOOLEAN]

Listed == {c \in Clients : client[c].mark # "absent"}

\* client_list_find_by_id
ById(i) == {c \in Listed : client[c].id = i}

\* client_reset: traffic counters and session times start again
Reset(c) == [mark |-> Preauth, id |-> client[c].id, seen |-> now,
             end |-> 0, over |-> FALSE]

-----------------------------------------------------------------------------
(* Threads: a program counter, a few locals, and two mutexes.              *)

NoLocals == [client |-> NoClient, ptr |-> 0, start |-> 0, secs |-> 0,
             kind |-> "none", op |-> "none"]
Locals == [client : Clients \cup {NoClient}, ptr : Nat, start : Nat,
           secs : Nat, kind : ListKinds \cup {"none"},
           op : {"add", "remove", "none"}]

Goto(t, label) == pc' = [pc EXCEPT ![t] = label]

\* The thread returns to its loop and waits for the next event.
Finish(t) == /\ Goto(t, "idle")
             /\ loc' = [loc EXCEPT ![t] = NoLocals]

LockList(t) == listLock = Free /\ listLock' = t
UnlockList == listLock' = Free

-----------------------------------------------------------------------------
(* auth_change_state.  The firewall's answer is not looked at, so the      *)
(* client changes state whether or not the rule did.                       *)

\* iptables_fw_authenticate and iptables_fw_deauthenticate
FwAuthSet(S) == fwAuth' = S \/ (FwMayFail /\ UNCHANGED fwAuth)

\* Mutants of MayChange: the check for state == new_state is gone; the change
\* to blocked is refused for an authenticated client too.
MayChangeAgain(from, to) == to = Auth \/ <<from, to>> \in
    {<<Auth, Preauth>>, <<Auth, "blocked">>}
MayChangeNoBlock(from, to) == <<from, to>> \in {<<Preauth, Auth>>, <<Auth, Preauth>>}

\* The changes auth_change_state carries out; all others return -1.
MayChange(from, to) == <<from, to>> \in
    {<<Preauth, Auth>>, <<Auth, Preauth>>, <<Auth, "blocked">>}

ToAuth(c) == /\ FwAuthSet(fwAuth \cup {c})
             /\ client' = [client EXCEPT ![c].mark = Auth]

\* Mutant of ToPreauth: the firewall rule is left in place.
ToPreauthListOnly(c) == client' = [client EXCEPT ![c] = Reset(c)] /\ UNCHANGED fwAuth

ToPreauth(c) == /\ FwAuthSet(fwAuth \ {c})
                /\ client' = [client EXCEPT ![c] = Reset(c)]

\* Put c back behind the portal if its state allows it, else do nothing.
TryPreauth(c) ==
    \/ MayChange(client[c].mark, Preauth) /\ ToPreauth(c)
    \/ ~MayChange(client[c].mark, Preauth) /\ UNCHANGED <<client, fwAuth>>

-----------------------------------------------------------------------------
(* Time passes.                                                            *)

Tick == /\ now < MaxTime
        /\ now' = now + 1
        /\ UNCHANGED <<listVars, fwVars, lockVars, pc, loc, todo, rowVars>>

-----------------------------------------------------------------------------
(* auth_client_auth_nolock for a preauthenticated client: the caller takes *)
(* the list lock and keeps it until the guest's row is spooled.            *)

\* The client found under id i may be signed up: auth_change_state returns 0.
MaySignUp(i) == {c \in ById(i) : MayChange(client[c].mark, Auth)}

\* Mutant of SignUp: the firewall opens for the thread's own client variable
\* instead of the client found under the id.
SignUpWrongClient(t, c) ==
    /\ LockList(t)
    /\ ToAuth(loc[t].client)
    /\ signups' = signups + 1
    /\ Goto(t, "spool")
    /\ UNCHANGED <<now, nextId, macList, fwMac, cfgLock, todo, spooled>>

SignUp(t, c) ==
    /\ LockList(t)
    /\ ToAuth(c)
    /\ signups' = signups + 1
    /\ Goto(t, "spool")
    /\ UNCHANGED <<now, nextId, macList, fwMac, cfgLock, todo, spooled>>

\* Mutant of AppendRow: the row is written again by the fallback after the
\* first open has already succeeded.
AppendTwice == spooled' = spooled + 2 \/ (SpoolMayFail /\ UNCHANGED spooled)

\* fopen, fprintf, fflush, fsync: one whole row, or none if fopen fails.
AppendRow == spooled' = spooled + 1 \/ (SpoolMayFail /\ UNCHANGED spooled)

\* The row is out and the list lock is given back.  A handler still has to
\* set the session times; ndsctl auth is done.
Spool(t) ==
    /\ pc[t] = "spool"
    /\ AppendRow
    /\ UnlockList
    /\ \/ t \in Workers /\ Goto(t, "session") /\ UNCHANGED loc
       \/ t = Ctl /\ Finish(t)
    /\ UNCHANGED <<now, listVars, fwVars, cfgLock, todo, signups>>

-----------------------------------------------------------------------------
(* auth_client_deauth(id)                                                  *)

DeauthById(t) ==
    /\ pc[t] = "deauth"
    /\ listLock = Free
    /\ \/ \E c \in ById(loc[t].ptr) : TryPreauth(c)
       \/ ById(loc[t].ptr) = {} /\ UNCHANGED <<client, fwAuth>>
    /\ Finish(t)
    /\ UNCHANGED <<now, nextId, macList, fwMac, lockVars, todo, rowVars>>

-----------------------------------------------------------------------------
(* auth_client_trust, _untrust, _allow, _unallow, _block and _unblock: the *)
(* configured list first, the firewall only if that changed, both under    *)
(* the config lock.  A firewall error leaves the list as it is.            *)

LockConfig(t) == cfgLock = Free /\ cfgLock' = t
UnlockConfig == cfgLock' = Free

\* The arguments of the call: add c to or remove it from list k.
CallList(t, c, k, o) ==
    loc' = [loc EXCEPT ![t] = [client |-> c, ptr |-> 0, start |-> loc[t].start,
                               secs |-> 0, kind |-> k, op |-> o]]

\* What the caller does next, whatever the outcome.
AfterList(t) == \/ t = Timer /\ Goto(t, "delete") /\ UNCHANGED loc
                \/ t = Ctl /\ Finish(t)

\* add_to_..._mac_list or remove_from_..._mac_list has something to do
ListChanges(t) ==
    (loc[t].op = "add") # (loc[t].client \in macList[loc[t].kind])

Changed(S, t) == IF loc[t].op = "add" THEN S \cup {loc[t].client}
                                      ELSE S \ {loc[t].client}

\* Mutant of ListOp: the list changes without the lock.
ListOpUnlocked(t) ==
    /\ pc[t] = "listop"
    /\ ListChanges(t)
    /\ macList' = [macList EXCEPT ![loc[t].kind] = Changed(@, t)]
    /\ Goto(t, "listfw")
    /\ UNCHANGED <<now, listVars, fwAuth, fwMac, lockVars, loc, todo, rowVars>>

ListOp(t) ==
    /\ pc[t] = "listop"
    /\ ListChanges(t)
    /\ LockConfig(t)
    /\ macList' = [macList EXCEPT ![loc[t].kind] = Changed(@, t)]
    /\ Goto(t, "listfw")
    /\ UNCHANGED <<now, listVars, fwAuth, fwMac, listLock, loc, todo, rowVars>>

ListNoOp(t) ==
    /\ pc[t] = "listop"
    /\ ~ListChanges(t)
    /\ cfgLock = Free
    /\ AfterList(t)
    /\ UNCHANGED <<now, listVars, fwVars, lockVars, todo, rowVars>>

\* Mutant of ListFw: an iptables error returns before UNLOCK_CONFIG.
ListFwEarlyReturn(t) ==
    /\ pc[t] = "listfw"
    /\ \/ fwMac' = [fwMac EXCEPT ![loc[t].kind] = Changed(@, t)] /\ UnlockConfig
       \/ FwMayFail /\ UNCHANGED <<fwMac, cfgLock>>
    /\ AfterList(t)
    /\ UNCHANGED <<now, listVars, fwAuth, macList, listLock, todo, rowVars>>

ListFw(t) ==
    /\ pc[t] = "listfw"
    /\ \/ fwMac' = [fwMac EXCEPT ![loc[t].kind] = Changed(@, t)]
       \/ FwMayFail /\ UNCHANGED fwMac
    /\ UnlockConfig
    /\ AfterList(t)
    /\ UNCHANGED <<now, listVars, fwAuth, macList, listLock, todo, rowVars>>

-----------------------------------------------------------------------------
(* thread_client_timeout_check: fw_refresh_client_list every checkinterval *)
(* seconds.  The time is read before the counters, and both before the     *)
(* lock is taken.                                                          *)

TimerWake ==
    /\ pc[Timer] = "idle"
    /\ Goto(Timer, "counters")
    /\ loc' = [loc EXCEPT ![Timer].start = now]
    /\ UNCHANGED <<now, listVars, fwVars, lockVars, todo, rowVars>>

Counted(c, traffic, overLimit) ==
    [mark |-> client[c].mark, id |-> client[c].id, end |-> client[c].end,
     seen |-> IF traffic THEN now ELSE client[c].seen,
     over |-> IF overLimit THEN TRUE ELSE client[c].over]

\* iptables_fw_counters_update: the clients of S had traffic, those of V
\* went over the traffic limit.
CountersOk ==
    /\ pc[Timer] = "counters"
    /\ \E S \in SUBSET Listed :
         \E V \in SUBSET {c \in S : client[c].mark = Auth /\ SessionLimitBlock} :
            client' = [c \in Clients |-> Counted(c, c \in S, c \in V)]
    /\ Goto(Timer, "lock")
    /\ UNCHANGED <<now, nextId, fwVars, lockVars, loc, todo, rowVars>>

CountersFail ==
    /\ pc[Timer] = "counters"
    /\ FwMayFail
    /\ Finish(Timer)
    /\ UNCHANGED <<now, listVars, fwVars, lockVars, todo, rowVars>>

TimerLock ==
    /\ pc[Timer] = "lock"
    /\ LockList(Timer)
    /\ todo' = Listed
    /\ Goto(Timer, "loop")
    /\ UNCHANGED <<now, listVars, fwVars, cfgLock, loc, rowVars>>

\* The conditions of the if-else chain, in its order.
SessionOver(c) == client[c].end > 0 /\ client[c].end <= loc[Timer].start
LimitOver(c) == SessionLimitBlock /\ client[c].over
\* Mutant of IdleFor: a timeout of 0 is not "never" but at once.
IdleForZero(c, secs) == client[c].seen + secs <= loc[Timer].start

IdleFor(c, secs) == secs > 0 /\ client[c].seen + secs <= loc[Timer].start

\* What a visit does to c: the new state it asks for, or "absent" for
\* client_list_delete, or c's own state for nothing at all.
Verdict(c) ==
    IF SessionOver(c) THEN IF SessionTimeoutBlock THEN "blocked" ELSE Preauth
    ELSE IF LimitOver(c) THEN "blocked"
    ELSE IF client[c].mark = Preauth /\ IdleFor(c, PreauthIdle) THEN "absent"
    ELSE IF client[c].mark = Auth /\ IdleFor(c, AuthIdle) THEN Preauth
    ELSE client[c].mark

Visit(c) == pc[Timer] = "loop" /\ c \in todo /\ todo' = todo \ {c}

TimerEvict(c) ==
    /\ Visit(c)
    /\ Verdict(c) = "absent"
    /\ client' = [client EXCEPT ![c] = Off]
    /\ UNCHANGED <<now, nextId, fwVars, lockVars, pc, loc, rowVars>>

TimerDeauth(c) ==
    /\ Visit(c)
    /\ Verdict(c) = Preauth
    /\ TryPreauth(c)
    /\ UNCHANGED <<now, nextId, macList, fwMac, lockVars, pc, loc, rowVars>>

\* Authenticated to blocked: the firewall, then auth_client_block, which
\* takes the config lock while the list lock is held, then the deletion.
TimerBlock(c) ==
    /\ Visit(c)
    /\ Verdict(c) = "blocked"
    /\ MayChange(client[c].mark, "blocked")
    /\ FwAuthSet(fwAuth \ {c})
    /\ CallList(Timer, c, "blocked", "add")
    /\ Goto(Timer, "listop")
    /\ UNCHANGED <<now, listVars, macList, fwMac, lockVars, rowVars>>

\* No condition holds, or auth_change_state refuses the change.
TimerSkip(c) ==
    /\ Visit(c)
    /\ Verdict(c) \notin {"absent", Preauth}
    /\ ~MayChange(client[c].mark, Verdict(c))
    /\ UNCHANGED <<now, listVars, fwVars, lockVars, pc, loc, rowVars>>

TimerVisit(c) == TimerEvict(c) \/ TimerDeauth(c) \/ TimerBlock(c) \/ TimerSkip(c)

TimerDelete ==
    /\ pc[Timer] = "delete"
    /\ client' = [client EXCEPT ![loc[Timer].client] = Off]
    /\ loc' = [loc EXCEPT ![Timer] = [NoLocals EXCEPT !.start = loc[Timer].start]]
    /\ Goto(Timer, "loop")
    /\ UNCHANGED <<now, nextId, fwVars, lockVars, todo, rowVars>>

TimerUnlock ==
    /\ pc[Timer] = "loop" /\ todo = {}
    /\ UnlockList
    /\ Finish(Timer)
    /\ UNCHANGED <<now, listVars, fwVars, cfgLock, todo, rowVars>>

-----------------------------------------------------------------------------
(* auth_client_deauth_all, called once when the daemon shuts down.         *)

\* Mutant of MainLock: the shutdown loop runs without the list lock.
MainLockNot ==
    /\ pc[Main] = "run"
    /\ todo' = Listed
    /\ Goto(Main, "loop")
    /\ UNCHANGED <<now, listVars, fwVars, lockVars, loc, rowVars>>

MainLock ==
    /\ pc[Main] = "run"
    /\ LockList(Main)
    /\ todo' = Listed
    /\ Goto(Main, "loop")
    /\ UNCHANGED <<now, listVars, fwVars, cfgLock, loc, rowVars>>

MainVisit(c) ==
    /\ pc[Main] = "loop" /\ c \in todo
    /\ todo' = todo \ {c}
    /\ TryPreauth(c)
    /\ UNCHANGED <<now, nextId, macList, fwMac, lockVars, pc, loc, rowVars>>

MainUnlock ==
    /\ pc[Main] = "loop" /\ todo = {}
    /\ UnlockList
    /\ Goto(Main, "done")
    /\ UNCHANGED <<now, listVars, fwVars, cfgLock, loc, todo, rowVars>>

=============================================================================
