-------------------------------- MODULE Portal --------------------------------
(***************************************************************************)
(* The running daemon: the HTTP handlers, the control thread, the timeout  *)
(* thread and the shutdown, interleaved on the client list, the firewall   *)
(* and the two mutexes.                                                    *)
(***************************************************************************)
EXTENDS HttpHandlers, NdsctlCommands

Init ==
    /\ now = 0
    /\ client = [c \in Clients |-> Off]
    /\ nextId = 1
    /\ fwAuth = {}
    /\ macList = [k \in ListKinds |-> {}]
    /\ fwMac = [k \in ListKinds |-> {}]
    /\ listLock = Free
    /\ cfgLock = Free
    /\ pc = [t \in Threads |-> IF t = Main THEN "run" ELSE "idle"]
    /\ loc = [t \in Threads |-> NoLocals]
    /\ todo = {}
    /\ signups = 0
    /\ spooled = 0

\* What a thread does with the event it has taken on.
WorkerStep(w) == \/ AddClient(w) \/ ServePage(w) \/ DenyRequest(w)
                 \/ SignupRequest(w) \/ Binauth(w) \/ AuthClient(w)
                 \/ Spool(w) \/ SetSession(w) \/ DeauthById(w)
CtlStep == \/ CtlAuth \/ CtlDeauthFind \/ DeauthById(Ctl) \/ Spool(Ctl)
           \/ ListOp(Ctl) \/ ListNoOp(Ctl) \/ ListFw(Ctl)
TimerStep == \/ TimerWake \/ CountersOk \/ TimerLock \/ TimerUnlock
             \/ \E c \in Clients : TimerVisit(c)
             \/ ListOp(Timer) \/ ListNoOp(Timer) \/ ListFw(Timer) \/ TimerDelete
MainStep == MainLock \/ MainUnlock \/ \E c \in Clients : MainVisit(c)

Next ==
    \/ Tick
    \/ \E w \in Workers, c \in Clients : Lookup(w, c)
    \/ \E w \in Workers : WorkerStep(w)
    \/ \E c \in Clients : CtlRequest(c) \/ CtlListRequest(c)
    \/ CtlStep
    \/ TimerStep
    \/ CountersFail
    \/ MainStep

Spec == Init /\ [][Next]_vars

\* A thread that can run again and again runs: it gets a mutex that is given
\* back again and again, and iptables answers the timeout thread at last.
\* Nobody has to send a request, nor to shut the daemon down.
Fairness ==
    /\ \A w \in Workers : SF_vars(WorkerStep(w))
    /\ SF_vars(CtlStep)
    /\ SF_vars(TimerStep) /\ SF_vars(CountersOk)
    /\ WF_vars(pc[Main] # "run" /\ MainStep)

FairSpec == Spec /\ Fairness

-----------------------------------------------------------------------------
(* Every variable has its type.                                            *)

Labels == {"idle", "add", "dispatch", "deauth", "binauth", "auth", "spool",
           "session", "authfind", "deauthfind", "listop", "listfw", "counters",
           "lock", "loop", "delete", "run", "done"}

\* The variables of the client list, the firewall, the threads and the spool
\* hold what ClientAuth declares them to hold.
TypeOK ==
    /\ now \in Nat
    /\ client \in [Clients -> ClientRecord]
    /\ nextId \in Nat \ {0}
    /\ fwAuth \subseteq Clients
    /\ macList \in [ListKinds -> SUBSET Clients]
    /\ fwMac \in [ListKinds -> SUBSET Clients]
    /\ listLock \in Threads \cup {Free}
    /\ cfgLock \in Threads \cup {Free}
    /\ pc \in [Threads -> Labels]
    /\ loc \in [Threads -> Locals]
    /\ todo \subseteq Clients
    /\ signups \in Nat
    /\ spooled \in Nat

-----------------------------------------------------------------------------
(* Safety.                                                                 *)

\* Whether t is at a point of the code between LOCK and UNLOCK_CLIENT_LIST.
InListSection(t) ==
    \/ pc[t] = "spool"
    \/ t = Timer /\ pc[t] \in {"loop", "listop", "listfw", "delete"}
    \/ t = Main /\ pc[t] = "loop"

\* A mutex belongs to the thread whose code is between its lock and unlock,
\* and to nobody when there is none: no path, the error paths included, leaves
\* with a mutex locked or goes on without it.
LocksHeld ==
    \A t \in Threads : /\ InListSection(t) <=> listLock = t
                       /\ pc[t] = "listfw" <=> cfgLock = t

\* The timeout thread has taken c off the firewall and has not yet deleted it.
BeingBlocked(c) == /\ pc[Timer] \in {"listop", "listfw", "delete"}
                   /\ loc[Timer].client = c

\* The firewall lets a station through exactly when the client list says it
\* is authenticated, save the one client the timeout thread is in the middle
\* of blocking: "alter the firewall rules and client list accordingly".
FirewallMatchesList ==
    \A c \in Clients : c \in fwAuth <=> client[c].mark = Auth /\ ~BeingBlocked(c)

\* A configured MAC list and the firewall rules for it name the same
\* stations, except the one whose change holds the config lock just now.
ListsMatchFirewall ==
    \A k \in ListKinds, c \in Clients :
        \/ c \in macList[k] <=> c \in fwMac[k]
        \/ \E t \in {Ctl, Timer} : /\ cfgLock = t /\ pc[t] = "listfw"
                                  /\ loc[t].kind = k /\ loc[t].client = c

\* When auth_client_deauth_all is through its loop nobody is online.
ShutdownClosesAll == pc[Main] = "loop" /\ todo = {} => fwAuth = {}

\* Every signup of authenticated_since_start has one row in the spool, or its
\* thread is just about to write it; none has two.
OneRowPerSignup ==
    LET rows == spooled + Cardinality({t \in Threads : pc[t] = "spool"})
    IN  rows <= signups /\ (SpoolMayFail \/ rows = signups)

\* "Client should already have hit the server and be on the client list": the
\* client a handler authenticates or deauthenticates is on the list.
HandlerClientOnList ==
    \A w \in Workers : pc[w] \in {"auth", "deauth"} => ById(loc[w].ptr) # {}

\* A guest who submits the form twice, in two windows, is signed up once: a
\* step that counts a signup opens the firewall for a station it was closed to.
SignupOpensNet ==
    [][signups' # signups => \E c \in Clients : c \notin fwAuth /\ c \in fwAuth']_vars

-----------------------------------------------------------------------------
(* The threads, locks and lists implement the policy on access.            *)

Policy == INSTANCE AccessPolicy WITH
    online <- fwAuth,
    owed <- \E t \in Threads : pc[t] = "spool",
    rows <- spooled

\* With a firewall that works, whatever the threads do looks from the outside
\* like stations that sign up, have their row written and go offline, one at a
\* time: no station is let in or put out between a signup and its row.
KeepsPolicy == Policy!Spec

-----------------------------------------------------------------------------
(* Liveness.                                                               *)

\* A handler and the control thread always come back for the next request.
RequestsFinish ==
    \A t \in Workers \cup {Ctl} : pc[t] # "idle" ~> pc[t] = "idle"

\* An authenticated client past the end of its session does not stay so.
SessionExpired(c) ==
    client[c].mark = Auth /\ client[c].end > 0 /\ client[c].end <= now
SessionsEnd == \A c \in Clients : SessionExpired(c) ~> ~SessionExpired(c)

=============================================================================
