---------------------------- MODULE NdsctlCommands ----------------------------
(***************************************************************************)
(* The commands of the control socket that act on clients: ndsctl_auth,    *)
(* ndsctl_deauth and the six MAC list commands of ndsctl_thread.c.  One    *)
(* thread reads the socket, so there is one command at a time.             *)
(***************************************************************************)
EXTENDS ClientAuth

CONSTANT MaxCtlSignups   \* bound: ndsctl auth is not sent after this many

ASSUME NdsctlAssumption == MaxCtlSignups \in Nat

\* A command for station c arrives.
CtlFrame == UNCHANGED <<now, listVars, fwVars, lockVars, todo, rowVars>>

CtlRequest(c) ==
    /\ pc[Ctl] = "idle"
    /\ \/ signups < MaxCtlSignups /\ Goto(Ctl, "authfind")
       \/ Goto(Ctl, "deauthfind")
    /\ loc' = [loc EXCEPT ![Ctl].client = c]
    /\ CtlFrame

CtlListRequest(c) ==
    /\ pc[Ctl] = "idle"
    /\ \E k \in ListKinds, o \in {"add", "remove"} : CallList(Ctl, c, k, o)
    /\ Goto(Ctl, "listop")
    /\ CtlFrame

\* ndsctl_auth holds the list lock from the lookup to the spooled row.
CtlAuth ==
    /\ pc[Ctl] = "authfind"
    /\ LET c == loc[Ctl].client
       IN  \/ /\ MayChange(client[c].mark, Auth)
              /\ SignUp(Ctl, c)
              /\ UNCHANGED loc
           \/ /\ ~MayChange(client[c].mark, Auth)
              /\ listLock = Free
              /\ Finish(Ctl)
              /\ CtlFrame

\* Mutant of CtlDeauthFind: the lock is not given back before
\* auth_client_deauth takes it again.
CtlDeauthFindHolding ==
    /\ pc[Ctl] = "deauthfind"
    /\ LockList(Ctl)
    /\ loc[Ctl].client \in Listed
    /\ loc' = [loc EXCEPT ![Ctl] = [NoLocals EXCEPT !.ptr = client[loc[Ctl].client].id]]
    /\ Goto(Ctl, "deauth")
    /\ UNCHANGED <<now, listVars, fwVars, cfgLock, todo, rowVars>>

\* ndsctl_deauth looks the id up, gives the lock back and deauthenticates
\* whoever has that id then.
CtlDeauthFind ==
    /\ pc[Ctl] = "deauthfind"
    /\ listLock = Free
    /\ LET c == loc[Ctl].client
       IN  \/ /\ c \in Listed
              /\ loc' = [loc EXCEPT ![Ctl] = [NoLocals EXCEPT !.ptr = client[c].id]]
              /\ Goto(Ctl, "deauth")
           \/ c \notin Listed /\ Finish(Ctl)
    /\ CtlFrame

=============================================================================
