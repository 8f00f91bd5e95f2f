----------------------------- MODULE PortalProofs -----------------------------
(***************************************************************************)
(* Theorems of Portal for any number of stations, handlers and signups and *)
(* any timeouts: type correctness, the discipline of the two mutexes and,  *)
(* when iptables does not fail, the agreement of firewall and client list. *)
(***************************************************************************)
EXTENDS Portal, FiniteSetTheorems, TLAPS

USE DEF Timer, Ctl, Main, Free, Threads

\* The arguments a thread has stored for the call it is about to make.
ArgsOK ==
    /\ \A w \in Workers : pc[w] = "add" => loc[w].client \in Clients
    /\ pc[Ctl] \in {"authfind", "deauthfind"} => loc[Ctl].client \in Clients
    /\ \A t \in {Ctl, Timer} : pc[t] \in {"listop", "listfw", "delete"} =>
          loc[t].client \in Clients /\ loc[t].kind \in ListKinds

TypeInv == TypeOK /\ ArgsOK

-----------------------------------------------------------------------------
\* The daemon starts with its types.
LEMMA TypeInit == Init => TypeInv
BY ClientAuthAssumption, SMTT(30) DEF Init, TypeInv, TypeOK, ArgsOK, Off, NoLocals,
   Locals, ClientRecord, Labels, Marks

\* Putting a client back behind the portal keeps the types.
LEMMA TryPreauthType ==
    ASSUME TypeOK, NEW c \in Clients, TryPreauth(c)
    PROVE  client' \in [Clients -> ClientRecord] /\ fwAuth' \subseteq Clients
<1>1. Reset(c) \in ClientRecord
    BY DEF TypeOK, Reset, ClientRecord, Marks, Preauth
<1>2. CASE MayChange(client[c].mark, Preauth) /\ ToPreauth(c)
    BY <1>1, <1>2 DEF TypeOK, ToPreauth, FwAuthSet
<1>3. CASE UNCHANGED <<client, fwAuth>>
    BY <1>3 DEF TypeOK
<1> QED
    BY <1>2, <1>3 DEF TryPreauth

\* Nor does a signup break them.
LEMMA ToAuthType ==
    ASSUME TypeOK, NEW c \in Clients, ToAuth(c)
    PROVE  client' \in [Clients -> ClientRecord] /\ fwAuth' \subseteq Clients
<1>1. [client[c] EXCEPT !.mark = Auth] \in ClientRecord
    BY DEF TypeOK, ClientRecord, Marks, Auth
<1> QED
    BY <1>1 DEF TypeOK, ToAuth, FwAuthSet

\* No step of any thread breaks a type or leaves a call without its arguments.
LEMMA TypeNext == TypeInv /\ [Next]_vars => TypeInv'
<1> SUFFICES ASSUME TypeInv, [Next]_vars PROVE TypeInv'
    OBVIOUS
<1> USE ClientAuthAssumption, HttpHandlersAssumption DEF TypeInv, TypeOK, ArgsOK,
        ClientRecord,
        Locals, Labels, Marks, Preauth, Auth, Off, NoLocals, listVars, fwVars, lockVars,
        rowVars, Listed
<1>1. CASE Tick
    BY <1>1 DEF Tick
<1>2. ASSUME NEW w \in Workers, NEW c \in Clients, Lookup(w, c) PROVE TypeInv'
    BY <1>2 DEF Lookup, PointTo, Goto
<1>3. ASSUME NEW w \in Workers, AddClient(w) PROVE TypeInv'
    <2> DEFINE c == loc[w].client
    <2>1. c \in Clients /\ pc[w] = "add"
        BY <1>3 DEF AddClient
    <2>2. CASE c \in Listed /\ PointTo(w, client[c].id) /\ UNCHANGED listVars
        BY <1>3, <2>1, <2>2 DEF AddClient, PointTo, Goto
    <2>3. CASE client' = [client EXCEPT ![c] = [Off EXCEPT !.mark = Preauth, !.id = nextId,
                                                        !.seen = now]]
               /\ nextId' = nextId + 1 /\ PointTo(w, nextId)
        <3>1. [Off EXCEPT !.mark = Preauth, !.id = nextId, !.seen = now] \in ClientRecord
            OBVIOUS
        <3>2. client' \in [Clients -> ClientRecord] /\ nextId' \in Nat \ {0}
            BY <2>1, <2>3, <3>1
        <3>3. loc' \in [Threads -> Locals] /\ pc' \in [Threads -> Labels]
            BY <2>3 DEF PointTo, Goto
        <3>4. TypeOK'
            BY <1>3, <3>2, <3>3 DEF AddClient
        <3>5. ArgsOK'
            BY <2>1, <2>3 DEF PointTo, Goto
        <3> QED
            BY <3>4, <3>5 DEF TypeInv
    <2>4. CASE Finish(w) /\ UNCHANGED listVars
        BY <1>3, <2>4 DEF AddClient, Finish, Goto
    <2> QED
        BY <1>3, <2>2, <2>3, <2>4 DEF AddClient
<1>4. ASSUME NEW w \in Workers, ServePage(w) PROVE TypeInv'
    BY <1>4 DEF ServePage, DispatchFrame, Finish, Goto
<1>5. ASSUME NEW w \in Workers, DenyRequest(w) PROVE TypeInv'
    BY <1>5 DEF DenyRequest, DispatchFrame, Goto, Denotes
<1>6. ASSUME NEW w \in Workers, SignupRequest(w) PROVE TypeInv'
    <2>1. SessionTimeout \in Nat /\ now \in Nat
        BY DEF TypeOK
    <2>2. loc' \in [Threads -> Locals]
        BY <1>6, <2>1 DEF SignupRequest
    <2>3. pc' \in [Threads -> Labels]
        BY <1>6 DEF SignupRequest, Goto
    <2>4. ArgsOK'
        BY <1>6 DEF SignupRequest, Goto
    <2> QED
        BY <1>6, <2>2, <2>3, <2>4 DEF SignupRequest, DispatchFrame
<1>7. ASSUME NEW w \in Workers, Binauth(w) PROVE TypeInv'
    BY <1>7 DEF Binauth, Finish, Goto
<1>8. ASSUME NEW w \in Workers, AuthClient(w) PROVE TypeInv'
    BY <1>8 DEF AuthClient, SignUp, ToAuth, FwAuthSet, LockList, Goto, Finish,
       MaySignUp, ById, Denotes
<1>9. ASSUME NEW t \in Workers \cup {Ctl}, Spool(t) PROVE TypeInv'
    BY <1>9 DEF Spool, AppendRow, UnlockList, Finish, Goto
<1>10. ASSUME NEW w \in Workers, SetSession(w) PROVE TypeInv'
    BY <1>10 DEF SetSession, SessionEnd, Finish, Goto
<1>11. ASSUME NEW t \in Workers \cup {Ctl}, DeauthById(t) PROVE TypeInv'
    <2>1. client' \in [Clients -> ClientRecord] /\ fwAuth' \subseteq Clients
        BY <1>11, TryPreauthType DEF DeauthById, ById
    <2>2. loc' \in [Threads -> Locals] /\ pc' \in [Threads -> Labels] /\ ArgsOK'
        BY <1>11 DEF DeauthById, Finish, Goto
    <2> QED
        BY <1>11, <2>1, <2>2 DEF DeauthById
<1>12. ASSUME NEW c \in Clients, CtlRequest(c) PROVE TypeInv'
    BY <1>12 DEF CtlRequest, CtlFrame, Goto
<1>13. ASSUME NEW c \in Clients, CtlListRequest(c) PROVE TypeInv'
    <2>1. loc' \in [Threads -> Locals]
        BY <1>13 DEF CtlListRequest, CallList
    <2>2. pc' \in [Threads -> Labels]
        BY <1>13 DEF CtlListRequest, Goto
    <2>3. ArgsOK'
        BY <1>13 DEF CtlListRequest, CallList, Goto
    <2> QED
        BY <1>13, <2>1, <2>2, <2>3 DEF CtlListRequest, CtlFrame
<1>14. CASE CtlAuth
    <2> DEFINE c == loc[Ctl].client
    <2>1. c \in Clients
        BY <1>14 DEF CtlAuth
    <2>2. CASE SignUp(Ctl, c) /\ UNCHANGED loc
        <3>1. client' \in [Clients -> ClientRecord] /\ fwAuth' \subseteq Clients
            BY <2>1, <2>2, ToAuthType DEF SignUp
        <3>2. pc' \in [Threads -> Labels] /\ ArgsOK'
            BY <2>2 DEF SignUp, Goto
        <3> QED
            BY <2>2, <3>1, <3>2 DEF SignUp, LockList
    <2>3. CASE Finish(Ctl) /\ CtlFrame
        BY <2>3 DEF CtlFrame, Finish, Goto
    <2> QED
        BY <1>14, <2>2, <2>3 DEF CtlAuth
<1>15. CASE CtlDeauthFind
    BY <1>15 DEF CtlDeauthFind, CtlFrame, Goto, Finish
<1>16. ASSUME NEW t \in {Ctl, Timer}, ListOp(t) PROVE TypeInv'
    <2>1. loc[t].client \in Clients /\ loc[t].kind \in ListKinds
        BY <1>16 DEF ListOp
    <2>2. macList' \in [ListKinds -> SUBSET Clients]
        BY <1>16, <2>1 DEF ListOp, Changed
    <2>3. pc' \in [Threads -> Labels] /\ ArgsOK'
        BY <1>16, <2>1 DEF ListOp, Goto
    <2> QED
        BY <1>16, <2>2, <2>3 DEF ListOp, LockConfig
<1>17. ASSUME NEW t \in {Ctl, Timer}, ListNoOp(t) PROVE TypeInv'
    BY <1>17 DEF ListNoOp, ListChanges, AfterList, Finish, Goto
<1>18. ASSUME NEW t \in {Ctl, Timer}, ListFw(t) PROVE TypeInv'
    BY <1>18 DEF ListFw, Changed, UnlockConfig, AfterList, Finish, Goto
<1>19. CASE TimerWake
    BY <1>19 DEF TimerWake, Goto
<1>20. CASE CountersOk
    <2>1. client' \in [Clients -> ClientRecord]
        <3>1. ASSUME NEW S \in SUBSET Clients, NEW V \in SUBSET Clients,
                     client' = [c \in Clients |-> Counted(c, c \in S, c \in V)]
              PROVE  client' \in [Clients -> ClientRecord]
            <4>1. ASSUME NEW c \in Clients PROVE Counted(c, c \in S, c \in V) \in ClientRecord
                BY DEF Counted
            <4> QED
                BY <3>1, <4>1
        <3>2. PICK S \in SUBSET Listed :
                \E V \in SUBSET {c \in S : client[c].mark = Auth /\ SessionLimitBlock} :
                    client' = [c \in Clients |-> Counted(c, c \in S, c \in V)]
            BY <1>20, Zenon DEF CountersOk
        <3>3. PICK V \in SUBSET {c \in S : client[c].mark = Auth /\ SessionLimitBlock} :
                client' = [c \in Clients |-> Counted(c, c \in S, c \in V)]
            BY <3>2, Zenon
        <3>4. S \in SUBSET Clients /\ V \in SUBSET Clients
            OBVIOUS
        <3> HIDE DEF ClientRecord
        <3> QED
            BY <3>1, <3>3, <3>4, Zenon
    <2>2. pc' \in [Threads -> Labels] /\ ArgsOK'
        BY <1>20 DEF CountersOk, Goto
    <2> QED
        BY <1>20, <2>1, <2>2 DEF CountersOk
<1>21. CASE CountersFail
    BY <1>21 DEF CountersFail, Finish, Goto
<1>22. CASE TimerLock
    BY <1>22 DEF TimerLock, LockList, Goto
<1>23. ASSUME NEW c \in Clients, TimerEvict(c) PROVE TypeInv'
    BY <1>23 DEF TimerEvict, Visit
<1>24. ASSUME NEW c \in Clients, TimerDeauth(c) PROVE TypeInv'
    BY <1>24, TryPreauthType DEF TimerDeauth, Visit
<1>25. ASSUME NEW c \in Clients, TimerBlock(c) PROVE TypeInv'
    <2>1. loc' \in [Threads -> Locals]
        BY <1>25, ClientAuthAssumption DEF TimerBlock, CallList
    <2>2. pc' \in [Threads -> Labels]
        BY <1>25 DEF TimerBlock, Goto
    <2>3. ArgsOK'
        BY <1>25 DEF TimerBlock, CallList, Goto
    <2> QED
        BY <1>25, <2>1, <2>2, <2>3 DEF TimerBlock, Visit, FwAuthSet
<1>26. ASSUME NEW c \in Clients, TimerSkip(c) PROVE TypeInv'
    BY <1>26 DEF TimerSkip, Visit
<1>27. CASE TimerDelete
    BY <1>27 DEF TimerDelete, Goto
<1>28. CASE TimerUnlock
    BY <1>28 DEF TimerUnlock, UnlockList, Finish, Goto
<1>29. CASE MainLock
    BY <1>29 DEF MainLock, LockList, Goto
<1>30. ASSUME NEW c \in Clients, MainVisit(c) PROVE TypeInv'
    BY <1>30, TryPreauthType DEF MainVisit
<1>31. CASE MainUnlock
    BY <1>31 DEF MainUnlock, UnlockList, Goto
<1>32. CASE UNCHANGED vars
    BY <1>32 DEF vars, listVars, fwVars, lockVars, rowVars
<1> QED
    BY <1>1, <1>2, <1>3, <1>4, <1>5, <1>6, <1>7, <1>8, <1>9, <1>10, <1>11, <1>12,
       <1>13, <1>14, <1>15, <1>16, <1>17, <1>18, <1>19, <1>20, <1>21, <1>22, <1>23,
       <1>24, <1>25, <1>26, <1>27, <1>28, <1>29, <1>30, <1>31, <1>32 DEF Next,
       WorkerStep, CtlStep,
       TimerStep, TimerVisit, MainStep

-----------------------------------------------------------------------------
\* The daemon starts with both mutexes free and nobody in a section.
LEMMA LocksInit == Init => LocksHeld
BY ClientAuthAssumption DEF Init, LocksHeld, InListSection

\* A step that enters or leaves a section takes or gives back its mutex, on
\* every path, and no other step touches the mutex.
LEMMA LocksNext ==
    TypeOK /\ LocksHeld /\ [Next]_vars => LocksHeld'
<1> SUFFICES ASSUME TypeOK, LocksHeld, [Next]_vars PROVE LocksHeld'
    OBVIOUS
<1> USE ClientAuthAssumption DEF TypeOK, Labels, LocksHeld, InListSection, listVars,
        fwVars, lockVars, rowVars
<1>1. CASE Tick
    BY <1>1 DEF Tick
<1>2. ASSUME NEW w \in Workers, NEW c \in Clients, Lookup(w, c) PROVE LocksHeld'
    BY <1>2 DEF Lookup, PointTo, Goto
<1>3. ASSUME NEW w \in Workers, AddClient(w) PROVE LocksHeld'
    BY <1>3 DEF AddClient, PointTo, Goto, Finish
<1>4. ASSUME NEW w \in Workers, ServePage(w) PROVE LocksHeld'
    BY <1>4 DEF ServePage, DispatchFrame, Finish, Goto
<1>5. ASSUME NEW w \in Workers, DenyRequest(w) PROVE LocksHeld'
    BY <1>5 DEF DenyRequest, DispatchFrame, Goto
<1>6. ASSUME NEW w \in Workers, SignupRequest(w) PROVE LocksHeld'
    BY <1>6 DEF SignupRequest, DispatchFrame, Goto
<1>7. ASSUME NEW w \in Workers, Binauth(w) PROVE LocksHeld'
    BY <1>7 DEF Binauth, Finish, Goto
<1>8. ASSUME NEW w \in Workers, AuthClient(w) PROVE LocksHeld'
    BY <1>8 DEF AuthClient, SignUp, LockList, Goto, Finish
<1>9. ASSUME NEW t \in Workers \cup {Ctl}, Spool(t) PROVE LocksHeld'
    BY <1>9 DEF Spool, AppendRow, UnlockList, Finish, Goto
<1>10. ASSUME NEW w \in Workers, SetSession(w) PROVE LocksHeld'
    BY <1>10 DEF SetSession, SessionEnd, Finish, Goto
<1>11. ASSUME NEW t \in Workers \cup {Ctl}, DeauthById(t) PROVE LocksHeld'
    BY <1>11 DEF DeauthById, Finish, Goto
<1>12. ASSUME NEW c \in Clients, CtlRequest(c) PROVE LocksHeld'
    BY <1>12 DEF CtlRequest, CtlFrame, Goto
<1>13. ASSUME NEW c \in Clients, CtlListRequest(c) PROVE LocksHeld'
    BY <1>13 DEF CtlListRequest, CtlFrame, Goto
<1>14. CASE CtlAuth
    BY <1>14 DEF CtlAuth, CtlFrame, SignUp, LockList, Goto, Finish
<1>15. CASE CtlDeauthFind
    BY <1>15 DEF CtlDeauthFind, CtlFrame, Goto, Finish
<1>16. ASSUME NEW t \in {Ctl, Timer}, ListOp(t) PROVE LocksHeld'
    BY <1>16 DEF ListOp, LockConfig, Goto
<1>17. ASSUME NEW t \in {Ctl, Timer}, ListNoOp(t) PROVE LocksHeld'
    BY <1>17 DEF ListNoOp, AfterList, Finish, Goto
<1>18. ASSUME NEW t \in {Ctl, Timer}, ListFw(t) PROVE LocksHeld'
    BY <1>18 DEF ListFw, UnlockConfig, AfterList, Finish, Goto
<1>19. CASE TimerWake
    BY <1>19 DEF TimerWake, Goto
<1>20. CASE CountersOk
    BY <1>20 DEF CountersOk, Goto
<1>21. CASE CountersFail
    BY <1>21 DEF CountersFail, Finish, Goto
<1>22. CASE TimerLock
    BY <1>22 DEF TimerLock, LockList, Goto
<1>23. ASSUME NEW c \in Clients, TimerEvict(c) PROVE LocksHeld'
    BY <1>23 DEF TimerEvict, Visit
<1>24. ASSUME NEW c \in Clients, TimerDeauth(c) PROVE LocksHeld'
    BY <1>24 DEF TimerDeauth, Visit
<1>25. ASSUME NEW c \in Clients, TimerBlock(c) PROVE LocksHeld'
    BY <1>25 DEF TimerBlock, Visit, Goto
<1>26. ASSUME NEW c \in Clients, TimerSkip(c) PROVE LocksHeld'
    BY <1>26 DEF TimerSkip, Visit
<1>27. CASE TimerDelete
    BY <1>27 DEF TimerDelete, Goto
<1>28. CASE TimerUnlock
    BY <1>28 DEF TimerUnlock, UnlockList, Finish, Goto
<1>29. CASE MainLock
    BY <1>29 DEF MainLock, LockList, Goto
<1>30. ASSUME NEW c \in Clients, MainVisit(c) PROVE LocksHeld'
    BY <1>30 DEF MainVisit
<1>31. CASE MainUnlock
    BY <1>31 DEF MainUnlock, UnlockList, Goto
<1>32. CASE UNCHANGED vars
    BY <1>32 DEF vars, listVars, fwVars, lockVars, rowVars
<1> QED
    BY <1>1, <1>2, <1>3, <1>4, <1>5, <1>6, <1>7, <1>8, <1>9, <1>10, <1>11, <1>12,
       <1>13, <1>14, <1>15, <1>16, <1>17, <1>18, <1>19, <1>20, <1>21, <1>22, <1>23,
       <1>24, <1>25, <1>26, <1>27, <1>28, <1>29, <1>30, <1>31, <1>32
    DEF Next, WorkerStep, CtlStep, TimerStep, TimerVisit, MainStep

-----------------------------------------------------------------------------
(* The firewall and the client list, when iptables does not fail.          *)

\* The timeout thread blocks authenticated clients only.
BlockedIsAuth ==
    pc[Timer] \in {"listop", "listfw", "delete"} => client[loc[Timer].client].mark = Auth

\* While the shutdown loop runs, whoever is online is still to be visited.
OnlineStillToDo == pc[Main] = "loop" => fwAuth \subseteq todo

FirewallInv == FirewallMatchesList /\ BlockedIsAuth /\ OnlineStillToDo

\* At first nobody is on the list or through the firewall.
LEMMA FirewallInit == Init => FirewallInv
BY ClientAuthAssumption DEF Init, FirewallInv, FirewallMatchesList, BeingBlocked,
   BlockedIsAuth, OnlineStillToDo, Off, Auth

\* If iptables does not fail, list and firewall change together; the client that
\* is being blocked is left alone until it is deleted.
LEMMA FirewallNext ==
    ~FwMayFail /\ TypeInv /\ LocksHeld /\ FirewallInv /\ [Next]_vars => FirewallInv'
<1> SUFFICES ASSUME ~FwMayFail, TypeInv, LocksHeld, FirewallInv, [Next]_vars PROVE FirewallInv'
    OBVIOUS
<1> USE ClientAuthAssumption DEF TypeInv, TypeOK, ArgsOK, ClientRecord, Locals,
        Marks, Labels, LocksHeld, InListSection, FirewallInv, FirewallMatchesList,
        BeingBlocked, BlockedIsAuth, OnlineStillToDo, Preauth, Auth, Off, NoLocals,
        Listed, MayChange, listVars, fwVars, lockVars, rowVars
<1>1. CASE Tick
    BY <1>1 DEF Tick
<1>2. ASSUME NEW w \in Workers, NEW c \in Clients, Lookup(w, c) PROVE FirewallInv'
    BY <1>2 DEF Lookup, PointTo, Goto
<1>3. ASSUME NEW w \in Workers, AddClient(w) PROVE FirewallInv'
    <2>1. \A d \in Clients : client'[d].mark = Auth <=> client[d].mark = Auth
        <3> DEFINE c == loc[w].client
                   new == [Off EXCEPT !.mark = Preauth, !.id = nextId, !.seen = now]
        <3>1. new.mark = Preauth
            OBVIOUS
        <3>2. CASE c \notin Listed /\ client' = [client EXCEPT ![c] = new]
            <4>1. ASSUME NEW d \in Clients, d # c PROVE client'[d] = client[d]
                BY <3>2, <4>1
            <4>2. c \in Clients => client[c].mark = "absent" /\ client'[c].mark = Preauth
                BY <3>1, <3>2
            <4> QED
                BY <4>1, <4>2
        <3>3. CASE UNCHANGED client
            BY <3>3
        <3> QED
            BY <1>3, <3>2, <3>3 DEF AddClient
    <2>2. /\ UNCHANGED <<fwAuth, todo, pc[Timer], loc[Timer], pc[Main]>>
          /\ pc[Timer] \notin {"listop", "listfw", "delete"}
        BY <1>3 DEF AddClient, PointTo, Finish, Goto
    <2> QED
        BY <2>1, <2>2
<1>4. ASSUME NEW w \in Workers, ServePage(w) PROVE FirewallInv'
    BY <1>4 DEF ServePage, DispatchFrame, Finish, Goto
<1>5. ASSUME NEW w \in Workers, DenyRequest(w) PROVE FirewallInv'
    BY <1>5 DEF DenyRequest, DispatchFrame, Goto, Denotes
<1>6. ASSUME NEW w \in Workers, SignupRequest(w) PROVE FirewallInv'
    BY <1>6 DEF SignupRequest, DispatchFrame, Goto
<1>7. ASSUME NEW w \in Workers, Binauth(w) PROVE FirewallInv'
    BY <1>7 DEF Binauth, Finish, Goto
<1>8. ASSUME NEW w \in Workers, AuthClient(w) PROVE FirewallInv'
    BY <1>8 DEF AuthClient, SignUp, ToAuth, FwAuthSet, LockList, Goto, Finish,
       MaySignUp, ById, Denotes
<1>9. ASSUME NEW t \in Workers \cup {Ctl}, Spool(t) PROVE FirewallInv'
    BY <1>9 DEF Spool, AppendRow, UnlockList, Finish, Goto
<1>10. ASSUME NEW w \in Workers, SetSession(w) PROVE FirewallInv'
    BY <1>10 DEF SetSession, SessionEnd, Finish, Goto
<1>11. ASSUME NEW t \in Workers \cup {Ctl}, DeauthById(t) PROVE FirewallInv'
    BY <1>11 DEF DeauthById, TryPreauth, ToPreauth, Reset, FwAuthSet, Finish, Goto,
       ById, MayChange
<1>12. ASSUME NEW c \in Clients, CtlRequest(c) PROVE FirewallInv'
    BY <1>12 DEF CtlRequest, CtlFrame, Goto
<1>13. ASSUME NEW c \in Clients, CtlListRequest(c) PROVE FirewallInv'
    BY <1>13 DEF CtlListRequest, CtlFrame, Goto, CallList
<1>14. CASE CtlAuth
    BY <1>14 DEF CtlAuth, CtlFrame, SignUp, ToAuth, FwAuthSet, LockList, Goto,
       Finish, MayChange
<1>15. CASE CtlDeauthFind
    BY <1>15 DEF CtlDeauthFind, CtlFrame, Goto, Finish
<1>16. ASSUME NEW t \in {Ctl, Timer}, ListOp(t) PROVE FirewallInv'
    BY <1>16 DEF ListOp, ListChanges, LockConfig, Changed, Goto
<1>17. ASSUME NEW t \in {Ctl, Timer}, ListNoOp(t) PROVE FirewallInv'
    BY <1>17 DEF ListNoOp, ListChanges, AfterList, Finish, Goto
<1>18. ASSUME NEW t \in {Ctl, Timer}, ListFw(t) PROVE FirewallInv'
    BY <1>18 DEF ListFw, Changed, UnlockConfig, AfterList, Finish, Goto
<1>19. CASE TimerWake
    BY <1>19 DEF TimerWake, Goto
<1>20. CASE CountersOk
    <2>1. \A d \in Clients : client'[d].mark = client[d].mark
        BY <1>20 DEF CountersOk, Counted
    <2>2. /\ UNCHANGED <<fwAuth, todo, pc[Main]>>
          /\ pc[Timer] = "counters" /\ pc'[Timer] = "lock"
        BY <1>20 DEF CountersOk, Goto
    <2> QED
        BY <2>1, <2>2
<1>21. CASE CountersFail
    BY <1>21 DEF CountersFail, Finish, Goto
<1>22. CASE TimerLock
    BY <1>22 DEF TimerLock, LockList, Goto
<1>23. ASSUME NEW c \in Clients, TimerEvict(c) PROVE FirewallInv'
    <2>1. client[c].mark # Auth
        BY <1>23 DEF TimerEvict, Verdict
    <2>2. \A d \in Clients : client'[d].mark = Auth <=> client[d].mark = Auth
        BY <1>23, <2>1 DEF TimerEvict
    <2>3. pc[Timer] = "loop" /\ pc[Main] # "loop" /\ UNCHANGED <<fwAuth, pc, loc>>
        BY <1>23 DEF TimerEvict, Visit
    <2> QED
        BY <2>2, <2>3
<1>24. ASSUME NEW c \in Clients, TimerDeauth(c) PROVE FirewallInv'
    BY <1>24 DEF TimerDeauth, Visit, TryPreauth, ToPreauth, Reset, FwAuthSet,
       MayChange
<1>25. ASSUME NEW c \in Clients, TimerBlock(c) PROVE FirewallInv'
    BY <1>25 DEF TimerBlock, Visit, FwAuthSet, Goto, MayChange, CallList
<1>26. ASSUME NEW c \in Clients, TimerSkip(c) PROVE FirewallInv'
    BY <1>26 DEF TimerSkip, Visit
<1>27. CASE TimerDelete
    BY <1>27 DEF TimerDelete, Goto
<1>28. CASE TimerUnlock
    BY <1>28 DEF TimerUnlock, UnlockList, Finish, Goto
<1>29. CASE MainLock
    BY <1>29 DEF MainLock, LockList, Goto
<1>30. ASSUME NEW c \in Clients, MainVisit(c) PROVE FirewallInv'
    BY <1>30 DEF MainVisit, TryPreauth, ToPreauth, Reset, FwAuthSet, MayChange
<1>31. CASE MainUnlock
    BY <1>31 DEF MainUnlock, UnlockList, Goto
<1>32. CASE UNCHANGED vars
    BY <1>32 DEF vars, listVars, fwVars, lockVars, rowVars
<1> QED
    BY <1>1, <1>2, <1>3, <1>4, <1>5, <1>6, <1>7, <1>8, <1>9, <1>10, <1>11, <1>12,
       <1>13, <1>14, <1>15, <1>16, <1>17, <1>18, <1>19, <1>20, <1>21, <1>22, <1>23,
       <1>24, <1>25, <1>26, <1>27, <1>28, <1>29, <1>30, <1>31, <1>32
    DEF Next, WorkerStep, CtlStep, TimerStep, TimerVisit, MainStep

-----------------------------------------------------------------------------
(* The configured MAC lists and their firewall rules, when iptables does   *)
(* not fail.                                                               *)

\* Between the list and the firewall the list has its new value already.
ListDone ==
    \A t \in {Ctl, Timer} : pc[t] = "listfw" =>
        (loc[t].client \in macList[loc[t].kind] <=> loc[t].op = "add")

ListsInv == ListsMatchFirewall /\ ListDone

\* At first the MAC lists and their rules are empty.
LEMMA ListsInit == Init => ListsInv
BY ClientAuthAssumption DEF Init, ListsInv, ListsMatchFirewall, ListDone

\* If iptables does not fail, the rule follows its list before the config lock
\* is given back.
LEMMA ListsNext ==
    ~FwMayFail /\ TypeInv /\ LocksHeld /\ ListsInv /\ [Next]_vars => ListsInv'
<1> SUFFICES ASSUME ~FwMayFail, TypeInv, LocksHeld, ListsInv, [Next]_vars PROVE ListsInv'
    OBVIOUS
<1> USE ClientAuthAssumption DEF TypeInv, TypeOK, ArgsOK, Locals, Labels, LocksHeld,
        ListsInv, ListsMatchFirewall, ListDone, NoLocals, listVars, fwVars,
        lockVars, rowVars
<1>1. CASE Tick
    BY <1>1 DEF Tick
<1>2. ASSUME NEW w \in Workers, NEW c \in Clients, Lookup(w, c) PROVE ListsInv'
    BY <1>2 DEF Lookup, PointTo, Goto
<1>3. ASSUME NEW w \in Workers, AddClient(w) PROVE ListsInv'
    BY <1>3 DEF AddClient, PointTo, Goto, Finish
<1>4. ASSUME NEW w \in Workers, ServePage(w) PROVE ListsInv'
    BY <1>4 DEF ServePage, DispatchFrame, Finish, Goto
<1>5. ASSUME NEW w \in Workers, DenyRequest(w) PROVE ListsInv'
    BY <1>5 DEF DenyRequest, DispatchFrame, Goto
<1>6. ASSUME NEW w \in Workers, SignupRequest(w) PROVE ListsInv'
    BY <1>6 DEF SignupRequest, DispatchFrame, Goto
<1>7. ASSUME NEW w \in Workers, Binauth(w) PROVE ListsInv'
    BY <1>7 DEF Binauth, Finish, Goto
<1>8. ASSUME NEW w \in Workers, AuthClient(w) PROVE ListsInv'
    BY <1>8 DEF AuthClient, SignUp, LockList, Goto, Finish
<1>9. ASSUME NEW t \in Workers \cup {Ctl}, Spool(t) PROVE ListsInv'
    BY <1>9 DEF Spool, AppendRow, UnlockList, Finish, Goto
<1>10. ASSUME NEW w \in Workers, SetSession(w) PROVE ListsInv'
    BY <1>10 DEF SetSession, SessionEnd, Finish, Goto
<1>11. ASSUME NEW t \in Workers \cup {Ctl}, DeauthById(t) PROVE ListsInv'
    BY <1>11 DEF DeauthById, Finish, Goto
<1>12. ASSUME NEW c \in Clients, CtlRequest(c) PROVE ListsInv'
    BY <1>12 DEF CtlRequest, CtlFrame, Goto
<1>13. ASSUME NEW c \in Clients, CtlListRequest(c) PROVE ListsInv'
    BY <1>13 DEF CtlListRequest, CtlFrame, Goto, CallList
<1>14. CASE CtlAuth
    BY <1>14 DEF CtlAuth, CtlFrame, SignUp, LockList, Goto, Finish
<1>15. CASE CtlDeauthFind
    BY <1>15 DEF CtlDeauthFind, CtlFrame, Goto, Finish
<1>16. ASSUME NEW t \in {Ctl, Timer}, ListOp(t) PROVE ListsInv'
    BY <1>16 DEF ListOp, ListChanges, LockConfig, Changed, Goto
<1>17. ASSUME NEW t \in {Ctl, Timer}, ListNoOp(t) PROVE ListsInv'
    BY <1>17 DEF ListNoOp, ListChanges, AfterList, Finish, Goto
<1>18. ASSUME NEW t \in {Ctl, Timer}, ListFw(t) PROVE ListsInv'
    BY <1>18 DEF ListFw, Changed, UnlockConfig, AfterList, Finish, Goto
<1>19. CASE TimerWake
    BY <1>19 DEF TimerWake, Goto
<1>20. CASE CountersOk
    BY <1>20 DEF CountersOk, Goto
<1>21. CASE CountersFail
    BY <1>21 DEF CountersFail, Finish, Goto
<1>22. CASE TimerLock
    BY <1>22 DEF TimerLock, LockList, Goto
<1>23. ASSUME NEW c \in Clients, TimerEvict(c) PROVE ListsInv'
    BY <1>23 DEF TimerEvict, Visit
<1>24. ASSUME NEW c \in Clients, TimerDeauth(c) PROVE ListsInv'
    BY <1>24 DEF TimerDeauth, Visit
<1>25. ASSUME NEW c \in Clients, TimerBlock(c) PROVE ListsInv'
    BY <1>25 DEF TimerBlock, Visit, Goto, CallList
<1>26. ASSUME NEW c \in Clients, TimerSkip(c) PROVE ListsInv'
    BY <1>26 DEF TimerSkip, Visit
<1>27. CASE TimerDelete
    BY <1>27 DEF TimerDelete, Goto
<1>28. CASE TimerUnlock
    BY <1>28 DEF TimerUnlock, UnlockList, Finish, Goto
<1>29. CASE MainLock
    BY <1>29 DEF MainLock, LockList, Goto
<1>30. ASSUME NEW c \in Clients, MainVisit(c) PROVE ListsInv'
    BY <1>30 DEF MainVisit
<1>31. CASE MainUnlock
    BY <1>31 DEF MainUnlock, UnlockList, Goto
<1>32. CASE UNCHANGED vars
    BY <1>32 DEF vars, listVars, fwVars, lockVars, rowVars
<1> QED
    BY <1>1, <1>2, <1>3, <1>4, <1>5, <1>6, <1>7, <1>8, <1>9, <1>10, <1>11, <1>12,
       <1>13, <1>14, <1>15, <1>16, <1>17, <1>18, <1>19, <1>20, <1>21, <1>22, <1>23,
       <1>24, <1>25, <1>26, <1>27, <1>28, <1>29, <1>30, <1>31, <1>32
    DEF Next, WorkerStep, CtlStep, TimerStep, TimerVisit, MainStep

-----------------------------------------------------------------------------
(* Signups and their rows.                                                 *)

\* OneRowPerSignup without Cardinality: at most one thread is spooling.
Spooling == \E t \in Threads : pc[t] = "spool"

RowsInv ==
    /\ spooled + (IF Spooling THEN 1 ELSE 0) <= signups
    /\ SpoolMayFail \/ spooled + (IF Spooling THEN 1 ELSE 0) = signups

\* At first there are no signups and no rows.
LEMMA RowsInit == Init => RowsInv
BY ClientAuthAssumption DEF Init, RowsInv, Spooling

\* A signup leaves its thread about to write, and a row is written from there
\* only.
LEMMA RowsNext ==
    TypeInv /\ LocksHeld /\ RowsInv /\ [Next]_vars => RowsInv'
<1> SUFFICES ASSUME TypeInv, LocksHeld, RowsInv, [Next]_vars PROVE RowsInv'
    OBVIOUS
<1> USE ClientAuthAssumption DEF TypeInv, TypeOK, Labels, LocksHeld, InListSection,
        RowsInv, Spooling, listVars, fwVars, lockVars, rowVars
<1>1. CASE Tick
    BY <1>1 DEF Tick
<1>2. ASSUME NEW w \in Workers, NEW c \in Clients, Lookup(w, c) PROVE RowsInv'
    BY <1>2 DEF Lookup, PointTo, Goto
<1>3. ASSUME NEW w \in Workers, AddClient(w) PROVE RowsInv'
    BY <1>3 DEF AddClient, PointTo, Goto, Finish
<1>4. ASSUME NEW w \in Workers, ServePage(w) PROVE RowsInv'
    BY <1>4 DEF ServePage, DispatchFrame, Finish, Goto
<1>5. ASSUME NEW w \in Workers, DenyRequest(w) PROVE RowsInv'
    BY <1>5 DEF DenyRequest, DispatchFrame, Goto
<1>6. ASSUME NEW w \in Workers, SignupRequest(w) PROVE RowsInv'
    BY <1>6 DEF SignupRequest, DispatchFrame, Goto
<1>7. ASSUME NEW w \in Workers, Binauth(w) PROVE RowsInv'
    BY <1>7 DEF Binauth, Finish, Goto
<1>8. ASSUME NEW w \in Workers, AuthClient(w) PROVE RowsInv'
    BY <1>8 DEF AuthClient, SignUp, LockList, Goto, Finish
<1>9. ASSUME NEW t \in Workers \cup {Ctl}, Spool(t) PROVE RowsInv'
    BY <1>9 DEF Spool, AppendRow, UnlockList, Finish, Goto
<1>10. ASSUME NEW w \in Workers, SetSession(w) PROVE RowsInv'
    BY <1>10 DEF SetSession, SessionEnd, Finish, Goto
<1>11. ASSUME NEW t \in Workers \cup {Ctl}, DeauthById(t) PROVE RowsInv'
    BY <1>11 DEF DeauthById, Finish, Goto
<1>12. ASSUME NEW c \in Clients, CtlRequest(c) PROVE RowsInv'
    BY <1>12 DEF CtlRequest, CtlFrame, Goto
<1>13. ASSUME NEW c \in Clients, CtlListRequest(c) PROVE RowsInv'
    BY <1>13 DEF CtlListRequest, CtlFrame, Goto
<1>14. CASE CtlAuth
    BY <1>14 DEF CtlAuth, CtlFrame, SignUp, LockList, Goto, Finish
<1>15. CASE CtlDeauthFind
    BY <1>15 DEF CtlDeauthFind, CtlFrame, Goto, Finish
<1>16. ASSUME NEW t \in {Ctl, Timer}, ListOp(t) PROVE RowsInv'
    BY <1>16 DEF ListOp, LockConfig, Goto
<1>17. ASSUME NEW t \in {Ctl, Timer}, ListNoOp(t) PROVE RowsInv'
    BY <1>17 DEF ListNoOp, AfterList, Finish, Goto
<1>18. ASSUME NEW t \in {Ctl, Timer}, ListFw(t) PROVE RowsInv'
    BY <1>18 DEF ListFw, UnlockConfig, AfterList, Finish, Goto
<1>19. CASE TimerWake
    BY <1>19 DEF TimerWake, Goto
<1>20. CASE CountersOk
    BY <1>20 DEF CountersOk, Goto
<1>21. CASE CountersFail
    BY <1>21 DEF CountersFail, Finish, Goto
<1>22. CASE TimerLock
    BY <1>22 DEF TimerLock, LockList, Goto
<1>23. ASSUME NEW c \in Clients, TimerEvict(c) PROVE RowsInv'
    BY <1>23 DEF TimerEvict, Visit
<1>24. ASSUME NEW c \in Clients, TimerDeauth(c) PROVE RowsInv'
    BY <1>24 DEF TimerDeauth, Visit
<1>25. ASSUME NEW c \in Clients, TimerBlock(c) PROVE RowsInv'
    BY <1>25 DEF TimerBlock, Visit, Goto
<1>26. ASSUME NEW c \in Clients, TimerSkip(c) PROVE RowsInv'
    BY <1>26 DEF TimerSkip, Visit
<1>27. CASE TimerDelete
    BY <1>27 DEF TimerDelete, Goto
<1>28. CASE TimerUnlock
    BY <1>28 DEF TimerUnlock, UnlockList, Finish, Goto
<1>29. CASE MainLock
    BY <1>29 DEF MainLock, LockList, Goto
<1>30. ASSUME NEW c \in Clients, MainVisit(c) PROVE RowsInv'
    BY <1>30 DEF MainVisit
<1>31. CASE MainUnlock
    BY <1>31 DEF MainUnlock, UnlockList, Goto
<1>32. CASE UNCHANGED vars
    BY <1>32 DEF vars, listVars, fwVars, lockVars, rowVars
<1> QED
    BY <1>1, <1>2, <1>3, <1>4, <1>5, <1>6, <1>7, <1>8, <1>9, <1>10, <1>11, <1>12,
       <1>13, <1>14, <1>15, <1>16, <1>17, <1>18, <1>19, <1>20, <1>21, <1>22, <1>23,
       <1>24, <1>25, <1>26, <1>27, <1>28, <1>29, <1>30, <1>31, <1>32
    DEF Next, WorkerStep, CtlStep, TimerStep, TimerVisit, MainStep

\* At most one thread is about to write, for it holds the list lock; so the rows
\* and that thread make up the signups.
LEMMA RowsCounted == TypeOK /\ LocksHeld /\ RowsInv => OneRowPerSignup
<1> SUFFICES ASSUME TypeOK, LocksHeld, RowsInv PROVE OneRowPerSignup
    OBVIOUS
<1> DEFINE S == {t \in Threads : pc[t] = "spool"}
<1>1. CASE Spooling
    <2>1. S = {listLock}
        BY <1>1 DEF Spooling, LocksHeld, InListSection
    <2>2. Cardinality(S) = 1
        BY <2>1, FS_Singleton
    <2> QED
        BY <1>1, <2>2 DEF RowsInv, OneRowPerSignup
<1>2. CASE ~Spooling
    <2>1. S = {}
        BY <1>2 DEF Spooling
    <2>2. Cardinality(S) = 0
        BY <2>1, FS_EmptySet
    <2> QED
        BY <1>2, <2>2 DEF RowsInv, OneRowPerSignup
<1> QED
    BY <1>1, <1>2

-----------------------------------------------------------------------------
(* The portal implements the policy on access, when iptables does not fail. *)

\* What the policy sees of a step that neither signs up, spools nor closes.
PolicySame == /\ UNCHANGED <<fwAuth, signups, spooled>>
              /\ Spooling' <=> Spooling

\* Nobody spools while the list lock is free or a loop over the list runs.
LEMMA NobodySpools ==
    ASSUME LocksHeld, listLock = Free \/ pc[Timer] = "loop" \/ pc[Main] = "loop"
    PROVE  ~Spooling
<1> SUFFICES ASSUME NEW t \in Threads, pc[t] = "spool" PROVE FALSE
    BY DEF Spooling
<1>1. listLock = t /\ t # Free
    BY ClientAuthAssumption DEF LocksHeld, InListSection
<1>2. \A u \in {Timer, Main} : pc[u] = "loop" => listLock = u
    BY DEF LocksHeld, InListSection
<1> QED
    BY <1>1, <1>2

\* A signup of a client that was behind the portal opens the firewall for it.
LEMMA SignUpOpens ==
    ASSUME ~FwMayFail, TypeInv, LocksHeld, FirewallInv,
           NEW t \in Workers \cup {Ctl}, NEW c \in Clients,
           client[c].mark = Preauth, SignUp(t, c)
    PROVE  Policy!Open(c)
<1>1. ~Spooling
    BY NobodySpools DEF SignUp, LockList
<1>2. Spooling'
    BY DEF SignUp, Goto, Spooling, TypeInv, TypeOK
<1>3. c \notin fwAuth
    BY DEF FirewallInv, FirewallMatchesList, Preauth, Auth
<1>4. fwAuth' = fwAuth \cup {c} /\ signups' = signups + 1 /\ UNCHANGED spooled
    BY DEF SignUp, ToAuth, FwAuthSet
<1> QED
    BY <1>1, <1>2, <1>3, <1>4 DEF Policy!Open, Spooling

\* A client is put behind the portal between two signups only.
LEMMA PreauthCloses ==
    ASSUME ~FwMayFail, TypeInv, FirewallInv, ~Spooling, NEW c \in Clients, TryPreauth(c),
           Spooling' <=> Spooling, UNCHANGED <<signups, spooled>>
    PROVE  Policy!Close(c) \/ PolicySame
<1>1. CASE MayChange(client[c].mark, Preauth) /\ ToPreauth(c)
    <2>1. fwAuth' = fwAuth \ {c}
        BY <1>1 DEF ToPreauth, FwAuthSet
    <2>2. CASE c \in fwAuth
        BY <2>1, <2>2 DEF Policy!Close, Spooling
    <2>3. CASE c \notin fwAuth
        BY <2>1, <2>3 DEF PolicySame
    <2> QED
        BY <2>2, <2>3
<1>2. CASE UNCHANGED <<client, fwAuth>>
    BY <1>2 DEF PolicySame
<1> QED
    BY <1>1, <1>2 DEF TryPreauth

\* Every step of every thread is a step of the policy or invisible to it.
LEMMA PolicyStep ==
    ~FwMayFail /\ TypeInv /\ LocksHeld /\ FirewallInv /\ [Next]_vars =>
        Policy!Next \/ PolicySame
<1> SUFFICES ASSUME ~FwMayFail, TypeInv, LocksHeld, FirewallInv, [Next]_vars
             PROVE  Policy!Next \/ PolicySame
    OBVIOUS
<1> USE ClientAuthAssumption DEF listVars, fwVars, lockVars, rowVars
<1>o. ASSUME NEW c \in Clients, Policy!Open(c) \/ Policy!Close(c) PROVE Policy!Next
    BY <1>o DEF Policy!Next
<1>1. ASSUME NEW w \in Workers, AuthClient(w) PROVE Policy!Next \/ PolicySame
    <2>1. ASSUME NEW i, NEW c \in MaySignUp(i), SignUp(w, c) PROVE Policy!Next
        <3>1. c \in Clients /\ client[c].mark = Preauth
            BY <2>1 DEF MaySignUp, ById, Listed, MayChange, Preauth, Auth
        <3> QED
            BY <1>o, <2>1, <3>1, SignUpOpens
    <2>2. ASSUME Finish(w), UNCHANGED <<fwVars, rowVars>> PROVE PolicySame
        BY <1>1, <2>2 DEF Finish, Goto, PolicySame, Spooling, TypeInv, TypeOK, AuthClient
    <2> QED
        BY <1>1, <2>1, <2>2 DEF AuthClient
<1>2. CASE CtlAuth
    <2> DEFINE c == loc[Ctl].client
    <2>1. CASE MayChange(client[c].mark, Auth) /\ SignUp(Ctl, c)
        <3>1. c \in Clients /\ client[c].mark = Preauth
            BY <1>2, <2>1 DEF CtlAuth, TypeInv, ArgsOK, MayChange, Preauth, Auth
        <3> QED
            BY <1>o, <2>1, <3>1, SignUpOpens
    <2>2. CASE Finish(Ctl) /\ CtlFrame
        BY <1>2, <2>2 DEF Finish, Goto, PolicySame, Spooling, TypeInv, TypeOK, CtlFrame, CtlAuth
    <2> QED
        BY <1>2, <2>1, <2>2 DEF CtlAuth
<1>3. ASSUME NEW t \in Workers \cup {Ctl}, Spool(t) PROVE Policy!Next
    <2>1. pc[t] = "spool" /\ pc'[t] # "spool"
        BY <1>3 DEF Spool, Goto, Finish, TypeInv, TypeOK
    <2>2. \A u \in Threads \ {t} : pc'[u] = pc[u] /\ pc[u] # "spool"
        BY <1>3, <2>1 DEF Spool, Goto, Finish, TypeInv, TypeOK, LocksHeld, InListSection
    <2>3. Spooling /\ ~Spooling'
        BY <2>1, <2>2 DEF Spooling
    <2>4. Policy!Settle
        BY <1>3, <2>3 DEF Policy!Settle, Spool, AppendRow, Spooling
    <2> QED
        BY <2>4 DEF Policy!Next
<1>4. ASSUME NEW t \in Workers \cup {Ctl}, DeauthById(t) PROVE Policy!Next \/ PolicySame
    <2>1. ~Spooling /\ UNCHANGED <<signups, spooled>>
        BY <1>4, NobodySpools DEF DeauthById
    <2>2. ~Spooling'
        BY <1>4, <2>1 DEF DeauthById, Finish, Goto, Spooling, TypeInv, TypeOK
    <2>3. ASSUME NEW c \in ById(loc[t].ptr), TryPreauth(c) PROVE Policy!Next \/ PolicySame
        <3>1. c \in Clients
            BY DEF ById, Listed
        <3> QED
            BY <1>o, <2>1, <2>2, <2>3, <3>1, PreauthCloses
    <2>4. CASE UNCHANGED fwAuth
        BY <2>1, <2>2, <2>4 DEF PolicySame
    <2> QED
        BY <1>4, <2>3, <2>4 DEF DeauthById
<1>5. ASSUME NEW c \in Clients, TimerDeauth(c) \/ MainVisit(c)
      PROVE  Policy!Next \/ PolicySame
    <2>1. ~Spooling /\ UNCHANGED <<pc, signups, spooled>> /\ TryPreauth(c)
        BY <1>5, NobodySpools DEF TimerDeauth, MainVisit, Visit, LocksHeld, InListSection
    <2>2. Spooling' <=> Spooling
        BY <2>1 DEF Spooling
    <2> QED
        BY <1>o, <2>1, <2>2, PreauthCloses
<1>6. ASSUME NEW c \in Clients, TimerBlock(c) PROVE Policy!Next
    <2>1. ~Spooling
        BY <1>6, NobodySpools DEF TimerBlock, Visit, LocksHeld, InListSection
    <2>2. ~Spooling' /\ UNCHANGED <<signups, spooled>>
        BY <1>6, <2>1 DEF TimerBlock, Visit, Goto, Spooling, TypeInv, TypeOK
    <2>3. c \in fwAuth
        BY <1>6 DEF TimerBlock, Visit, MayChange, FirewallInv, FirewallMatchesList,
           BeingBlocked, Preauth, Auth
    <2>4. fwAuth' = fwAuth \ {c}
        BY <1>6 DEF TimerBlock, FwAuthSet
    <2>5. Policy!Close(c)
        BY <2>1, <2>2, <2>3, <2>4 DEF Policy!Close, Spooling
    <2> QED
        BY <1>o, <2>5
<1>7. CASE UNCHANGED vars
    BY <1>7 DEF vars, PolicySame, Spooling
<1>8. ASSUME NEW w \in Workers,
             \/ AddClient(w) \/ ServePage(w) \/ DenyRequest(w) \/ SignupRequest(w)
             \/ Binauth(w) \/ SetSession(w) \/ \E c \in Clients : Lookup(w, c)
      PROVE  PolicySame
    <2>1. UNCHANGED <<fwAuth, signups, spooled>>
        BY <1>8 DEF AddClient, ServePage, DenyRequest, SignupRequest, Binauth, SetSession,
           Lookup, DispatchFrame
    <2>2. pc[w] # "spool" /\ pc' \in [Threads -> Labels] /\ pc'[w] # "spool"
          /\ \A u \in Threads \ {w} : pc'[u] = pc[u]
        BY <1>8 DEF AddClient, ServePage, DenyRequest, SignupRequest, Binauth, SetSession,
           Lookup, PointTo, Finish, Goto, TypeInv, TypeOK, Labels
    <2> QED
        BY <2>1, <2>2 DEF PolicySame, Spooling
<1>9. ASSUME \/ CtlDeauthFind \/ \E c \in Clients : CtlRequest(c) \/ CtlListRequest(c)
             \/ \E u \in {Ctl, Timer} : ListOp(u) \/ ListNoOp(u) \/ ListFw(u)
             \/ TimerWake \/ CountersOk \/ CountersFail \/ TimerLock \/ TimerDelete
             \/ TimerUnlock \/ MainLock \/ MainUnlock \/ Tick
             \/ \E c \in Clients : TimerEvict(c) \/ TimerSkip(c)
      PROVE  PolicySame
    <2>1. UNCHANGED <<fwAuth, signups, spooled>>
        BY <1>9 DEF CtlDeauthFind, CtlRequest, CtlListRequest, CtlFrame, ListOp, ListNoOp,
           ListFw, TimerWake, CountersOk, CountersFail, TimerLock, TimerDelete,
           TimerUnlock, MainLock, MainUnlock, Tick, TimerEvict, TimerSkip
    <2>2. \A u \in Threads : pc'[u] = "spool" <=> pc[u] = "spool"
        BY <1>9 DEF CtlDeauthFind, CtlRequest, CtlListRequest, ListOp, ListNoOp, ListFw,
           AfterList, TimerWake, CountersOk, CountersFail, TimerLock, TimerDelete,
           TimerUnlock, MainLock, MainUnlock, Tick, TimerEvict, TimerSkip, Visit,
           Finish, Goto, TypeInv, TypeOK
    <2> QED
        BY <2>1, <2>2 DEF PolicySame, Spooling
<1> QED
    BY <1>1, <1>2, <1>3, <1>4, <1>5, <1>6, <1>7, <1>8, <1>9
    DEF Next, WorkerStep, CtlStep, TimerStep, TimerVisit, MainStep

-----------------------------------------------------------------------------
(* Which steps can make the pointer of a handler a dangling one.           *)

\* Handler w has a pointer, and it is to a client on the list.
Holding == {"dispatch", "deauth", "binauth", "auth", "spool", "session"}
PointerGood(w) == pc[w] \in Holding => ById(loc[w].ptr) # {}

\* The timeout thread, under the list lock, takes a client off the list.
TimerFrees == /\ listLock = Timer /\ pc[Timer] \in {"loop", "delete"}
              /\ \E c \in Listed : client'[c].mark = "absent"

\* The clients on the list stay there, under their ids.
AllStay == \A c \in Clients : client[c].mark # "absent" =>
               client'[c].mark # "absent" /\ client'[c].id = client[c].id

\* Putting a client back behind the portal, or letting it in, keeps the list.
LEMMA ChangesStay ==
    ASSUME TypeOK, NEW c \in Clients, TryPreauth(c) \/ (client[c].mark # "absent" /\ ToAuth(c))
    PROVE  AllStay
BY DEF TypeOK, ClientRecord, TryPreauth, ToPreauth, Reset, ToAuth, AllStay, Preauth, Auth

\* Only the timeout thread takes anybody off the list.
LEMMA ListStays ==
    ASSUME TypeInv, LocksHeld, [Next]_vars PROVE AllStay \/ TimerFrees
<1> USE DEF TypeInv, TypeOK, listVars
<1>0. pc[Timer] \in {"loop", "delete"} => listLock = Timer
    BY DEF LocksHeld, InListSection, Threads
<1>1. ASSUME client' = client PROVE AllStay
    BY <1>1 DEF AllStay
<1>2. ASSUME NEW w \in Workers, AddClient(w) PROVE AllStay
    BY <1>2 DEF AddClient, AllStay, ArgsOK, Listed
<1>3. ASSUME NEW w \in Workers, AuthClient(w) PROVE AllStay
    BY <1>1, <1>3, ChangesStay DEF AuthClient, MaySignUp, ById, Listed, SignUp
<1>4. ASSUME NEW w \in Workers, SetSession(w) PROVE AllStay
    BY <1>4 DEF SetSession, AllStay
<1>5. ASSUME NEW t \in Workers \cup {Ctl}, DeauthById(t) PROVE AllStay
    BY <1>1, <1>5, ChangesStay DEF DeauthById, ById, Listed
<1>6. ASSUME CtlAuth PROVE AllStay
    BY <1>1, <1>6, ChangesStay DEF CtlAuth, CtlFrame, SignUp, MayChange, ArgsOK, Preauth, Auth
<1>7. ASSUME CountersOk PROVE AllStay
    BY <1>7 DEF CountersOk, Counted, AllStay
<1>8. ASSUME NEW c \in Clients, client' = [client EXCEPT ![c] = Off],
             pc[Timer] \in {"loop", "delete"}
      PROVE  AllStay \/ TimerFrees
    <2>1. \A d \in Clients \ {c} : client'[d] = client[d]
        BY <1>8
    <2>2. client'[c].mark = "absent"
        BY <1>8 DEF Off
    <2>3. CASE client[c].mark = "absent"
        BY <2>1, <2>3 DEF AllStay
    <2>4. CASE client[c].mark # "absent"
        BY <1>0, <1>8, <2>2, <2>4 DEF TimerFrees, Listed
    <2> QED
        BY <2>3, <2>4
<1>9. ASSUME NEW c \in Clients, TimerEvict(c) PROVE AllStay \/ TimerFrees
    BY <1>8, <1>9 DEF TimerEvict, Visit
<1>10. CASE TimerDelete
    <2>1. CASE loc[Timer].client \in Clients
        BY <1>8, <1>10, <2>1 DEF TimerDelete
    <2>2. CASE loc[Timer].client \notin Clients
        BY <1>1, <1>10, <2>2 DEF TimerDelete
    <2> QED
        BY <2>1, <2>2
<1>11. ASSUME NEW c \in Clients, TimerDeauth(c) \/ MainVisit(c) PROVE AllStay
    BY <1>11, ChangesStay DEF TimerDeauth, MainVisit
<1>12. ASSUME client' # client
       PROVE  \/ CtlAuth \/ CountersOk \/ TimerDelete
              \/ \E w \in Workers : AddClient(w) \/ AuthClient(w) \/ SetSession(w)
              \/ \E t \in Workers \cup {Ctl} : DeauthById(t)
              \/ \E c \in Clients : TimerEvict(c) \/ TimerDeauth(c) \/ MainVisit(c)
    BY <1>12 DEF Next, WorkerStep, CtlStep, TimerStep, TimerVisit, MainStep, vars,
        Tick, Lookup, ServePage, DispatchFrame, DenyRequest, SignupRequest, Binauth, Spool,
        CtlRequest, CtlListRequest, CtlFrame, CtlDeauthFind, ListOp, ListNoOp, ListFw,
        TimerWake, CountersFail, TimerLock, TimerBlock, TimerSkip, TimerUnlock,
        MainLock, MainUnlock
<1> QED
    BY <1>1, <1>2, <1>3, <1>4, <1>5, <1>6, <1>7, <1>9, <1>10, <1>11, <1>12

\* While the list keeps everybody, the pointer handler w holds stays good,
\* whoever takes the step; and a pointer w takes up is good.
LEMMA PointerNext ==
    ASSUME AllStay, TypeInv, [Next]_vars, NEW w \in Workers, PointerGood(w)
    PROVE  PointerGood(w)'
<1> USE DEF TypeInv, TypeOK, Labels, listVars, fwVars, lockVars, rowVars
<1>0. \A p : ById(p) # {} => ById(p)' # {}
    BY DEF AllStay, ById, Listed
<1>1. ASSUME pc'[w] = pc[w] \/ pc'[w] = "idle" \/ pc[w] \in Holding, loc'[w].ptr = loc[w].ptr
      PROVE  PointerGood(w)'
    <2>1. PICK p : p = loc[w].ptr
        OBVIOUS
    <2>2. pc'[w] \in Holding => ById(p) # {}
        BY <1>1, <2>1 DEF PointerGood, Holding
    <2>3. pc'[w] \in Holding => ById(loc[w].ptr)' # {}
        BY <1>0, <1>1, <2>1, <2>2
    <2> QED
        BY <2>3 DEF PointerGood
<1>2. ASSUME pc'[w] \notin Holding PROVE PointerGood(w)'
    BY <1>2 DEF PointerGood
<1>3. ASSUME NEW i, PointTo(w, i), ById(i)' # {} PROVE PointerGood(w)'
    <2>1. loc'[w].ptr = i
        BY <1>3, ClientAuthAssumption DEF PointTo, NoLocals
    <2> QED
        BY <1>3, <2>1 DEF PointerGood
<1>4. ASSUME NEW c \in Clients, Lookup(w, c) PROVE PointerGood(w)'
    <2>1. CASE c \in Listed /\ PointTo(w, client[c].id)
        <3>1. PICK i : i = client[c].id
            OBVIOUS
        <3>2. ById(i)' # {}
            BY <1>0, <2>1, <3>1 DEF ById, Listed
        <3> QED
            BY <1>3, <2>1, <3>1, <3>2
    <2> QED
        BY <1>2, <1>4, <2>1, ClientAuthAssumption DEF Lookup, Goto, Holding
<1>5. ASSUME AddClient(w) PROVE PointerGood(w)'
    <2> DEFINE c == loc[w].client
               new == [Off EXCEPT !.mark = Preauth, !.id = nextId, !.seen = now]
    <2>1. c \in Clients
        BY <1>5 DEF AddClient, ArgsOK
    <2>2. CASE Finish(w)
        BY <1>2, <2>2, ClientAuthAssumption DEF Finish, Goto, Holding
    <2>3. CASE c \in Listed /\ PointTo(w, client[c].id)
        <3>1. PICK i : i = client[c].id
            OBVIOUS
        <3>2. ById(i) # {}
            BY <2>3, <3>1 DEF ById
        <3> QED
            BY <1>0, <1>3, <2>3, <3>1, <3>2
    <2>4. CASE client' = [client EXCEPT ![c] = new] /\ PointTo(w, nextId)
        <3>1. PICK i : i = nextId
            OBVIOUS
        <3>2. new.mark = Preauth /\ new.id = nextId
            BY DEF Off
        <3>3. client'[c].mark # "absent" /\ client'[c].id = i
            BY <2>1, <2>4, <3>1, <3>2 DEF Preauth
        <3>4. ById(i)' # {}
            BY <2>1, <3>3 DEF ById, Listed
        <3> QED
            BY <1>3, <2>4, <3>1, <3>4
    <2> QED
        BY <1>5, <2>2, <2>3, <2>4 DEF AddClient
<1>6. ASSUME DenyRequest(w) PROVE PointerGood(w)'
    <2>1. Denotes(w) = {loc[w].ptr} /\ pc[w] \in Holding
        BY <1>6 DEF DenyRequest, PointerGood, Denotes, Holding
    <2>2. loc'[w].ptr = loc[w].ptr
        BY <1>6, <2>1, ClientAuthAssumption DEF DenyRequest, Locals
    <2> QED
        BY <1>1, <2>1, <2>2
<1>7. ASSUME SignupRequest(w) PROVE PointerGood(w)'
    <2>1. loc'[w].ptr = loc[w].ptr /\ pc[w] \in Holding
        BY <1>7, ClientAuthAssumption DEF SignupRequest, NoLocals, Holding
    <2> QED
        BY <1>1, <2>1
<1>8. ASSUME Binauth(w) PROVE PointerGood(w)'
    <2>1. pc'[w] = "idle" \/ (loc'[w].ptr = loc[w].ptr /\ pc[w] \in Holding)
        BY <1>8, ClientAuthAssumption DEF Binauth, Finish, Goto, Holding, Locals
    <2> QED
        BY <1>1, <1>2, <2>1 DEF Holding
<1>9. ASSUME AuthClient(w) PROVE PointerGood(w)'
    <2>1. Denotes(w) = {loc[w].ptr} /\ pc[w] \in Holding
        BY <1>9 DEF AuthClient, PointerGood, Denotes, Holding
    <2>2. pc'[w] = "idle" \/ loc'[w].ptr = loc[w].ptr
        BY <1>9, <2>1, ClientAuthAssumption DEF AuthClient, Finish, Goto, Locals
    <2> QED
        BY <1>1, <1>2, <2>1, <2>2 DEF Holding
<1>10. ASSUME ServePage(w) \/ SetSession(w) \/ Spool(w) \/ DeauthById(w) PROVE PointerGood(w)'
    <2>1. \/ pc'[w] = "idle"
          \/ loc'[w].ptr = loc[w].ptr /\ pc[w] \in Holding
        BY <1>10, ClientAuthAssumption
        DEF ServePage, SetSession, Spool, DeauthById, Finish, Goto, Holding
    <2> QED
        BY <1>1, <1>2, <2>1 DEF Holding
<1>11. ASSUME pc'[w] = pc[w], loc'[w] = loc[w] PROVE PointerGood(w)'
    BY <1>1, <1>11
<1>12. ASSUME NEW v \in Workers \ {w}, WorkerStep(v) \/ \E c \in Clients : Lookup(v, c)
       PROVE  PointerGood(w)'
    <2>1. pc'[w] = pc[w] /\ loc'[w] = loc[w]
        BY <1>12 DEF WorkerStep, Lookup, PointTo, AddClient, ServePage, DenyRequest,
           SignupRequest, Binauth, AuthClient, SignUp, Spool, SetSession, DeauthById,
           Finish, Goto
    <2> QED
        BY <1>11, <2>1
<1>13. CASE CtlStep \/ \E c \in Clients : CtlRequest(c) \/ CtlListRequest(c)
    <2>1. pc'[w] = pc[w] /\ loc'[w] = loc[w]
        BY <1>13, ClientAuthAssumption
        DEF CtlStep, CtlRequest, CtlListRequest, CallList, CtlAuth, SignUp, CtlDeauthFind,
            Spool, DeauthById, ListOp, ListNoOp, ListFw, AfterList, Finish, Goto
    <2> QED
        BY <1>11, <2>1
<1>14. CASE TimerStep \/ CountersFail \/ MainStep \/ Tick
    <2>1. pc'[w] = pc[w] /\ loc'[w] = loc[w]
        BY <1>14, ClientAuthAssumption
        DEF TimerStep, TimerVisit, TimerEvict, TimerDeauth, TimerBlock, TimerSkip, TimerDelete,
            TimerWake, CountersOk, CountersFail, TimerLock, TimerUnlock, Visit, CallList,
            ListOp, ListNoOp, ListFw, AfterList, MainStep, MainLock, MainVisit, MainUnlock,
            Tick, Finish, Goto
    <2> QED
        BY <1>11, <2>1
<1>15. CASE UNCHANGED vars
    BY <1>11, <1>15 DEF vars
<1>16. CASE WorkerStep(w)
    BY <1>4, <1>5, <1>6, <1>7, <1>8, <1>9, <1>10, <1>16 DEF WorkerStep
<1> QED
    BY <1>4, <1>12, <1>13, <1>14, <1>15, <1>16 DEF Next

-----------------------------------------------------------------------------
(* The theorems.                                                           *)

\* In every reachable state all variables have their types, whatever iptables
\* and the file system answer.
THEOREM TypeCorrect == Spec => []TypeOK
<1>1. TypeInv => TypeOK
    BY DEF TypeInv
<1> QED
    BY <1>1, TypeInit, TypeNext, PTL DEF Spec

\* The inductive type invariant holds throughout.
LEMMA TypeInvariant == Spec => []TypeInv
BY TypeInit, TypeNext, PTL DEF Spec

\* The daemon's threads hold each mutex exactly between its LOCK and UNLOCK,
\* for any number of HTTP handlers and on the error paths too.
THEOREM LockDiscipline == Spec => []LocksHeld
<1>1. TypeInv => TypeOK
    BY DEF TypeInv
<1> QED
    BY <1>1, TypeInvariant, LocksInit, LocksNext, PTL DEF Spec

\* A station is let through by the firewall exactly when the client list says
\* it is authenticated, while iptables does what it is told.
THEOREM FirewallFollowsList ==
    ASSUME ~FwMayFail PROVE Spec => []FirewallMatchesList
<1>1. TypeInv /\ LocksHeld /\ FirewallInv /\ [Next]_vars => FirewallInv'
    BY FirewallNext
<1>2. FirewallInv => FirewallMatchesList
    BY DEF FirewallInv
<1> QED
    BY <1>1, <1>2, TypeInvariant, LockDiscipline, FirewallInit, PTL DEF Spec

\* When the shutdown loop is through, no station is online.
THEOREM ShutdownDeauthsAll ==
    ASSUME ~FwMayFail PROVE Spec => []ShutdownClosesAll
<1>1. TypeInv /\ LocksHeld /\ FirewallInv /\ [Next]_vars => FirewallInv'
    BY FirewallNext
<1>2. FirewallInv => ShutdownClosesAll
    BY DEF FirewallInv, OnlineStillToDo, ShutdownClosesAll
<1> QED
    BY <1>1, <1>2, TypeInvariant, LockDiscipline, FirewallInit, PTL DEF Spec

\* The MAC lists and the firewall rules for them agree outside the config lock.
THEOREM RulesFollowLists ==
    ASSUME ~FwMayFail PROVE Spec => []ListsMatchFirewall
<1>1. TypeInv /\ LocksHeld /\ ListsInv /\ [Next]_vars => ListsInv'
    BY ListsNext
<1>2. ListsInv => ListsMatchFirewall
    BY DEF ListsInv
<1> QED
    BY <1>1, <1>2, TypeInvariant, LockDiscipline, ListsInit, PTL DEF Spec

\* Every counted signup has exactly one row in the spool or a thread about to
\* write it; at most one, if the spool may fail to open.
THEOREM SignupsSpooledOnce == Spec => []OneRowPerSignup
<1>1. TypeInv /\ LocksHeld /\ RowsInv => OneRowPerSignup
    BY RowsCounted DEF TypeInv
<1> QED
    BY <1>1, TypeInvariant, LockDiscipline, RowsInit, RowsNext, PTL DEF Spec

\* Two handlers of one guest never count two signups for one way through the
\* firewall.
THEOREM SignupsOpenNet ==
    ASSUME ~FwMayFail PROVE Spec => SignupOpensNet
<1> DEFINE Opens == signups' # signups => \E c \in Clients : c \notin fwAuth /\ c \in fwAuth'
<1>1. ASSUME TypeInv, FirewallMatchesList, [Next]_vars PROVE [Opens]_vars
    <2> USE DEF listVars, fwVars, lockVars, rowVars, MayChange, Preauth, Auth
    <2>1. ASSUME NEW t, NEW c \in Clients, SignUp(t, c), client[c].mark = Preauth
          PROVE  Opens
        BY <1>1, <2>1 DEF SignUp, ToAuth, FwAuthSet, FirewallMatchesList
    <2>2. ASSUME NEW w \in Workers, AuthClient(w) PROVE Opens
        BY <2>1, <2>2 DEF AuthClient, MaySignUp, ById, Listed
    <2>3. CASE CtlAuth
        BY <1>1, <2>1, <2>3 DEF CtlAuth, CtlFrame, TypeInv, ArgsOK
    <2>4. ASSUME signups' # signups
          PROVE  CtlAuth \/ \E w \in Workers : AuthClient(w)
        BY <1>1, <2>4 DEF Next, WorkerStep, CtlStep, TimerStep, TimerVisit,
           MainStep, vars,
            Tick, Lookup, AddClient, ServePage, DispatchFrame, DenyRequest, SignupRequest,
            Binauth, Spool, SetSession, DeauthById, CtlRequest, CtlListRequest, CtlFrame,
            CtlDeauthFind, ListOp, ListNoOp, ListFw, TimerWake, CountersOk, CountersFail,
            TimerLock, TimerEvict, TimerDeauth, TimerBlock, TimerSkip, TimerDelete,
            TimerUnlock, MainLock, MainVisit, MainUnlock
    <2> QED
        BY <2>2, <2>3, <2>4
<1> QED
    BY <1>1, TypeInvariant, FirewallFollowsList, PTL DEF Spec, SignupOpensNet

\* Whatever the timeouts are: the client that libmicrohttpd_cb found without the
\* lock leaves the list, while the handler still works on it, only by a deletion
\* of the timeout thread under the list lock.  No request, command, signup,
\* deauthentication or shutdown takes it away, and none gives it another id.
\* PortalStaleClient shows what such a deletion leads to.
THEOREM OnlyTimerFrees ==
    Spec => [][\A w \in Workers : PointerGood(w) => PointerGood(w)' \/ TimerFrees]_vars
<1>1. TypeInv /\ LocksHeld /\ [Next]_vars =>
        [\A w \in Workers : PointerGood(w) => PointerGood(w)' \/ TimerFrees]_vars
    BY ListStays, PointerNext
<1> QED
    BY <1>1, TypeInvariant, LockDiscipline, PTL DEF Spec

\* Handlers, control thread, timeout thread and shutdown together let stations
\* in, pay for each signup with its row and put stations out, one at a time.
THEOREM PolicyKept ==
    ASSUME ~FwMayFail PROVE Spec => KeepsPolicy
<1>1. Init => Policy!Init
    BY ClientAuthAssumption DEF Init, Policy!Init
<1>2. TypeInv /\ LocksHeld /\ FirewallInv /\ [Next]_vars => FirewallInv'
    BY FirewallNext
<1>3. TypeInv /\ LocksHeld /\ FirewallInv /\ [Next]_vars =>
        [Policy!Next]_<<fwAuth, \E t \in Threads : pc[t] = "spool", signups, spooled>>
    BY PolicyStep DEF PolicySame, Spooling
<1> QED
    BY <1>1, <1>2, <1>3, TypeInvariant, LockDiscipline, FirewallInit,
       PTL DEF Spec, KeepsPolicy, Policy!Spec, Policy!policyVars

=============================================================================
