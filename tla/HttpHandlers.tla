----------------------------- MODULE HttpHandlers -----------------------------
(***************************************************************************)
(* A request of a station through libmicrohttpd_cb (http_microhttpd.c): it *)
(* is looked up, added to the client list if it is new, dispatched on its  *)
(* state and, when it submits the signup form, authenticated.  The handler *)
(* holds a t_client pointer across all of this but takes the list lock     *)
(* only inside add_client, auth_client_auth and auth_client_deauth.        *)
(***************************************************************************)
EXTENDS ClientAuth

CONSTANTS
    SessionTimeout,   \* 60 * config->session_timeout, 0 = no limit
    BinAuth,          \* config->binauth is set
    BinauthSeconds,   \* the session lengths a binauth program may answer
    MaxId,            \* bound: client_list_add_client gives out this many ids
    MaxSignups        \* bound: no signup starts after this many

ASSUME HttpHandlersAssumption ==
    /\ SessionTimeout \in Nat /\ BinauthSeconds \subseteq Nat
    /\ BinAuth \in BOOLEAN /\ MaxId \in Nat /\ MaxSignups \in Nat

\* The ids handler w may find behind its pointer.  If the entry was deleted
\* the memory is free: it still reads as the old entry or, if the allocator
\* gave it away again, as a client added later.
Denotes(w) ==
    LET p == loc[w].ptr
    IN  IF ById(p) # {} THEN {p}
        ELSE {p} \cup {client[c].id : c \in {d \in Listed : client[d].id > p}}

\* The states it may read there: any at all in freed memory.
MarksRead(w) ==
    IF ById(loc[w].ptr) # {} THEN {client[c].mark : c \in ById(loc[w].ptr)}
                             ELSE Marks

-----------------------------------------------------------------------------
(* client_list_find, without the lock                                      *)

\* From here on the handler knows its client by the pointer alone.
PointTo(w, i) == /\ Goto(w, "dispatch")
                 /\ loc' = [loc EXCEPT ![w] = [NoLocals EXCEPT !.ptr = i]]

Lookup(w, c) ==
    /\ pc[w] = "idle"
    /\ \/ c \in Listed /\ PointTo(w, client[c].id)
       \/ c \notin Listed /\ Goto(w, "add") /\ loc' = [loc EXCEPT ![w].client = c]
    /\ UNCHANGED <<now, listVars, fwVars, lockVars, todo, rowVars>>

\* client_list_add_client: the entry somebody else has added since, or a new
\* one, or NULL, upon which the request is answered with an error.
AddClient(w) ==
    LET c == loc[w].client
        new == [Off EXCEPT !.mark = Preauth, !.id = nextId, !.seen = now]
    IN  /\ pc[w] = "add"
        /\ listLock = Free
        /\ \/ c \in Listed /\ PointTo(w, client[c].id) /\ UNCHANGED listVars
           \/ /\ c \notin Listed /\ nextId <= MaxId
              /\ client' = [client EXCEPT ![c] = new]
              /\ nextId' = nextId + 1
              /\ PointTo(w, nextId)
           \/ c \notin Listed /\ nextId > MaxId /\ Finish(w) /\ UNCHANGED listVars
        /\ UNCHANGED <<now, fwVars, lockVars, todo, rowVars>>

-----------------------------------------------------------------------------
(* Dispatch on client->fw_connection_state, read without the lock.         *)

DispatchFrame == UNCHANGED <<now, listVars, fwVars, lockVars, todo, rowVars>>

\* A page, a redirect or an error and nothing else: in both states most
\* requests end here, those with a wrong token among them.
ServePage(w) ==
    /\ pc[w] = "dispatch"
    /\ Finish(w)
    /\ DispatchFrame

\* authenticated: the deny url deauthenticates the client.
DenyRequest(w) ==
    /\ pc[w] = "dispatch"
    /\ MarksRead(w) \cap {Auth, "trusted"} # {}
    /\ \E i \in Denotes(w) : loc' = [loc EXCEPT ![w].ptr = i]
    /\ Goto(w, "deauth")
    /\ DispatchFrame

\* preauthenticated: the auth url with the right token.  authenticate_client
\* reads the time and the session length before it asks binauth.
SignupRequest(w) ==
    /\ pc[w] = "dispatch"
    /\ MarksRead(w) \ {Auth, "trusted"} # {}
    /\ signups < MaxSignups
    /\ loc' = [loc EXCEPT ![w] = [NoLocals EXCEPT
                  !.ptr = loc[w].ptr, !.start = now, !.secs = SessionTimeout]]
    /\ Goto(w, IF BinAuth THEN "binauth" ELSE "auth")
    /\ DispatchFrame

\* do_binauth: refused, or allowed for a number of seconds.
Binauth(w) ==
    /\ pc[w] = "binauth"
    /\ \/ Finish(w)
       \/ /\ \E s \in BinauthSeconds : loc' = [loc EXCEPT ![w].secs = s]
          /\ Goto(w, "auth")
    /\ UNCHANGED <<now, listVars, fwVars, lockVars, todo, rowVars>>

\* auth_client_auth(client->id, ...)
AuthClient(w) ==
    /\ pc[w] = "auth"
    /\ \E i \in Denotes(w) :
         \/ \E c \in MaySignUp(i) : /\ SignUp(w, c)
                                    /\ loc' = [loc EXCEPT ![w].ptr = i]
         \/ /\ MaySignUp(i) = {}
            /\ listLock = Free
            /\ Finish(w)
            /\ UNCHANGED <<now, listVars, fwVars, lockVars, todo, rowVars>>

\* The session times, written through the pointer after the lock is gone.
SessionEnd(w) == IF loc[w].secs = 0 THEN 0 ELSE loc[w].start + loc[w].secs

SetSession(w) ==
    /\ pc[w] = "session"
    /\ \E i \in Denotes(w) :
         client' = [c \in Clients |->
            IF c \in ById(i) THEN [client[c] EXCEPT !.end = SessionEnd(w)]
                             ELSE client[c]]
    /\ Finish(w)
    /\ UNCHANGED <<now, nextId, fwVars, lockVars, todo, rowVars>>

=============================================================================
