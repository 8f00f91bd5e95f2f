----------------------------- MODULE ControlSocket -----------------------------
(***************************************************************************)
(* The thread behind the control socket, thread_ndsctl of ndsctl_thread.c: *)
(* an edge-triggered epoll loop that accepts one connection per event, and *)
(* ndsctl_handler, which reads one line from a non-blocking descriptor,    *)
(* carries it out and closes the connection.  The peers are ndsctl         *)
(* processes or whatever else connects; they may hang up at any time.      *)
(*                                                                         *)
(* The line of peer p is 1 .. size[p]: the command word, its argument in   *)
(* pieces and, last, the newline.  NdsctlCommands models the commands.     *)
(***************************************************************************)
EXTENDS Integers, Sequences, FiniteSets

CONSTANTS
    Peers,      \* the connections; each is made once
    Stoppers,   \* those whose command is "stop"
    Sock,       \* the listening descriptor
    NoPeer,     \* the handler is not running
    MaxBuf,     \* MAX_BUF, the size of a request
    Settings    \* what a behaviour may fix: see faults, size and maxEvents

ASSUME ControlAssumption ==
    /\ IsFiniteSet(Peers) /\ Stoppers \subseteq Peers
    /\ Sock \notin Peers /\ NoPeer \notin Peers
    /\ MaxBuf \in Nat \ {0, 1}
    /\ Settings \subseteq [faults : SUBSET {"overlap", "sloppy", "nofds"},
                           size : [Peers -> Nat \ {0, 1}],
                           maxEvents : Nat \ {0}]

VARIABLES
    faults,    \* what may go wrong around the thread
    size,      \* the length of each peer's line, the newline included
    maxEvents, \* MAX_EVENT_SIZE, the entries of events[]
    conn,      \* the daemon's side of each connection
    end,       \* the peer's side: up, shut for writing, or down
    sent,      \* how much of its line each peer has written
    got,       \* how much of it has been read
    backlog,   \* the connections that wait to be accepted
    ready,     \* the descriptors on epoll's ready list
    batch,     \* the events epoll_wait has returned, without those dealt with
    count,     \* current_fd_count
    tpc,       \* where the thread is
    cur,       \* the connection ndsctl_handler works on
    request, pos, done,   \* its request, read_bytes and done
    executed,  \* the text that was carried out for each connection
    torn       \* history: the connections whose handler started before the line
               \* was there

setting == <<faults, size, maxEvents>>
peerVars == <<end, sent>>
epollVars == <<conn, backlog, ready, batch, count>>
handlerVars == <<cur, request, pos, done, got, torn>>
vars == <<setting, peerVars, epollVars, handlerVars, tpc, executed>>

Nothing == [n \in 1 .. MaxBuf |-> 0]           \* a request after memset
Junk == -1                                     \* what follows it on the stack
Line(p) == [n \in 1 .. size[p] - 1 |-> n]      \* the text of a whole line
Unread(p) == sent[p] - got[p]

-----------------------------------------------------------------------------
(* The peers, and what the kernel makes of their calls.                    *)

\* An event on a descriptor that epoll watches puts it on the ready list.
Wake(p) == ready' = IF conn[p] = "open" THEN ready \cup {p} ELSE ready

Connected(p) == conn[p] \in {"queued", "open"}

PeerFrame == UNCHANGED <<setting, batch, count, handlerVars, tpc, executed>>

\* connect.  Peers that do not overlap wait until the last one was accepted.
Connect(p) ==
    /\ conn[p] = "away"
    /\ "overlap" \in faults \/ backlog = <<>>
    /\ conn' = [conn EXCEPT ![p] = "queued"]
    /\ backlog' = Append(backlog, p)
    /\ ready' = ready \cup {Sock}
    /\ UNCHANGED peerVars /\ PeerFrame

\* write: the rest of the line at once, or a part of it.
Write(p) ==
    /\ Connected(p) /\ end[p] = "up"
    /\ \E n \in sent[p] + 1 .. size[p] : /\ "sloppy" \in faults \/ n = size[p]
                                         /\ sent' = [sent EXCEPT ![p] = n]
    /\ Wake(p)
    /\ UNCHANGED <<end, conn, backlog>> /\ PeerFrame

\* shutdown(SHUT_WR), as a pipe into the socket does at its end
Shut(p) ==
    /\ Connected(p) /\ end[p] = "up"
    /\ "sloppy" \in faults \/ sent[p] = size[p]
    /\ end' = [end EXCEPT ![p] = "shut"]
    /\ Wake(p)
    /\ UNCHANGED <<sent, conn, backlog>> /\ PeerFrame

\* The peer closes its end or dies.
HangUp(p) ==
    /\ Connected(p) /\ end[p] # "down"
    /\ end' = [end EXCEPT ![p] = "down"]
    /\ Wake(p)
    /\ UNCHANGED <<sent, conn, backlog>> /\ PeerFrame

-----------------------------------------------------------------------------
(* thread_ndsctl                                                           *)

\* What poll would report: a connection to accept, something to read or EOF.
Readable(fd) == IF fd = Sock THEN backlog # <<>> ELSE Unread(fd) > 0 \/ end[fd] # "up"
Event(fd) == [fd |-> fd, hup |-> fd # Sock /\ end[fd] = "down"]

\* epoll_wait with room for current_fd_count events, which it writes to events[].
\* With no room at all it fails, and the thread ends; past the end of events[] it
\* overwrites what is there, and nothing is known of the daemon from then on.
EpollWait ==
    /\ tpc = "wait"
    /\ \/ /\ count > 0 /\ ready # {}
          /\ \E S \in SUBSET ready :
               LET fds == {s \in S : Readable(s)}
               IN  /\ Cardinality(fds) <= count
                   /\ S = ready \/ Cardinality(fds) = count
                   /\ ready' = ready \ S
                   /\ batch' = {Event(fd) : fd \in fds}
                   /\ tpc' = IF Cardinality(fds) <= maxEvents THEN "batch" ELSE "overrun"
       \/ /\ count <= 0
          /\ tpc' = "exited" /\ UNCHANGED <<ready, batch>>
    /\ UNCHANGED <<setting, peerVars, conn, backlog, count, handlerVars, executed>>

BatchDone ==
    /\ tpc = "batch" /\ batch = {}
    /\ tpc' = "wait"
    /\ UNCHANGED <<setting, peerVars, epollVars, handlerVars, executed>>

\* Mutants of TakeHup: the events after it are dropped; the connection is not
\* closed.
TakeHupBreak(e) ==
    /\ tpc = "batch" /\ e \in batch /\ e.hup
    /\ batch' = {}
    /\ conn' = [conn EXCEPT ![e.fd] = "closed"]
    /\ ready' = ready \ {e.fd}
    /\ UNCHANGED <<setting, peerVars, backlog, count, handlerVars, tpc, executed>>
TakeHupLeak(e) ==
    /\ tpc = "batch" /\ e \in batch /\ e.hup
    /\ batch' = batch \ {e}
    /\ UNCHANGED <<setting, peerVars, conn, ready, backlog, count, handlerVars, tpc, executed>>

\* EPOLLHUP: the connection is closed, its line unread, and still counted.
TakeHup(e) ==
    /\ tpc = "batch" /\ e \in batch /\ e.hup
    /\ batch' = batch \ {e}
    /\ conn' = [conn EXCEPT ![e.fd] = "closed"]
    /\ ready' = ready \ {e.fd}
    /\ UNCHANGED <<setting, peerVars, backlog, count, handlerVars, tpc, executed>>

\* Mutant of Accept: the new connection is not counted.
AcceptUncounted(e) ==
    LET p == Head(backlog)
    IN  /\ tpc = "batch" /\ e \in batch /\ e.fd = Sock
        /\ batch' = batch \ {e}
        /\ conn' = [conn EXCEPT ![p] = "open"]
        /\ backlog' = Tail(backlog)
        /\ ready' = IF Readable(p) THEN ready \cup {p} ELSE ready
        /\ UNCHANGED <<setting, peerVars, count, handlerVars, tpc, executed>>

\* accept and EPOLL_CTL_ADD, which looks at the new descriptor at once.
Accept(e) ==
    LET p == Head(backlog)
    IN  /\ tpc = "batch" /\ e \in batch /\ e.fd = Sock
        /\ batch' = batch \ {e}
        /\ conn' = [conn EXCEPT ![p] = "open"]
        /\ backlog' = Tail(backlog)
        /\ ready' = IF Readable(p) THEN ready \cup {p} ELSE ready
        /\ count' = count + 1
        /\ UNCHANGED <<setting, peerVars, handlerVars, tpc, executed>>

\* accept finds no free descriptor: the thread ends for good.
AcceptFails(e) ==
    /\ tpc = "batch" /\ e \in batch /\ e.fd = Sock
    /\ "nofds" \in faults
    /\ tpc' = "exited"
    /\ UNCHANGED <<setting, peerVars, epollVars, handlerVars, executed>>

-----------------------------------------------------------------------------
(* ndsctl_handler                                                          *)

\* Mutant of Handle: it runs for a peer that hung up, too.
HandleHungUp(e) ==
    /\ tpc = "batch" /\ e \in batch /\ e.fd # Sock
    /\ batch' = batch \ {e}
    /\ tpc' = "read"
    /\ cur' = e.fd
    /\ request' = Nothing /\ pos' = 0 /\ done' = FALSE
    /\ torn' = IF sent[e.fd] < size[e.fd] THEN torn \cup {e.fd} ELSE torn
    /\ UNCHANGED <<setting, peerVars, conn, backlog, ready, count, got, executed>>

Handle(e) ==
    /\ tpc = "batch" /\ e \in batch /\ ~e.hup /\ e.fd # Sock
    /\ batch' = batch \ {e}
    /\ tpc' = "read"
    /\ cur' = e.fd
    /\ request' = Nothing /\ pos' = 0 /\ done' = FALSE
    /\ torn' = IF sent[e.fd] < size[e.fd] THEN torn \cup {e.fd} ELSE torn
    /\ UNCHANGED <<setting, peerVars, conn, backlog, ready, count, got, executed>>

\* Mutant of Reading: the comparison is made on signed values.
ReadingSigned == tpc = "read" /\ ~done /\ pos < MaxBuf - 1

\* !done && read_bytes < sizeof(request) - 1, where read_bytes is converted to
\* an unsigned type: below zero the loop ends, too.
Reading == tpc = "read" /\ ~done /\ pos \in 0 .. MaxBuf - 2

ReadFrame == UNCHANGED <<setting, peerVars, epollVars, tpc, cur, torn, executed>>

\* What one read returns: all there is, or what the request has room for.
Chunk == IF Unread(cur) <= MaxBuf - pos THEN Unread(cur) ELSE MaxBuf - pos

\* Mutant of ReadData: the loop over the bytes leaves out the last one.
ReadDataButLast ==
    /\ Reading /\ Unread(cur) > 0
    /\ request' = [n \in 1 .. MaxBuf |->
          IF n \in pos + 1 .. pos + Chunk THEN got[cur] + n - pos ELSE request[n]]
    /\ done' = FALSE
    /\ pos' = pos + Chunk
    /\ got' = [got EXCEPT ![cur] = @ + Chunk]
    /\ ReadFrame

\* A read that returns something; a newline among it ends the request.
ReadData ==
    /\ Reading /\ Unread(cur) > 0
    /\ request' = [n \in 1 .. MaxBuf |->
          IF n \in pos + 1 .. pos + Chunk
          THEN LET byte == got[cur] + n - pos IN IF byte = size[cur] THEN 0 ELSE byte
          ELSE request[n]]
    /\ done' = (got[cur] + Chunk = size[cur])
    /\ pos' = pos + Chunk
    /\ got' = [got EXCEPT ![cur] = @ + Chunk]
    /\ ReadFrame

\* read returns -1 with EAGAIN, and -1 is added to read_bytes.  (At the end of
\* the file it returns 0 for ever: no step, and the loop never ends.)
ReadNothing ==
    /\ Reading /\ Unread(cur) = 0 /\ end[cur] = "up"
    /\ pos' = pos - 1
    /\ UNCHANGED <<request, done, got>> /\ ReadFrame

\* The request as a C string: up to its first zero.  A full request has none, and
\* the string goes on with whatever stands behind it.
Ended == \E n \in 1 .. MaxBuf : request[n] = 0
Chars ==
    LET n == CHOOSE m \in 1 .. MaxBuf + 1 :
                 /\ m = MaxBuf + 1 \/ request[m] = 0
                 /\ \A k \in 1 .. m - 1 : request[k] # 0
    IN  [k \in 1 .. n - 1 |-> request[k]]
Texts == {Chars} \cup (IF Ended THEN {} ELSE {Append(Chars, Junk)})

\* Leaving the handler: its request and its counters are gone, and what it did not
\* read is lost with the connection.
Return(told) ==
    /\ \E text \in Texts : executed' = [executed EXCEPT ![cur] = text]
    /\ conn' = [conn EXCEPT ![cur] = "closed"]
    /\ ready' = ready \ {cur}
    /\ tpc' = IF told THEN "exited" ELSE "batch"
    /\ cur' = NoPeer
    /\ request' = Nothing /\ pos' = 0 /\ done' = FALSE
    /\ UNCHANGED <<setting, peerVars, backlog, batch, got, torn>>

\* strncmp(request, "stop", 4) == 0
ToldToStop == cur \in Stoppers /\ Chars # <<>> /\ Chars[1] = 1

\* Mutant of Dispatch: the listening socket's share is given back with it.
DispatchDouble ==
    /\ tpc = "read" /\ ~Reading
    /\ Return(ToldToStop)
    /\ count' = IF ToldToStop THEN count ELSE count - 2

\* The strncmp chain, whether or not there was a newline; then fclose.
Dispatch ==
    /\ tpc = "read" /\ ~Reading
    /\ Return(ToldToStop)
    /\ count' = IF ToldToStop THEN count ELSE count - 1

-----------------------------------------------------------------------------
Init ==
    /\ \E s \in Settings :
          faults = s.faults /\ size = s.size /\ maxEvents = s.maxEvents
    /\ conn = [p \in Peers |-> "away"] /\ end = [p \in Peers |-> "up"]
    /\ sent = [p \in Peers |-> 0] /\ got = [p \in Peers |-> 0]
    /\ backlog = <<>> /\ ready = {} /\ batch = {}
    /\ count = 1
    /\ tpc = "wait" /\ cur = NoPeer
    /\ request = Nothing /\ pos = 0 /\ done = FALSE
    /\ executed = [p \in Peers |-> <<>>]
    /\ torn = {}

Thread ==
    \/ EpollWait \/ BatchDone
    \/ \E e \in batch : TakeHup(e) \/ Accept(e) \/ Handle(e)
    \/ ReadData \/ ReadNothing \/ Dispatch

Next ==
    \/ \E p \in Peers : Connect(p) \/ Write(p) \/ Shut(p) \/ HangUp(p)
    \/ Thread
    \/ \E e \in batch : AcceptFails(e)

\* The thread runs whenever it can; nobody has to connect or to write.
Spec == Init /\ [][Next]_vars /\ WF_vars(Thread)

-----------------------------------------------------------------------------
\* The variables of the peers, the kernel and the thread have their types;
\* read_bytes falls to -1 and no further and never passes the buffer, and the
\* count never falls below zero.
TypeOK ==
    /\ [faults |-> faults, size |-> size, maxEvents |-> maxEvents] \in Settings
    /\ conn \in [Peers -> {"away", "queued", "open", "closed"}]
    /\ end \in [Peers -> {"up", "shut", "down"}]
    /\ sent \in [Peers -> Nat] /\ got \in [Peers -> Nat]
    /\ \A p \in Peers : got[p] <= sent[p] /\ sent[p] <= size[p]
    /\ backlog \in Seq(Peers)
    /\ ready \subseteq Peers \cup {Sock}
    /\ batch \subseteq [fd : Peers \cup {Sock}, hup : BOOLEAN]
    /\ count \in Nat
    /\ tpc \in {"wait", "batch", "read", "exited", "overrun"}
    /\ cur \in Peers \cup {NoPeer}
    /\ request \in [1 .. MaxBuf -> Nat]
    /\ pos \in -1 .. MaxBuf /\ done \in BOOLEAN
    /\ \A p \in Peers : executed[p] \in Seq(Int)
    /\ torn \subseteq Peers

Open == {p \in Peers : conn[p] = "open"}

\* current_fd_count has room for the listening socket and every connection that
\* is open, so no event has to wait for another batch and epoll_wait never fails.
\* It grows with every connection that hangs up, and is not compared with the size
\* of events[]; but the array is overrun only when as many connections are open
\* at a time as it has entries.
CountCoversOpen ==
    /\ count >= 1 + Cardinality(Open)
    /\ tpc = "overrun" => Cardinality(Open) >= maxEvents

\* The thread ends because somebody asked it to, or for want of a descriptor.
ExitsOnlyWhenTold ==
    tpc = "exited" => "nofds" \in faults \/ \E p \in Stoppers : executed[p] # <<>>

\* With edges only, an event that is lost never comes again: as long as the thread
\* runs, an open connection with something to read or at its end is on the ready
\* list, in the batch or with the handler, and so is, if connections do not
\* overlap, the listening socket while somebody waits to be accepted.
Gone == tpc \in {"exited", "overrun"}
OnItsWay(fd) == fd \in ready \/ \E e \in batch : e.fd = fd
EdgesKept ==
    ~Gone =>
        /\ \A p \in Peers :
              (conn[p] = "open" /\ Readable(p)) => (OnItsWay(p) \/ (tpc = "read" /\ cur = p))
        /\ ("overlap" \notin faults /\ backlog # <<>>) => OnItsWay(Sock)

\* The text a handler carries out that found the whole line: the line if it fits
\* into the request, and else its first MaxBuf bytes, which nothing ends.
Fits(p) == size[p] <= MaxBuf
Front == [n \in 1 .. MaxBuf |-> n]
Carried(p) == IF Fits(p) THEN {Line(p)} ELSE {Front, Append(Front, Junk)}

\* A line that fits and was there when its handler began is carried out as it was
\* sent, or not at all; peers that write it in one go never see it cut at another
\* place.  A longer line is cut at the end of the buffer and carried out all the
\* same, and only such a line makes the daemon read on behind the request.
ExecutedAsSent ==
    /\ \A p \in Peers : executed[p] # <<>> => executed[p] \in Carried(p) \/ p \in torn
    /\ \A p \in Peers : Fits(p) => \A n \in 1 .. Len(executed[p]) : executed[p][n] # Junk
    /\ "sloppy" \notin faults => torn = {}

\* Whoever sends a line and stays gets it carried out, though others hang up in
\* the same batch; an accepted connection does so even if connections overlap.
Waits(p) == /\ sent[p] = size[p]
            /\ \/ conn[p] = "queued" /\ faults = {}
               \/ conn[p] = "open" /\ faults \subseteq {"overlap"}
LinesCarriedOut ==
    \A p \in Peers : Waits(p) ~> executed[p] \in Carried(p) \/ end[p] = "down" \/ Gone

\* The descriptor of a peer that hung up is given back.
HangupsReleased ==
    \A p \in Peers : conn[p] = "open" /\ end[p] = "down" /\ faults \subseteq {"overlap"}
                        ~> conn[p] = "closed" \/ Gone

=============================================================================
