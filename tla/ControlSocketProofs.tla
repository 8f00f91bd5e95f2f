-------------------------- MODULE ControlSocketProofs --------------------------
(***************************************************************************)
(* Theorems about the thread of the control socket, for any number of      *)
(* peers, any lines, buffers and faults: current_fd_count covers the open  *)
(* connections, and so epoll_wait always has room and the thread ends only *)
(* when it is told to; a line that fits is carried out as it was sent; and *)
(* no event of the edge-triggered loop is lost.                            *)
(***************************************************************************)
EXTENDS ControlSocket, FiniteSetTheorems, SequenceTheorems, NaturalsFacts

-----------------------------------------------------------------------------
(* The inductive invariant: who waits, who is watched and who is served.   *)

\* The descriptors that wait to be accepted are the peers' and are queued once.
QueueOk ==
    /\ backlog \in Seq(Peers)
    /\ \A k \in 1 .. Len(backlog) : conn[backlog[k]] = "queued"
    /\ \A k, l \in 1 .. Len(backlog) : backlog[k] = backlog[l] => k = l

\* Only open connections are on the ready list.
ReadyOk == \A fd \in ready : fd = Sock \/ fd \in Open

\* The events still to be handled are those of distinct descriptors, which are
\* open, and one of the listening socket means that somebody is waiting.
BatchOk ==
    /\ \A e \in batch : IF e.fd = Sock THEN ~e.hup /\ backlog # <<>> ELSE e.fd \in Open
    /\ \A e, f \in batch : e.fd = f.fd => e = f

\* The handler works on an open connection that has no other event.
HandlerOk ==
    tpc = "read" => cur \in Open /\ \A e \in batch : e.fd # cur

SocketInv ==
    /\ maxEvents \in Nat
    /\ conn \in [Peers -> {"away", "queued", "open", "closed"}]
    /\ count \in Int /\ CountCoversOpen
    /\ DOMAIN executed = Peers
    /\ QueueOk /\ ReadyOk /\ BatchOk /\ HandlerOk
    /\ ExitsOnlyWhenTold

-----------------------------------------------------------------------------
\* The open connections are finitely many, and fewer or more by one when a
\* connection is closed or accepted.
LEMMA OpenCounted ==
    ASSUME NEW S, NEW T, IsFiniteSet(S), NEW x
    PROVE  /\ Cardinality(S) \in Nat
           /\ T = S \cup {x} => IsFiniteSet(T) /\ Cardinality(T) <= Cardinality(S) + 1
           /\ x \in S /\ T = S \ {x} => Cardinality(T) = Cardinality(S) - 1
<1>1. Cardinality(S) \in Nat
    BY FS_CardinalityType
<1>2. IsFiniteSet(S \cup {x}) /\ Cardinality(S \cup {x}) <= Cardinality(S) + 1
    <2>1. /\ IsFiniteSet(S \cup {x})
          /\ Cardinality(S \cup {x}) = IF x \in S THEN Cardinality(S) ELSE Cardinality(S) + 1
        BY FS_AddElement
    <2> QED
        BY <1>1, <2>1
<1>3. x \in S => Cardinality(S \ {x}) = Cardinality(S) - 1
    BY FS_RemoveElement
<1> QED
    BY <1>1, <1>2, <1>3

\* The request as text: what stands before the first zero, or all of it.
LEMMA CharsOfRequest ==
    \E n \in 0 .. MaxBuf :
        /\ Chars = [k \in 1 .. n |-> request[k]]
        /\ n = MaxBuf \/ request[n + 1] = 0
        /\ \A k \in 1 .. n : request[k] # 0
<1> DEFINE Ends(m) == /\ m = MaxBuf + 1 \/ request[m] = 0
                      /\ \A k \in 1 .. m - 1 : request[k] # 0
           T == {m \in 1 .. MaxBuf + 1 : m = MaxBuf + 1 \/ request[m] = 0}
           n == CHOOSE m \in 1 .. MaxBuf + 1 : Ends(m)
<1>1. MaxBuf \in Nat /\ MaxBuf > 1
    BY ControlAssumption
<1>2. \E m \in 1 .. MaxBuf + 1 : Ends(m)
    <2>1. T \in SUBSET Nat /\ MaxBuf + 1 \in T
        BY <1>1
    <2>2. PICK m \in T : \A k \in T : m <= k
        BY <2>1, LeastNumber
    <2>3. \A k \in 1 .. m - 1 : request[k] # 0
        BY <1>1, <2>2
    <2> QED
        BY <2>2, <2>3
<1>3. n \in 1 .. MaxBuf + 1 /\ Ends(n)
    BY <1>2
<1>4. Chars = [k \in 1 .. n - 1 |-> request[k]]
    BY DEF Chars
<1> HIDE DEF n
<1> QED
    BY <1>1, <1>3, <1>4

\* A text is a sequence, empty only if the request is.
LEMMA TextsAreTexts ==
    /\ request \in [1 .. MaxBuf -> Nat] => Texts \subseteq Seq(Int)
    /\ Chars # <<>> => <<>> \notin Texts
<1> DEFINE S == {request[k] : k \in 1 .. MaxBuf} \cup {Junk}
<1>1. MaxBuf \in Nat
    BY ControlAssumption
<1>2. PICK n \in 0 .. MaxBuf : Chars = [k \in 1 .. n |-> request[k]]
    BY CharsOfRequest
<1>3. Chars \in Seq(S)
    <2>1. n \in Nat /\ \A k \in 1 .. n : request[k] \in S
        BY <1>1, <1>2
    <2>2. Chars \in [1 .. n -> S]
        BY <1>2, <2>1
    <2> QED
        BY <2>1, <2>2, SeqDef
<1>4. /\ Append(Chars, Junk) \in Seq(S) /\ Append(Chars, Junk) # <<>>
    <2>1. Junk \in S
        OBVIOUS
    <2> QED
        BY <1>3, <2>1, AppendProperties
<1>5. request \in [1 .. MaxBuf -> Nat] => S \subseteq Int
    BY <1>1 DEF Junk
<1>6. Texts \subseteq Seq(S)
    BY <1>3, <1>4 DEF Texts
<1>7. S \subseteq Int => Seq(S) \subseteq Seq(Int)
    <2> HAVE S \subseteq Int
    <2>1. \A q \in Seq(S) : Len(q) \in Nat /\ q \in [1 .. Len(q) -> S]
        BY LenProperties
    <2>2. \A q \in Seq(S) : q \in [1 .. Len(q) -> Int]
        BY <2>1
    <2> QED
        BY <2>1, <2>2, SeqDef
<1> HIDE DEF S
<1> QED
    BY <1>4, <1>5, <1>6, <1>7 DEF Texts

\* The invariant holds when the thread starts.
LEMMA SocketInit == Init => SocketInv
<1> SUFFICES ASSUME Init PROVE SocketInv
    OBVIOUS
<1>1. Open = {}
    BY DEF Init, Open
<1>2. CountCoversOpen
    <2>1. Cardinality(Open) = 0
        BY <1>1, FS_EmptySet
    <2> QED
        BY <2>1 DEF Init, CountCoversOpen
<1> QED
    BY <1>2, ControlAssumption
    DEF Init, SocketInv, QueueOk, ReadyOk, BatchOk, HandlerOk, ExitsOnlyWhenTold

\* Every step keeps the invariant.
LEMMA SocketStep == SocketInv /\ [Next]_vars => SocketInv'
<1> SUFFICES ASSUME SocketInv, [Next]_vars PROVE SocketInv'
    OBVIOUS
<1> USE DEF SocketInv, setting
<1>0. IsFiniteSet(Open) /\ Cardinality(Open) \in Nat /\ count >= 1 + Cardinality(Open)
    BY ControlAssumption, FS_Subset, FS_CardinalityType DEF Open, CountCoversOpen
<1>1. ASSUME NEW p \in Peers, Connect(p) PROVE SocketInv'
    <2>1. /\ conn[p] = "away" /\ conn' = [conn EXCEPT ![p] = "queued"]
          /\ backlog' = Append(backlog, p) /\ ready' = ready \cup {Sock}
          /\ UNCHANGED <<batch, count, cur, tpc, executed, faults, maxEvents>>
        BY <1>1 DEF Connect, PeerFrame, handlerVars
    <2>2. Open' = Open
        BY <2>1 DEF Open
    <2>3. QueueOk'
        <3>1. \A k \in 1 .. Len(backlog) : backlog[k] \in Peers /\ backlog[k] # p
            BY <2>1, ElementOfSeq DEF QueueOk
        <3>2. /\ backlog' \in Seq(Peers) /\ Len(backlog') = Len(backlog) + 1
              /\ \A k \in 1 .. Len(backlog) : backlog'[k] = backlog[k]
              /\ backlog'[Len(backlog) + 1] = p
            BY <2>1, AppendProperties DEF QueueOk
        <3>3. Len(backlog) \in Nat
            BY LenProperties DEF QueueOk
        <3>4. \A k \in 1 .. Len(backlog') : conn'[backlog'[k]] = "queued"
            <4> TAKE k \in 1 .. Len(backlog')
            <4>1. CASE k \in 1 .. Len(backlog)
                BY <2>1, <3>1, <3>2, <4>1 DEF QueueOk
            <4>2. CASE k = Len(backlog) + 1
                BY <2>1, <3>2, <4>2
            <4> QED
                BY <3>2, <3>3, <4>1, <4>2
        <3>5. \A k, l \in 1 .. Len(backlog') : backlog'[k] = backlog'[l] => k = l
            BY <3>1, <3>2, <3>3 DEF QueueOk
        <3> QED
            BY <3>2, <3>4, <3>5 DEF QueueOk
    <2>4. BatchOk'
        <3>1. backlog' # <<>>
            BY <2>1, AppendProperties DEF QueueOk
        <3> QED
            BY <2>1, <2>2, <3>1 DEF BatchOk
    <2>5. CountCoversOpen'
        BY <1>0, <2>1, <2>2 DEF CountCoversOpen, Open
    <2> QED
        BY <2>1, <2>2, <2>3, <2>4, <2>5 DEF ReadyOk, HandlerOk, ExitsOnlyWhenTold
<1>2. ASSUME NEW p \in Peers, Write(p) \/ Shut(p) \/ HangUp(p) PROVE SocketInv'
    <2>1. /\ UNCHANGED <<conn, backlog, batch, count, cur, tpc, executed, faults, maxEvents>>
          /\ ready' = IF conn[p] = "open" THEN ready \cup {p} ELSE ready
        BY <1>2 DEF Write, Shut, HangUp, Wake, PeerFrame, handlerVars
    <2>2. Open' = Open /\ CountCoversOpen'
        BY <2>1 DEF Open, CountCoversOpen
    <2>3. ReadyOk'
        BY <2>1, <2>2 DEF ReadyOk, Open
    <2> QED
        BY <2>1, <2>2, <2>3 DEF QueueOk, BatchOk, HandlerOk, ExitsOnlyWhenTold
<1>3. CASE EpollWait
    <2>1. PICK S \in SUBSET ready :
              /\ ready' = ready \ S
              /\ batch' = {Event(fd) : fd \in {s \in S : Readable(s)}}
              /\ tpc' = IF Cardinality({s \in S : Readable(s)}) <= maxEvents
                        THEN "batch" ELSE "overrun"
        <3>1. ~(count <= 0)
            BY <1>0
        <3> QED
            BY <1>3, <3>1 DEF EpollWait
    <2>u. UNCHANGED <<conn, backlog, count, cur, executed, faults, maxEvents>>
        BY <1>3 DEF EpollWait, handlerVars, peerVars
    <2>2. Open' = Open
        BY <2>u DEF Open
    <2>3. BatchOk'
        <3>2. \A e \in batch' : \E fd \in ready : e = Event(fd) /\ Readable(fd)
            BY <2>1
        <3>3. \A fd \in ready : Readable(fd) =>
                  /\ Event(fd).fd = fd
                  /\ IF fd = Sock THEN ~Event(fd).hup /\ backlog # <<>> ELSE fd \in Open
            BY DEF ReadyOk, Event, Readable
        <3>4. \A e \in batch' : IF e.fd = Sock THEN ~e.hup /\ backlog # <<>> ELSE e.fd \in Open
            BY <3>2, <3>3
        <3>5. \A e, f \in batch' : e.fd = f.fd => e = f
            BY <3>2, <3>3
        <3> QED
            BY <2>u, <2>2, <3>4, <3>5 DEF BatchOk
    <2>4. tpc' = "overrun" => Cardinality(Open) >= maxEvents
        <3> DEFINE R == {s \in S : Readable(s)}
        <3>1. IsFiniteSet(Open \cup {Sock}) /\ Cardinality(Open \cup {Sock}) <= Cardinality(Open) + 1
            BY <1>0, OpenCounted
        <3>2. R \subseteq Open \cup {Sock}
            BY DEF ReadyOk
        <3>3. IsFiniteSet(R) /\ Cardinality(R) <= Cardinality(Open \cup {Sock})
            BY <3>1, <3>2, FS_Subset
        <3>4. Cardinality(R) \in Nat /\ Cardinality(Open \cup {Sock}) \in Nat
            BY <3>1, <3>3, FS_CardinalityType
        <3> QED
            BY <1>0, <2>1, <3>1, <3>3, <3>4
    <2>5. CountCoversOpen'
        BY <2>u, <2>2, <2>4 DEF CountCoversOpen
    <2> QED
        BY <2>1, <2>u, <2>2, <2>3, <2>5 DEF QueueOk, ReadyOk, HandlerOk, ExitsOnlyWhenTold
<1>4. CASE BatchDone
    <2>1. UNCHANGED <<conn, backlog, ready, batch, count, executed, faults, maxEvents>> /\ tpc' = "wait"
        BY <1>4 DEF BatchDone, epollVars
    <2> QED
        BY <2>1 DEF QueueOk, ReadyOk, BatchOk, HandlerOk, Open, CountCoversOpen, ExitsOnlyWhenTold
<1>5. ASSUME NEW e \in batch, TakeHup(e) PROVE SocketInv'
    <2>1. /\ batch' = batch \ {e} /\ conn' = [conn EXCEPT ![e.fd] = "closed"]
          /\ ready' = ready \ {e.fd} /\ e.fd \in Open
          /\ UNCHANGED <<backlog, count, cur, tpc, executed, faults, maxEvents>> /\ tpc = "batch"
        BY <1>5 DEF TakeHup, BatchOk, handlerVars
    <2>2. Open' = Open \ {e.fd}
        BY <2>1 DEF Open
    <2>3. CountCoversOpen'
        <3>1. Cardinality(Open') = Cardinality(Open) - 1
            BY <1>0, <2>1, <2>2, OpenCounted
        <3> QED
            BY <1>0, <2>1, <3>1 DEF CountCoversOpen, Open
    <2>4. QueueOk'
        BY <2>1, ElementOfSeq DEF QueueOk, Open
    <2>5. BatchOk' /\ ReadyOk'
        BY <2>1, <2>2 DEF BatchOk, ReadyOk
    <2> QED
        BY <2>1, <2>3, <2>4, <2>5 DEF HandlerOk, ExitsOnlyWhenTold
<1>6. ASSUME NEW e \in batch, Accept(e) PROVE SocketInv'
    <2> DEFINE p == Head(backlog)
    <2>1. /\ e.fd = Sock /\ batch' = batch \ {e} /\ conn' = [conn EXCEPT ![p] = "open"]
          /\ backlog' = Tail(backlog) /\ ready' \subseteq ready \cup {p}
          /\ count' = count + 1
          /\ UNCHANGED <<cur, tpc, executed, faults, maxEvents>> /\ tpc = "batch"
        BY <1>6 DEF Accept, handlerVars
    <2>2. backlog # <<>> /\ Len(backlog) \in Nat /\ Len(backlog) > 0 /\ p = backlog[1]
        BY <2>1, EmptySeq, LenProperties DEF BatchOk, QueueOk
    <2>3. p \in Peers
        BY <2>2, ElementOfSeq DEF QueueOk
    <2>4. Open' = Open \cup {p}
        BY <2>1, <2>3 DEF Open
    <2>5. CountCoversOpen'
        <3>1. Cardinality(Open') \in Nat /\ Cardinality(Open') <= Cardinality(Open) + 1
            BY <1>0, <2>4, OpenCounted
        <3> QED
            BY <1>0, <2>1, <3>1 DEF CountCoversOpen, Open
    <2>6. QueueOk'
        <3>1. /\ backlog' \in Seq(Peers) /\ Len(backlog') = Len(backlog) - 1
              /\ \A k \in 1 .. Len(backlog') : backlog'[k] = backlog[k + 1]
            BY <2>1, <2>2, HeadTailProperties DEF QueueOk
        <3>2. \A k \in 1 .. Len(backlog') :
                  k + 1 \in 1 .. Len(backlog) /\ backlog[k + 1] \in Peers /\ backlog[k + 1] # p
            BY <2>2, <3>1, ElementOfSeq DEF QueueOk
        <3>3. \A k \in 1 .. Len(backlog') : conn'[backlog'[k]] = "queued"
            BY <2>1, <3>1, <3>2 DEF QueueOk
        <3>4. \A k, l \in 1 .. Len(backlog') : backlog'[k] = backlog'[l] => k = l
            BY <2>2, <3>1, <3>2 DEF QueueOk
        <3> QED
            BY <3>1, <3>3, <3>4 DEF QueueOk
    <2>7. BatchOk' /\ ReadyOk'
        BY <2>1, <2>4 DEF BatchOk, ReadyOk
    <2>8. DOMAIN executed' = Peers /\ conn' \in [Peers -> {"away", "queued", "open", "closed"}]
        BY <2>1
    <2> QED
        BY <2>1, <2>5, <2>6, <2>7, <2>8 DEF HandlerOk, ExitsOnlyWhenTold
<1>7. ASSUME NEW e \in batch, Handle(e) PROVE SocketInv'
    <2>1. /\ e.fd # Sock /\ batch' = batch \ {e} /\ cur' = e.fd
          /\ UNCHANGED <<conn, backlog, ready, count, executed, faults, maxEvents>> /\ tpc' = "read"
        BY <1>7 DEF Handle
    <2>2. BatchOk' /\ HandlerOk'
        BY <2>1 DEF BatchOk, HandlerOk, Open
    <2> QED
        BY <2>1, <2>2 DEF QueueOk, ReadyOk, Open, CountCoversOpen, ExitsOnlyWhenTold
<1>8. CASE ReadData \/ ReadNothing
    <2>1. UNCHANGED <<conn, backlog, ready, batch, count, cur, tpc, executed, faults, maxEvents>>
        BY <1>8 DEF ReadData, ReadNothing, ReadFrame, epollVars
    <2> QED
        BY <2>1 DEF QueueOk, ReadyOk, BatchOk, HandlerOk, Open, CountCoversOpen, ExitsOnlyWhenTold
<1>9. CASE Dispatch
    <2>1. /\ tpc = "read" /\ conn' = [conn EXCEPT ![cur] = "closed"] /\ ready' = ready \ {cur}
          /\ \E text \in Texts : executed' = [executed EXCEPT ![cur] = text]
          /\ tpc' = (IF ToldToStop THEN "exited" ELSE "batch")
          /\ count' = (IF ToldToStop THEN count ELSE count - 1)
          /\ UNCHANGED <<backlog, batch, faults, maxEvents>>
        BY <1>9 DEF Dispatch, Return
    <2>2. cur \in Open /\ Open' = Open \ {cur}
        BY <2>1 DEF Open, HandlerOk
    <2>3. CountCoversOpen' /\ count' \in Int
        <3>1. Cardinality(Open') = Cardinality(Open) - 1
            BY <1>0, <2>2, OpenCounted
        <3> QED
            BY <1>0, <2>1, <3>1 DEF CountCoversOpen, Open
    <2>4. QueueOk'
        BY <2>1, <2>2, ElementOfSeq DEF QueueOk, Open
    <2>5. BatchOk' /\ ReadyOk'
        BY <2>1, <2>2 DEF BatchOk, ReadyOk, HandlerOk
    <2>6. ExitsOnlyWhenTold'
        <3>1. CASE ToldToStop
            <4>1. cur \in Stoppers /\ Chars # <<>>
                BY <3>1 DEF ToldToStop
            <4>2. PICK text \in Texts : executed' = [executed EXCEPT ![cur] = text]
                BY <2>1
            <4>3. text # <<>>
                BY <4>1, <4>2, TextsAreTexts
            <4>4. executed'[cur] # <<>>
                BY <2>2, <4>2, <4>3 DEF Open
            <4> QED
                BY <4>1, <4>4 DEF ExitsOnlyWhenTold
        <3>2. CASE ~ToldToStop
            BY <2>1, <3>2 DEF ExitsOnlyWhenTold
        <3> QED
            BY <3>1, <3>2
    <2>7. HandlerOk'
        BY <2>1 DEF HandlerOk
    <2>8. DOMAIN executed' = Peers /\ conn' \in [Peers -> {"away", "queued", "open", "closed"}]
        BY <2>1
    <2> QED
        BY <2>1, <2>3, <2>4, <2>5, <2>6, <2>7, <2>8
<1>10. ASSUME NEW e \in batch, AcceptFails(e) PROVE SocketInv'
    <2>1. /\ UNCHANGED <<conn, backlog, ready, batch, count, cur, executed, faults, maxEvents>>
          /\ tpc' = "exited" /\ "nofds" \in faults
        BY <1>10 DEF AcceptFails, epollVars, handlerVars
    <2> QED
        BY <2>1 DEF QueueOk, ReadyOk, BatchOk, HandlerOk, Open, CountCoversOpen, ExitsOnlyWhenTold
<1>11. CASE UNCHANGED vars
    BY <1>11 DEF vars, epollVars, handlerVars, QueueOk, ReadyOk, BatchOk, HandlerOk, Open,
                 CountCoversOpen, ExitsOnlyWhenTold
<1> QED
    BY <1>1, <1>2, <1>3, <1>4, <1>5, <1>6, <1>7, <1>8, <1>9, <1>10, <1>11 DEF Next, Thread

\* Together: the invariant of the control socket's thread.
LEMMA SocketCorrect == Spec => []SocketInv
BY SocketInit, SocketStep, PTL DEF Spec

\* However connections come, are served and hang up, current_fd_count has room
\* for the listening socket and for every connection that is open: epoll_wait
\* is never called for too few events.
THEOREM CountSuffices == Spec => []CountCoversOpen
<1>1. SocketInv => CountCoversOpen
    BY DEF SocketInv
<1> QED
    BY <1>1, SocketCorrect, PTL

\* The thread never ends because epoll_wait had no room: a peer told it to stop,
\* or accept found no descriptor.
THEOREM EndsOnlyWhenTold == Spec => []ExitsOnlyWhenTold
<1>1. SocketInv => ExitsOnlyWhenTold
    BY DEF SocketInv
<1> QED
    BY <1>1, SocketCorrect, PTL

-----------------------------------------------------------------------------
(* What the handler reads, and what it carries out.                        *)

WholeRequest(p) == [n \in 1 .. MaxBuf |-> IF n < size[p] THEN n ELSE 0]

\* What the kernel keeps for a connection: nothing has been read of a line before
\* its handler runs, and never more than was written.
StreamsOk ==
    /\ end \in [Peers -> {"up", "shut", "down"}]
    /\ size \in [Peers -> Nat \ {0, 1}]
    /\ sent \in [Peers -> Nat] /\ got \in [Peers -> Nat]
    /\ \A p \in Peers : got[p] <= sent[p] /\ sent[p] <= size[p]
    /\ \A p \in Peers : conn[p] # "closed" /\ p # cur => got[p] = 0

\* The handler's request has room for what is read next: read_bytes falls behind
\* what was read by one for each EAGAIN, and is never ahead of it.
RequestOk ==
    /\ cur \in Peers \cup {NoPeer} /\ (cur # NoPeer <=> tpc = "read")
    /\ request \in [1 .. MaxBuf -> Nat]
    /\ pos \in -1 .. MaxBuf /\ done \in BOOLEAN
    /\ cur # NoPeer => pos <= got[cur]

\* A newline that was found ends the request, and before it is found the request
\* is empty behind what was read.
EndOk ==
    cur # NoPeer =>
        IF done THEN Ended
        ELSE /\ got[cur] < size[cur]
             /\ \A n \in 1 .. MaxBuf : n > got[cur] => request[n] = 0

\* A handler that found the whole line has read nothing of it yet, or all of it, or
\* as much as the request holds.
WholeLineOk ==
    tpc = "read" /\ cur \notin torn =>
        /\ sent[cur] = size[cur]
        /\ \/ ~done /\ pos = 0 /\ got[cur] = 0 /\ request = Nothing
           \/ (done \/ pos = MaxBuf) /\ request = WholeRequest(cur)

\* Peers that write their line in one go have written it when epoll reports
\* something to read.
TidyOk ==
    "sloppy" \notin faults =>
        /\ torn = {}
        /\ \A p \in Peers : /\ sent[p] \in {0, size[p]}
                            /\ end[p] = "shut" => sent[p] = size[p]
        /\ \A e \in batch : e.fd # Sock /\ ~e.hup => sent[e.fd] = size[e.fd]

NoJunk(p) == Fits(p) => \A n \in 1 .. Len(executed[p]) : executed[p][n] # Junk

ReadInv ==
    /\ [faults |-> faults, size |-> size, maxEvents |-> maxEvents] \in Settings
    /\ batch \subseteq [fd : Peers \cup {Sock}, hup : BOOLEAN]
    /\ tpc \in {"wait", "batch", "read", "exited", "overrun"}
    /\ torn \subseteq Peers
    /\ \A p \in Peers : executed[p] \in Seq(Int)
    /\ \A p \in Peers : executed[p] # <<>> => executed[p] \in Carried(p) \/ p \in torn
    /\ \A p \in Peers : NoJunk(p)
    /\ StreamsOk /\ RequestOk /\ EndOk /\ WholeLineOk /\ TidyOk

\* The text of a whole line is the line if it fits, and its front if it does not.
LEMMA TextOfLine ==
    ASSUME NEW p \in Peers, size[p] \in Nat \ {0, 1}, request = WholeRequest(p)
    PROVE  Texts \subseteq Carried(p)
<1>1. MaxBuf \in Nat /\ MaxBuf > 1
    BY ControlAssumption
<1>2. PICK n \in 0 .. MaxBuf : /\ Chars = [k \in 1 .. n |-> request[k]]
                               /\ n = MaxBuf \/ request[n + 1] = 0
                               /\ \A k \in 1 .. n : request[k] # 0
    BY CharsOfRequest
<1>3. \A k \in 1 .. MaxBuf : request[k] = IF k < size[p] THEN k ELSE 0
    BY DEF WholeRequest
<1>4. CASE Fits(p)
    <2>1. size[p] \in 1 .. MaxBuf /\ request[size[p]] = 0
        BY <1>1, <1>3, <1>4 DEF Fits
    <2>2. n = size[p] - 1
        BY <1>1, <1>2, <1>3, <2>1
    <2>3. \A k \in 1 .. size[p] - 1 : request[k] = k
        BY <1>1, <1>3, <2>1
    <2>4. Chars = Line(p) /\ Ended
        BY <1>2, <2>1, <2>2, <2>3 DEF Line, Ended
    <2> QED
        BY <1>4, <2>4 DEF Texts, Carried
<1>5. CASE ~Fits(p)
    <2>1. \A k \in 1 .. MaxBuf : request[k] = k
        BY <1>1, <1>3, <1>5 DEF Fits
    <2>2. n = MaxBuf
        BY <1>1, <1>2, <2>1
    <2>3. Chars = Front
        BY <1>2, <2>1, <2>2 DEF Front
    <2> QED
        BY <1>5, <2>3 DEF Texts, Carried
<1> QED
    BY <1>4, <1>5

\* A request that ends is carried out without what stands behind it.
LEMMA EndedText ==
    ASSUME request \in [1 .. MaxBuf -> Nat], Ended, NEW t \in Texts
    PROVE  \A n \in 1 .. Len(t) : t[n] # Junk
<1>1. MaxBuf \in Nat
    BY ControlAssumption
<1>2. PICK n \in 0 .. MaxBuf : Chars = [k \in 1 .. n |-> request[k]]
    BY CharsOfRequest
<1>3. t = Chars
    BY DEF Texts
<1>4. Len(t) = n
    BY <1>1, <1>2, <1>3
<1> QED
    BY <1>1, <1>2, <1>3, <1>4 DEF Junk

\* Nothing is read or carried out when the thread starts.
LEMMA ReadInit == Init => ReadInv
<1> SUFFICES ASSUME Init PROVE ReadInv
    OBVIOUS
<1>1. MaxBuf \in Nat /\ Nothing \in [1 .. MaxBuf -> Nat]
    BY ControlAssumption DEF Nothing
<1>2. /\ [faults |-> faults, size |-> size, maxEvents |-> maxEvents] \in Settings
      /\ size \in [Peers -> Nat \ {0, 1}]
    <2>1. PICK s \in Settings : faults = s.faults /\ size = s.size /\ maxEvents = s.maxEvents
        BY DEF Init
    <2>2. s \in [faults : SUBSET {"overlap", "sloppy", "nofds"},
                 size : [Peers -> Nat \ {0, 1}], maxEvents : Nat \ {0}]
        BY ControlAssumption
    <2>3. s = [faults |-> faults, size |-> size, maxEvents |-> maxEvents]
        BY <2>1, <2>2
    <2> QED
        BY <2>1, <2>2, <2>3
<1>3. StreamsOk
    BY <1>2 DEF Init, StreamsOk
<1>4. RequestOk /\ EndOk
    <2>1. cur = NoPeer /\ tpc # "read"
        BY DEF Init
    <2>2. request \in [1 .. MaxBuf -> Nat]
        BY <1>1 DEF Init
    <2>3. pos = 0 /\ done = FALSE
        BY DEF Init
    <2>4. pos \in -1 .. MaxBuf
        BY <1>1, <2>3
    <2>5. done \in BOOLEAN
        BY <2>3
    <2> QED
        BY <2>1, <2>2, <2>4, <2>5 DEF RequestOk, EndOk
<1>5. WholeLineOk /\ TidyOk
    BY DEF Init, WholeLineOk, TidyOk
<1>6. \A p \in Peers : executed[p] = <<>> /\ NoJunk(p)
    BY EmptySeq DEF Init, NoJunk
<1> QED
    BY <1>2, <1>3, <1>4, <1>5, <1>6, EmptySeq DEF Init, ReadInv

\* Every step keeps what is said of the handler's reading.
LEMMA ReadStep == SocketInv /\ ReadInv /\ [Next]_vars => ReadInv'
<1> SUFFICES ASSUME SocketInv, ReadInv, [Next]_vars PROVE ReadInv'
    OBVIOUS
<1>0. /\ MaxBuf \in Nat /\ MaxBuf > 1
      /\ Nothing \in [1 .. MaxBuf -> Nat]
    BY ControlAssumption DEF Nothing
<1> USE <1>0 DEF setting
<1>a. StreamsOk /\ RequestOk /\ EndOk /\ WholeLineOk /\ TidyOk
    BY DEF ReadInv
<1>b. ASSUME UNCHANGED <<executed, size, maxEvents, faults, torn>>
      PROVE  /\ [faults |-> faults, size |-> size, maxEvents |-> maxEvents]' \in Settings
             /\ \A p \in Peers : executed'[p] \in Seq(Int) /\ NoJunk(p)'
             /\ \A p \in Peers : executed'[p] # <<>> => executed'[p] \in Carried(p)' \/ p \in torn'
    BY <1>b DEF ReadInv, NoJunk, Fits, Carried, Line
<1>1. ASSUME NEW p \in Peers, Connect(p) PROVE ReadInv'
    <2>1. /\ conn[p] = "away" /\ conn' = [conn EXCEPT ![p] = "queued"]
          /\ UNCHANGED <<end, sent, got, batch, cur, request, pos, done, torn, tpc, executed, faults, size, maxEvents>>
        BY <1>1 DEF Connect, PeerFrame, handlerVars, peerVars
    <2>2. StreamsOk'
        BY <1>a, <2>1 DEF StreamsOk
    <2> QED
        BY <1>a, <1>b, <2>1, <2>2
        DEF RequestOk, EndOk, Ended, WholeLineOk, WholeRequest, TidyOk, ReadInv
<1>2. ASSUME NEW p \in Peers, Write(p) \/ Shut(p) \/ HangUp(p) PROVE ReadInv'
    <2>1. UNCHANGED <<conn, got, batch, cur, request, pos, done, torn, tpc, executed, faults, size, maxEvents>>
        BY <1>2 DEF Write, Shut, HangUp, PeerFrame, handlerVars
    <2>2. \/ /\ UNCHANGED end
             /\ \E n \in sent[p] + 1 .. size[p] : /\ "sloppy" \in faults \/ n = size[p]
                                                  /\ sent' = [sent EXCEPT ![p] = n]
          \/ /\ UNCHANGED sent /\ end' = [end EXCEPT ![p] = "shut"]
             /\ "sloppy" \in faults \/ sent[p] = size[p]
          \/ UNCHANGED sent /\ end' = [end EXCEPT ![p] = "down"]
        BY <1>2 DEF Write, Shut, HangUp
    <2>3. StreamsOk' /\ \A q \in Peers : sent[q] <= sent'[q]
        <3>1. CASE UNCHANGED end
            <4>1. PICK n \in sent[p] .. size[p] : sent' = [sent EXCEPT ![p] = n]
                BY <1>a, <2>2, <3>1 DEF StreamsOk
            <4>2. n \in Nat /\ sent[p] <= n /\ n <= size[p] /\ got[p] <= n
                BY <1>a DEF StreamsOk
            <4>3. \A q \in Peers : sent[q] <= sent'[q] /\ got[q] <= sent'[q] /\ sent'[q] <= size[q]
                BY <1>a, <4>1, <4>2 DEF StreamsOk
            <4> QED
                BY <1>a, <2>1, <3>1, <4>1, <4>2, <4>3 DEF StreamsOk
        <3>2. CASE UNCHANGED sent
            <4>1. end' \in [Peers -> {"up", "shut", "down"}]
                BY <1>a, <2>2 DEF StreamsOk
            <4> QED
                BY <1>a, <2>1, <3>2, <4>1 DEF StreamsOk
        <3> QED
            BY <2>2, <3>1, <3>2
    <2>4. WholeLineOk'
        <3>1. tpc = "read" /\ sent[cur] = size[cur] => sent'[cur] = size[cur]
            BY <1>a, <2>2, <2>3 DEF StreamsOk, RequestOk
        <3> QED
            BY <1>a, <2>1, <3>1 DEF WholeLineOk, WholeRequest
    <2>5. TidyOk'
        <3>1. CASE "sloppy" \in faults
            BY <1>a, <2>1, <3>1 DEF TidyOk
        <3>2. CASE "sloppy" \notin faults
            <4>1. \A q \in Peers : /\ sent'[q] \in {0, size[q]}
                                   /\ sent[q] = size[q] => sent'[q] = size[q]
                                   /\ end'[q] = "shut" => sent'[q] = size[q]
                BY <1>a, <2>2, <3>2 DEF TidyOk, StreamsOk
            <4>2. \A e \in batch : e.fd # Sock => e.fd \in Peers
                BY DEF ReadInv
            <4> QED
                BY <1>a, <2>1, <3>2, <4>1, <4>2 DEF TidyOk
        <3> QED
            BY <3>1, <3>2
    <2> QED
        BY <1>a, <1>b, <2>1, <2>3, <2>4, <2>5 DEF RequestOk, EndOk, Ended, ReadInv
<1>3. CASE EpollWait
    <2>1. /\ UNCHANGED <<conn, end, sent, got, cur, request, pos, done, torn, executed, faults, size, maxEvents>>
          /\ tpc = "wait" /\ tpc' \in {"batch", "exited", "overrun"}
          /\ \/ UNCHANGED batch
             \/ \E S \in SUBSET ready : batch' = {Event(fd) : fd \in {s \in S : Readable(s)}}
        BY <1>3 DEF EpollWait, handlerVars, peerVars
    <2>2. batch' \subseteq [fd : Peers \cup {Sock}, hup : BOOLEAN]
        <3>1. \A fd \in ready : Event(fd) \in [fd : Peers \cup {Sock}, hup : BOOLEAN]
            BY DEF SocketInv, ReadyOk, Open, Event
        <3> QED
            BY <2>1, <3>1 DEF ReadInv
    <2>3. ASSUME "sloppy" \notin faults, NEW e \in batch', e.fd # Sock, ~e.hup
          PROVE  sent[e.fd] = size[e.fd]
        <3>1. CASE UNCHANGED batch
            BY <1>a, <2>3, <3>1 DEF TidyOk
        <3>2. CASE batch' # batch
            <4>1. PICK fd \in ready : e = Event(fd) /\ Readable(fd)
                BY <2>1, <2>3, <3>2
            <4>2. fd \in Peers /\ e.fd = fd /\ fd # Sock /\ end[fd] # "down"
                BY <2>3, <4>1 DEF SocketInv, ReadyOk, Open, Event
            <4>3. Unread(fd) > 0 \/ end[fd] = "shut"
                BY <1>a, <4>1, <4>2 DEF Readable, StreamsOk
            <4> QED
                BY <1>a, <2>3, <4>2, <4>3 DEF TidyOk, StreamsOk, Unread
        <3> QED
            BY <3>1, <3>2
    <2>4. TidyOk'
        BY <1>a, <2>1, <2>3 DEF TidyOk
    <2> QED
        BY <1>a, <1>b, <2>1, <2>2, <2>4
        DEF StreamsOk, RequestOk, EndOk, Ended, WholeLineOk, WholeRequest, ReadInv
<1>4. CASE BatchDone
    BY <1>a, <1>b, <1>4 DEF BatchDone, peerVars, epollVars, handlerVars, StreamsOk, RequestOk,
       EndOk, Ended, WholeLineOk, WholeRequest, TidyOk, ReadInv
<1>5. ASSUME NEW e \in batch, TakeHup(e) \/ Accept(e) PROVE ReadInv'
    <2>1. /\ tpc = "batch" /\ batch' = batch \ {e}
          /\ UNCHANGED <<end, sent, got, cur, request, pos, done, torn, tpc, executed, faults, size, maxEvents>>
        BY <1>5 DEF TakeHup, Accept, handlerVars, peerVars
    <2>2. \A q \in Peers : conn'[q] # "closed" => conn[q] # "closed"
        <3>1. CASE TakeHup(e)
            BY <3>1 DEF TakeHup, SocketInv, BatchOk, Open
        <3>2. CASE Accept(e)
            <4>1. /\ backlog # <<>> /\ Len(backlog) \in Nat /\ Len(backlog) > 0
                  /\ Head(backlog) = backlog[1]
                BY <3>2, EmptySeq, LenProperties DEF Accept, SocketInv, BatchOk, QueueOk
            <4>2. conn[Head(backlog)] = "queued"
                BY <4>1 DEF SocketInv, QueueOk
            <4> QED
                BY <3>2, <4>2 DEF Accept, SocketInv
        <3> QED
            BY <1>5, <3>1, <3>2
    <2> QED
        BY <1>a, <1>b, <2>1, <2>2
        DEF StreamsOk, RequestOk, EndOk, Ended, WholeLineOk, WholeRequest, TidyOk, ReadInv
<1>6. ASSUME NEW e \in batch, Handle(e) PROVE ReadInv'
    <2>1. /\ tpc = "batch" /\ tpc' = "read" /\ batch' = batch \ {e} /\ cur' = e.fd
          /\ ~e.hup /\ e.fd # Sock
          /\ request' = Nothing /\ pos' = 0 /\ done' = FALSE
          /\ torn' = IF sent[e.fd] < size[e.fd] THEN torn \cup {e.fd} ELSE torn
          /\ UNCHANGED <<conn, end, sent, got, executed, faults, size, maxEvents>>
        BY <1>6 DEF Handle, peerVars
    <2>2. e.fd \in Peers /\ conn[e.fd] = "open"
        BY <2>1 DEF SocketInv, BatchOk, Open
    <2>3. cur = NoPeer /\ got[e.fd] = 0
        BY <1>a, <2>1, <2>2, ControlAssumption DEF RequestOk, StreamsOk
    <2>4. StreamsOk'
        BY <1>a, <2>1, <2>3, ControlAssumption DEF StreamsOk
    <2>5. RequestOk'
        <3>1. cur' \in Peers /\ cur' # NoPeer /\ got'[cur'] = 0
            BY <2>1, <2>2, <2>3, ControlAssumption
        <3>2. request' \in [1 .. MaxBuf -> Nat] /\ pos' \in -1 .. MaxBuf
            BY <2>1
        <3> QED
            <4>1. cur' # NoPeer <=> tpc' = "read"
                BY <2>1, <3>1
            <4>2. pos' = 0 /\ 0 <= got'[cur']
                BY <2>1, <3>1
            <4>3. done' \in BOOLEAN
                BY <2>1
            <4> QED
                BY <3>1, <3>2, <4>1, <4>2, <4>3 DEF RequestOk
    <2>6. WholeLineOk' /\ TidyOk'
        <3>1. sent[e.fd] \in Nat /\ size[e.fd] \in Nat /\ sent[e.fd] <= size[e.fd]
            BY <1>a, <2>2 DEF StreamsOk
        <3> QED
            BY <1>a, <2>1, <2>2, <2>3, <3>1 DEF WholeLineOk, TidyOk
    <2>7. EndOk'
        <3>1. size[e.fd] > 0 /\ got'[cur'] = 0 /\ \A n \in 1 .. MaxBuf : request'[n] = 0
            BY <1>a, <2>1, <2>2, <2>3 DEF StreamsOk, Nothing
        <3> QED
            BY <1>a, <2>1, <2>2, <3>1 DEF EndOk, StreamsOk
    <2>8. \A p \in Peers : /\ executed'[p] \in Seq(Int) /\ NoJunk(p)'
                           /\ executed'[p] # <<>> => executed'[p] \in Carried(p)' \/ p \in torn'
        BY <2>1 DEF ReadInv, NoJunk, Fits, Carried, Line
    <2> QED
        BY <2>1, <2>2, <2>4, <2>5, <2>6, <2>7, <2>8 DEF ReadInv
<1>7. CASE ReadData
    <2> DEFINE c == Chunk
    <2>1. /\ tpc = "read" /\ ~done /\ pos \in 0 .. MaxBuf - 2 /\ Unread(cur) > 0
          /\ request' = [n \in 1 .. MaxBuf |->
                IF n \in pos + 1 .. pos + c
                THEN IF got[cur] + n - pos = size[cur] THEN 0 ELSE got[cur] + n - pos
                ELSE request[n]]
          /\ done' \in BOOLEAN /\ (done' <=> got[cur] + c = size[cur])
          /\ pos' = pos + c /\ got' = [got EXCEPT ![cur] = @ + c]
          /\ UNCHANGED <<conn, end, sent, batch, cur, torn, tpc, executed, faults, size, maxEvents>>
        BY <1>7 DEF ReadData, Reading, ReadFrame, peerVars, epollVars
    <2>2. /\ cur \in Peers /\ cur # NoPeer
          /\ sent[cur] \in Nat /\ got[cur] \in Nat /\ size[cur] \in Nat
          /\ got[cur] <= sent[cur] /\ sent[cur] <= size[cur] /\ pos <= got[cur]
        BY <1>a, <2>1, ControlAssumption DEF RequestOk, StreamsOk
    <2>u. Unread(cur) \in Nat /\ Unread(cur) > 0 /\ got[cur] + Unread(cur) = sent[cur]
        <3>1. Unread(cur) = sent[cur] - got[cur] /\ Unread(cur) > 0
            BY <2>1 DEF Unread
        <3> QED
            BY <2>2, <3>1
    <2>k. \/ c = Unread(cur) /\ c <= MaxBuf - pos
          \/ c = MaxBuf - pos /\ c < Unread(cur)
        BY <2>1, <2>u DEF Chunk
    <2> HIDE DEF c
    <2>3. c \in Nat /\ c > 0 /\ pos + c <= MaxBuf /\ got[cur] + c <= sent[cur]
        BY <2>1, <2>2, <2>u, <2>k
    <2>4. got'[cur] = got[cur] + c /\ \A q \in Peers \ {cur} : got'[q] = got[q]
        BY <1>a, <2>1, <2>2 DEF StreamsOk
    <2>5. StreamsOk'
        BY <1>a, <2>1, <2>2, <2>3, <2>4 DEF StreamsOk
    <2>6. RequestOk'
        <3>1. \A n \in 1 .. MaxBuf : request'[n] \in Nat
            <4> TAKE n \in 1 .. MaxBuf
            <4>1. CASE n \in pos + 1 .. pos + c
                <5>1. got[cur] + n - pos \in Nat
                    BY <2>1, <2>2, <2>3, <4>1
                <5> QED
                    BY <2>1, <4>1, <5>1
            <4>2. CASE n \notin pos + 1 .. pos + c
                BY <1>a, <2>1, <4>2 DEF RequestOk
            <4> QED
                BY <4>1, <4>2
        <3>2. request' \in [1 .. MaxBuf -> Nat]
            BY <2>1, <3>1
        <3>3. pos' \in -1 .. MaxBuf /\ pos' <= got'[cur] /\ done' \in BOOLEAN
            BY <2>1, <2>2, <2>3, <2>4
        <3> QED
            BY <1>a, <2>1, <3>2, <3>3 DEF RequestOk
    <2>7. EndOk'
        <3>1. ASSUME done' PROVE Ended'
            <4>1. pos + c \in 1 .. MaxBuf /\ request'[pos + c] = 0
                BY <2>1, <2>2, <2>3, <3>1
            <4> QED
                BY <4>1 DEF Ended
        <3>2. ASSUME ~done' PROVE got'[cur] < size[cur]
            <4>1. got[cur] + c # size[cur]
                BY <2>1, <3>2
            <4> QED
                BY <2>2, <2>3, <2>4, <4>1
        <3>3. \A n \in 1 .. MaxBuf : n > got'[cur] => request'[n] = 0
            <4> TAKE n \in 1 .. MaxBuf
            <4> HAVE n > got'[cur]
            <4>1. n > got[cur] /\ n \notin pos + 1 .. pos + c
                BY <2>1, <2>2, <2>3, <2>4
            <4> QED
                BY <1>a, <2>1, <2>2, <4>1 DEF EndOk
        <3> QED
            BY <2>1, <3>1, <3>2, <3>3 DEF EndOk
    <2>8. WholeLineOk'
        <3> SUFFICES ASSUME cur \notin torn
                     PROVE  /\ sent[cur] = size[cur] /\ (done' \/ pos' = MaxBuf)
                            /\ request' = WholeRequest(cur)
            BY <2>1 DEF WholeLineOk, WholeRequest
        <3>1. sent[cur] = size[cur] /\ pos = 0 /\ got[cur] = 0 /\ request = Nothing
            BY <1>a, <2>1 DEF WholeLineOk
        <3>2. c = size[cur] \/ (c = MaxBuf /\ MaxBuf < size[cur])
            BY <2>1, <2>2, <2>u, <2>k, <3>1
        <3>3. done' \/ pos' = MaxBuf
            BY <2>1, <2>2, <2>3, <3>1, <3>2
        <3>4. ASSUME NEW n \in 1 .. MaxBuf PROVE request'[n] = IF n < size[cur] THEN n ELSE 0
            <4>1. CASE n \in 1 .. c
                BY <2>1, <2>2, <2>3, <3>1, <3>2, <4>1
            <4>2. CASE n \notin 1 .. c
                BY <2>1, <2>2, <2>3, <3>1, <3>2, <4>2 DEF Nothing
            <4> QED
                BY <4>1, <4>2
        <3> QED
            BY <2>1, <3>1, <3>3, <3>4 DEF WholeRequest
    <2> QED
        BY <1>a, <1>b, <2>1, <2>5, <2>6, <2>7, <2>8 DEF TidyOk, ReadInv
<1>8. CASE ReadNothing
    <2>1. /\ tpc = "read" /\ ~done /\ pos \in 0 .. MaxBuf - 2 /\ Unread(cur) = 0 /\ pos' = pos - 1
          /\ UNCHANGED <<conn, end, sent, got, batch, cur, request, done, torn, tpc, executed, faults, size, maxEvents>>
        BY <1>8 DEF ReadNothing, Reading, ReadFrame, peerVars, epollVars
    <2>2. cur \in Peers /\ sent[cur] \in Nat /\ got[cur] \in Nat /\ size[cur] \in Nat \ {0, 1}
        BY <1>a, <2>1 DEF RequestOk, StreamsOk
    <2>3. RequestOk'
        BY <1>a, <2>1, <2>2 DEF RequestOk
    <2>4. cur \in torn
        BY <1>a, <2>1, <2>2 DEF WholeLineOk, Unread
    <2> QED
        BY <1>a, <1>b, <2>1, <2>3, <2>4
        DEF StreamsOk, EndOk, Ended, WholeLineOk, TidyOk, ReadInv
<1>9. CASE Dispatch
    <2>1. /\ tpc = "read" /\ ~(~done /\ pos \in 0 .. MaxBuf - 2)
          /\ conn' = [conn EXCEPT ![cur] = "closed"]
          /\ tpc' \in {"exited", "batch"} /\ cur' = NoPeer
          /\ request' = Nothing /\ pos' = 0 /\ done' = FALSE
          /\ UNCHANGED <<end, sent, batch, got, torn, faults, size, maxEvents>>
        BY <1>9 DEF Dispatch, Reading, Return, peerVars
    <2>t. PICK text \in Texts : executed' = [executed EXCEPT ![cur] = text]
        BY <1>9 DEF Dispatch, Return
    <2>2. cur \in Peers /\ cur # NoPeer /\ size[cur] \in Nat \ {0, 1}
        BY <1>a, <2>1, ControlAssumption DEF RequestOk, StreamsOk
    <2>3. text \in Seq(Int) /\ (cur \in torn \/ text \in Carried(cur))
        <3>1. cur \in torn \/ request = WholeRequest(cur)
            BY <1>a, <2>1 DEF WholeLineOk
        <3> QED
            BY <1>a, <2>2, <3>1, TextsAreTexts, TextOfLine DEF RequestOk
    <2>n. Fits(cur) => \A n \in 1 .. Len(text) : text[n] # Junk
        <3> HAVE Fits(cur)
        <3>1. Ended
            <4>1. CASE done
                BY <1>a, <2>2, <4>1 DEF EndOk
            <4>2. CASE ~done
                <5>1. got[cur] \in Nat /\ got[cur] < size[cur] /\ size[cur] <= MaxBuf
                    BY <1>a, <2>2, <4>2 DEF EndOk, StreamsOk, Fits
                <5>2. request[MaxBuf] = 0
                    BY <1>a, <2>2, <4>2, <5>1 DEF EndOk
                <5> QED
                    BY <5>2 DEF Ended
            <4> QED
                BY <4>1, <4>2
        <3> QED
            BY <1>a, <3>1, EndedText DEF RequestOk
    <2>4. \A p \in Peers : executed'[p] = IF p = cur THEN text ELSE executed[p]
        BY <2>2, <2>t DEF SocketInv
    <2>5. StreamsOk'
        BY <1>a, <2>1, <2>2 DEF StreamsOk, SocketInv
    <2>6. RequestOk' /\ EndOk'
        <3>1. cur' \in Peers \cup {NoPeer} /\ (cur' # NoPeer <=> tpc' = "read")
            BY <2>1
        <3>2. request' \in [1 .. MaxBuf -> Nat] /\ pos' \in -1 .. MaxBuf
            BY <2>1
        <3> QED
            BY <1>a, <2>1, <3>1, <3>2 DEF RequestOk, EndOk
    <2>7. WholeLineOk' /\ TidyOk'
        BY <1>a, <2>1 DEF WholeLineOk, TidyOk
    <2>8. \A p \in Peers : /\ executed'[p] \in Seq(Int) /\ NoJunk(p)'
                           /\ executed'[p] # <<>> => executed'[p] \in Carried(p)' \/ p \in torn'
        <3> TAKE p \in Peers
        <3>1. Carried(p)' = Carried(p) /\ (Fits(p)' <=> Fits(p))
            BY <2>1 DEF Carried, Fits, Line
        <3>2. CASE p = cur
            BY <2>1, <2>3, <2>n, <2>4, <3>1, <3>2 DEF NoJunk
        <3>3. CASE p # cur
            BY <2>1, <2>4, <3>1, <3>3 DEF NoJunk, ReadInv
        <3> QED
            BY <3>2, <3>3
    <2> QED
        BY <2>1, <2>5, <2>6, <2>7, <2>8 DEF ReadInv
<1>10. ASSUME NEW e \in batch, AcceptFails(e) PROVE ReadInv'
    BY <1>a, <1>b, <1>10 DEF AcceptFails, peerVars, epollVars, handlerVars, StreamsOk, RequestOk,
       EndOk, Ended, WholeLineOk, WholeRequest, TidyOk, ReadInv
<1>11. CASE UNCHANGED vars
    BY <1>a, <1>b, <1>11 DEF vars, peerVars, epollVars, handlerVars, StreamsOk, RequestOk,
       EndOk, Ended, WholeLineOk, WholeRequest, TidyOk, ReadInv
<1> QED
    BY <1>1, <1>2, <1>3, <1>4, <1>5, <1>6, <1>7, <1>8, <1>9, <1>10, <1>11 DEF Next, Thread

\* Together: the invariant of the handler's reading.
LEMMA ReadCorrect == Spec => [](SocketInv /\ ReadInv)
BY SocketInit, SocketStep, ReadInit, ReadStep, PTL DEF Spec

\* The variables have their types; in particular read_bytes, from which 1 is taken
\* for each EAGAIN, falls to -1 and no further, and never passes the buffer.
THEOREM SocketTypes == Spec => []TypeOK
<1>1. SocketInv /\ ReadInv => TypeOK
    <2> SUFFICES ASSUME SocketInv, ReadInv PROVE TypeOK
        OBVIOUS
    <2>1. count \in Nat
        <3>1. IsFiniteSet(Open) /\ Cardinality(Open) \in Nat
            BY ControlAssumption, FS_Subset, FS_CardinalityType DEF Open
        <3> QED
            BY <3>1 DEF SocketInv, CountCoversOpen, Open
    <2>2. ready \subseteq Peers \cup {Sock}
        BY DEF SocketInv, ReadyOk, Open
    <2> QED
        BY <2>1, <2>2 DEF SocketInv, QueueOk, ReadInv, StreamsOk, RequestOk, TypeOK
<1> QED
    BY <1>1, ReadCorrect, PTL

\* For any size of the buffer and lines of any length: a line that fits and was there
\* when its handler began is carried out as it was sent or not at all, a longer one is
\* cut at the end of the buffer and nowhere else, and the daemon reads on behind its
\* request for no line that fits.
THEOREM LinesWhole == Spec => []ExecutedAsSent
<1>1. ReadInv => ExecutedAsSent
    BY DEF ReadInv, NoJunk, TidyOk, ExecutedAsSent
<1> QED
    BY <1>1, ReadCorrect, PTL

-----------------------------------------------------------------------------
(* No event is lost.                                                       *)

\* Between two batches nothing is left of the last one, and connections that do
\* not overlap wait one at a time.
TurnsOk ==
    /\ tpc = "wait" => batch = {}
    /\ "overlap" \notin faults => Len(backlog) <= 1

EdgeInv == EdgesKept /\ TurnsOk

\* Nobody has connected when the thread starts.
LEMMA EdgeInit == Init => EdgeInv
<1> SUFFICES ASSUME Init PROVE EdgeInv
    OBVIOUS
<1>1. Len(backlog) = 0
    BY EmptySeq DEF Init
<1> QED
    BY <1>1 DEF Init, EdgeInv, EdgesKept, TurnsOk

\* Every step keeps the events on their way, or deals with them.
LEMMA EdgeStep == SocketInv /\ ReadInv /\ EdgeInv /\ [Next]_vars => EdgeInv'
<1> SUFFICES ASSUME SocketInv, ReadInv, EdgeInv, [Next]_vars PROVE EdgeInv'
    OBVIOUS
<1> USE DEF setting, Gone
<1>0. /\ Sock \notin Peers
      /\ sent \in [Peers -> Nat] /\ got \in [Peers -> Nat]
      /\ end \in [Peers -> {"up", "shut", "down"}]
      /\ conn \in [Peers -> {"away", "queued", "open", "closed"}]
    BY ControlAssumption DEF ReadInv, StreamsOk, SocketInv
<1>a. /\ \A q \in Peers : Readable(q) <=> (sent[q] - got[q] > 0 \/ end[q] # "up")
      /\ \A q \in Peers : Readable(q)' <=> (sent'[q] - got'[q] > 0 \/ end'[q] # "up")
      /\ (Readable(Sock) <=> backlog # <<>>) /\ (Readable(Sock)' <=> backlog' # <<>>)
    BY <1>0 DEF Readable, Unread
<1>1. ASSUME NEW p \in Peers, Connect(p) PROVE EdgeInv'
    <2>1. /\ conn[p] = "away" /\ conn' = [conn EXCEPT ![p] = "queued"]
          /\ "overlap" \in faults \/ backlog = <<>>
          /\ backlog' = Append(backlog, p) /\ ready' = ready \cup {Sock}
          /\ UNCHANGED <<faults, sent, end, got, batch, cur, tpc>>
        BY <1>1 DEF Connect, PeerFrame, handlerVars, peerVars
    <2>2. TurnsOk'
        BY <2>1, EmptySeq, AppendProperties DEF EdgeInv, TurnsOk, SocketInv, QueueOk
    <2>3. \A q \in Peers : /\ conn'[q] = "open" => conn[q] = "open"
                           /\ Readable(q)' => Readable(q)
        BY <1>0, <1>a, <2>1
    <2>4. Sock \in ready' /\ ready \subseteq ready'
        BY <2>1
    <2> QED
        BY <2>1, <2>2, <2>3, <2>4 DEF EdgeInv, EdgesKept, OnItsWay
<1>2. ASSUME NEW p \in Peers, Write(p) \/ Shut(p) \/ HangUp(p) PROVE EdgeInv'
    <2>1. /\ UNCHANGED <<faults, conn, got, backlog, batch, cur, tpc>>
          /\ ready' = IF conn[p] = "open" THEN ready \cup {p} ELSE ready
          /\ \A q \in Peers \ {p} : sent'[q] = sent[q] /\ end'[q] = end[q]
        BY <1>0, <1>2 DEF Write, Shut, HangUp, Wake, PeerFrame, handlerVars
    <2>2. \A q \in Peers \ {p} : Readable(q)' => Readable(q)
        BY <1>a, <2>1
    <2>3. conn[p] = "open" => p \in ready'
        BY <2>1
    <2>4. ready \subseteq ready'
        BY <2>1
    <2> QED
        BY <2>1, <2>2, <2>3, <2>4 DEF EdgeInv, TurnsOk, EdgesKept, OnItsWay
<1>3. CASE EpollWait
    <2>1. /\ UNCHANGED <<faults, conn, sent, end, got, backlog, cur>> /\ tpc = "wait"
          /\ tpc' \in {"exited", "overrun", "batch"}
        BY <1>3 DEF EpollWait, handlerVars, peerVars
    <2>2. TurnsOk' /\ batch = {}
        BY <2>1 DEF EdgeInv, TurnsOk
    <2>3. CASE tpc' \in {"exited", "overrun"}
        BY <2>2, <2>3 DEF EdgeInv, EdgesKept
    <2>4. CASE tpc' = "batch"
        <3>1. PICK S \in SUBSET ready :
                  /\ ready' = ready \ S
                  /\ batch' = {Event(fd) : fd \in {s \in S : Readable(s)}}
            BY <1>3, <2>4 DEF EpollWait
        <3>2. \A fd : fd \in ready /\ Readable(fd) => OnItsWay(fd)'
            <4> TAKE fd
            <4> HAVE fd \in ready /\ Readable(fd)
            <4>1. fd \in S => Event(fd) \in batch' /\ Event(fd).fd = fd
                BY <3>1 DEF Event
            <4> QED
                BY <3>1, <4>1 DEF OnItsWay
        <3>3. \A q \in Peers : Readable(q)' => Readable(q)
            BY <1>a, <2>1
        <3>4. Readable(Sock)' => Readable(Sock)
            BY <1>a, <2>1
        <3> QED
            BY <1>a, <2>1, <2>2, <3>2, <3>3, <3>4 DEF EdgeInv, EdgesKept, OnItsWay
    <2> QED
        BY <2>1, <2>3, <2>4
<1>4. CASE BatchDone
    <2>1. /\ UNCHANGED <<faults, conn, sent, end, got, backlog, ready, batch, cur>>
          /\ tpc = "batch" /\ tpc' = "wait" /\ batch = {}
        BY <1>4 DEF BatchDone, epollVars, peerVars, handlerVars
    <2>2. \A q \in Peers : Readable(q)' => Readable(q)
        BY <1>a, <2>1
    <2> QED
        BY <2>1, <2>2 DEF EdgeInv, TurnsOk, EdgesKept, OnItsWay
<1>5. ASSUME NEW e \in batch, TakeHup(e) PROVE EdgeInv'
    <2>1. /\ batch' = batch \ {e} /\ conn' = [conn EXCEPT ![e.fd] = "closed"]
          /\ ready' = ready \ {e.fd} /\ e.fd \in Peers
          /\ UNCHANGED <<faults, sent, end, got, backlog, cur, tpc>> /\ tpc = "batch"
        BY <1>5 DEF TakeHup, SocketInv, BatchOk, Open, handlerVars, peerVars
    <2>2. \A q \in Peers : /\ conn'[q] = "open" => conn[q] = "open" /\ q # e.fd
                           /\ Readable(q)' => Readable(q)
        BY <1>0, <1>a, <2>1
    <2>3. \A fd : fd # e.fd /\ OnItsWay(fd) => OnItsWay(fd)'
        BY <2>1 DEF OnItsWay
    <2> QED
        BY <1>0, <2>1, <2>2, <2>3 DEF EdgeInv, TurnsOk, EdgesKept
<1>6. ASSUME NEW e \in batch, Accept(e) PROVE EdgeInv'
    <2>p. PICK p : p = Head(backlog)
        OBVIOUS
    <2>1. /\ e.fd = Sock /\ batch' = batch \ {e} /\ conn' = [conn EXCEPT ![p] = "open"]
          /\ backlog' = Tail(backlog)
          /\ ready' = IF Readable(p) THEN ready \cup {p} ELSE ready
          /\ UNCHANGED <<faults, sent, end, got, cur, tpc>> /\ tpc = "batch"
        BY <1>6, <2>p DEF Accept, handlerVars, peerVars
    <2>2. backlog # <<>> /\ backlog \in Seq(Peers)
        BY <2>1 DEF SocketInv, BatchOk, QueueOk
    <2>3. Len(backlog') = Len(backlog) - 1 /\ backlog' \in Seq(Peers) /\ p \in Peers
        BY <2>1, <2>2, <2>p, HeadTailProperties
    <2>4. TurnsOk' /\ ("overlap" \notin faults' => backlog' = <<>>)
        BY <2>1, <2>2, <2>3, EmptySeq, LenProperties DEF EdgeInv, TurnsOk
    <2>5. \A q \in Peers : /\ conn'[q] = "open" => conn[q] = "open" \/ q = p
                           /\ Readable(q)' => Readable(q)
        BY <1>0, <1>a, <2>1
    <2>6. \A fd : fd # Sock /\ OnItsWay(fd) => OnItsWay(fd)'
        BY <2>1 DEF OnItsWay
    <2>7. Readable(p) => OnItsWay(p)'
        BY <2>1 DEF OnItsWay
    <2> QED
        BY <1>0, <2>1, <2>4, <2>5, <2>6, <2>7 DEF EdgeInv, EdgesKept
<1>7. ASSUME NEW e \in batch, Handle(e) PROVE EdgeInv'
    <2>1. /\ e.fd # Sock /\ batch' = batch \ {e} /\ cur' = e.fd
          /\ UNCHANGED <<faults, conn, sent, end, got, backlog, ready>>
          /\ tpc = "batch" /\ tpc' = "read"
        BY <1>7 DEF Handle, peerVars
    <2>2. \A q \in Peers : Readable(q)' => Readable(q)
        BY <1>a, <2>1
    <2>3. \A fd : fd # e.fd /\ OnItsWay(fd) => OnItsWay(fd)'
        BY <2>1 DEF OnItsWay
    <2> QED
        BY <2>1, <2>2, <2>3 DEF EdgeInv, TurnsOk, EdgesKept
<1>8. CASE ReadData \/ ReadNothing
    <2>1. /\ UNCHANGED <<faults, conn, sent, end, backlog, ready, batch, cur, tpc>>
          /\ tpc = "read"
          /\ \A q \in Peers \ {cur} : got'[q] = got[q]
        BY <1>0, <1>8 DEF ReadData, ReadNothing, Reading, ReadFrame, epollVars, peerVars
    <2>2. \A q \in Peers \ {cur} : Readable(q)' => Readable(q)
        BY <1>a, <2>1
    <2> QED
        BY <2>1, <2>2 DEF EdgeInv, TurnsOk, EdgesKept, OnItsWay
<1>9. CASE Dispatch
    <2>1. /\ tpc = "read" /\ conn' = [conn EXCEPT ![cur] = "closed"] /\ ready' = ready \ {cur}
          /\ tpc' # "wait" /\ cur \in Peers
          /\ UNCHANGED <<faults, sent, end, got, backlog, batch>>
        BY <1>9 DEF Dispatch, Return, peerVars, SocketInv, HandlerOk, Open
    <2>2. \A q \in Peers : /\ conn'[q] = "open" => conn[q] = "open" /\ q # cur
                           /\ Readable(q)' => Readable(q)
        BY <1>0, <1>a, <2>1
    <2>3. \A fd : fd # cur /\ OnItsWay(fd) => OnItsWay(fd)'
        BY <2>1 DEF OnItsWay
    <2> QED
        BY <1>0, <2>1, <2>2, <2>3 DEF EdgeInv, TurnsOk, EdgesKept
<1>10. ASSUME NEW e \in batch, AcceptFails(e) PROVE EdgeInv'
    <2>1. UNCHANGED <<faults, backlog>> /\ tpc' = "exited"
        BY <1>10 DEF AcceptFails, epollVars
    <2> QED
        BY <2>1 DEF EdgeInv, TurnsOk, EdgesKept
<1>11. CASE UNCHANGED vars
    <2>1. UNCHANGED <<faults, conn, sent, end, got, backlog, ready, batch, cur, tpc>>
        BY <1>11 DEF vars, peerVars, epollVars, handlerVars
    <2>2. \A q \in Peers : Readable(q)' => Readable(q)
        BY <1>a, <2>1
    <2> QED
        BY <2>1, <2>2 DEF EdgeInv, TurnsOk, EdgesKept, OnItsWay
<1> QED
    BY <1>1, <1>2, <1>3, <1>4, <1>5, <1>6, <1>7, <1>8, <1>9, <1>10, <1>11 DEF Next, Thread

\* As long as the thread runs, an open connection that can be read is on the ready
\* list, in the batch or with the handler, and nobody who waits to be accepted is
\* forgotten unless connections overlap: the edge-triggered loop loses no event.
THEOREM NoEdgeLost == Spec => []EdgesKept
<1>1. EdgeInv => EdgesKept
    BY DEF EdgeInv
<1> QED
    BY <1>1, SocketInit, SocketStep, ReadInit, ReadStep, EdgeInit, EdgeStep, PTL DEF Spec

=============================================================================
