---------------------------- MODULE GuestPipeline ----------------------------
(***************************************************************************)
(* The way of a signup from the daemon to the CMS: auth.c appends a row to *)
(* guest_spool.jsonl, cron starts guest_forwarder.py, which posts the rows *)
(* it has no mark for and marks what was accepted.  The device may lose    *)
(* power at any time, the CMS may refuse a row and its answer may be lost. *)
(*                                                                         *)
(* The spool is a sequence of lines.  A line is good, torn (cut short and  *)
(* without its newline) or bad (complete but not JSON).                    *)
(***************************************************************************)
EXTENDS Naturals, Sequences, SequencesExt

CONSTANTS
    Rows,           \* the signups
    Keys,           \* the dedupe keys
    Key,            \* dedupe_key: sha256 of timestamp, mac and phone
    NoRow,          \* the daemon is not writing a row
    Instances,      \* the forwarder processes cron may have started
    NoInstance,     \* nobody holds the flock
    MaxRowsPerRun,  \* MAX_ROWS_PER_RUN
    Configs,        \* what guest_forwarder_config.json may say
    Rejected,       \* the rows the CMS always refuses
    Undecodable,    \* the rows with a byte sequence that is not UTF-8
    Cuts,           \* what may cut a write short: "full" disk, power loss "crash"
    MayLoseReply,   \* the answer to an accepted POST may get lost
    FilesMayFail,   \* guest_delivered.txt may be unreadable or unwritable
    MaxCrashes      \* bound: the device loses power this often

ASSUME PipelineAssumption ==
    /\ Key \in [Rows -> Keys]
    /\ NoRow \notin Rows /\ NoInstance \notin Instances
    /\ MaxRowsPerRun \in Nat \ {0} /\ MaxCrashes \in Nat
    /\ Configs \subseteq {"off", "dry", "live"}
    /\ Rejected \subseteq Rows /\ Undecodable \subseteq Rows
    /\ Cuts \subseteq {"full", "crash"}
    /\ MayLoseReply \in BOOLEAN /\ FilesMayFail \in BOOLEAN

VARIABLES
    signed,    \* the rows auth.c has come to
    writing,   \* the row auth.c is writing
    wpc,       \* where it is with it
    spool,     \* guest_spool.jsonl as processes see it
    disk,      \* guest_spool.jsonl as a power loss leaves it
    acked,     \* the rows whose fsync has returned
    config,    \* guest_forwarder_config.json
    flock,     \* the owner of guest_forwarder.lock
    fpc,       \* where each forwarder is
    run,       \* the local variables of each forwarder
    marked,    \* guest_delivered.txt
    accepted,  \* how often the CMS accepted each key: 0, 1 or more (2)
    slipped,   \* history: the keys whose acceptance a fault kept off the record
    crashes

writerVars == <<signed, writing, wpc, acked>>
fileVars == <<spool, disk>>
forwarderVars == <<flock, fpc, run>>
deliveryVars == <<marked, accepted, slipped>>
vars == <<writerVars, fileVars, config, forwarderVars, deliveryVars, crashes>>

-----------------------------------------------------------------------------
(* Lines.                                                                  *)

Line == [row : Rows, form : {"good", "torn", "bad"}]

EndsTorn(s) == s # <<>> /\ Last(s).form = "torn"

\* Two rows in one line, undecodable if either is
Merged(old, r) == IF old \in Undecodable THEN old ELSE r

\* Appending to a file that does not end in a newline spoils both lines.
AppendLine(s, r, form) ==
    IF EndsTorn(s)
    THEN [s EXCEPT ![Len(s)] = [row |-> Merged(@.row, r),
                                form |-> IF form = "torn" THEN "torn" ELSE "bad"]]
    ELSE Append(s, [row |-> r, form |-> form])

-----------------------------------------------------------------------------
(* auth_client_auth_nolock, the spool part                                 *)

WriterFrame == UNCHANGED <<config, forwarderVars, deliveryVars, crashes>>

\* fopen in append mode; if it fails the row is only logged as not written.
OpenSpool(r) ==
    /\ wpc = "idle" /\ r \notin signed
    /\ signed' = signed \cup {r}
    /\ \/ wpc' = "flush" /\ writing' = r
       \/ UNCHANGED <<wpc, writing>>
    /\ UNCHANGED <<acked, fileVars>> /\ WriterFrame

\* Mutants of FlushRow: the file is opened for writing, not appending; the row is
\* taken for saved without the fsync.
FlushRowAnew ==
    /\ wpc = "flush"
    /\ spool' = <<[row |-> writing, form |-> "good"]>>
    /\ wpc' = "sync"
    /\ UNCHANGED <<signed, writing, acked, disk>> /\ WriterFrame
FlushRowOnly ==
    /\ wpc = "flush"
    /\ spool' = AppendLine(spool, writing, "good")
    /\ acked' = acked \cup {writing}
    /\ wpc' = "idle" /\ writing' = NoRow
    /\ UNCHANGED <<signed, disk>> /\ WriterFrame

\* fprintf and fflush, whose results are not looked at
FlushRow ==
    /\ wpc = "flush"
    /\ \E form \in {"good"} \cup (IF "full" \in Cuts THEN {"torn"} ELSE {}) :
          spool' = AppendLine(spool, writing, form)
    /\ wpc' = "sync"
    /\ UNCHANGED <<signed, writing, acked, disk>> /\ WriterFrame

\* fsync and fclose
SyncRow ==
    /\ wpc = "sync"
    /\ disk' = spool
    /\ acked' = acked \cup {writing}
    /\ wpc' = "idle" /\ writing' = NoRow
    /\ UNCHANGED <<signed, spool>> /\ WriterFrame

-----------------------------------------------------------------------------
(* guest_forwarder.py                                                      *)

NoRun == [queue |-> <<>>, delivered |-> {}, sent |-> 0, mode |-> "off"]

ForwarderFrame == UNCHANGED <<writerVars, fileVars, config, crashes>>

\* read_spool_rows reads the whole file, but an error of the UTF-8 decoder ends
\* the reading.  It decodes in blocks, so lines before the error are lost too.
ReadSpool(s) ==
    {SubSeq(s, 1, n) : n \in
        IF \A m \in 1 .. Len(s) : s[m].row \notin Undecodable THEN {Len(s)}
        ELSE {n \in 0 .. Len(s) : \A m \in 1 .. n : s[m].row \notin Undecodable}}

\* load_delivered: an unreadable file is an empty one
LoadDelivered == {marked} \cup (IF FilesMayFail THEN {{}} ELSE {})

\* Mutant of MarkDelivered: the file is opened for writing, not appending.
MarkDeliveredAnew(k) == marked' = {k} /\ UNCHANGED slipped

\* mark_delivered; an error is logged and the run goes on.
MarkDelivered(k) ==
    \/ marked' = marked \cup {k} /\ UNCHANGED slipped
    \/ FilesMayFail /\ UNCHANGED marked /\ slipped' = slipped \cup {k}

\* load_config and load_device_identity find all a run needs.
MayRun == config # "off"

\* Mutant of Start: the flock is not looked at.
StartAnyway(i) ==
    /\ fpc[i] = "idle"
    /\ flock' = i
    /\ fpc' = [fpc EXCEPT ![i] = "load"]
    /\ UNCHANGED <<run, deliveryVars>> /\ ForwarderFrame

\* cron starts an instance; it goes on only if it gets the flock at once.
Start(i) ==
    /\ fpc[i] = "idle" /\ flock = NoInstance
    /\ flock' = i
    /\ fpc' = [fpc EXCEPT ![i] = "load"]
    /\ UNCHANGED <<run, deliveryVars>> /\ ForwarderFrame

\* main up to its loop: the whole spool is read before the first POST.
Load(i) ==
    /\ fpc[i] = "load"
    /\ fpc' = [fpc EXCEPT ![i] = "loop"]
    /\ \/ /\ MayRun
          /\ \E q \in ReadSpool(spool), d \in LoadDelivered :
               /\ run' = [run EXCEPT ![i] = [NoRun EXCEPT !.queue = q, !.delivered = d,
                                                          !.mode = config]]
               /\ slipped' = slipped \cup (marked \ d)
       \/ ~MayRun /\ UNCHANGED <<run, slipped>>
    /\ UNCHANGED <<flock, marked, accepted>> /\ ForwarderFrame

\* The loop is at its next line and the cap is not reached.
AtLine(i) == fpc[i] = "loop" /\ run[i].queue # <<>> /\ run[i].sent < MaxRowsPerRun
RowAt(i) == Head(run[i].queue).row
KeyAt(i) == Key[RowAt(i)]

\* The loop goes on to the next line with these values of its variables.
NextLine(i, delivered, sent) ==
    run' = [run EXCEPT ![i] = [queue |-> Tail(run[i].queue), delivered |-> delivered,
                               sent |-> sent, mode |-> run[i].mode]]

\* The line is not JSON, or has been delivered.
Skips(i) == \/ Head(run[i].queue).form # "good"
            \/ KeyAt(i) \in run[i].delivered

SkipLine(i) ==
    /\ AtLine(i) /\ Skips(i)
    /\ NextLine(i, run[i].delivered, run[i].sent)
    /\ UNCHANGED <<flock, fpc, deliveryVars>> /\ ForwarderFrame

Accept(k) == accepted' = [accepted EXCEPT ![k] = IF @ = 0 THEN 1 ELSE 2]

\* post_guest returns True.
PostAccepted(i) ==
    /\ AtLine(i) /\ ~Skips(i)
    /\ run[i].mode = "live" /\ RowAt(i) \notin Rejected
    /\ Accept(KeyAt(i))
    /\ fpc' = [fpc EXCEPT ![i] = "mark"]
    /\ UNCHANGED <<flock, run, marked, slipped>> /\ ForwarderFrame

\* Mutants of PostFailed: a dry run marks its rows like a delivery; a row that
\* was not delivered counts against the cap.
PostFailedDryMarks(i) ==
    /\ AtLine(i) /\ ~Skips(i)
    /\ run[i].mode = "dry"
    /\ fpc' = [fpc EXCEPT ![i] = "mark"]
    /\ UNCHANGED <<flock, run, deliveryVars>> /\ ForwarderFrame
PostFailedCounts(i) ==
    /\ AtLine(i) /\ ~Skips(i)
    /\ NextLine(i, run[i].delivered, run[i].sent + 1)
    /\ UNCHANGED <<flock, fpc, deliveryVars>> /\ ForwarderFrame

\* post_guest returns False: a dry run, no connection, a refusal or a timeout,
\* after which the CMS may or may not have the guest.
PostFailed(i) ==
    /\ AtLine(i) /\ ~Skips(i)
    /\ \/ UNCHANGED <<accepted, slipped>>
       \/ /\ MayLoseReply /\ run[i].mode = "live" /\ RowAt(i) \notin Rejected
          /\ Accept(KeyAt(i))
          /\ slipped' = slipped \cup {KeyAt(i)}
    /\ NextLine(i, run[i].delivered, run[i].sent)
    /\ UNCHANGED <<flock, fpc, marked>> /\ ForwarderFrame

\* Mutant of Mark: the row is recorded, not its key.
MarkRow(i) ==
    /\ fpc[i] = "mark"
    /\ marked' = marked \cup {RowAt(i)}
    /\ NextLine(i, run[i].delivered, run[i].sent + 1)
    /\ fpc' = [fpc EXCEPT ![i] = "loop"]
    /\ UNCHANGED <<flock, accepted, slipped>> /\ ForwarderFrame

\* The row was delivered.
Mark(i) ==
    /\ fpc[i] = "mark"
    /\ MarkDelivered(KeyAt(i))
    /\ NextLine(i, run[i].delivered \cup {KeyAt(i)}, run[i].sent + 1)
    /\ fpc' = [fpc EXCEPT ![i] = "loop"]
    /\ UNCHANGED <<flock, accepted>> /\ ForwarderFrame

\* The loop is done; the flock is released.
Exit(i) ==
    /\ fpc[i] = "loop" /\ ~AtLine(i)
    /\ fpc' = [fpc EXCEPT ![i] = "idle"]
    /\ run' = [run EXCEPT ![i] = NoRun]
    /\ flock' = NoInstance
    /\ UNCHANGED deliveryVars /\ ForwarderFrame

-----------------------------------------------------------------------------
(* The installer writes a new forwarder config; the device loses power.    *)

Configure ==
    /\ \E m \in Configs : m # config /\ config' = m
    /\ UNCHANGED <<writerVars, fileVars, forwarderVars, deliveryVars, crashes>>

\* What is left of the spool: what was synced and, of a line that was not, all,
\* nothing or a part.
AfterCrash == {disk, spool} \cup
    (IF "crash" \in Cuts /\ spool # disk THEN {AppendLine(disk, writing, "torn")} ELSE {})

Crash ==
    /\ crashes < MaxCrashes
    /\ crashes' = crashes + 1
    /\ \E s \in AfterCrash : spool' = s /\ disk' = s
    /\ wpc' = "idle" /\ writing' = NoRow
    /\ flock' = NoInstance
    /\ fpc' = [i \in Instances |-> "idle"]
    /\ run' = [i \in Instances |-> NoRun]
    /\ slipped' = slipped \cup {KeyAt(i) : i \in {j \in Instances : fpc[j] = "mark"}}
    /\ UNCHANGED <<signed, acked, config, marked, accepted>>

-----------------------------------------------------------------------------
Init ==
    /\ signed = {} /\ acked = {}
    /\ writing = NoRow /\ wpc = "idle"
    /\ spool = <<>> /\ disk = <<>>
    /\ config \in Configs
    /\ flock = NoInstance
    /\ fpc = [i \in Instances |-> "idle"]
    /\ run = [i \in Instances |-> NoRun]
    /\ marked = {}
    /\ accepted = [k \in Keys |-> 0]
    /\ slipped = {}
    /\ crashes = 0

Writer == FlushRow \/ SyncRow
Forwarder(i) == \/ Load(i) \/ SkipLine(i) \/ PostFailed(i) \/ Mark(i) \/ Exit(i)

Next ==
    \/ \E r \in Rows : OpenSpool(r)
    \/ Writer
    \/ \E i \in Instances : Start(i) \/ Forwarder(i) \/ PostAccepted(i)
    \/ Configure
    \/ Crash

Spec == Init /\ [][Next]_vars

\* cron starts a forwarder again and again, every process runs on, and a row
\* that is posted again and again is accepted at last unless the CMS refuses it.
Fairness ==
    /\ WF_vars(Writer)
    /\ WF_vars(\E i \in Instances : Start(i))
    /\ \A i \in Instances : WF_vars(Forwarder(i) \/ PostAccepted(i))
    /\ \A i \in Instances, r \in Rows : SF_vars(PostAccepted(i) /\ RowAt(i) = r)

FairSpec == Spec /\ Fairness

-----------------------------------------------------------------------------
\* The variables of the daemon, the forwarders and the CMS have their types.
Run == [queue : Seq(Line), delivered : SUBSET Keys, sent : Nat,
        mode : {"off", "dry", "live"}]

TypeOK ==
    /\ signed \subseteq Rows /\ acked \subseteq Rows
    /\ writing \in Rows \cup {NoRow}
    /\ wpc \in {"idle", "flush", "sync"}
    /\ spool \in Seq(Line) /\ disk \in Seq(Line)
    /\ config \in {"off", "dry", "live"}
    /\ flock \in Instances \cup {NoInstance}
    /\ fpc \in [Instances -> {"idle", "load", "loop", "mark"}]
    /\ run \in [Instances -> Run]
    /\ marked \subseteq Keys
    /\ accepted \in [Keys -> {0, 1, 2}]
    /\ slipped \subseteq Keys
    /\ crashes \in Nat

\* "A key is only written after a 2xx": whatever guest_delivered.txt names, the
\* CMS has, so a guest who is never posted again has arrived.
MarkedWasAccepted == \A k \in marked : accepted[k] > 0

\* "A guest who signs up just before a reboot is not lost": a row whose fsync has
\* returned is a line of its own, on the disk and for every reader.
HasLine(s, r) == \E n \in 1 .. Len(s) : s[n] = [row |-> r, form |-> "good"]
AckedRowsReadable == \A r \in acked : HasLine(spool, r) /\ HasLine(disk, r)

\* "Exactly-once delivery": two forwarders that overlap, a row that is retried
\* and two rows with one key never make the CMS accept a guest twice, unless an
\* answer, a mark, the file with the marks or the power was lost just then.
NoDoubleDelivery == \A k \in Keys : accepted[k] = 2 => k \in slipped

\* What is on the disk, what the daemon was told is there, what the CMS has and
\* what the file of marks says, as the promise sees them
Promise == INSTANCE DeliveryPromise WITH
    stored <- {r \in Rows : HasLine(disk, r)},
    confirmed <- acked,
    delivered <- {k \in Keys : accepted[k] > 0}

\* Seen from outside a guest signs up, is stored, confirmed, delivered and marked,
\* each only after what it depends on.  Appending to the spool, an fsync and a
\* power loss add at most one row to the disk and never spoil or drop one that is
\* there, a row is confirmed only when it is there, and no crash, retry or second
\* forwarder takes a mark back or makes the CMS hear of somebody who never signed
\* up.  It holds where no write is cut short (see AckedRowsReadable for cuts).
KeepsPromise == Promise!Spec

\* Every row that stands on the disk as a line of its own, and is not refused, gets
\* to the CMS in the end, past rows ahead of it that are refused in every run, past
\* lines that a full disk or a power loss cut short, and past reboots: "malformed
\* lines are skipped", "a failed POST is simply retried".
GuestsArrive ==
    \A r \in Rows \ (Rejected \cup Undecodable) :
        HasLine(disk, r) ~> accepted[Key[r]] > 0

=============================================================================
