------------------------- MODULE GuestPipelineProofs -------------------------
(***************************************************************************)
(* Theorems of GuestPipeline for any signups, keys, caps and number of     *)
(* forwarders: type correctness, marks only for accepted guests, durable   *)
(* rows as long as no write is cut short, and single delivery of whatever  *)
(* no fault kept off the record.                                           *)
(***************************************************************************)
EXTENDS GuestPipeline, SequenceTheorems, TLAPS

\* A writer or forwarder in the middle of a row has one.
RowsInHand ==
    /\ wpc # "idle" => writing \in Rows
    /\ spool # disk => writing \in Rows
    /\ \A i \in Instances : fpc[i] = "mark" => run[i].queue # <<>>

TypeInv == TypeOK /\ RowsInHand

-----------------------------------------------------------------------------
(* Sequences of lines.                                                     *)

\* Appending gives a spool again.
LEMMA AppendLineType ==
    ASSUME NEW s \in Seq(Line), NEW r \in Rows, NEW form \in {"good", "torn"}
    PROVE  AppendLine(s, r, form) \in Seq(Line)
<1>1. CASE EndsTorn(s)
    <2> DEFINE e == [row |-> Merged(s[Len(s)].row, r),
                     form |-> IF form = "torn" THEN "torn" ELSE "bad"]
    <2>1. Len(s) \in 1 .. Len(s)
        BY <1>1, EmptySeq, LenProperties DEF EndsTorn
    <2>2. s[Len(s)] \in Line
        BY <2>1, ElementOfSeq
    <2>3. e \in Line
        BY <2>2 DEF Line, Merged
    <2>4. [s EXCEPT ![Len(s)] = e] \in Seq(Line)
        BY <2>1, <2>3, ExceptSeq
    <2> QED
        BY <1>1, <2>4 DEF AppendLine
<1>2. CASE ~EndsTorn(s)
    BY <1>2, AppendProperties DEF AppendLine, Line
<1> QED
    BY <1>1, <1>2

\* What a run reads is a sequence of lines.
LEMMA ReadSpoolType ==
    ASSUME NEW s \in Seq(Line), NEW q \in ReadSpool(s) PROVE q \in Seq(Line)
<1>1. PICK n \in 0 .. Len(s) : q = SubSeq(s, 1, n)
    BY LenProperties DEF ReadSpool
<1>2. \A m \in 1 .. n : s[m] \in Line
    BY <1>1, LenProperties, ElementOfSeq
<1> QED
    BY <1>1, <1>2, LenProperties, SubSeqProperties

\* Going on to the next line keeps the types and the other runs.
LEMMA NextLineType ==
    ASSUME TypeOK, NEW i \in Instances, run[i].queue # <<>>,
           NEW d \in SUBSET Keys, NEW sent \in Nat,
           NextLine(i, d, sent)
    PROVE  run' \in [Instances -> Run] /\ \A j \in Instances \ {i} : run'[j] = run[j]
<1>1. Tail(run[i].queue) \in Seq(Line) /\ run[i].mode \in {"off", "dry", "live"}
    BY HeadTailProperties DEF TypeOK, Run
<1>2. [queue |-> Tail(run[i].queue), delivered |-> d, sent |-> sent,
       mode |-> run[i].mode] \in Run
    BY <1>1 DEF Run
<1> QED
    BY <1>2 DEF NextLine, TypeOK

\* A run that is not at the end of its queue goes on with the rest.
LEMMA QueueType ==
    ASSUME TypeOK, NEW i \in Instances, run[i].queue # <<>>
    PROVE  /\ Head(run[i].queue) \in Line /\ Tail(run[i].queue) \in Seq(Line)
           /\ RowAt(i) \in Rows /\ KeyAt(i) \in Keys
<1>1. run[i].queue \in Seq(Line)
    BY DEF TypeOK, Run
<1>2. Head(run[i].queue) \in Line /\ Tail(run[i].queue) \in Seq(Line)
    BY <1>1, HeadTailProperties
<1> QED
    BY <1>2, PipelineAssumption DEF Line, RowAt, KeyAt

-----------------------------------------------------------------------------
(* Type correctness.                                                       *)

\* A fresh device has its types, and nobody is in the middle of a row.
LEMMA TypeInit == Init => TypeInv
<1> SUFFICES ASSUME Init PROVE TypeInv
    OBVIOUS
<1>1. <<>> \in Seq(Line)
    BY EmptySeq
<1>2. NoRun \in Run
    BY <1>1 DEF NoRun, Run
<1> QED
    BY <1>1, <1>2, PipelineAssumption DEF Init, TypeInv, TypeOK, RowsInHand

\* No step of the daemon, a forwarder or a power loss breaks a type, and whoever
\* goes on to flush, sync or mark has a row to do it with.
LEMMA TypeNext == TypeInv /\ [Next]_vars => TypeInv'
<1> SUFFICES ASSUME TypeInv, [Next]_vars PROVE TypeInv'
    OBVIOUS
<1>0. TypeOK /\ RowsInHand
    BY DEF TypeInv
<1> USE <1>0, PipelineAssumption DEF TypeInv, TypeOK, RowsInHand, writerVars, fileVars,
        forwarderVars, deliveryVars, WriterFrame, ForwarderFrame
<1>1. ASSUME NEW r \in Rows, OpenSpool(r) PROVE TypeInv'
    BY <1>1 DEF OpenSpool
<1>2. CASE FlushRow
    <2>1. PICK form \in {"good", "torn"} : spool' = AppendLine(spool, writing, form)
        BY <1>2 DEF FlushRow
    <2>2. spool' \in Seq(Line)
        BY <1>2, <2>1, AppendLineType DEF FlushRow
    <2> QED
        BY <1>2, <2>2 DEF FlushRow
<1>3. CASE SyncRow
    BY <1>3 DEF SyncRow
<1>4. ASSUME NEW i \in Instances, Start(i) PROVE TypeInv'
    BY <1>4 DEF Start
<1>5. ASSUME NEW i \in Instances, Load(i) PROVE TypeInv'
    <2>1. CASE MayRun
        <3>1. PICK q \in ReadSpool(spool), d \in LoadDelivered :
                run' = [run EXCEPT ![i] = [NoRun EXCEPT !.queue = q, !.delivered = d,
                                                        !.mode = config]]
            BY <1>5, <2>1 DEF Load
        <3>2. q \in Seq(Line) /\ d \subseteq Keys
            BY ReadSpoolType DEF LoadDelivered
        <3>3. [NoRun EXCEPT !.queue = q, !.delivered = d, !.mode = config] \in Run
            BY <3>2 DEF NoRun, Run
        <3>4. run' \in [Instances -> Run]
            BY <3>1, <3>3
        <3> QED
            BY <1>5, <3>1, <3>4 DEF Load
    <2>2. CASE UNCHANGED run
        BY <1>5, <2>2 DEF Load
    <2> QED
        BY <1>5, <2>1, <2>2 DEF Load
<1>6. ASSUME NEW i \in Instances, SkipLine(i) PROVE TypeInv'
    <2>1. run[i].delivered \in SUBSET Keys /\ run[i].sent \in Nat
        BY DEF Run
    <2>2. /\ run' \in [Instances -> Run]
          /\ \A j \in Instances \ {i} : run'[j] = run[j]
        BY <1>6, <2>1, NextLineType DEF SkipLine, AtLine
    <2> QED
        BY <1>6, <2>2 DEF SkipLine, AtLine
<1>7. ASSUME NEW i \in Instances, PostAccepted(i) PROVE TypeInv'
    <2>1. run[i].queue # <<>>
        BY <1>7 DEF PostAccepted, AtLine
    <2>2. accepted' \in [Keys -> {0, 1, 2}]
        BY <1>7, <2>1, QueueType DEF PostAccepted, Accept
    <2> QED
        BY <1>7, <2>1, <2>2 DEF PostAccepted
<1>8. ASSUME NEW i \in Instances, PostFailed(i) PROVE TypeInv'
    <2>1. run[i].delivered \in SUBSET Keys /\ run[i].sent \in Nat
        BY DEF Run
    <2>2. run[i].queue # <<>> /\ fpc[i] = "loop"
        BY <1>8 DEF PostFailed, AtLine
    <2>3. /\ run' \in [Instances -> Run]
          /\ \A j \in Instances \ {i} : run'[j] = run[j]
        BY <1>8, <2>1, <2>2, NextLineType DEF PostFailed
    <2>4. KeyAt(i) \in Keys
        BY <2>2, QueueType
    <2>5. accepted' \in [Keys -> {0, 1, 2}] /\ slipped' \subseteq Keys
        BY <1>8, <2>4 DEF PostFailed, Accept
    <2>6. UNCHANGED <<flock, fpc, marked, signed, writing, wpc, acked, spool, disk, config, crashes>>
        BY <1>8 DEF PostFailed
    <2> QED
        BY <2>2, <2>3, <2>5, <2>6
<1>9. ASSUME NEW i \in Instances, Mark(i) PROVE TypeInv'
    <2>1. run[i].queue # <<>> /\ KeyAt(i) \in Keys
        BY <1>9, QueueType DEF Mark
    <2>2. run[i].delivered \cup {KeyAt(i)} \in SUBSET Keys /\ run[i].sent + 1 \in Nat
        BY <2>1 DEF Run
    <2>3. /\ run' \in [Instances -> Run]
          /\ \A j \in Instances \ {i} : run'[j] = run[j]
        BY <1>9, <2>1, <2>2, NextLineType DEF Mark
    <2> QED
        BY <1>9, <2>1, <2>3 DEF Mark, MarkDelivered
<1>10. ASSUME NEW i \in Instances, Exit(i) PROVE TypeInv'
    <2>1. NoRun \in Run
        BY EmptySeq DEF NoRun, Run
    <2> QED
        BY <1>10, <2>1 DEF Exit
<1>11. CASE Configure
    BY <1>11 DEF Configure
<1>12. CASE Crash
    <2>1. NoRun \in Run
        BY EmptySeq DEF NoRun, Run
    <2>2. AfterCrash \subseteq Seq(Line)
        <3>1. spool # disk => AppendLine(disk, writing, "torn") \in Seq(Line)
            BY AppendLineType
        <3> QED
            BY <3>1 DEF AfterCrash
    <2>3. spool' \in Seq(Line) /\ disk' = spool'
        BY <1>12, <2>2 DEF Crash
    <2>4. \A i \in Instances : fpc[i] = "mark" => KeyAt(i) \in Keys
        BY QueueType
    <2>5. slipped' \subseteq Keys
        BY <1>12, <2>4 DEF Crash
    <2> QED
        BY <1>12, <2>1, <2>3, <2>5 DEF Crash
<1>13. CASE UNCHANGED vars
    BY <1>13 DEF vars
<1> QED
    BY <1>1, <1>2, <1>3, <1>4, <1>5, <1>6, <1>7, <1>8, <1>9, <1>10, <1>11, <1>12, <1>13
    DEF Next, Writer, Forwarder

-----------------------------------------------------------------------------
(* Marks are written for accepted guests only.                             *)

AcceptedAtMark == \A i \in Instances : fpc[i] = "mark" => accepted[KeyAt(i)] > 0

MarkInv == MarkedWasAccepted /\ AcceptedAtMark

\* At first nothing is marked.
LEMMA MarkInit == Init => MarkInv
BY DEF Init, MarkInv, MarkedWasAccepted, AcceptedAtMark

\* No step marks what was not accepted, and the CMS forgets nobody.
LEMMA MarkNext == TypeInv /\ MarkInv /\ [Next]_vars => MarkInv'
<1> SUFFICES ASSUME TypeInv, MarkInv, [Next]_vars PROVE MarkInv'
    OBVIOUS
<1>0. TypeOK /\ RowsInHand
    BY DEF TypeInv
<1> USE <1>0 DEF MarkInv, MarkedWasAccepted, AcceptedAtMark, TypeOK, KeyAt, RowAt,
        writerVars, fileVars, forwarderVars, deliveryVars, WriterFrame, ForwarderFrame
<1>a. ASSUME NEW k \in Keys, Accept(k)
      PROVE  /\ accepted'[k] > 0
             /\ \A l \in Keys : accepted[l] > 0 => accepted'[l] > 0
    BY <1>a DEF Accept
<1>b. \A i \in Instances : fpc[i] = "mark" => KeyAt(i) \in Keys
    BY QueueType DEF RowsInHand
<1>1. ASSUME NEW r \in Rows, OpenSpool(r) PROVE MarkInv'
    BY <1>1 DEF OpenSpool
<1>2. CASE Writer
    BY <1>2 DEF Writer, FlushRow, SyncRow
<1>3. ASSUME NEW i \in Instances, Start(i) PROVE MarkInv'
    BY <1>3 DEF Start
<1>4. ASSUME NEW i \in Instances, Load(i) PROVE MarkInv'
    <2>1. /\ UNCHANGED <<marked, accepted>> /\ fpc'[i] # "mark"
          /\ \A j \in Instances \ {i} : fpc'[j] = fpc[j] /\ run'[j] = run[j]
        BY <1>4 DEF Load
    <2> QED
        BY <2>1
<1>5. ASSUME NEW i \in Instances, SkipLine(i) PROVE MarkInv'
    <2>1. /\ UNCHANGED <<fpc, marked, accepted>> /\ fpc[i] # "mark"
          /\ \A j \in Instances \ {i} : run'[j] = run[j]
        BY <1>5 DEF SkipLine, AtLine, NextLine
    <2> QED
        BY <2>1
<1>6. ASSUME NEW i \in Instances, PostAccepted(i) PROVE MarkInv'
    <2>1. KeyAt(i) \in Keys /\ Accept(KeyAt(i)) /\ UNCHANGED <<run, marked>>
        BY <1>6, QueueType DEF PostAccepted, AtLine
    <2>2. \A j \in Instances \ {i} : fpc'[j] = fpc[j]
        BY <1>6 DEF PostAccepted
    <2> QED
        BY <1>a, <1>b, <2>1, <2>2
<1>7. ASSUME NEW i \in Instances, PostFailed(i) PROVE MarkInv'
    <2>1. /\ UNCHANGED <<fpc, marked>> /\ fpc[i] # "mark"
          /\ \A j \in Instances \ {i} : run'[j] = run[j]
        BY <1>7 DEF PostFailed, AtLine, NextLine
    <2>2. KeyAt(i) \in Keys
        BY <1>7, QueueType DEF PostFailed, AtLine
    <2>3. UNCHANGED accepted \/ Accept(KeyAt(i))
        BY <1>7 DEF PostFailed
    <2> QED
        BY <1>a, <1>b, <2>1, <2>2, <2>3
<1>8. ASSUME NEW i \in Instances, Mark(i) PROVE MarkInv'
    <2>1. /\ marked' \subseteq marked \cup {KeyAt(i)} /\ fpc[i] = "mark" /\ fpc'[i] = "loop"
          /\ UNCHANGED accepted
          /\ \A j \in Instances \ {i} : fpc'[j] = fpc[j] /\ run'[j] = run[j]
        BY <1>8 DEF Mark, MarkDelivered, NextLine
    <2> QED
        BY <2>1
<1>9. ASSUME NEW i \in Instances, Exit(i) PROVE MarkInv'
    BY <1>9 DEF Exit
<1>10. CASE Configure
    BY <1>10 DEF Configure
<1>11. CASE Crash
    BY <1>11 DEF Crash
<1>12. CASE UNCHANGED vars
    BY <1>12 DEF vars
<1> QED
    BY <1>1, <1>2, <1>3, <1>4, <1>5, <1>6, <1>7, <1>8, <1>9, <1>10, <1>11, <1>12
    DEF Next, Forwarder

-----------------------------------------------------------------------------
(* Single delivery of every key whose acceptance was not kept off the      *)
(* record by a fault.                                                      *)

\* The running forwarder, and only it, has the flock.
FlockHeld == \A i \in Instances : fpc[i] # "idle" <=> flock = i

\* It knows every mark once it has read the files, and has no line before.
KnowsMarks == \A i \in Instances :
    run[i].queue # <<>> =>
        fpc[i] \in {"loop", "mark"} /\ marked \ slipped \subseteq run[i].delivered

\* What was accepted is marked or about to be, and was accepted once.
AcceptedOnce == \A k \in Keys \ slipped :
    /\ accepted[k] # 2
    /\ accepted[k] = 1 => k \in marked \/ \E i \in Instances : fpc[i] = "mark" /\ KeyAt(i) = k

OnceInv == FlockHeld /\ KnowsMarks /\ AcceptedOnce

\* At first nobody has the flock and nothing was accepted.
LEMMA OnceInit == Init => OnceInv
BY PipelineAssumption DEF Init, OnceInv, FlockHeld, KnowsMarks, AcceptedOnce, NoRun

\* A post goes out only for a key that was not accepted, or whose acceptance
\* some fault has kept off the record.
LEMMA OnceNext == TypeInv /\ OnceInv /\ [Next]_vars => OnceInv'
<1> SUFFICES ASSUME TypeInv, OnceInv, [Next]_vars PROVE OnceInv'
    OBVIOUS
<1>0. TypeOK /\ RowsInHand
    BY DEF TypeInv
<1> USE <1>0, PipelineAssumption DEF OnceInv, FlockHeld, KnowsMarks, AcceptedOnce,
        TypeOK, KeyAt, RowAt, writerVars, fileVars, forwarderVars, deliveryVars,
        WriterFrame, ForwarderFrame
<1>1. ASSUME NEW r \in Rows, OpenSpool(r) PROVE OnceInv'
    BY <1>1 DEF OpenSpool
<1>2. CASE Writer
    BY <1>2 DEF Writer, FlushRow, SyncRow
<1>3. ASSUME NEW i \in Instances, Start(i) PROVE OnceInv'
    BY <1>3 DEF Start
<1>4. ASSUME NEW i \in Instances, Load(i) PROVE OnceInv'
    <2>1. /\ UNCHANGED <<flock, marked, accepted>> /\ slipped \subseteq slipped'
          /\ fpc[i] = "load" /\ fpc' = [fpc EXCEPT ![i] = "loop"]
        BY <1>4 DEF Load
    <2>2. /\ run'[i].queue # <<>> => marked \ slipped' \subseteq run'[i].delivered
          /\ \A j \in Instances \ {i} : run'[j] = run[j]
        <3>1. CASE UNCHANGED run
            BY <2>1, <3>1
        <3>2. CASE MayRun
            <4>1. PICK q \in ReadSpool(spool), d \in LoadDelivered :
                    /\ run' = [run EXCEPT ![i] = [NoRun EXCEPT !.queue = q, !.delivered = d,
                                                               !.mode = config]]
                    /\ slipped' = slipped \cup (marked \ d)
                BY <1>4, <3>2 DEF Load
            <4>2. run'[i].delivered = d /\ \A j \in Instances \ {i} : run'[j] = run[j]
                BY <4>1 DEF NoRun
            <4> QED
                BY <4>1, <4>2
        <3> QED
            BY <1>4, <3>1, <3>2 DEF Load
    <2> QED
        BY <2>1, <2>2
<1>5. ASSUME NEW i \in Instances, SkipLine(i) PROVE OnceInv'
    <2>1. /\ UNCHANGED <<flock, fpc, marked, accepted, slipped>>
          /\ fpc[i] = "loop" /\ run[i].queue # <<>>
          /\ run'[i].delivered = run[i].delivered
          /\ \A j \in Instances \ {i} : run'[j] = run[j]
        BY <1>5 DEF SkipLine, AtLine, NextLine
    <2> QED
        BY <2>1
<1>6. ASSUME NEW i \in Instances, PostAccepted(i) PROVE OnceInv'
    <2> DEFINE k == KeyAt(i)
    <2>1. /\ k \in Keys /\ k \notin marked \ slipped /\ Accept(k) /\ fpc[i] = "loop"
          /\ fpc' = [fpc EXCEPT ![i] = "mark"]
          /\ UNCHANGED <<flock, run, marked, slipped>>
        BY <1>6, QueueType DEF PostAccepted, AtLine, Skips
    <2>2. \A j \in Instances : fpc[j] # "mark"
        <3>1. flock = i /\ fpc[i] # "mark"
            BY <2>1
        <3> QED
            BY <3>1, Zenon
    <2>3. k \notin slipped => accepted[k] = 0
        BY <2>1, <2>2
    <2>4. /\ k \notin slipped => accepted'[k] = 1
          /\ \A l \in Keys \ {k} : accepted'[l] = accepted[l]
        BY <2>1, <2>3 DEF Accept
    <2>5. AcceptedOnce'
        BY <2>1, <2>2, <2>4
    <2>6. FlockHeld' /\ KnowsMarks'
        BY <2>1, <2>2
    <2> QED
        BY <2>5, <2>6
<1>7. ASSUME NEW i \in Instances, PostFailed(i) PROVE OnceInv'
    <2>1. /\ UNCHANGED <<flock, fpc, marked>>
          /\ fpc[i] = "loop" /\ run[i].queue # <<>>
          /\ run'[i].delivered = run[i].delivered
          /\ \A j \in Instances \ {i} : run'[j] = run[j]
        BY <1>7 DEF PostFailed, AtLine, NextLine
    <2>2. \/ UNCHANGED <<accepted, slipped>>
          \/ /\ slipped' = slipped \cup {KeyAt(i)}
             /\ \A l \in Keys \ {KeyAt(i)} : accepted'[l] = accepted[l]
        <3>1. \/ UNCHANGED <<accepted, slipped>>
              \/ Accept(KeyAt(i)) /\ slipped' = slipped \cup {KeyAt(i)}
            BY <1>7, Zenon DEF PostFailed
        <3>2. ASSUME Accept(KeyAt(i))
              PROVE  \A l \in Keys \ {KeyAt(i)} : accepted'[l] = accepted[l]
            BY <3>2, <1>0 DEF Accept
        <3> QED
            BY <3>1, <3>2, Zenon
    <2>3. FlockHeld' /\ KnowsMarks'
        BY <2>1, <2>2
    <2>4. \A j \in Instances : fpc[j] = "mark" => KeyAt(j)' = KeyAt(j)
        BY <2>1
    <2>5. AcceptedOnce'
        BY <2>1, <2>2, <2>4
    <2> QED
        BY <2>3, <2>5
<1>8. ASSUME NEW i \in Instances, Mark(i) PROVE OnceInv'
    <2> DEFINE k == KeyAt(i)
    <2>1. /\ fpc[i] = "mark" /\ fpc' = [fpc EXCEPT ![i] = "loop"]
          /\ UNCHANGED <<flock, accepted>>
          /\ run'[i].delivered = run[i].delivered \cup {k}
          /\ \A j \in Instances \ {i} : run'[j] = run[j]
        BY <1>8 DEF Mark, NextLine
    <2>2. \/ marked' = marked \cup {k} /\ UNCHANGED slipped
          \/ UNCHANGED marked /\ slipped' = slipped \cup {k}
        BY <1>8 DEF Mark, MarkDelivered
    <2>3. \A j \in Instances \ {i} : fpc[j] = "idle"
        BY <2>1
    <2>4. AcceptedOnce'
        BY <2>1, <2>2, <2>3
    <2>5. FlockHeld' /\ KnowsMarks'
        BY <2>1, <2>2, <2>3 DEF RowsInHand
    <2> QED
        BY <2>4, <2>5
<1>9. ASSUME NEW i \in Instances, Exit(i) PROVE OnceInv'
    <2>1. /\ fpc[i] = "loop" /\ fpc' = [fpc EXCEPT ![i] = "idle"]
          /\ run' = [run EXCEPT ![i] = NoRun] /\ flock' = NoInstance
          /\ UNCHANGED <<marked, accepted, slipped>>
        BY <1>9 DEF Exit
    <2>2. run'[i].queue = <<>> /\ \A j \in Instances \ {i} : fpc[j] = "idle"
        BY <2>1 DEF NoRun
    <2>3. FlockHeld' /\ KnowsMarks'
        BY <2>1, <2>2
    <2>4. AcceptedOnce'
        BY <2>1, <2>2
    <2> QED
        BY <2>3, <2>4
<1>10. CASE Configure
    BY <1>10 DEF Configure
<1>11. CASE Crash
    <2>1. /\ flock' = NoInstance /\ fpc' = [i \in Instances |-> "idle"]
          /\ run' = [i \in Instances |-> NoRun] /\ UNCHANGED <<marked, accepted>>
          /\ slipped' = slipped \cup {KeyAt(i) : i \in {j \in Instances : fpc[j] = "mark"}}
        BY <1>11 DEF Crash
    <2>2. FlockHeld' /\ KnowsMarks'
        BY <2>1 DEF NoRun
    <2>3. AcceptedOnce'
        BY <2>1
    <2> QED
        BY <2>2, <2>3
<1>12. CASE UNCHANGED vars
    BY <1>12 DEF vars
<1> QED
    BY <1>1, <1>2, <1>3, <1>4, <1>5, <1>6, <1>7, <1>8, <1>9, <1>10, <1>11, <1>12
    DEF Next, Forwarder

-----------------------------------------------------------------------------
(* Durable rows, when no write is cut short.                               *)

NoTornLine(s) == \A n \in 1 .. Len(s) : s[n].form # "torn"

\* What processes see is what is on the disk, and the row that is about to be synced.
AheadByOne ==
    IF wpc = "sync"
    THEN /\ HasLine(spool, writing)
         /\ \A q \in Rows : HasLine(disk, q) => HasLine(spool, q)
         /\ \A q \in Rows : HasLine(spool, q) => HasLine(disk, q) \/ q = writing
    ELSE spool = disk

\* No line is torn, and the two views of the file are at most one row apart.
DurableInv ==
    /\ NoTornLine(spool) /\ NoTornLine(disk)
    /\ AheadByOne
    /\ AckedRowsReadable

\* Appending to whole lines adds a line and keeps the others.
LEMMA AppendWhole ==
    ASSUME NEW s \in Seq(Line), NEW r \in Rows, NoTornLine(s)
    PROVE  LET t == AppendLine(s, r, "good")
           IN  /\ NoTornLine(t) /\ HasLine(t, r)
               /\ \A q \in Rows : HasLine(s, q) => HasLine(t, q)
               /\ \A q \in Rows : HasLine(t, q) => HasLine(s, q) \/ q = r
<1> DEFINE e == [row |-> r, form |-> "good"]
           t == Append(s, e)
<1>1. ~EndsTorn(s)
    <2> SUFFICES ASSUME s # <<>> PROVE s[Len(s)].form # "torn"
        BY DEF EndsTorn, Last
    <2>1. Len(s) \in 1 .. Len(s)
        BY EmptySeq, LenProperties
    <2> QED
        BY <2>1 DEF NoTornLine
<1>2. AppendLine(s, r, "good") = t
    BY <1>1 DEF AppendLine
<1>3. e \in Line
    BY DEF Line
<1>4. /\ Len(t) = Len(s) + 1 /\ t[Len(s) + 1] = e /\ Len(s) \in Nat
      /\ \A n \in 1 .. Len(s) : t[n] = s[n]
    BY <1>3, AppendProperties, LenProperties
<1>5. NoTornLine(t)
    BY <1>4 DEF NoTornLine
<1>6. HasLine(t, r)
    BY <1>4 DEF HasLine
<1>7. ASSUME NEW q \in Rows, HasLine(s, q) PROVE HasLine(t, q)
    BY <1>4, <1>7 DEF HasLine
<1>8. ASSUME NEW q \in Rows, HasLine(t, q) PROVE HasLine(s, q) \/ q = r
    <2>1. PICK n \in 1 .. Len(t) : t[n] = [row |-> q, form |-> "good"]
        BY <1>8 DEF HasLine
    <2>2. CASE n = Len(s) + 1
        BY <1>4, <2>1, <2>2
    <2>3. CASE n \in 1 .. Len(s)
        BY <1>4, <2>1, <2>3 DEF HasLine
    <2> QED
        BY <1>4, <2>2, <2>3
<1> QED
    BY <1>2, <1>5, <1>6, <1>7, <1>8

\* At first nothing was synced.
LEMMA DurableInit == Init => DurableInv
BY EmptySeq DEF Init, DurableInv, AheadByOne, NoTornLine, AckedRowsReadable

\* While no write is cut short, appending, syncing and a power loss keep every
\* synced row a line of its own.
LEMMA DurableNext == Cuts = {} /\ TypeInv /\ DurableInv /\ [Next]_vars => DurableInv'
<1> SUFFICES ASSUME Cuts = {}, TypeInv, DurableInv, [Next]_vars PROVE DurableInv'
    OBVIOUS
<1>0. TypeOK /\ RowsInHand
    BY DEF TypeInv
<1>a. ASSUME UNCHANGED <<wpc, writing, acked, spool, disk>> PROVE DurableInv'
    BY <1>a DEF DurableInv, AheadByOne, AckedRowsReadable, HasLine, NoTornLine
<1>1. ASSUME NEW r \in Rows, OpenSpool(r) PROVE DurableInv'
    <2>1. wpc = "idle" /\ wpc' # "sync" /\ UNCHANGED <<spool, disk, acked>>
        BY <1>1 DEF OpenSpool, fileVars
    <2> QED
        BY <2>1 DEF DurableInv, AheadByOne, AckedRowsReadable, HasLine, NoTornLine
<1>2. CASE FlushRow
    <2>1. /\ spool' = AppendLine(spool, writing, "good") /\ wpc' = "sync"
          /\ UNCHANGED <<writing, acked, disk>> /\ spool = disk
        BY <1>2 DEF FlushRow, DurableInv, AheadByOne
    <2>2. writing \in Rows /\ spool \in Seq(Line) /\ acked \subseteq Rows
        BY <1>0, <1>2 DEF FlushRow, TypeOK, RowsInHand
    <2>3. /\ NoTornLine(spool') /\ HasLine(spool', writing)
          /\ \A q \in Rows : HasLine(spool, q) => HasLine(spool', q)
          /\ \A q \in Rows : HasLine(spool', q) => HasLine(spool, q) \/ q = writing
        BY <2>1, <2>2, AppendWhole DEF DurableInv
    <2>4. AheadByOne'
        BY <2>1, <2>3 DEF AheadByOne, HasLine
    <2>5. AckedRowsReadable'
        BY <2>1, <2>2, <2>3 DEF DurableInv, AckedRowsReadable, HasLine
    <2> QED
        BY <2>1, <2>3, <2>4, <2>5 DEF DurableInv, NoTornLine
<1>3. CASE SyncRow
    <2>1. /\ disk' = spool /\ spool' = spool /\ acked' = acked \cup {writing}
          /\ wpc' = "idle" /\ HasLine(spool, writing)
        BY <1>3 DEF SyncRow, DurableInv, AheadByOne
    <2> QED
        BY <2>1 DEF DurableInv, AheadByOne, AckedRowsReadable, HasLine, NoTornLine
<1>4. ASSUME NEW i \in Instances, Start(i) \/ Forwarder(i) \/ PostAccepted(i)
      PROVE  DurableInv'
    BY <1>4, <1>a DEF Start, Forwarder, Load, SkipLine, PostAccepted, PostFailed,
       Mark, Exit, ForwarderFrame, writerVars, fileVars
<1>5. CASE Configure \/ UNCHANGED vars
    BY <1>5, <1>a DEF Configure, writerVars, fileVars, vars
<1>6. CASE Crash
    <2>1. /\ spool' \in {disk, spool} /\ disk' = spool'
          /\ wpc' = "idle" /\ UNCHANGED acked
        <3>1. AfterCrash = {disk, spool}
            BY DEF AfterCrash
        <3> QED
            BY <1>6, <3>1 DEF Crash
    <2> QED
        BY <2>1 DEF DurableInv, AheadByOne, AckedRowsReadable, HasLine, NoTornLine
<1> QED
    BY <1>1, <1>2, <1>3, <1>4, <1>5, <1>6 DEF Next, Writer

-----------------------------------------------------------------------------
(* The pipeline implements the promise.                                    *)

\* Every line of s is of somebody who signed up.
AllSigned(s) == \A n \in 1 .. Len(s) : s[n].row \in signed

\* So is everything in a file or on its way through a process.
SignedInv ==
    /\ writing \in signed \cup {NoRow}
    /\ AllSigned(spool) /\ AllSigned(disk)
    /\ \A i \in Instances : AllSigned(run[i].queue)

\* A line that is appended to is still of somebody who signed up.
LEMMA AppendSigned ==
    ASSUME NEW s \in Seq(Line), NEW r \in Rows, NEW form \in {"good", "torn"},
           AllSigned(s), r \in signed
    PROVE  AllSigned(AppendLine(s, r, form))
<1>1. CASE EndsTorn(s)
    <2> DEFINE e == [row |-> Merged(s[Len(s)].row, r),
                     form |-> IF form = "torn" THEN "torn" ELSE "bad"]
               t == [s EXCEPT ![Len(s)] = e]
    <2>1. Len(s) \in 1 .. Len(s)
        BY <1>1, EmptySeq, LenProperties DEF EndsTorn
    <2>2. e \in Line /\ e.row \in signed
        BY <2>1, ElementOfSeq DEF Line, Merged, AllSigned
    <2>3. /\ Len(t) = Len(s) /\ t[Len(s)] = e
          /\ \A n \in 1 .. Len(s) : n # Len(s) => t[n] = s[n]
        BY <2>1, <2>2, ExceptSeq
    <2>4. AppendLine(s, r, form) = t
        BY <1>1 DEF AppendLine
    <2> QED
        BY <2>2, <2>3, <2>4 DEF AllSigned
<1>2. CASE ~EndsTorn(s)
    <2> DEFINE e == [row |-> r, form |-> form]
    <2>1. e \in Line
        BY DEF Line
    <2>2. /\ Len(Append(s, e)) = Len(s) + 1 /\ Append(s, e)[Len(s) + 1] = e
          /\ \A n \in 1 .. Len(s) : Append(s, e)[n] = s[n]
          /\ Len(s) \in Nat
        BY <2>1, AppendProperties, LenProperties
    <2> QED
        BY <1>2, <2>2 DEF AppendLine, AllSigned
<1> QED
    BY <1>1, <1>2

\* What a run reads is of people who signed up.
LEMMA ReadSigned ==
    ASSUME NEW s \in Seq(Line), NEW q \in ReadSpool(s), AllSigned(s)
    PROVE  AllSigned(q)
<1>1. PICK n \in 0 .. Len(s) : q = SubSeq(s, 1, n)
    BY LenProperties DEF ReadSpool
<1>2. \A m \in 1 .. n : s[m] \in Line
    BY <1>1, LenProperties, ElementOfSeq
<1>3. Len(q) = n /\ \A m \in 1 .. n : q[m] = s[m]
    BY <1>1, <1>2, LenProperties, SubSeqProperties
<1> QED
    BY <1>1, <1>3, LenProperties DEF AllSigned

\* The rest of a queue is of people who signed up.
LEMMA TailSigned ==
    ASSUME NEW s \in Seq(Line), s # <<>>, AllSigned(s)
    PROVE  AllSigned(Tail(s)) /\ Head(s).row \in signed
<1>1. Len(s) \in Nat \ {0} /\ Len(Tail(s)) = Len(s) - 1
    BY HeadTailProperties, EmptySeq, LenProperties
<1>2. \A n \in 1 .. Len(Tail(s)) : Tail(s)[n] = s[n + 1]
    BY HeadTailProperties
<1>3. Head(s) = s[1]
    BY HeadTailProperties
<1> QED
    BY <1>1, <1>2, <1>3 DEF AllSigned

\* At first there is no line at all.
LEMMA SignedInit == Init => SignedInv
BY EmptySeq DEF Init, SignedInv, AllSigned, NoRun

\* No step writes, reads or keeps a line of somebody who never signed up.
LEMMA SignedNext == TypeInv /\ SignedInv /\ [Next]_vars => SignedInv'
<1> SUFFICES ASSUME TypeInv, SignedInv, [Next]_vars PROVE SignedInv'
    OBVIOUS
<1>0. TypeOK /\ RowsInHand
    BY DEF TypeInv
<1>q. \A i \in Instances : run[i].queue \in Seq(Line)
    BY <1>0 DEF TypeOK, Run
<1>e. AllSigned(<<>>)
    BY EmptySeq DEF AllSigned
<1> USE DEF SignedInv, WriterFrame, ForwarderFrame, writerVars, fileVars, forwarderVars
<1>1. ASSUME NEW r \in Rows, OpenSpool(r) PROVE SignedInv'
    <2>1. /\ signed \subseteq signed' /\ writing' \in signed' \cup {NoRow}
          /\ UNCHANGED <<spool, disk, run>>
        BY <1>1 DEF OpenSpool
    <2> QED
        BY <2>1 DEF AllSigned
<1>2. CASE FlushRow
    <2>1. PICK form \in {"good", "torn"} : spool' = AppendLine(spool, writing, form)
        BY <1>2 DEF FlushRow
    <2>2. writing \in Rows /\ writing \in signed /\ spool \in Seq(Line)
        BY <1>0, <1>2, PipelineAssumption DEF FlushRow, RowsInHand, TypeOK
    <2>3. AllSigned(spool')
        BY <2>1, <2>2, AppendSigned
    <2>4. UNCHANGED <<signed, writing, disk, run>>
        BY <1>2 DEF FlushRow
    <2> QED
        BY <2>3, <2>4 DEF AllSigned
<1>3. CASE SyncRow
    BY <1>3 DEF SyncRow, AllSigned
<1>4. ASSUME NEW i \in Instances, Load(i) PROVE SignedInv'
    <2>1. UNCHANGED <<signed, writing, spool, disk>>
        BY <1>4 DEF Load
    <2>2. CASE UNCHANGED run
        BY <2>1, <2>2 DEF AllSigned
    <2>3. CASE MayRun
        <3>1. PICK q \in ReadSpool(spool), d \in LoadDelivered :
                run' = [run EXCEPT ![i] = [NoRun EXCEPT !.queue = q, !.delivered = d,
                                                        !.mode = config]]
            BY <1>4, <2>3 DEF Load
        <3>2. AllSigned(q)
            BY <1>0, <3>1, ReadSigned DEF TypeOK
        <3>3. \A j \in Instances : run'[j].queue = run[j].queue \/ run'[j].queue = q
            BY <1>0, <3>1 DEF TypeOK, NoRun
        <3> QED
            BY <2>1, <3>2, <3>3 DEF AllSigned
    <2> QED
        BY <1>4, <2>2, <2>3 DEF Load
<1>5. ASSUME NEW i \in Instances, SkipLine(i) \/ PostFailed(i) \/ Mark(i) PROVE SignedInv'
    <2>1. UNCHANGED <<signed, writing, spool, disk>> /\ run[i].queue # <<>>
        BY <1>0, <1>5 DEF SkipLine, PostFailed, Mark, AtLine, RowsInHand
    <2>2. /\ run'[i].queue = Tail(run[i].queue)
          /\ \A j \in Instances \ {i} : run'[j] = run[j]
        <3>1. PICK d, sent : NextLine(i, d, sent)
            BY <1>5 DEF SkipLine, PostFailed, Mark
        <3> QED
            BY <1>0, <3>1 DEF NextLine, TypeOK
    <2>3. AllSigned(Tail(run[i].queue))
        BY <1>q, <2>1, TailSigned
    <2> QED
        BY <2>1, <2>2, <2>3 DEF AllSigned
<1>6. ASSUME NEW i \in Instances, Start(i) \/ PostAccepted(i) PROVE SignedInv'
    BY <1>6 DEF Start, PostAccepted, AllSigned
<1>7. ASSUME NEW i \in Instances, Exit(i) PROVE SignedInv'
    <2>1. /\ UNCHANGED <<signed, writing, spool, disk>> /\ run'[i].queue = <<>>
          /\ \A j \in Instances \ {i} : run'[j] = run[j]
        BY <1>0, <1>7 DEF Exit, NoRun, TypeOK
    <2> QED
        BY <1>e, <2>1 DEF AllSigned
<1>8. CASE Configure \/ UNCHANGED vars
    BY <1>8 DEF Configure, vars, AllSigned
<1>9. CASE Crash
    <2>1. /\ UNCHANGED signed /\ writing' = NoRow
          /\ \A i \in Instances : run'[i].queue = <<>>
          /\ spool' \in AfterCrash /\ disk' = spool'
        BY <1>9 DEF Crash, NoRun
    <2>2. spool # disk => AllSigned(AppendLine(disk, writing, "torn"))
        BY <1>0, PipelineAssumption, AppendSigned DEF RowsInHand, TypeOK
    <2>3. AllSigned(spool')
        BY <2>1, <2>2 DEF AfterCrash
    <2> QED
        BY <1>e, <2>1, <2>3 DEF AllSigned
<1> QED
    BY <1>1, <1>2, <1>3, <1>4, <1>5, <1>6, <1>7, <1>8, <1>9
    DEF Next, Writer, Forwarder

\* Every step is a step of the promise or leaves what it speaks of alone.
LEMMA PromiseStep ==
    Cuts = {} /\ TypeInv /\ MarkInv /\ SignedInv /\ DurableInv /\ [Next]_vars =>
        [Promise!Next]_<<signed, {r \in Rows : HasLine(disk, r)}, acked,
                         {k \in Keys : accepted[k] > 0}, marked>>
<1> DEFINE stored == {r \in Rows : HasLine(disk, r)}
           delivered == {k \in Keys : accepted[k] > 0}
<1> SUFFICES ASSUME Cuts = {}, TypeInv, MarkInv, SignedInv, DurableInv, [Next]_vars
             PROVE  \/ Promise!Next
                    \/ UNCHANGED <<signed, stored, acked, delivered, marked>>
    OBVIOUS
<1>0. TypeOK /\ RowsInHand
    BY DEF TypeInv
<1> USE DEF WriterFrame, ForwarderFrame, writerVars, fileVars, forwarderVars, deliveryVars
<1>a. ASSUME NEW i \in Instances, AtLine(i) PROVE KeyAt(i) \in Keys /\ RowAt(i) \in signed
    BY <1>0, <1>a, QueueType, TailSigned DEF AtLine, RowAt, SignedInv, TypeOK, Run
<1>b. ASSUME NEW k \in Keys, Accept(k) PROVE delivered' = delivered \cup {k}
    BY <1>0, <1>b DEF Accept, TypeOK
<1>c. ASSUME UNCHANGED disk PROVE UNCHANGED stored
    BY <1>c DEF HasLine
<1>d. ASSUME wpc = "sync", disk' = spool
      PROVE  stored' = stored \cup {writing} /\ writing \in Rows /\ writing \in signed
    <2>1. writing \in Rows /\ writing \in signed
        BY <1>0, <1>d, PipelineAssumption DEF RowsInHand, SignedInv
    <2>2. /\ HasLine(disk', writing)
          /\ \A q \in Rows : HasLine(disk', q) <=> HasLine(disk, q) \/ q = writing
        BY <1>d, <2>1 DEF DurableInv, AheadByOne
    <2>3. stored' = {r \in Rows : HasLine(disk', r)}
        BY DEF HasLine
    <2> QED
        BY <2>1, <2>2, <2>3
<1>1. ASSUME NEW r \in Rows, OpenSpool(r) PROVE Promise!Next
    <2>1. Promise!Sign(r)
        BY <1>1, <1>c DEF OpenSpool, Promise!Sign
    <2> QED
        BY <2>1 DEF Promise!Next
<1>2. CASE SyncRow
    <2>1. stored' = stored \cup {writing} /\ writing \in Rows /\ writing \in signed
        BY <1>2, <1>d DEF SyncRow
    <2>2. Promise!Save(writing)
        BY <1>2, <2>1 DEF SyncRow, Promise!Save
    <2> QED
        BY <2>1, <2>2 DEF Promise!Next
<1>3. ASSUME NEW i \in Instances, PostAccepted(i) \/ PostFailed(i)
      PROVE  Promise!Next \/ UNCHANGED <<signed, stored, acked, delivered, marked>>
    <2>1. AtLine(i) /\ UNCHANGED <<signed, stored, acked, marked>>
        BY <1>3, <1>c DEF PostAccepted, PostFailed
    <2>2. CASE Accept(KeyAt(i))
        <3>1. PICK k \in Keys : k = KeyAt(i)
            BY <1>a, <2>1
        <3>2. delivered' = delivered \cup {k} /\ \E r \in signed : Key[r] = k
            BY <1>a, <1>b, <2>1, <2>2, <3>1 DEF KeyAt
        <3>3. Promise!Deliver(k)
            BY <2>1, <3>2 DEF Promise!Deliver
        <3> QED
            BY <3>3 DEF Promise!Next
    <2>3. CASE UNCHANGED accepted
        BY <2>1, <2>3
    <2> QED
        BY <1>3, <2>2, <2>3 DEF PostAccepted, PostFailed
<1>4. ASSUME NEW i \in Instances, Mark(i)
      PROVE  Promise!Next \/ UNCHANGED <<signed, stored, acked, delivered, marked>>
    <2>a. fpc[i] = "mark" /\ run[i].queue # <<>>
        BY <1>0, <1>4 DEF Mark, RowsInHand
    <2>1. /\ UNCHANGED <<signed, stored, acked, accepted>> /\ KeyAt(i) \in Keys
          /\ accepted[KeyAt(i)] > 0
        BY <1>0, <1>4, <1>c, <2>a, QueueType DEF Mark, MarkInv, AcceptedAtMark
    <2>2. CASE marked' = marked \cup {KeyAt(i)}
        <3>1. Promise!Mark(KeyAt(i))
            BY <2>1, <2>2 DEF Promise!Mark
        <3> QED
            BY <2>1, <3>1 DEF Promise!Next
    <2>3. CASE UNCHANGED marked
        BY <2>1, <2>3
    <2> QED
        BY <1>4, <2>2, <2>3 DEF Mark, MarkDelivered
<1>5. CASE FlushRow \/ Configure \/ UNCHANGED vars
    BY <1>5, <1>c DEF FlushRow, Configure, vars
<1>7. CASE Crash
    <2>1. disk' \in {disk, spool} /\ UNCHANGED <<signed, acked, accepted, marked>>
        <3>1. AfterCrash = {disk, spool}
            BY DEF AfterCrash
        <3> QED
            BY <1>7, <3>1 DEF Crash
    <2>2. CASE wpc = "sync" /\ disk' = spool
        <3>1. stored' = stored \cup {writing} /\ writing \in Rows /\ writing \in signed
            BY <1>d, <2>2
        <3>2. Promise!Save(writing)
            BY <2>1, <3>1 DEF Promise!Save
        <3> QED
            BY <3>1, <3>2 DEF Promise!Next
    <2>3. CASE UNCHANGED disk
        BY <1>c, <2>1, <2>3
    <2> QED
        BY <2>1, <2>2, <2>3 DEF DurableInv, AheadByOne
<1>6. ASSUME NEW i \in Instances, Start(i) \/ Load(i) \/ SkipLine(i) \/ Exit(i)
      PROVE  UNCHANGED <<signed, stored, acked, delivered, marked>>
    BY <1>6, <1>c DEF Start, Load, SkipLine, Exit
<1> QED
    BY <1>1, <1>2, <1>3, <1>4, <1>5, <1>6, <1>7 DEF Next, Writer, Forwarder

-----------------------------------------------------------------------------
(* The theorems.                                                           *)

\* The daemon's, the forwarders' and the CMS' variables keep their types; a
\* forwarder that has posted has a row in hand to mark.
THEOREM PipelineTypes == Spec => []TypeOK
<1>1. TypeInv => TypeOK
    BY DEF TypeInv
<1> QED
    BY TypeInit, TypeNext, <1>1, PTL DEF Spec

\* Through crashes, lost answers, unreadable or unwritable delivered files and
\* changes of the config, guest_delivered.txt names accepted guests only.
THEOREM MarksAreAccepted == Spec => []MarkedWasAccepted
<1>1. MarkInv => MarkedWasAccepted
    BY DEF MarkInv
<1> QED
    BY TypeInit, TypeNext, MarkInit, MarkNext, <1>1, PTL DEF Spec

\* As long as no write is cut short, a row whose fsync has returned is a line of
\* its own for every reader, whatever the power does between two writes.
THEOREM RowsDurable == ASSUME Cuts = {} PROVE Spec => []AckedRowsReadable
<1>1. DurableInv => AckedRowsReadable
    BY DEF DurableInv
<1>2. TypeInv /\ DurableInv /\ [Next]_vars => DurableInv'
    BY DurableNext
<1> QED
    BY TypeInit, TypeNext, DurableInit, <1>1, <1>2, PTL DEF Spec

\* The flock and the marks keep any number of forwarders from delivering a guest
\* twice, unless a fault kept the first acceptance off the record.
THEOREM DeliveredOnce == Spec => []NoDoubleDelivery
<1>1. OnceInv => NoDoubleDelivery
    BY DEF OnceInv, AcceptedOnce, NoDoubleDelivery
<1> QED
    BY TypeInit, TypeNext, OnceInit, OnceNext, <1>1, PTL DEF Spec

\* As long as no write is cut short, the daemon's writes, the forwarders, the power
\* losses and the retries together do nothing but sign up, store, confirm, deliver
\* and mark guests, in this order, and leave every stored row and mark where it is.
THEOREM PromiseKept == ASSUME Cuts = {} PROVE Spec => KeepsPromise
<1>1. Init => Promise!Init
    BY EmptySeq DEF Init, Promise!Init, HasLine
<1>2. TypeInv /\ DurableInv /\ [Next]_vars => DurableInv'
    BY DurableNext
<1>3. TypeInv /\ MarkInv /\ SignedInv /\ DurableInv /\ [Next]_vars =>
          [Promise!Next]_<<signed, {r \in Rows : HasLine(disk, r)}, acked,
                           {k \in Keys : accepted[k] > 0}, marked>>
    BY PromiseStep
<1> QED
    BY TypeInit, TypeNext, MarkInit, MarkNext, SignedInit, SignedNext, DurableInit,
       <1>1, <1>2, <1>3,
       PTL DEF Spec, KeepsPromise, Promise!Spec, Promise!promiseVars

=============================================================================
