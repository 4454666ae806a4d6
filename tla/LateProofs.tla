----------------------------- MODULE LateProofs -----------------------------
(***************************************************************************)
(* Theorems about LateCommands: what a row says stays true however late    *)
(* the commands of Save and announce arrive, for any number of them.       *)
(***************************************************************************)
EXTENDS LateCommands, ScanProofs

\* What a step of the service leaves to commands already on their way: a
\* result that is stored stays stored, an accepted request keeps its body,
\* and a run past its result write does not go back.
PastIsKept ==
    /\ stored \subseteq stored'
    /\ \A r \in AcceptedRuns :
          /\ r \in AcceptedRuns'
          /\ post'[r] = post[r]
          /\ pc[r] \in Written => pc'[r] \in Written

\* A run that moves on in its own goroutine.
LEMMA MoveKeepsPast ==
    ASSUME TypeOK, NEW r \in Requests, NEW from \in Live,
           NEW to \in Live \cup {"done"}, GoTo(r, from, to),
           from \in Written => to \in Written,
           post' = post, stored \subseteq stored'
    PROVE  PastIsKept
<1>1. pc \in [Requests -> Pcs] /\ pc[r] = from
  BY DEF TypeOK, GoTo
<1>2. \A s \in Requests : pc'[s] = IF s = r THEN to ELSE pc[s]
  BY <1>1 DEF GoTo
<1> QED
  BY <1>1, <1>2 DEF PastIsKept, AcceptedRuns, Live

\* Steps inside the module, all before any write of the result.
LEMMA ScanKeepsPast ==
    ASSUME TypeOK, NEW r \in Requests, Scan(r)
    PROVE  PastIsKept
<1>1. post' = post /\ stored' = stored
  BY DEF Scan, AnnounceStart, ListTargets, ReportHost, ReportNames, Report,
         AnnounceProgress, RunSucceeds, RunFails, RunPanics, work
<1>2. \E from \in Live \ Written, to \in Live : GoTo(r, from, to)
  <2>1. CASE AnnounceStart(r)
    BY <2>1 DEF AnnounceStart, Live, Written
  <2>2. CASE ListTargets(r)
    BY <2>2 DEF ListTargets, Live, Written
  <2>3. CASE (\E h \in Hosts : ReportHost(r, h))
             \/ (\E names \in SUBSET Hosts : ReportNames(r, names))
    BY <2>3 DEF ReportHost, ReportNames, Report, Live, Written
  <2>4. CASE AnnounceProgress(r)
    BY <2>4 DEF AnnounceProgress, Live, Written
  <2>5. CASE RunSucceeds(r)
    BY <2>5 DEF RunSucceeds, Live, Written
  <2>6. CASE RunFails(r) \/ RunPanics(r)
    BY <2>6 DEF RunFails, RunPanics, Live, Written
  <2> QED
    BY <2>1, <2>2, <2>3, <2>4, <2>5, <2>6 DEF Scan
<1> QED
  BY <1>1, <1>2, MoveKeepsPast

\* Steps of persist and Save: from the result write on, forward only.
LEMMA PersistKeepsPast ==
    ASSUME TypeOK, NEW r \in Requests, Persist(r)
    PROVE  PastIsKept
<1>1. post' = post /\ stored \subseteq stored'
  BY DEF Persist, MarkComplete, MarkFailed, LoadCTEM, StoreMerged,
         ResultWriteFails, WriteResult, RecordVerdict, RecordFailure,
         RecordingFails, NoteSaveError, FailAfterSave, work
<1>2. \E from \in Live, to \in Live \cup {"done"} :
          GoTo(r, from, to) /\ (from \in Written => to \in Written)
  <2>1. CASE MarkComplete(r) \/ MarkFailed(r)
    BY <2>1 DEF MarkComplete, MarkFailed, SaveFrom, Live, Written
  <2>2. CASE LoadCTEM(r) \/ StoreMerged(r) \/ ResultWriteFails(r)
    BY <2>2 DEF LoadCTEM, StoreMerged, ResultWriteFails, Live, Written
  <2>3. CASE RecordVerdict(r) \/ RecordFailure(r) \/ RecordingFails(r)
    BY <2>3 DEF RecordVerdict, RecordFailure, RecordingFails, Live, Written
  <2>4. CASE NoteSaveError(r) \/ FailAfterSave(r)
    BY <2>4 DEF NoteSaveError, FailAfterSave, Live, Written
  <2> QED
    BY <2>1, <2>2, <2>3, <2>4 DEF Persist
<1> QED
  BY <1>1, <1>2, MoveKeepsPast

\* A request is idle when it is posted, and nobody waits for it yet.
LEMMA SubmitKeepsPast ==
    ASSUME TypeOK, NEW r \in Requests, Submit(r)
    PROVE  PastIsKept
<1>1. /\ pc \in [Requests -> Pcs] /\ post \in [Requests -> Post \cup {NoPost}]
  BY DEF TypeOK
<1>2. /\ pc[r] = "idle" /\ stored' = stored
      /\ \E to \in Pcs : pc' = [pc EXCEPT ![r] = to]
      /\ \A s \in Requests \ {r} : post'[s] = post[s]
  BY <1>1 DEF Submit, RejectScan, AcceptScan, RepeatScan, GoTo, work, Pcs, Live
<1>3. \A s \in Requests \ {r} : pc'[s] = pc[s]
  BY <1>1, <1>2
<1>4. r \notin AcceptedRuns
  BY <1>2 DEF AcceptedRuns
<1> QED
  BY <1>2, <1>3, <1>4 DEF PastIsKept, AcceptedRuns

\* A dead run has not come back.
LEMMA DieKeepsPast ==
    ASSUME TypeOK, Die
    PROVE  PastIsKept /\ \A r \in Requests : pc[r] \in Live => pc'[r] = "dead"
<1>1. post' = post /\ stored' = stored
  BY DEF Die
<1>2. \A r \in Requests :
          /\ pc[r] \in Live => pc'[r] = "dead"
          /\ pc[r] = "done" => pc'[r] = "past"
          /\ pc[r] \notin Live \cup {"done"} => pc'[r] = pc[r]
  <2> SUFFICES ASSUME NEW r \in Requests
               PROVE  /\ pc[r] \in Live => pc'[r] = "dead"
                      /\ pc[r] = "done" => pc'[r] = "past"
                      /\ pc[r] \notin Live \cup {"done"} => pc'[r] = pc[r]
    OBVIOUS
  <2>1. pc'[r] = CASE pc[r] \in Live -> "dead"
                   [] pc[r] = "done" -> "past"
                   [] OTHER -> pc[r]
    BY DEF Die
  <2>2. CASE pc[r] \in Live
    BY <2>1, <2>2 DEF Live
  <2>3. CASE pc[r] = "done"
    BY <2>1, <2>3 DEF Live
  <2>4. CASE pc[r] \notin Live \cup {"done"}
    BY <2>1, <2>4
  <2> QED
    BY <2>2, <2>3, <2>4
<1> QED
  BY <1>1, <1>2 DEF PastIsKept, AcceptedRuns, Written, Live

\* Whatever the service does, what is on its way stays true.
LEMMA NextKeepsPast ==
    ASSUME TypeOK, [Next]_vars
    PROVE  PastIsKept
<1>1. CASE \E r \in Requests : Submit(r) \/ Scan(r) \/ Persist(r)
  BY <1>1, SubmitKeepsPast, ScanKeepsPast, PersistKeepsPast
<1>2. CASE Die
  BY <1>2, DieKeepsPast
<1>3. CASE Signal \/ CloseSink \/ Restart \/ PlatformStep \/ UNCHANGED vars
  <2>1. UNCHANGED <<pc, post, stored>>
    BY <1>3 DEF Signal, CloseSink, Restart, PlatformStep, PlatformEdits,
                vars, work
  <2> QED
    BY <2>1 DEF PastIsKept, AcceptedRuns
<1> QED
  BY <1>1, <1>2, <1>3 DEF Next, Process

-----------------------------------------------------------------------------
(* Commands.                                                               *)

\* What a command says stays true.
LEMMA TruthStays ==
    ASSUME PastIsKept, NEW c \in Command, Truthful(c)
    PROVE  Truthful(c)'
BY DEF PastIsKept, Truthful

\* What a run sends is built from its own job, and it sends complete only
\* when its result is stored.
LEMMA SentIsTruthful ==
    ASSUME ScanInv, NEW r \in Requests, NEW c \in Sent(r)
    PROVE  /\ c \in Command
           /\ c.run = r
           /\ pc[r] \in Live
           /\ c.kind = "result" => pc[r] = "merging"
           /\ c.kind # "result" => Truthful(c)
<1>1. pc[r] \in {"start", "progress", "merging", "recording", "recordFailure"}
  BY DEF Sent
<1>2. pc[r] \in Live
  BY <1>1 DEF Live
<1>3. /\ JobOf(r) \in Job /\ post[r] \in Post /\ r \in AcceptedRuns
      /\ JobOf(r).module = post[r].module
      /\ JobOf(r).tenant = post[r].tenant
      /\ JobOf(r).domain = post[r].domain
  BY <1>2, LiveFacts DEF AcceptedRuns, Live
<1>4. CASE pc[r] = "start" \/ pc[r] = "progress"
  <2>1. \/ c = [kind |-> "start", run |-> r, job |-> JobOf(r)]
        \/ c = [kind |-> "progress", run |-> r, job |-> JobOf(r)]
    BY <1>4 DEF Sent
  <2> QED
    BY <1>2, <1>3, <2>1 DEF Command, Truthful
<1>5. CASE pc[r] = "merging"
  <2>1. c = [kind |-> "result", run |-> r,
             value |-> Merged(loaded[r], JobOf(r), r)]
    BY <1>5 DEF Sent
  <2>2. JobOf(r).result # NoResult /\ loaded[r] \in SUBSET Entry
    BY <1>5 DEF ScanInv, WritersHaveResults, TypeOK
  <2>3. Merged(loaded[r], JobOf(r), r) \in SUBSET Entry
    BY <1>3, <2>2, MergedLemma
  <2> QED
    BY <1>2, <1>5, <2>1, <2>3 DEF Command
<1>6. CASE pc[r] = "recording"
  <2>1. c = Verdict(r, JobOf(r).status, JobOf(r).error)
    BY <1>6 DEF Sent
  <2>2. /\ JobOf(r).status \in Terminal
        /\ JobOf(r).status = "complete" => r \in stored
    BY <1>6 DEF ScanInv, VerdictIsEarned
  <2>3. JobOf(r).error \in Errors
    BY <1>3 DEF Job
  <2> QED
    BY <1>2, <1>3, <2>1, <2>2, <2>3 DEF Command, Truthful, Verdict
<1>7. CASE pc[r] = "recordFailure"
  <2>1. c = Verdict(r, "failed", "store")
    BY <1>7 DEF Sent
  <2> QED
    BY <1>2, <1>3, <2>1 DEF Command, Truthful, Verdict, Terminal, Errors
<1> QED
  BY <1>1, <1>4, <1>5, <1>6, <1>7

\* A command left behind by a step that took its run past the result write,
\* if that is what the command is.
LEMMA LeaveKeepsLate ==
    ASSUME LateInv, NEW r \in Requests, Leave(r), PastIsKept,
           pc[r] = "merging" => pc'[r] \in Written
    PROVE  LateIsTruthful' /\ late' \in SUBSET Command
<1>1. PICK c \in Sent(r) : late' = late \cup {c}
  BY DEF Leave
<1>2. ScanInv /\ late \in SUBSET Command /\ \A d \in late : Truthful(d)
  BY DEF LateInv, LateTypeOK, LateIsTruthful
<1>3. \A d \in late : Truthful(d)'
  BY <1>2, TruthStays
<1>4. c \in Command /\ c.run = r /\ pc[r] \in Live
  BY <1>2, SentIsTruthful
<1>5. Truthful(c)'
  <2>1. CASE c.kind # "result"
    BY <1>2, <1>4, <2>1, SentIsTruthful, TruthStays
  <2>2. CASE c.kind = "result"
    <3>1. pc[r] = "merging" /\ r \in AcceptedRuns /\ post[r] \in Post
      BY <1>2, <1>4, <2>2, SentIsTruthful, LiveFacts DEF AcceptedRuns, Live
    <3> QED
      BY <1>4, <2>2, <3>1 DEF Truthful, PastIsKept
  <2> QED
    BY <2>1, <2>2
<1> QED
  BY <1>1, <1>2, <1>3, <1>4, <1>5 DEF LateIsTruthful

\* Giving up on a command is one of the failures the service knows.
LEMMA AbandonStep ==
    ASSUME LateInv, NEW r \in Requests, Abandon(r)
    PROVE  LateInv'
<1>1. ScanInv /\ TypeOK
  BY DEF LateInv, ScanInv
<1>2. Next
  BY DEF Abandon, Next, Scan, Persist
<1>3. ScanInv' /\ TypeOK' /\ PastIsKept
  BY <1>1, <1>2, NextInv, NextKeepsPast DEF ScanInv
<1>4. pc[r] = "merging" => pc'[r] \in Written
  <2> SUFFICES ASSUME pc[r] = "merging" PROVE pc'[r] \in Written
    OBVIOUS
  <2>1. ResultWriteFails(r)
    BY DEF Abandon, AnnounceStart, AnnounceProgress, RecordingFails, GoTo
  <2> QED
    BY <1>1, <2>1 DEF ResultWriteFails, GoTo, Written, TypeOK
<1>5. LateIsTruthful' /\ late' \in SUBSET Command
  BY <1>3, <1>4, LeaveKeepsLate DEF Abandon
<1> QED
  BY <1>3, <1>5 DEF LateInv, LateTypeOK

\* A process that dies leaves its commands behind, and dead runs.
LEMMA DieSendingStep ==
    ASSUME LateInv, NEW r \in Requests, DieSending(r)
    PROVE  LateInv'
<1>1. ScanInv /\ TypeOK /\ Die
  BY DEF LateInv, ScanInv, DieSending
<1>2. ScanInv' /\ TypeOK' /\ PastIsKept
  BY <1>1, NextInv, DieKeepsPast DEF ScanInv, Next, Process
<1>3. pc[r] = "merging" => pc'[r] \in Written
  BY <1>1, DieKeepsPast DEF Live, Written
<1>4. LateIsTruthful' /\ late' \in SUBSET Command
  BY <1>2, <1>3, LeaveKeepsLate DEF DieSending
<1> QED
  BY <1>2, <1>4 DEF LateInv, LateTypeOK

-----------------------------------------------------------------------------
(* A late command is applied.                                              *)

\* To a row: it says complete only of a result that is stored.
LEMMA LateRow ==
    ASSUME LateInv, NEW c \in late, c.kind # "result", ApplyLate(c)
    PROVE  /\ RowCompleteMeansStored'
           /\ SinkTypeOK'
           /\ UNCHANGED <<ctem, stored>>
<1>1. /\ ScanInv /\ SinkTypeOK /\ Truthful(c) /\ c \in Command
      /\ UNCHANGED <<post, ctem, stored>>
  BY DEF LateInv, LateTypeOK, ScanInv, TypeOK, LateIsTruthful,
         ApplyLate, Apply
<1>2. /\ c.kind \in {"start", "progress", "verdict"}
      /\ c.job \in Job /\ c.run \in Requests /\ Id(c.run) \in JobIds
      /\ c.kind = "verdict" => c.status \in Terminal /\ c.error \in Errors
  BY <1>1 DEF Command, Truthful, Id, Post
<1>3. PICK id \in JobIds : id = Id(c.run)
  BY <1>2
<1>4. FieldOf(c.job.module) = FieldOfRun(c.run)
  BY <1>1 DEF Truthful, FieldOfRun
<1>5. stored \subseteq stored' /\ \A r \in stored : post'[r] = post[r]
  BY <1>1
<1>6. CASE c.kind = "start"
  <2>1. WriteStart(id, c.job)
    BY <1>6, <1>3 DEF ApplyLate, Apply
  <2>2. OnlyRow(id) /\ scanJobs'[id].status = "running"
    BY <1>1, <1>2, <2>1, WriteStartLemma
  <2>3. \A i \in JobIds : RowStatus(i)' = "complete" =>
            i # id /\ RowStatus(i) = "complete" /\ scanJobs'[i] = scanJobs[i]
    BY <1>2, <2>2 DEF OnlyRow, RowStatus
  <2>4. RowCompleteMeansStored'
    BY <1>1, <1>5, <2>3, RowsKept
  <2> QED
    BY <1>1, <2>2, <2>4 DEF OnlyRow, SinkTypeOK
<1>7. CASE c.kind = "progress"
  <2>1. WriteProgress(id, c.job)
    BY <1>7, <1>3 DEF ApplyLate, Apply
  <2>2. /\ OnlyRow(id)
        /\ scanJobs'[id] = NoRow <=> scanJobs[id] = NoRow
        /\ scanJobs[id] # NoRow =>
              /\ scanJobs'[id].status = scanJobs[id].status
              /\ scanJobs'[id].type = scanJobs[id].type
              /\ scanJobs'[id].tenant = scanJobs[id].tenant
              /\ scanJobs'[id].domain = scanJobs[id].domain
    BY <1>1, <1>2, <2>1, WriteProgressLemma
  <2>3. \A i \in JobIds : RowStatus(i)' = "complete" =>
            /\ RowStatus(i) = "complete"
            /\ scanJobs'[i].tenant = scanJobs[i].tenant
            /\ scanJobs'[i].domain = scanJobs[i].domain
            /\ scanJobs'[i].type = scanJobs[i].type
    BY <1>2, <2>2 DEF OnlyRow, RowStatus
  <2>4. RowCompleteMeansStored'
    BY <1>1, <1>5, <2>3, RowsKept
  <2> QED
    BY <1>1, <2>2, <2>4 DEF OnlyRow, SinkTypeOK
<1>8. CASE c.kind = "verdict"
  <2>1. WriteVerdict(id, c.job, c.status, c.error)
    BY <1>8, <1>3 DEF ApplyLate, Apply
  <2>2. /\ OnlyRow(id) /\ RowDescribes(id, c.job)
        /\ scanJobs'[id].status = c.status
    BY <1>1, <1>2, <1>8, <2>1, WriteVerdictLemma
  <2>3. ASSUME NEW i \in JobIds, RowStatus(i)' = "complete", i # id
        PROVE  RowStatus(i) = "complete" /\ scanJobs'[i] = scanJobs[i]
    BY <1>2, <2>2, <2>3 DEF OnlyRow, RowStatus
  <2>4. ASSUME RowStatus(id)' = "complete"
        PROVE  \E r \in stored' :
                  /\ Id(r)' = id
                  /\ scanJobs'[id].tenant = post'[r].tenant
                  /\ scanJobs'[id].domain = post'[r].domain
                  /\ scanJobs'[id].type = FieldOfRun(r)'
    <3>1. c.status = "complete"
      BY <1>2, <2>2, <2>4 DEF RowStatus, OnlyRow
    <3>2. c.run \in stored'
      BY <1>1, <1>8, <3>1 DEF Truthful
    <3> QED
      BY <1>1, <1>4, <1>8, <1>3, <2>2, <3>2
         DEF Truthful, RowDescribes, Id, FieldOfRun
  <2>5. RowCompleteMeansStored'
    BY <1>1, <1>5, <2>3, <2>4, RowsKept
  <2> QED
    BY <1>1, <2>2, <2>5 DEF OnlyRow, SinkTypeOK
<1> QED
  BY <1>2, <1>6, <1>7, <1>8

\* To an array: its run is past writing it.
LEMMA LateResult ==
    ASSUME LateInv, NEW c \in late, c.kind = "result", ApplyLate(c)
    PROVE  /\ RowCompleteMeansStored'
           /\ SinkTypeOK'
           /\ stored' = stored \cup {c.run}
           /\ c.run \in Requests
           /\ pc[c.run] \in Written
<1>1. /\ ScanInv /\ SinkTypeOK /\ CTEMTypeOK /\ Truthful(c) /\ c \in Command
      /\ UNCHANGED <<post, scanJobs>>
      /\ stored' = stored \cup {c.run}
  BY DEF LateInv, LateTypeOK, ScanInv, TypeOK, SinkTypeOK, CTEMTypeOK,
         LateIsTruthful, ApplyLate, Apply
<1>2. /\ c.run \in Requests /\ c.value \in SUBSET Entry
      /\ post[c.run].tenant \in Tenants /\ FieldOfRun(c.run) \in Fields
  BY <1>1 DEF Command, Truthful, Post, FieldOfRun, FieldOf, Fields
<1>3. SetCTEMField(post[c.run].tenant, FieldOfRun(c.run), c.value)
  BY DEF ApplyLate, Apply
<1>4. CTEMTypeOK'
  BY <1>1, <1>2, <1>3, SetCTEMFieldLemma
<1>5. RowCompleteMeansStored'
  BY <1>1, RowsUntouched
<1> QED
  BY <1>1, <1>2, <1>4, <1>5 DEF SinkTypeOK, CTEMTypeOK, Truthful

\* No run that is under way notices.
LEMMA ApplyLateStep ==
    ASSUME LateInv, NEW c \in late, ApplyLate(c)
    PROVE  LateInv'
<1>1. /\ ScanInv /\ late \in SUBSET Command
      /\ \A d \in late : Truthful(d)
      /\ UNCHANGED <<jobs, server, pc, post, targets, found, loaded>>
      /\ late' = late \ {c}
  BY DEF LateInv, LateTypeOK, LateIsTruthful, ApplyLate
<1>2. /\ RowCompleteMeansStored' /\ SinkTypeOK'
      /\ \/ stored' = stored
         \/ /\ stored' = stored \cup {c.run}
            /\ c.run \in Requests /\ pc[c.run] \in Written
  BY LateRow, LateResult
<1>3. TypeOK'
  BY <1>1, <1>2 DEF ScanInv, TypeOK, JobsTypeOK
<1>4. /\ AcceptedBodies' /\ RunsOwnJobs' /\ OneRunPerJob'
      /\ WritersHaveResults'
  BY <1>1 DEF ScanInv, AcceptedBodies, RunsOwnJobs, OneRunPerJob,
              WritersHaveResults, Owner, JobOf, Id
<1>5. VerdictIsEarned'
  BY <1>1, <1>2 DEF ScanInv, VerdictIsEarned, JobOf, Id
<1>6. StoredIsWritten'
  BY <1>1, <1>2 DEF ScanInv, StoredIsWritten
<1>7. PastIsKept
  BY <1>1, <1>2 DEF PastIsKept, AcceptedRuns
<1>8. \A d \in late' : Truthful(d)'
  BY <1>1, <1>7, TruthStays
<1> QED
  BY <1>1, <1>2, <1>3, <1>4, <1>5, <1>6, <1>8
     DEF LateInv, LateTypeOK, ScanInv, LateIsTruthful

-----------------------------------------------------------------------------
\* Every reachable state satisfies the invariant, with any number of
\* commands under way: what is late says only what was so when it was sent
\* and is so for good (MongoSink.Save builds a document, then sends it).
THEOREM LateInvariantHolds == LateSpec => []LateInv
<1>1. LateInit => LateInv
  BY InitInv DEF LateInit, LateInv, LateTypeOK, ScanInv, LateIsTruthful
<1>2. LateInv /\ [LateNext]_lateVars => LateInv'
  <2> SUFFICES ASSUME LateInv, [LateNext]_lateVars PROVE LateInv'
    OBVIOUS
  <2>1. ASSUME [Next]_vars, late' = late PROVE LateInv'
    <3>1. ScanInv' /\ TypeOK' /\ PastIsKept
      BY <2>1, NextInv, NextKeepsPast DEF LateInv, ScanInv
    <3>2. late \in SUBSET Command /\ \A d \in late : Truthful(d)
      BY DEF LateInv, LateTypeOK, LateIsTruthful
    <3>3. \A d \in late : Truthful(d)'
      BY <3>1, <3>2, TruthStays
    <3> QED
      BY <2>1, <3>1, <3>2, <3>3
         DEF LateInv, LateTypeOK, LateIsTruthful
  <2>2. ASSUME NEW r \in Requests, Abandon(r) \/ DieSending(r) PROVE LateInv'
    BY <2>2, AbandonStep, DieSendingStep
  <2>3. ASSUME NEW c \in late, ApplyLate(c) PROVE LateInv'
    BY <2>3, ApplyLateStep
  <2> QED
    BY <2>1, <2>2, <2>3 DEF LateNext, lateVars
<1> QED
  BY <1>1, <1>2, PTL DEF LateSpec

\* Well typed with late commands, too.
THEOREM LateTypeCorrect == LateSpec => []LateTypeOK
<1>1. LateInv => LateTypeOK
  BY DEF LateInv
<1> QED
  BY <1>1, LateInvariantHolds, PTL

\* No command, however late, makes a ScanJob row say complete for findings
\* that are not in CTEMData (docs/API.md:230): the result write has been
\* confirmed before any command says complete.
THEOREM NoFalseCompleteLate == LateSpec => []RowCompleteMeansStored
<1>1. LateInv => RowCompleteMeansStored
  BY DEF LateInv, ScanInv
<1> QED
  BY <1>1, LateInvariantHolds, PTL

=============================================================================
