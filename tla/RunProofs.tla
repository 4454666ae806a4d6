----------------------------- MODULE RunProofs ------------------------------
(***************************************************************************)
(* More theorems about ScanServer: what a poller of a job or of a row can  *)
(* rely on, what may happen to a finished job, and what a merge may touch. *)
(***************************************************************************)
EXTENDS ScanProofs

-----------------------------------------------------------------------------
(* The calls of the job store, to the last key.                            *)

\* Jobs and rows of other ids are as they were.
OthersStay(id) ==
    \A i \in JobIds \ {id} : jobs'[i] = jobs[i] /\ scanJobs'[i] = scanJobs[i]

\* SetCount changes the count.
LEMMA SetCountExact ==
    ASSUME JobsTypeOK, NEW id \in JobIds, Known(id), NEW n \in Nat,
           SetCount(id, n), scanJobs' = scanJobs
    PROVE  OthersStay(id) /\ jobs'[id] = [jobs[id] EXCEPT !.count = n]
BY DEF SetCount, JobsTypeOK, OthersStay

\* SetStatus changes the status, and stamps a terminal one.
LEMMA SetStatusExact ==
    ASSUME JobsTypeOK, NEW id \in JobIds, Known(id), NEW s \in Statuses,
           SetStatus(id, s), scanJobs' = scanJobs
    PROVE  /\ OthersStay(id)
           /\ jobs'[id].status = s
           /\ s \in Terminal => jobs'[id].completedAt
           /\ jobs'[id].count = jobs[id].count
           /\ jobs'[id].error = jobs[id].error
           /\ jobs'[id].result = jobs[id].result
<1>1. jobs[id] \in Job
  BY KnownIsJob
<1>2. jobs' = [jobs EXCEPT ![id] = [jobs[id] EXCEPT
          !.status = s, !.completedAt = jobs[id].completedAt \/ s \in Terminal]]
  BY DEF SetStatus
<1> QED
  BY <1>1, <1>2 DEF JobsTypeOK, OthersStay, Job

\* SetResult changes the result.
LEMMA SetResultExact ==
    ASSUME JobsTypeOK, NEW id \in JobIds, Known(id), NEW hosts \in SUBSET Hosts,
           SetResult(id, hosts), scanJobs' = scanJobs
    PROVE  OthersStay(id) /\ jobs'[id] = [jobs[id] EXCEPT !.result = hosts]
BY DEF SetResult, JobsTypeOK, OthersStay

\* SetError changes the error.
LEMMA SetErrorExact ==
    ASSUME JobsTypeOK, NEW id \in JobIds, Known(id), NEW e \in Errors, e # "",
           SetError(id, e), scanJobs' = scanJobs
    PROVE  OthersStay(id) /\ jobs'[id] = [jobs[id] EXCEPT !.error = e]
BY DEF SetError, JobsTypeOK, OthersStay

-----------------------------------------------------------------------------
(* What one step of a run must see to.                                     *)

SoundJob(job) ==
    /\ job.status = "failed" => job.error # "" /\ job.completedAt
    /\ job.status = "complete" =>
          job.result # NoResult /\ job.count = Cardinality(job.result)

SoundRow(row) ==
    row # NoRow /\ row.status = "failed" => row.error # "" /\ row.completedAt

\* What FinishedJobIsFrozen and CompleteIsFinal ask of a job.
Frozen(old, new) ==
    old.status \in Terminal =>
        /\ new.status = old.status \/ (Mongo /\ new.status = "failed")
        /\ new.count = old.count
        /\ new.result = old.result

\* What CompletedRunIsRecorded asks when a run ends.
Recorded(job, row, isStored) ==
    (Mongo /\ job.status = "complete") =>
        /\ isStored
        /\ row # NoRow /\ row.status = "complete" /\ row.completedAt
        /\ row.count = job.count /\ row.count = Cardinality(job.result)

SoundStep(r, to) ==
    /\ pc' = [pc EXCEPT ![r] = to]
    /\ post' = post
    /\ server' # "down"
    /\ OthersStay(Id(r))
    /\ \A s \in Requests \ {r} : found'[s] = found[s]
    /\ stored \subseteq stored'
    /\ SoundRun(to, jobs'[Id(r)], found'[r])
    /\ SoundJob(jobs'[Id(r)])
    /\ Frozen(jobs[Id(r)], jobs'[Id(r)])
    /\ SoundRow(scanJobs'[Id(r)])
    /\ to = "done" =>
          Recorded(jobs'[Id(r)], scanJobs'[Id(r)], r \in stored')

\* What a live run finds.
LEMMA LiveSound ==
    ASSUME RunInv, NEW r \in Requests, pc[r] \in Live
    PROVE  /\ SoundRun(pc[r], jobs[Id(r)], found[r])
           /\ SoundJob(jobs[Id(r)])
           /\ SoundRow(scanJobs[Id(r)])
           /\ found[r] \in SUBSET Hosts
           /\ IsFiniteSet(found[r])
           /\ Cardinality(found[r]) \in Nat
<1>1. ScanInv /\ SoundRun(pc[r], JobOf(r), found[r])
  BY DEF RunInv
<1>2. Known(Id(r)) /\ Id(r) \in JobIds
  BY <1>1, LiveFacts
<1>3. SoundJob(jobs[Id(r)])
  BY <1>2 DEF RunInv, FailureCarriesReason, CompleteJobIsWhole, SoundJob,
              Known
<1>4. SoundRow(scanJobs[Id(r)])
  BY <1>2 DEF RunInv, FailureCarriesReason, SoundRow, RowStatus
<1>5. found[r] \in SUBSET Hosts
  BY <1>1 DEF ScanInv, TypeOK
<1>6. IsFiniteSet(found[r])
  BY <1>5, HostsAssumption, FS_Subset
<1>7. Cardinality(found[r]) \in Nat
  BY <1>6, FS_CardinalityType
<1> QED
  BY <1>1, <1>3, <1>4, <1>5, <1>6, <1>7 DEF JobOf

\* A step that sees to it keeps the whole invariant.
LEMMA SoundStepKeeps ==
    ASSUME RunInv, ScanInv', NEW r \in Requests, pc[r] \in Live,
           NEW to \in Live \cup {"done"}, SoundStep(r, to)
    PROVE  RunInv'
<1>1. ScanInv /\ pc \in [Requests -> Pcs] /\ Id(r) \in JobIds
  BY LiveFacts DEF RunInv, ScanInv, TypeOK
<1>2. \A s \in Requests : pc'[s] = IF s = r THEN to ELSE pc[s]
  BY <1>1 DEF SoundStep
<1>3. \A s \in Requests \ {r} : Owner(s) =>
          /\ Id(s) \in JobIds \ {Id(r)}
          /\ JobOf(s)' = JobOf(s)
          /\ scanJobs'[Id(s)'] = scanJobs[Id(s)]
  <2> SUFFICES ASSUME NEW s \in Requests \ {r}, Owner(s)
               PROVE  /\ Id(s) \in JobIds \ {Id(r)}
                      /\ JobOf(s)' = JobOf(s)
                      /\ scanJobs'[Id(s)'] = scanJobs[Id(s)]
    OBVIOUS
  <2>1. Id(s) \in JobIds
    BY <1>1 DEF Owner, ScanInv, AcceptedBodies, Live, Id, Post
  <2>2. Id(s) # Id(r)
    BY <1>1 DEF ScanInv, OneRunPerJob, Owner
  <2>3. Id(s)' = Id(s)
    BY DEF SoundStep, Id
  <2> QED
    BY <2>1, <2>2, <2>3 DEF SoundStep, OthersStay, JobOf
<1>4. Id(r)' = Id(r) /\ JobOf(r)' = jobs'[Id(r)]
  BY DEF SoundStep, Id, JobOf
<1>5. CompletedRunIsRecorded'
  <2> SUFFICES ASSUME NEW s \in Requests, Mongo, pc'[s] = "done",
                      JobOf(s)'.status = "complete"
               PROVE  /\ s \in stored'
                      /\ RowStatus(Id(s))' = "complete"
                      /\ scanJobs'[Id(s)'].completedAt
                      /\ scanJobs'[Id(s)'].count = JobOf(s)'.count
                      /\ scanJobs'[Id(s)'].count = Cardinality(JobOf(s)'.result)
    BY DEF CompletedRunIsRecorded, Mongo
  <2>1. CASE s = r
    BY <1>2, <1>4, <2>1 DEF SoundStep, Recorded, RowStatus
  <2>2. CASE s # r
    <3>1. pc[s] = "done" /\ Owner(s)
      BY <1>2, <2>2 DEF Owner
    <3>2. JobOf(s)' = JobOf(s) /\ scanJobs'[Id(s)'] = scanJobs[Id(s)]
      BY <1>3, <2>2, <3>1
    <3>3. /\ s \in stored
          /\ RowStatus(Id(s)) = "complete"
          /\ scanJobs[Id(s)].completedAt
          /\ scanJobs[Id(s)].count = JobOf(s).count
          /\ scanJobs[Id(s)].count = Cardinality(JobOf(s).result)
      BY <3>1, <3>2 DEF RunInv, CompletedRunIsRecorded
    <3> QED
      BY <3>2, <3>3 DEF SoundStep, RowStatus
  <2> QED
    BY <2>1, <2>2
<1>6. FailureCarriesReason'
  <2> SUFFICES ASSUME NEW id \in JobIds
               PROVE  /\ (jobs'[id] # NoJob /\ jobs'[id].status = "failed") =>
                             jobs'[id].error # "" /\ jobs'[id].completedAt
                      /\ RowStatus(id)' = "failed" =>
                             scanJobs'[id].error # "" /\ scanJobs'[id].completedAt
    BY DEF FailureCarriesReason
  <2>1. CASE id = Id(r)
    BY <2>1 DEF SoundStep, SoundJob, SoundRow, RowStatus
  <2>2. CASE id # Id(r)
    <3>1. jobs'[id] = jobs[id] /\ scanJobs'[id] = scanJobs[id]
      BY <2>2 DEF SoundStep, OthersStay
    <3> QED
      BY <3>1 DEF RunInv, FailureCarriesReason, RowStatus
  <2> QED
    BY <2>1, <2>2
<1>7. CompleteJobIsWhole'
  <2> SUFFICES ASSUME NEW id \in JobIds, jobs'[id] # NoJob,
                      jobs'[id].status = "complete"
               PROVE  /\ jobs'[id].result # NoResult
                      /\ jobs'[id].count = Cardinality(jobs'[id].result)
    BY DEF CompleteJobIsWhole, Known
  <2>1. CASE id = Id(r)
    BY <2>1 DEF SoundStep, SoundJob
  <2>2. CASE id # Id(r)
    BY <2>2 DEF SoundStep, OthersStay, RunInv, CompleteJobIsWhole, Known
  <2> QED
    BY <2>1, <2>2
<1>8. \A s \in Requests : SoundRun(pc[s], JobOf(s), found[s])'
  <2> SUFFICES ASSUME NEW s \in Requests
               PROVE  SoundRun(pc'[s], JobOf(s)', found'[s])
    BY DEF SoundRun, Mongo
  <2>1. CASE s = r
    BY <1>2, <1>4, <2>1 DEF SoundStep
  <2>2. CASE s # r
    <3>1. /\ pc'[s] = pc[s] /\ found'[s] = found[s]
          /\ SoundRun(pc[s], JobOf(s), found[s])
      BY <1>2, <2>2 DEF SoundStep, RunInv
    <3>2. CASE Owner(s)
      BY <1>3, <2>2, <3>1, <3>2
    <3>3. CASE ~ Owner(s)
      BY <3>1, <3>3 DEF SoundRun, Owner, Live, Scanning, Saving
    <3> QED
      BY <3>2, <3>3
  <2> QED
    BY <2>1, <2>2
<1> QED
  BY <1>5, <1>6, <1>7, <1>8 DEF RunInv

-----------------------------------------------------------------------------
(* Steps that leave the run's job alone.                                   *)

\* A step that calls the job store not at all.
LEMMA NoCall ==
    ASSUME RunInv, NEW r \in Requests, NEW from \in Live,
           NEW to \in Live, GoTo(r, from, to),
           UNCHANGED <<jobs, server, post, found>>, stored \subseteq stored',
           \A i \in JobIds \ {Id(r)} : scanJobs'[i] = scanJobs[i],
           SoundRun(to, jobs[Id(r)], found[r]),
           SoundRow(scanJobs'[Id(r)])
    PROVE  \E place \in Live \cup {"done"} : SoundStep(r, place)
<1>1. pc[r] \in Live /\ to # "done"
  BY DEF GoTo, Live
<1>2. SoundJob(jobs[Id(r)])
  BY <1>1, LiveSound
<1>3. SoundStep(r, to)
  BY <1>1, <1>2 DEF SoundStep, GoTo, OthersStay, Frozen
<1> QED
  BY <1>3

\* Start makes a row that says running, which needs no reason.
LEMMA StartSoundRow ==
    ASSUME SinkTypeOK, NEW id \in JobIds, NEW job \in Job, WriteStart(id, job)
    PROVE  /\ SoundRow(scanJobs'[id])
           /\ \A i \in JobIds \ {id} : scanJobs'[i] = scanJobs[i]
BY WriteStartLemma DEF SoundRow, OnlyRow

\* Progress leaves a failed row its reason: it only sets the count.
LEMMA ProgressSoundRow ==
    ASSUME SinkTypeOK, NEW id \in JobIds, NEW job \in Job,
           WriteProgress(id, job), SoundRow(scanJobs[id])
    PROVE  /\ SoundRow(scanJobs'[id])
           /\ \A i \in JobIds \ {id} : scanJobs'[i] = scanJobs[i]
<1>1. CASE scanJobs[id] = NoRow
  BY <1>1 DEF WriteProgress
<1>2. CASE scanJobs[id] # NoRow
  <2>1. scanJobs[id] \in Row
    BY <1>2, RowExists
  <2>2. scanJobs' = [scanJobs EXCEPT ![id] =
            [scanJobs[id] EXCEPT !.count = job.count]]
    BY <1>2 DEF WriteProgress
  <2> QED
    BY <1>2, <2>1, <2>2 DEF SoundRow, SinkTypeOK, Row
<1> QED
  BY <1>1, <1>2

\* A verdict brings the reason its status needs along.
LEMMA VerdictSoundRow ==
    ASSUME SinkTypeOK, NEW id \in JobIds, NEW job \in Job,
           NEW status \in Terminal, NEW error \in Errors,
           WriteVerdict(id, job, status, error),
           status = "failed" => error # ""
    PROVE  /\ SoundRow(scanJobs'[id])
           /\ scanJobs'[id] # NoRow
           /\ scanJobs'[id].status = status
           /\ scanJobs'[id].completedAt
           /\ scanJobs'[id].count = job.count
           /\ \A i \in JobIds \ {id} : scanJobs'[i] = scanJobs[i]
<1> DEFINE row == Upserted(id, job)
           why == IF error # "" THEN error ELSE row.error
           new == [row EXCEPT !.status = status, !.count = job.count,
                     !.error = why, !.completedAt = TRUE]
<1>1. row \in Row
  BY UpsertedLemma
<1>2. scanJobs' = [scanJobs EXCEPT ![id] = new]
  BY DEF WriteVerdict
<1> HIDE DEF row
<1>3. /\ new.status = status /\ new.completedAt /\ new.count = job.count
      /\ error # "" => new.error # ""
  BY <1>1 DEF Row
<1>4. new \in Row
  BY <1>1 DEF Row, Job, Statuses, Terminal
<1> HIDE DEF new
<1> QED
  BY <1>2, <1>3, <1>4, NoRowIsNotARow DEF SoundRow, SinkTypeOK

\* Start touches the row of a run whose job is still running.
LEMMA AnnounceStartSound ==
    ASSUME RunInv, NEW r \in Requests, AnnounceStart(r)
    PROVE  \E to \in Live \cup {"done"} : SoundStep(r, to)
<1> DEFINE to == IF post[r].module = "ports" THEN "listing" ELSE "scanning"
<1>1. GoTo(r, "start", to) /\ to \in Scanning \cap Live
      /\ UNCHANGED <<jobs, server, post, found, stored>>
  BY DEF AnnounceStart, Scanning, Live, work
<1>2. pc[r] = "start" /\ pc[r] \in Live /\ "start" \in Live
  BY <1>1 DEF GoTo, Live
<1>3. /\ Id(r) \in JobIds /\ JobOf(r) \in Job /\ SinkTypeOK
      /\ SoundRow(scanJobs[Id(r)])
      /\ SoundRun(pc[r], jobs[Id(r)], found[r])
  BY <1>2, LiveFacts, LiveSound DEF RunInv
<1>4. SoundRun(to, jobs[Id(r)], found[r])
  BY <1>1, <1>2, <1>3 DEF SoundRun, Scanning, Saving
<1>5. WriteStart(Id(r), JobOf(r)) \/ scanJobs' = scanJobs
  BY DEF AnnounceStart
<1>6. /\ SoundRow(scanJobs'[Id(r)])
      /\ \A i \in JobIds \ {Id(r)} : scanJobs'[i] = scanJobs[i]
  BY <1>3, <1>5, StartSoundRow
<1> HIDE DEF to
<1> QED
  BY <1>1, <1>2, <1>4, <1>6, NoCall

\* Progress touches the row of a run whose job is still running.
LEMMA AnnounceProgressSound ==
    ASSUME RunInv, NEW r \in Requests, AnnounceProgress(r)
    PROVE  \E to \in Live \cup {"done"} : SoundStep(r, to)
<1> DEFINE to == IF post[r].module = "ports" THEN "scanning" ELSE "returning"
<1>1. GoTo(r, "progress", to) /\ to \in Scanning \cap Live
      /\ UNCHANGED <<jobs, server, post, found, stored>>
  BY DEF AnnounceProgress, Scanning, Live, work
<1>2. pc[r] = "progress" /\ pc[r] \in Live /\ "progress" \in Live
  BY <1>1 DEF GoTo, Live
<1>3. /\ Id(r) \in JobIds /\ JobOf(r) \in Job /\ SinkTypeOK
      /\ SoundRow(scanJobs[Id(r)])
      /\ SoundRun(pc[r], jobs[Id(r)], found[r])
  BY <1>2, LiveFacts, LiveSound DEF RunInv
<1>4. SoundRun(to, jobs[Id(r)], found[r])
  BY <1>1, <1>2, <1>3 DEF SoundRun, Scanning, Saving
<1>5. WriteProgress(Id(r), JobOf(r)) \/ scanJobs' = scanJobs
  BY DEF AnnounceProgress
<1>6. /\ SoundRow(scanJobs'[Id(r)])
      /\ \A i \in JobIds \ {Id(r)} : scanJobs'[i] = scanJobs[i]
  BY <1>3, <1>5, ProgressSoundRow
<1> HIDE DEF to
<1> QED
  BY <1>1, <1>2, <1>4, <1>6, NoCall

\* Reading the targets changes neither job nor row.
LEMMA ListTargetsSound ==
    ASSUME RunInv, NEW r \in Requests, ListTargets(r)
    PROVE  \E to \in Live \cup {"done"} : SoundStep(r, to)
<1>1. GoTo(r, "listing", "scanning") /\ pc[r] = "listing"
      /\ UNCHANGED <<jobs, scanJobs, server, post, found, stored>>
  BY DEF ListTargets, GoTo, sinkVars
<1>2. pc[r] \in Live /\ {"listing", "scanning"} \subseteq Live
  BY <1>1 DEF Live
<1>3. SoundRow(scanJobs[Id(r)]) /\ SoundRun(pc[r], jobs[Id(r)], found[r])
  BY <1>2, LiveSound
<1>4. SoundRun("scanning", jobs[Id(r)], found[r])
  BY <1>1, <1>3 DEF SoundRun, Scanning, Saving
<1> QED
  BY <1>1, <1>2, <1>3, <1>4, NoCall

\* loadCTEM, setCTEMField and what follows their failure.
LEMMA ResultSound ==
    ASSUME RunInv, NEW r \in Requests,
           LoadCTEM(r) \/ StoreMerged(r) \/ ResultWriteFails(r)
    PROVE  \E to \in Live \cup {"done"} : SoundStep(r, to)
<1>1. PICK from, to \in (Saving \cap Live) \ {"saveErrored"} :
          GoTo(r, from, to)
  BY DEF LoadCTEM, StoreMerged, ResultWriteFails, Saving, Live
<1>2. UNCHANGED <<jobs, scanJobs, server, post, found>>
      /\ stored \subseteq stored'
  BY DEF LoadCTEM, StoreMerged, ResultWriteFails, WriteResult, sinkVars
<1>3. pc[r] = from /\ pc[r] \in Live
  BY <1>1 DEF GoTo
<1>4. SoundRow(scanJobs[Id(r)]) /\ SoundRun(pc[r], jobs[Id(r)], found[r])
  BY <1>3, LiveSound
<1>5. SoundRun(to, jobs[Id(r)], found[r])
  BY <1>1, <1>3, <1>4 DEF SoundRun, Scanning, Saving
<1> QED
  BY <1>1, <1>2, <1>4, <1>5, NoCall

\* saveScanJob, confirmed or not.
LEMMA VerdictSound ==
    ASSUME RunInv, NEW r \in Requests,
           RecordVerdict(r) \/ RecordFailure(r) \/ RecordingFails(r)
    PROVE  \E to \in Live \cup {"done"} : SoundStep(r, to)
<1>1. PICK from \in {"recording", "recordFailure"},
           to \in {"done", "saveFailed"} :
          /\ GoTo(r, from, to)
          /\ to = "done" => from = "recording" /\ RecordVerdict(r)
  BY DEF RecordVerdict, RecordFailure, RecordingFails
<1>2. UNCHANGED <<jobs, server, post, found, stored>> /\ server # "down"
  BY <1>1 DEF RecordVerdict, RecordFailure, RecordingFails, work, GoTo
<1>3. pc[r] = from /\ pc[r] \in Live /\ pc' = [pc EXCEPT ![r] = to]
  BY <1>1 DEF GoTo, Live
<1>4. /\ ScanInv /\ Id(r) \in JobIds /\ JobOf(r) \in Job /\ SinkTypeOK
      /\ SoundRow(scanJobs[Id(r)]) /\ SoundJob(jobs[Id(r)])
      /\ SoundRun(pc[r], jobs[Id(r)], found[r])
      /\ JobOf(r) = jobs[Id(r)] /\ JobOf(r).error \in Errors
  BY <1>3, LiveFacts, LiveSound DEF RunInv, JobOf, Job
<1>5. SoundRun(to, jobs[Id(r)], found[r])
  BY <1>3, <1>4 DEF SoundRun, Scanning, Saving
<1>6. from = "recording" => /\ JobOf(r).status \in Terminal
                            /\ JobOf(r).status = "complete" => r \in stored
  BY <1>3, <1>4 DEF ScanInv, VerdictIsEarned
<1>7. \/ /\ from = "recording"
         /\ WriteVerdict(Id(r), JobOf(r), JobOf(r).status, JobOf(r).error)
      \/ WriteVerdict(Id(r), JobOf(r), "failed", "store")
      \/ to # "done" /\ scanJobs' = scanJobs
  BY <1>1, <1>3 DEF RecordVerdict, RecordFailure, RecordingFails, GoTo
<1>8. /\ SoundRow(scanJobs'[Id(r)])
      /\ \A i \in JobIds \ {Id(r)} : scanJobs'[i] = scanJobs[i]
  <2>1. CASE /\ from = "recording"
             /\ WriteVerdict(Id(r), JobOf(r), JobOf(r).status, JobOf(r).error)
    BY <1>4, <1>6, <2>1, VerdictSoundRow DEF SoundJob
  <2>2. CASE WriteVerdict(Id(r), JobOf(r), "failed", "store")
    BY <1>4, <2>2, VerdictSoundRow DEF Terminal, Errors
  <2> QED
    BY <1>4, <1>7, <2>1, <2>2
<1>9. ASSUME to = "done"
      PROVE  Recorded(jobs[Id(r)], scanJobs'[Id(r)], r \in stored)
  <2>1. /\ from = "recording"
        /\ WriteVerdict(Id(r), JobOf(r), JobOf(r).status, JobOf(r).error)
    BY <1>1, <1>9 DEF RecordVerdict
  <2>2. /\ scanJobs'[Id(r)] # NoRow
        /\ scanJobs'[Id(r)].status = JobOf(r).status
        /\ scanJobs'[Id(r)].completedAt
        /\ scanJobs'[Id(r)].count = JobOf(r).count
    <3>1. /\ JobOf(r).status \in Terminal
          /\ JobOf(r).status = "failed" => JobOf(r).error # ""
      BY <1>4, <1>6, <2>1 DEF SoundJob
    <3> QED
      BY <1>4, <2>1, <3>1, VerdictSoundRow, Zenon
  <2> QED
    BY <1>4, <1>6, <2>1, <2>2 DEF Recorded, SoundJob
<1>10. SoundStep(r, to)
  BY <1>2, <1>3, <1>4, <1>5, <1>8, <1>9 DEF SoundStep, OthersStay, Frozen
<1> QED
  BY <1>1, <1>10 DEF Live

-----------------------------------------------------------------------------
(* Steps that call the job store.                                          *)

\* A call that leaves rows and results alone.
LEMMA Call ==
    ASSUME RunInv, NEW r \in Requests, NEW from \in Live,
           NEW to \in Live \cup {"done"}, GoTo(r, from, to),
           UNCHANGED <<scanJobs, server, post, stored>>, OthersStay(Id(r)),
           \A s \in Requests \ {r} : found'[s] = found[s],
           SoundRun(to, jobs'[Id(r)], found'[r]),
           SoundJob(jobs'[Id(r)]),
           Frozen(jobs[Id(r)], jobs'[Id(r)]),
           to = "done" => ~ Mongo \/ jobs'[Id(r)].status = "failed"
    PROVE  \E place \in Live \cup {"done"} : SoundStep(r, place)
<1>1. pc[r] \in Live
  BY DEF GoTo
<1>2. SoundRow(scanJobs[Id(r)])
  BY <1>1, LiveSound
<1>3. to = "done" => Recorded(jobs'[Id(r)], scanJobs'[Id(r)], r \in stored')
  BY DEF Recorded
<1>4. SoundStep(r, to)
  BY <1>2, <1>3 DEF SoundStep, GoTo
<1> QED
  BY <1>4

\* onProgress, first half: the count follows the hosts.
LEMMA ReportSound ==
    ASSUME RunInv, NEW r \in Requests, NEW hosts \in SUBSET Hosts,
           Report(r, hosts)
    PROVE  \E to \in Live \cup {"done"} : SoundStep(r, to)
<1>1. /\ GoTo(r, "scanning", "progress") /\ pc[r] = "scanning"
      /\ UNCHANGED <<scanJobs, server, post, stored>>
      /\ found' = [found EXCEPT ![r] = hosts]
      /\ SetCount(Id(r), Cardinality(hosts))
  BY DEF Report, GoTo, sinkVars
<1>2. pc[r] \in Live /\ {"scanning", "progress"} \subseteq Live
  BY <1>1 DEF Live
<1>3. /\ Id(r) \in JobIds /\ Known(Id(r)) /\ JobsTypeOK
      /\ jobs[Id(r)] \in Job
      /\ SoundRun(pc[r], jobs[Id(r)], found[r])
      /\ found \in [Requests -> SUBSET Hosts]
  BY <1>2, LiveFacts, LiveSound DEF RunInv, ScanInv, TypeOK, JobOf
<1>4. Cardinality(hosts) \in Nat
  BY HostsAssumption, FS_Subset, FS_CardinalityType
<1>5. /\ OthersStay(Id(r))
      /\ jobs'[Id(r)] = [jobs[Id(r)] EXCEPT !.count = Cardinality(hosts)]
  BY <1>1, <1>3, <1>4, SetCountExact
<1>6. /\ jobs'[Id(r)].status = "running"
      /\ jobs'[Id(r)].count = Cardinality(hosts)
      /\ jobs[Id(r)].status = "running"
  BY <1>1, <1>3, <1>5 DEF Job, SoundRun, Scanning
<1>7. found'[r] = hosts /\ \A s \in Requests \ {r} : found'[s] = found[s]
  BY <1>1, <1>3
<1>8. SoundRun("progress", jobs'[Id(r)], found'[r])
  BY <1>6, <1>7 DEF SoundRun, Scanning, Saving
<1>9. SoundJob(jobs'[Id(r)]) /\ Frozen(jobs[Id(r)], jobs'[Id(r)])
  BY <1>6 DEF SoundJob, Frozen, Terminal
<1> QED
  BY <1>1, <1>2, <1>5, <1>7, <1>8, <1>9, Call

\* The result has as many hosts as the last count.
LEMMA RunSucceedsSound ==
    ASSUME RunInv, NEW r \in Requests, RunSucceeds(r)
    PROVE  \E to \in Live \cup {"done"} : SoundStep(r, to)
<1>1. /\ GoTo(r, pc[r], "succeeded") /\ pc[r] \in Scanning \cap Live
      /\ UNCHANGED <<scanJobs, server, post, stored, found>>
      /\ SetResult(Id(r), found[r])
  BY DEF RunSucceeds, sinkVars, work, Scanning, Live
<1>2. "succeeded" \in Live
  BY DEF Live
<1>3. /\ Id(r) \in JobIds /\ Known(Id(r)) /\ JobsTypeOK
      /\ jobs[Id(r)] \in Job /\ found[r] \in SUBSET Hosts
      /\ SoundRun(pc[r], jobs[Id(r)], found[r])
  BY <1>1, LiveFacts, LiveSound DEF RunInv, JobOf
<1>4. /\ OthersStay(Id(r))
      /\ jobs'[Id(r)] = [jobs[Id(r)] EXCEPT !.result = found[r]]
  BY <1>1, <1>3, SetResultExact
<1>5. /\ jobs'[Id(r)].status = "running" /\ jobs[Id(r)].status = "running"
      /\ jobs'[Id(r)].count = Cardinality(jobs'[Id(r)].result)
  BY <1>1, <1>3, <1>4 DEF Job, SoundRun
<1>6. SoundRun("succeeded", jobs'[Id(r)], found'[r])
  BY <1>5 DEF SoundRun, Scanning, Saving
<1>7. SoundJob(jobs'[Id(r)]) /\ Frozen(jobs[Id(r)], jobs'[Id(r)])
  BY <1>5 DEF SoundJob, Frozen, Terminal
<1> QED
  BY <1>1, <1>2, <1>4, <1>6, <1>7, Call

\* The reason comes before the status.
LEMMA RunErrorSound ==
    ASSUME RunInv, NEW r \in Requests,
           RunFails(r) \/ RunPanics(r)
    PROVE  \E to \in Live \cup {"done"} : SoundStep(r, to)
<1>1. PICK e \in Errors \ {""} :
          /\ GoTo(r, pc[r], "failing") /\ pc[r] \in Scanning \cap Live
          /\ UNCHANGED <<scanJobs, server, post, stored, found>>
          /\ SetError(Id(r), e)
  BY DEF RunFails, RunPanics, Errors, sinkVars, work, Scanning, Live
<1>2. "failing" \in Live
  BY DEF Live
<1>3. /\ Id(r) \in JobIds /\ Known(Id(r)) /\ JobsTypeOK
      /\ jobs[Id(r)] \in Job
      /\ SoundRun(pc[r], jobs[Id(r)], found[r])
  BY <1>1, LiveFacts, LiveSound DEF RunInv, JobOf
<1>4. OthersStay(Id(r)) /\ jobs'[Id(r)] = [jobs[Id(r)] EXCEPT !.error = e]
  BY <1>1, <1>3, SetErrorExact
<1>5. /\ jobs'[Id(r)].status = "running" /\ jobs[Id(r)].status = "running"
      /\ jobs'[Id(r)].error # ""
  BY <1>1, <1>3, <1>4 DEF Job, SoundRun
<1>6. SoundRun("failing", jobs'[Id(r)], found'[r])
  BY <1>5 DEF SoundRun, Scanning, Saving
<1>7. SoundJob(jobs'[Id(r)]) /\ Frozen(jobs[Id(r)], jobs'[Id(r)])
  BY <1>5 DEF SoundJob, Frozen, Terminal
<1> QED
  BY <1>1, <1>2, <1>4, <1>6, <1>7, Call

\* persist's SetError, on a job that is terminal already.
LEMMA NoteSaveErrorSound ==
    ASSUME RunInv, NEW r \in Requests, NoteSaveError(r)
    PROVE  \E to \in Live \cup {"done"} : SoundStep(r, to)
<1>1. /\ GoTo(r, "saveFailed", "saveErrored") /\ pc[r] = "saveFailed"
      /\ UNCHANGED <<scanJobs, server, post, stored, found>>
      /\ SetError(Id(r), "store")
  BY DEF NoteSaveError, GoTo, sinkVars, work
<1>2. {"saveFailed", "saveErrored"} \subseteq Live \cap Saving /\ "store" \in Errors
  BY DEF Live, Saving, Errors
<1>3. /\ Id(r) \in JobIds /\ Known(Id(r)) /\ JobsTypeOK
      /\ jobs[Id(r)] \in Job /\ SoundJob(jobs[Id(r)])
      /\ SoundRun(pc[r], jobs[Id(r)], found[r])
  BY <1>1, <1>2, LiveFacts, LiveSound DEF RunInv, JobOf
<1>4. OthersStay(Id(r)) /\ jobs'[Id(r)] = [jobs[Id(r)] EXCEPT !.error = "store"]
  BY <1>1, <1>2, <1>3, SetErrorExact
<1>5. /\ jobs'[Id(r)].status = jobs[Id(r)].status
      /\ jobs'[Id(r)].count = jobs[Id(r)].count
      /\ jobs'[Id(r)].result = jobs[Id(r)].result
      /\ jobs'[Id(r)].completedAt = jobs[Id(r)].completedAt
      /\ jobs'[Id(r)].error = "store"
  BY <1>3, <1>4 DEF Job
<1>6. SoundRun("saveErrored", jobs'[Id(r)], found'[r])
  BY <1>1, <1>2, <1>3, <1>5 DEF SoundRun, Scanning
<1>7. SoundJob(jobs'[Id(r)]) /\ Frozen(jobs[Id(r)], jobs'[Id(r)])
  BY <1>3, <1>5 DEF SoundJob, Frozen
<1> QED
  BY <1>1, <1>2, <1>4, <1>6, <1>7, Call

\* The status, once result or reason is there: of a job that runs, or in
\* mongo mode of one whose Save failed.
LEMMA StatusSound ==
    ASSUME RunInv, NEW r \in Requests, NEW from \in Live,
           NEW to \in {"loading", "recording", "saveFailed", "done"},
           NEW s \in Terminal, GoTo(r, from, to), SetStatus(Id(r), s),
           UNCHANGED <<scanJobs, server, post, stored, found>>,
           \/ jobs[Id(r)].status = "running"
           \/ Mongo /\ s = "failed",
           s = "failed" => jobs[Id(r)].error # "",
           s = "complete" =>
               /\ jobs[Id(r)].result # NoResult
               /\ jobs[Id(r)].count = Cardinality(jobs[Id(r)].result),
           to # "done" => Mongo,
           to = "done" => ~ Mongo \/ s = "failed"
    PROVE  \E place \in Live \cup {"done"} : SoundStep(r, place)
<1>1. pc[r] \in Live /\ to \in Live \cup {"done"} /\ s \in Statuses
  BY DEF GoTo, Live, Statuses, Terminal
<1>2. Id(r) \in JobIds /\ Known(Id(r)) /\ JobsTypeOK
  BY <1>1, LiveFacts DEF RunInv
<1>3. /\ OthersStay(Id(r))
      /\ jobs'[Id(r)].status = s /\ jobs'[Id(r)].completedAt
      /\ jobs'[Id(r)].count = jobs[Id(r)].count
      /\ jobs'[Id(r)].error = jobs[Id(r)].error
      /\ jobs'[Id(r)].result = jobs[Id(r)].result
  BY <1>1, <1>2, SetStatusExact
<1>4. SoundRun(to, jobs'[Id(r)], found'[r])
  BY DEF SoundRun, Scanning, Saving
<1>5. SoundJob(jobs'[Id(r)])
  BY <1>3 DEF SoundJob
<1>6. Frozen(jobs[Id(r)], jobs'[Id(r)])
  BY <1>3 DEF Frozen, Terminal
<1> QED
  BY <1>1, <1>3, <1>4, <1>5, <1>6, Call

\* Where Save begins, it ends at once in api_response mode and only there.
LEMMA SaveFromMode ==
    ASSUME NEW r \in Requests, NEW s \in Terminal
    PROVE  /\ SaveFrom(r, s) \in {"loading", "recording", "saveFailed", "done"}
           /\ SaveFrom(r, s) = "done" <=> ~ Mongo
BY ModeAssumption DEF SaveFrom, Mongo

\* SetStatus after SetResult, or after SetError, has what the status needs.
LEMMA MarkSound ==
    ASSUME RunInv, NEW r \in Requests,
           MarkComplete(r) \/ MarkFailed(r) \/ FailAfterSave(r)
    PROVE  \E to \in Live \cup {"done"} : SoundStep(r, to)
<1>1. UNCHANGED <<scanJobs, server, post, stored, found>>
  BY DEF MarkComplete, MarkFailed, FailAfterSave, sinkVars, work
<1>2. pc[r] \in {"succeeded", "failing", "saveErrored"} /\ pc[r] \in Live
  BY DEF MarkComplete, MarkFailed, FailAfterSave, GoTo, Live
<1>3. ScanInv /\ SoundRun(pc[r], jobs[Id(r)], found[r])
  BY <1>2, LiveSound DEF RunInv
<1>4. CASE MarkComplete(r)
  <2>1. /\ GoTo(r, "succeeded", SaveFrom(r, "complete"))
        /\ SetStatus(Id(r), "complete") /\ pc[r] = "succeeded"
    BY <1>4 DEF MarkComplete, GoTo
  <2>2. /\ jobs[Id(r)].status = "running" /\ jobs[Id(r)].result # NoResult
        /\ jobs[Id(r)].count = Cardinality(jobs[Id(r)].result)
    BY <1>3, <2>1 DEF SoundRun, ScanInv, WritersHaveResults, JobOf
  <2>3. "complete" \in Terminal /\ "succeeded" \in Live
    BY DEF Terminal, Live
  <2> QED
    BY <1>1, <2>1, <2>2, <2>3, SaveFromMode, StatusSound
<1>5. CASE MarkFailed(r)
  <2>1. /\ GoTo(r, "failing", SaveFrom(r, "failed"))
        /\ SetStatus(Id(r), "failed") /\ pc[r] = "failing"
    BY <1>5 DEF MarkFailed, GoTo
  <2>2. jobs[Id(r)].status = "running" /\ jobs[Id(r)].error # ""
    BY <1>3, <2>1 DEF SoundRun
  <2>3. "failed" \in Terminal /\ "failing" \in Live
    BY DEF Terminal, Live
  <2> QED
    BY <1>1, <2>1, <2>2, <2>3, SaveFromMode, StatusSound
<1>6. CASE FailAfterSave(r)
  <2>1. /\ GoTo(r, "saveErrored", "done")
        /\ SetStatus(Id(r), "failed") /\ pc[r] = "saveErrored"
    BY <1>6 DEF FailAfterSave, GoTo
  <2>2. Mongo /\ jobs[Id(r)].error # ""
    BY <1>3, <2>1 DEF SoundRun, Saving
  <2>3. "failed" \in Terminal /\ "saveErrored" \in Live
    BY DEF Terminal, Live
  <2> QED
    BY <1>1, <2>1, <2>2, <2>3, StatusSound
<1> QED
  BY <1>4, <1>5, <1>6

-----------------------------------------------------------------------------
(* The invariant.                                                          *)

\* The steps of a run inside its module keep the invariant.
LEMMA ScanSound ==
    ASSUME RunInv, NEW r \in Requests, Scan(r)
    PROVE  \E to \in Live \cup {"done"} : SoundStep(r, to)
<1>1. ASSUME NEW h \in Hosts, ReportHost(r, h)
      PROVE  \E to \in Live \cup {"done"} : SoundStep(r, to)
  <2>1. found[r] \in SUBSET Hosts
    BY DEF RunInv, ScanInv, TypeOK
  <2> QED
    BY <1>1, <2>1, ReportSound DEF ReportHost
<1>2. ASSUME NEW names \in SUBSET Hosts, ReportNames(r, names)
      PROVE  \E to \in Live \cup {"done"} : SoundStep(r, to)
  BY <1>2, ReportSound DEF ReportNames
<1> QED
  BY <1>1, <1>2, AnnounceStartSound, ListTargetsSound, AnnounceProgressSound,
     RunSucceedsSound, RunErrorSound DEF Scan

\* The steps of Save, and of persist around it, keep the invariant.
LEMMA PersistSound ==
    ASSUME RunInv, NEW r \in Requests, Persist(r)
    PROVE  \E to \in Live \cup {"done"} : SoundStep(r, to)
BY ResultSound, VerdictSound, NoteSaveErrorSound, MarkSound DEF Persist

\* A step of a run is a step of a live one.
LEMMA StepsAreLive ==
    ASSUME NEW r \in Requests, Scan(r) \/ Persist(r)
    PROVE  pc[r] \in Live
<1>1. CASE Scan(r)
  BY <1>1 DEF Scan, AnnounceStart, ListTargets, ReportHost, ReportNames,
     Report, AnnounceProgress, RunSucceeds, RunFails, RunPanics, GoTo, Live
<1>2. CASE Persist(r)
  BY <1>2 DEF Persist, MarkComplete, MarkFailed, LoadCTEM, StoreMerged,
     ResultWriteFails, RecordVerdict, RecordFailure, RecordingFails,
     NoteSaveError, FailAfterSave, GoTo, Live
<1> QED
  BY <1>1, <1>2

\* A new run begins with a job of its own and nothing found; no other run
\* sees it.
LEMMA SubmitSound ==
    ASSUME RunInv, ScanInv', NEW r \in Requests, Submit(r)
    PROVE  /\ RunInv'
           /\ \A id \in JobIds : Known(id) => jobs'[id] = jobs[id]
<1>1. PICK p \in Posts :
          RejectScan(r, p) \/ AcceptScan(r, p) \/ RepeatScan(r, p)
  BY DEF Submit
<1>2. /\ ScanInv /\ pc \in [Requests -> Pcs] /\ JobsTypeOK
      /\ post \in [Requests -> Post \cup {NoPost}]
  BY DEF RunInv, ScanInv, TypeOK
<1>3. /\ UNCHANGED <<scanJobs, server, stored, found>>
      /\ pc[r] = "idle"
      /\ \A s \in Requests \ {r} : pc'[s] = pc[s] /\ post'[s] = post[s]
      /\ pc'[r] \in {"rejected", "repeated", "start"}
  BY <1>1, <1>2 DEF RejectScan, AcceptScan, RepeatScan, GoTo, sinkVars, work
<1>4. /\ \A id \in JobIds : Known(id) => jobs'[id] = jobs[id]
      /\ \A id \in JobIds : jobs'[id] # jobs[id] =>
            jobs'[id].status = "running"
      /\ pc'[r] = "start" =>
            /\ JobOf(r)'.status = "running" /\ JobOf(r)'.count = 0
  <2>1. CASE AcceptScan(r, p)
    <3>1. /\ p \in Post /\ p.id \in JobIds /\ ~ Known(p.id)
          /\ jobs' = [jobs EXCEPT ![p.id] =
                          NewJob(p.module, p.tenant, p.domain)]
          /\ post'[r] = p
      BY <1>2, <2>1 DEF AcceptScan, CreateIfAbsent, Post
    <3>2. /\ jobs'[p.id].status = "running" /\ jobs'[p.id].count = 0
          /\ \A id \in JobIds \ {p.id} : jobs'[id] = jobs[id]
      BY <1>2, <3>1 DEF JobsTypeOK, NewJob
    <3> QED
      BY <3>1, <3>2 DEF JobOf, Id
  <2>2. CASE RejectScan(r, p) \/ RepeatScan(r, p)
    BY <1>2, <2>2 DEF RejectScan, RepeatScan, GoTo
  <2> QED
    BY <1>1, <2>1, <2>2
<1>5. \A s \in Requests \ {r} : Owner(s) =>
          /\ Id(s) \in JobIds /\ Id(s)' = Id(s)
          /\ JobOf(s)' = JobOf(s)
  <2> SUFFICES ASSUME NEW s \in Requests \ {r}, Owner(s)
               PROVE  Id(s) \in JobIds /\ Id(s)' = Id(s) /\ JobOf(s)' = JobOf(s)
    OBVIOUS
  <2>1. Id(s) \in JobIds /\ JobOf(s) \in Job
    BY <1>2 DEF ScanInv, AcceptedBodies, RunsOwnJobs, Owner, Live, Id, Post
  <2>2. Known(Id(s)) /\ Id(s)' = Id(s)
    BY <1>2, <1>3, <2>1, KnownIsJob DEF JobOf, Id
  <2> QED
    BY <1>4, <2>1, <2>2 DEF JobOf
<1>6. CompletedRunIsRecorded'
  <2> SUFFICES ASSUME NEW s \in Requests, Mongo, pc'[s] = "done",
                      JobOf(s)'.status = "complete"
               PROVE  /\ s \in stored'
                      /\ RowStatus(Id(s))' = "complete"
                      /\ scanJobs'[Id(s)'].completedAt
                      /\ scanJobs'[Id(s)'].count = JobOf(s)'.count
                      /\ scanJobs'[Id(s)'].count = Cardinality(JobOf(s)'.result)
    BY DEF CompletedRunIsRecorded, Mongo
  <2>1. s # r /\ pc[s] = "done" /\ Owner(s)
    BY <1>3 DEF Owner
  <2>2. JobOf(s)' = JobOf(s) /\ Id(s)' = Id(s)
    BY <1>5, <2>1
  <2>3. /\ s \in stored
        /\ RowStatus(Id(s)) = "complete"
        /\ scanJobs[Id(s)].completedAt
        /\ scanJobs[Id(s)].count = JobOf(s).count
        /\ scanJobs[Id(s)].count = Cardinality(JobOf(s).result)
    BY <2>1, <2>2 DEF RunInv, CompletedRunIsRecorded
  <2> QED
    BY <1>3, <2>2, <2>3 DEF RowStatus
<1>7. FailureCarriesReason' /\ CompleteJobIsWhole'
  BY <1>3, <1>4 DEF RunInv, FailureCarriesReason, CompleteJobIsWhole, Known,
                    RowStatus
<1>8. \A s \in Requests : SoundRun(pc[s], JobOf(s), found[s])'
  <2> SUFFICES ASSUME NEW s \in Requests
               PROVE  SoundRun(pc'[s], JobOf(s)', found'[s])
    BY DEF SoundRun, Mongo
  <2>1. SoundRun(pc[s], JobOf(s), found[s])
    BY DEF RunInv
  <2>2. CASE s = r
    <3>1. found'[r] = {}
      BY <1>3, <2>1, <2>2 DEF SoundRun
    <3> QED
      BY <1>3, <1>4, <2>2, <3>1, FS_EmptySet DEF SoundRun, Scanning, Saving
  <2>3. CASE s # r /\ Owner(s)
    BY <1>3, <1>5, <2>1, <2>3
  <2>4. CASE s # r /\ ~ Owner(s)
    BY <1>3, <2>1, <2>4 DEF SoundRun, Owner, Live, Scanning, Saving
  <2> QED
    BY <2>2, <2>3, <2>4
<1> QED
  BY <1>4, <1>6, <1>7, <1>8 DEF RunInv

\* What a process forgets owes nobody anything.
LEMMA DieSound ==
    ASSUME RunInv, ScanInv', Die
    PROVE  RunInv'
<1>1. /\ pc \in [Requests -> Pcs] /\ UNCHANGED <<scanJobs, stored>>
      /\ \A id \in JobIds : jobs'[id] = NoJob
      /\ \A r \in Requests : found'[r] = {}
      /\ server' = "down"
  BY DEF RunInv, ScanInv, TypeOK, Die, Life!End, sinkVars
<1>2. \A r \in Requests : ~ Owner(r)'
  BY <1>1 DEF ScanInv, RunsOwnJobs
<1>3. CompletedRunIsRecorded'
  BY <1>2 DEF CompletedRunIsRecorded, Owner
<1>4. FailureCarriesReason' /\ CompleteJobIsWhole'
  BY <1>1 DEF RunInv, FailureCarriesReason, CompleteJobIsWhole, Known, RowStatus
<1>5. \A r \in Requests : SoundRun(pc[r], JobOf(r), found[r])'
  BY <1>1, <1>2 DEF SoundRun, Owner, Live, Scanning, Saving
<1> QED
  BY <1>3, <1>4, <1>5 DEF RunInv

\* Steps that touch neither jobs nor rows nor runs.
LEMMA OtherSound ==
    ASSUME RunInv, ScanInv', UNCHANGED <<jobs, scanJobs, pc, post, found, stored>>
    PROVE  RunInv'
<1>1. CompletedRunIsRecorded' /\ FailureCarriesReason' /\ CompleteJobIsWhole'
  BY DEF RunInv, CompletedRunIsRecorded, FailureCarriesReason,
         CompleteJobIsWhole, Known, RowStatus, JobOf, Id, Mongo
<1>2. \A r \in Requests : SoundRun(pc[r], JobOf(r), found[r])'
  BY DEF RunInv, SoundRun, JobOf, Id, Mongo
<1> QED
  BY <1>1, <1>2 DEF RunInv

\* Every step keeps the invariant, and what is Frozen.
LEMMA NextRunInv ==
    ASSUME RunInv, [Next]_vars
    PROVE  /\ RunInv'
           /\ \A id \in JobIds :
                 Known(id) /\ server' # "down" => Frozen(jobs[id], jobs'[id])
<1>1. ScanInv'
  BY NextInv DEF RunInv
<1>2. ASSUME NEW r \in Requests, Submit(r)
      PROVE  /\ RunInv'
             /\ \A id \in JobIds : Known(id) => Frozen(jobs[id], jobs'[id])
  BY <1>1, <1>2, SubmitSound DEF Frozen
<1>3. ASSUME NEW r \in Requests, Scan(r) \/ Persist(r)
      PROVE  /\ RunInv'
             /\ \A id \in JobIds : Known(id) => Frozen(jobs[id], jobs'[id])
  <2>1. PICK to \in Live \cup {"done"} : SoundStep(r, to)
    BY <1>3, ScanSound, PersistSound
  <2>2. pc[r] \in Live
    BY <1>3, StepsAreLive
  <2>3. RunInv'
    BY <1>1, <2>1, <2>2, SoundStepKeeps
  <2>4. \A id \in JobIds \ {Id(r)} : jobs'[id] = jobs[id]
    BY <2>1 DEF SoundStep, OthersStay
  <2> QED
    BY <2>1, <2>3, <2>4 DEF SoundStep, Frozen
<1>4. CASE Die
  BY <1>1, <1>4, DieSound DEF Die, Life!End
<1>5. CASE Signal \/ CloseSink \/ Restart \/ PlatformStep \/ UNCHANGED vars
  <2>1. UNCHANGED <<jobs, scanJobs, pc, post, found, stored>>
    BY <1>5 DEF Signal, CloseSink, Restart, PlatformStep, PlatformEdits,
                PlatformWrites, vars, sinkVars, work
  <2> QED
    BY <1>1, <2>1, OtherSound DEF Frozen
<1> QED
  BY <1>2, <1>3, <1>4, <1>5 DEF Next, Process

\* A process starts with no job, no row and no run.
LEMMA InitRunInv == Init => RunInv
<1> SUFFICES ASSUME Init PROVE RunInv
  OBVIOUS
<1>1. /\ \A id \in JobIds : jobs[id] = NoJob /\ scanJobs[id] = NoRow
      /\ \A r \in Requests : pc[r] = "idle" /\ found[r] = {}
  BY DEF Init, JobsInit, SinkInit
<1>2. CompletedRunIsRecorded /\ FailureCarriesReason /\ CompleteJobIsWhole
  BY <1>1 DEF CompletedRunIsRecorded, FailureCarriesReason,
              CompleteJobIsWhole, Known, RowStatus
<1>3. \A r \in Requests : SoundRun(pc[r], JobOf(r), found[r])
  BY <1>1 DEF SoundRun, Scanning, Saving
<1> QED
  BY <1>2, <1>3, InitInv DEF RunInv

\* In every reachable state each run knows what it needs of its job, and
\* jobs and rows say what their pollers rely on.
THEOREM RunInvariantHolds == Spec => []RunInv
<1>1. RunInv /\ [Next]_vars => RunInv'
  BY NextRunInv
<1> QED
  BY <1>1, InitRunInv, PTL DEF Spec

-----------------------------------------------------------------------------
\* Once runJob has returned, a job that is complete is recorded as such in
\* its ScanJob row, with the count the API shows (persist and Save).
THEOREM Recording == Spec => []CompletedRunIsRecorded
<1>1. RunInv => CompletedRunIsRecorded
  BY DEF RunInv
<1> QED
  BY <1>1, RunInvariantHolds, PTL

\* No reader of a job or a row sees failed without a reason, between which
\* two steps of runJob, persist or Save ever it looks.
THEOREM Reasons == Spec => []FailureCarriesReason
<1>1. RunInv => FailureCarriesReason
  BY DEF RunInv
<1> QED
  BY <1>1, RunInvariantHolds, PTL

\* In api_response mode, no poller is shown complete without the whole result
\* (runJob, viewJob).
THEOREM Results == Spec => []CompleteCarriesResult
<1>1. RunInv => CompleteCarriesResult
  BY DEF RunInv, CompleteJobIsWhole, CompleteCarriesResult, View
<1> QED
  BY <1>1, RunInvariantHolds, PTL

\* A finished job does not run again and keeps its count and result: the
\* only thing left to happen to it is that Save fails (persist).
THEOREM FinishedStays == Spec => FinishedJobIsFrozen
<1>1. RunInv /\ [Next]_vars =>
          [\A id \in JobIds :
              (Known(id) /\ jobs[id].status \in Terminal /\ server' # "down") =>
                  /\ jobs'[id].status \in {jobs[id].status, "failed"}
                  /\ jobs'[id].count = jobs[id].count
                  /\ jobs'[id].result = jobs[id].result]_vars
  BY NextRunInv DEF Frozen
<1> QED
  BY <1>1, RunInvariantHolds, PTL DEF Spec, FinishedJobIsFrozen

\* In api_response mode complete is the last word on a job, whatever its
\* tenant id looks like: Save does nothing that could fail.
THEOREM ApiCompleteIsFinal ==
    ASSUME Mode = "api_response"
    PROVE  Spec => CompleteIsFinal
<1>1. RunInv /\ [Next]_vars =>
          [\A id \in JobIds :
              (Known(id) /\ jobs[id].status = "complete" /\ server' # "down") =>
                  jobs'[id].status = "complete"]_vars
  BY NextRunInv DEF Frozen, Mongo, Terminal
<1> QED
  BY <1>1, RunInvariantHolds, PTL DEF Spec, CompleteIsFinal

-----------------------------------------------------------------------------
(* What a merge may touch.                                                 *)

\* portscan.Merge and subdomain.Merge, on what they are given.
LEMMA MergeScope ==
    ASSUME NEW before, NEW job, NEW run,
           NEW after, after = Merged(before, job, run)
    PROVE  /\ {e \in before : e.host \notin InDomain[job.domain]} \subseteq after
           /\ job.module # "ports" =>
                 \A e \in before : \E f \in after :
                     f.host = e.host /\ (e.admin => f.admin)
           /\ job.module = "ports" =>
                 \A e \in after : e.host \in InDomain[job.domain] => e.by = run
<1> DEFINE inside == InDomain[job.domain]
           fresh == job.result
<1>1. CASE job.module = "ports"
  <2>1. after = {e \in before : e.host \notin inside}
                \cup {[host |-> h, by |-> run, admin |-> FALSE] : h \in fresh}
    BY <1>1 DEF Merged, MergePorts
  <2> QED
    BY <1>1, <2>1
<1>2. CASE job.module # "ports"
  <2> DEFINE prev == {e \in before : e.host \in inside}
             Keeps(h) == \E e \in prev : e.host = h /\ e.admin
             New(h) == [host |-> h, by |-> run, admin |-> Keeps(h)]
  <2>1. after = {e \in before : e \notin prev \/ e.host \notin fresh}
                \cup {New(h) : h \in fresh}
    BY <1>2 DEF Merged, MergeSubdomains
  <2>2. ASSUME NEW e \in before
        PROVE  \E f \in after : f.host = e.host /\ (e.admin => f.admin)
    <3>1. CASE e \notin prev \/ e.host \notin fresh
      BY <2>1, <3>1
    <3>2. CASE e \in prev /\ e.host \in fresh
      <4>1. New(e.host) \in after
        BY <2>1, <3>2
      <4>2. New(e.host).host = e.host /\ New(e.host).admin = Keeps(e.host)
        OBVIOUS
      <4>3. e.admin => Keeps(e.host)
        BY <3>2
      <4> QED
        BY <4>1, <4>2, <4>3
    <3> QED
      BY <3>1, <3>2
  <2>3. {e \in before : e.host \notin inside} \subseteq after
    BY <2>1
  <2> QED
    BY <1>2, <2>2, <2>3
<1> QED
  BY <1>1, <1>2

\* The only step that makes a run's result stored is its own write, and it
\* writes the merge of what the run loaded.
LEMMA StoredByWriting ==
    ASSUME ScanInv, [Next]_vars, NEW r \in stored' \ stored
    PROVE  r \in Requests /\ WriteResult(r)
<1>1. ASSUME NEW s \in Requests, Persist(s)
      PROVE  stored' = stored \/ (WriteResult(s) /\ stored' = stored \cup {s})
  <2>1. CASE StoreMerged(s) \/ ResultWriteFails(s)
    BY <2>1 DEF StoreMerged, ResultWriteFails, WriteResult
  <2>2. CASE ~ (StoreMerged(s) \/ ResultWriteFails(s))
    BY <1>1, <2>2 DEF Persist, MarkComplete, MarkFailed, LoadCTEM,
       RecordVerdict, RecordFailure, RecordingFails, NoteSaveError,
       FailAfterSave, work
  <2> QED
    BY <2>1, <2>2
<1>2. ASSUME NEW s \in Requests, Submit(s) \/ Scan(s)
      PROVE  stored' = stored
  BY <1>2 DEF Submit, RejectScan, AcceptScan, RepeatScan, Scan, AnnounceStart,
     ListTargets, ReportHost, ReportNames, Report, AnnounceProgress,
     RunSucceeds, RunFails, RunPanics, work
<1>3. CASE Process \/ PlatformStep \/ UNCHANGED vars
  BY <1>3 DEF Process, Signal, CloseSink, Die, Restart, PlatformStep,
     PlatformEdits, vars, work
<1> QED
  BY <1>1, <1>2, <1>3 DEF Next

\* A merge of what is current never loses what it must keep, for any number
\* of runs on any arrays: the entries of other root domains, a host an admin
\* edited, and for ports nothing but this run's groups in the domain.
THEOREM MergeScoped == Spec => MergeIsScoped
<1>1. ScanInv /\ [Next]_vars =>
        [\A r \in Requests :
          (/\ pc[r] = "merging" /\ r \in stored' \ stored
           /\ loaded[r] = CurrentArray(r)) =>
              LET before == CurrentArray(r)
                  after == ctem'[post[r].tenant][FieldOfRun(r)]
                  inside == InDomain[post[r].domain]
              IN  /\ {e \in before : e.host \notin inside} \subseteq after
                  /\ post[r].module = "subdomains" =>
                        \A e \in before : \E f \in after :
                            f.host = e.host /\ (e.admin => f.admin)
                  /\ post[r].module = "ports" =>
                        \A e \in after : e.host \in inside => e.by = r]_vars
  <2> SUFFICES ASSUME ScanInv, [Next]_vars, NEW r \in Requests,
                      pc[r] = "merging", r \in stored' \ stored,
                      loaded[r] = CurrentArray(r),
                      NEW before, before = CurrentArray(r),
                      NEW after, after = ctem'[post[r].tenant][FieldOfRun(r)],
                      NEW inside, inside = InDomain[post[r].domain]
               PROVE  /\ {e \in before : e.host \notin inside} \subseteq after
                      /\ post[r].module = "subdomains" =>
                            \A e \in before : \E f \in after :
                                f.host = e.host /\ (e.admin => f.admin)
                      /\ post[r].module = "ports" =>
                            \A e \in after : e.host \in inside => e.by = r
    OBVIOUS
  <2>1. /\ JobOf(r).module = post[r].module /\ JobOf(r).domain = post[r].domain
        /\ post[r].tenant \in Tenants /\ FieldOfRun(r) \in Fields /\ CTEMTypeOK
    BY LiveFacts DEF Live
  <2>2. ctem' = [ctem EXCEPT ![post[r].tenant][FieldOfRun(r)] =
                     Merged(loaded[r], JobOf(r), r)]
    BY StoredByWriting DEF WriteResult, SetCTEMField
  <2>3. after = Merged(before, JobOf(r), r)
    BY <2>1, <2>2 DEF CTEMTypeOK
  <2> QED
    BY <2>1, <2>3, MergeScope
<1> QED
  BY <1>1, InvariantHolds, PTL DEF Spec, MergeIsScoped

=============================================================================
