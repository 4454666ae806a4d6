----------------------------- MODULE ScanProofs -----------------------------
(***************************************************************************)
(* Theorems about ScanServer, for every set of requests, ids, tenants,     *)
(* domains and posted bodies and every finite set of hosts.                *)
(***************************************************************************)
EXTENDS ScanProperties, FiniteSetTheorems, TLAPS

-----------------------------------------------------------------------------
(* The calls of the job store.                                             *)

\* A call touched the job of id alone, and not what scan it is.
OnlyJob(id) ==
    /\ JobsTypeOK'
    /\ \A i \in JobIds : i # id => jobs'[i] = jobs[i]
    /\ jobs'[id] \in Job
    /\ jobs'[id].module = jobs[id].module
    /\ jobs'[id].tenant = jobs[id].tenant
    /\ jobs'[id].domain = jobs[id].domain

\* A job the map holds is a job.
LEMMA KnownIsJob ==
    ASSUME JobsTypeOK, NEW id \in JobIds
    PROVE  /\ Known(id) => jobs[id] \in Job
           /\ jobs[id] \in Job => Known(id)
BY NoJobIsNotAJob DEF JobsTypeOK, Known

\* SetCount keeps what the job is, its status and its result.
LEMMA SetCountLemma ==
    ASSUME JobsTypeOK, NEW id \in JobIds, Known(id), NEW n \in Nat,
           SetCount(id, n)
    PROVE  /\ OnlyJob(id)
           /\ jobs'[id].status = jobs[id].status
           /\ jobs'[id].result = jobs[id].result
<1>1. jobs[id] \in Job
  BY KnownIsJob
<1>2. jobs' = [jobs EXCEPT ![id] = [jobs[id] EXCEPT !.count = n]]
  BY DEF SetCount
<1>3. [jobs[id] EXCEPT !.count = n] \in Job
  BY <1>1 DEF Job
<1> QED
  BY <1>1, <1>2, <1>3 DEF OnlyJob, JobsTypeOK, Job

\* SetStatus sets the status asked for and keeps the result.
LEMMA SetStatusLemma ==
    ASSUME JobsTypeOK, NEW id \in JobIds, Known(id), NEW s \in Statuses,
           SetStatus(id, s)
    PROVE  /\ OnlyJob(id)
           /\ jobs'[id].status = s
           /\ jobs'[id].result = jobs[id].result
<1>1. jobs[id] \in Job
  BY KnownIsJob
<1> DEFINE done == jobs[id].completedAt \/ s \in Terminal
<1>2. jobs' = [jobs EXCEPT ![id] = [jobs[id] EXCEPT !.status = s,
                                                   !.completedAt = done]]
  BY DEF SetStatus
<1>3. done \in BOOLEAN
  OBVIOUS
<1> HIDE DEF done
<1>4. [jobs[id] EXCEPT !.status = s, !.completedAt = done] \in Job
  BY <1>1, <1>3 DEF Job
<1> QED
  BY <1>1, <1>2, <1>4 DEF OnlyJob, JobsTypeOK, Job

\* SetResult stores the hosts and keeps the status.
LEMMA SetResultLemma ==
    ASSUME JobsTypeOK, NEW id \in JobIds, Known(id), NEW hosts \in SUBSET Hosts,
           SetResult(id, hosts)
    PROVE  /\ OnlyJob(id)
           /\ jobs'[id].status = jobs[id].status
           /\ jobs'[id].result = hosts
<1>1. jobs[id] \in Job
  BY KnownIsJob
<1>2. jobs' = [jobs EXCEPT ![id] = [jobs[id] EXCEPT !.result = hosts]]
  BY DEF SetResult
<1>3. [jobs[id] EXCEPT !.result = hosts] \in Job
  BY <1>1 DEF Job
<1> QED
  BY <1>1, <1>2, <1>3 DEF OnlyJob, JobsTypeOK, Job

\* SetError keeps the status and the result.
LEMMA SetErrorLemma ==
    ASSUME JobsTypeOK, NEW id \in JobIds, Known(id),
           NEW e \in {"scan", "panic", "store"}, SetError(id, e)
    PROVE  /\ OnlyJob(id)
           /\ jobs'[id].status = jobs[id].status
           /\ jobs'[id].result = jobs[id].result
<1>1. jobs[id] \in Job
  BY KnownIsJob
<1>2. jobs' = [jobs EXCEPT ![id] = [jobs[id] EXCEPT !.error = e]]
  BY DEF SetError
<1>3. [jobs[id] EXCEPT !.error = e] \in Job
  BY <1>1 DEF Job, Errors
<1> QED
  BY <1>1, <1>2, <1>3 DEF OnlyJob, JobsTypeOK, Job

-----------------------------------------------------------------------------
(* The commands of the sink.                                               *)
\* A command touched the row of id alone.
OnlyRow(id) ==
    /\ scanJobs' \in [JobIds -> Row \cup {NoRow}]
    /\ \A i \in JobIds : i # id => scanJobs'[i] = scanJobs[i]

\* The row of id describes the scan of job.
RowDescribes(id, job) ==
    /\ scanJobs'[id] \in Row
    /\ scanJobs'[id].type = FieldOf(job.module)
    /\ scanJobs'[id].tenant = job.tenant
    /\ scanJobs'[id].domain = job.domain

\* A row exists exactly when it is a Row.
LEMMA RowExists ==
    ASSUME SinkTypeOK, NEW id \in JobIds
    PROVE  /\ scanJobs[id] # NoRow => scanJobs[id] \in Row
           /\ scanJobs[id] \in Row => scanJobs[id] # NoRow
BY NoRowIsNotARow DEF SinkTypeOK

\* What $set starts from is a row of the job's scan.
LEMMA UpsertedLemma ==
    ASSUME SinkTypeOK, NEW id \in JobIds, NEW job \in Job
    PROVE  /\ Upserted(id, job) \in Row
           /\ Upserted(id, job).type = FieldOf(job.module)
           /\ Upserted(id, job).tenant = job.tenant
           /\ Upserted(id, job).domain = job.domain
<1> FieldOf(job.module) \in Fields
  BY DEF FieldOf, Fields
<1>1. CASE scanJobs[id] = NoRow
  BY <1>1 DEF Upserted, Row, Job, Errors, Statuses
<1>2. CASE scanJobs[id] # NoRow
  <2>1. scanJobs[id] \in Row
    BY <1>2, RowExists
  <2> QED
    BY <1>2, <2>1 DEF Upserted, Row, Job
<1> QED
  BY <1>1, <1>2

\* After Start the row of id, and no other, describes the job as running.
LEMMA WriteStartLemma ==
    ASSUME SinkTypeOK, NEW id \in JobIds, NEW job \in Job, WriteStart(id, job)
    PROVE  /\ OnlyRow(id)
           /\ RowDescribes(id, job)
           /\ scanJobs'[id].status = "running"
<1> DEFINE row == Upserted(id, job)
<1>1. row \in Row /\ row.type = FieldOf(job.module)
      /\ row.tenant = job.tenant /\ row.domain = job.domain
  BY UpsertedLemma
<1> HIDE DEF row
<1>2. [row EXCEPT !.status = "running", !.count = job.count] \in Row
  BY <1>1 DEF Row, Job, Statuses
<1>3. scanJobs' = [scanJobs EXCEPT ![id] =
          [row EXCEPT !.status = "running", !.count = job.count]]
  BY DEF WriteStart, row
<1> QED
  BY <1>1, <1>2, <1>3 DEF OnlyRow, RowDescribes, SinkTypeOK, Row

\* Progress creates no row and changes no row's status or scan.
LEMMA WriteProgressLemma ==
    ASSUME SinkTypeOK, NEW id \in JobIds, NEW job \in Job,
           WriteProgress(id, job)
    PROVE  /\ OnlyRow(id)
           /\ scanJobs'[id] = NoRow <=> scanJobs[id] = NoRow
           /\ scanJobs[id] # NoRow =>
                /\ scanJobs'[id].status = scanJobs[id].status
                /\ scanJobs'[id].type = scanJobs[id].type
                /\ scanJobs'[id].tenant = scanJobs[id].tenant
                /\ scanJobs'[id].domain = scanJobs[id].domain
<1>1. CASE scanJobs[id] = NoRow
  BY <1>1 DEF WriteProgress, OnlyRow, SinkTypeOK
<1>2. CASE scanJobs[id] # NoRow
  <2>1. scanJobs[id] \in Row
    BY <1>2, RowExists
  <2>2. [scanJobs[id] EXCEPT !.count = job.count] \in Row
    BY <2>1 DEF Row, Job
  <2>3. scanJobs' = [scanJobs EXCEPT ![id] =
            [scanJobs[id] EXCEPT !.count = job.count]]
    BY <1>2 DEF WriteProgress
  <2> QED
    BY <1>2, <2>1, <2>2, <2>3, NoRowIsNotARow DEF OnlyRow, SinkTypeOK, Row
<1> QED
  BY <1>1, <1>2

\* After saveScanJob the row of id, and no other, describes the job and has
\* the status that was written.
LEMMA WriteVerdictLemma ==
    ASSUME SinkTypeOK, NEW id \in JobIds, NEW job \in Job,
           NEW status \in Terminal, NEW error \in Errors,
           WriteVerdict(id, job, status, error)
    PROVE  /\ OnlyRow(id)
           /\ RowDescribes(id, job)
           /\ scanJobs'[id].status = status
<1> DEFINE row == Upserted(id, job)
           why == IF error # "" THEN error ELSE row.error
           at == row.completedAt \/ status \in Terminal
<1>1. row \in Row /\ row.type = FieldOf(job.module)
      /\ row.tenant = job.tenant /\ row.domain = job.domain
  BY UpsertedLemma
<1>2. scanJobs' = [scanJobs EXCEPT ![id] =
          [row EXCEPT !.status = status, !.count = job.count,
                      !.error = why, !.completedAt = at]]
  BY DEF WriteVerdict
<1> HIDE DEF row
<1>3. why \in Errors /\ at \in BOOLEAN
  BY <1>1 DEF Row
<1> HIDE DEF why, at
<1>4. [row EXCEPT !.status = status, !.count = job.count,
                  !.error = why, !.completedAt = at] \in Row
  BY <1>1, <1>3 DEF Row, Job, Statuses, Terminal
<1> QED
  BY <1>1, <1>2, <1>4 DEF OnlyRow, RowDescribes, SinkTypeOK, Row

\* Either merge yields entries when the run's result is a set of hosts.
LEMMA MergedLemma ==
    ASSUME NEW existing \in SUBSET Entry, NEW job \in Job,
           job.result # NoResult, NEW run \in Requests
    PROVE  Merged(existing, job, run) \in SUBSET Entry
<1>1. job.result \in SUBSET Hosts
  BY DEF Job
<1>2. \A h \in job.result : \A a \in BOOLEAN :
          [host |-> h, by |-> run, admin |-> a] \in Entry
  BY <1>1 DEF Entry
<1>3. MergePorts(existing, job.result, job.domain, run) \in SUBSET Entry
  BY <1>2 DEF MergePorts
<1>4. MergeSubdomains(existing, job.result, job.domain, run) \in SUBSET Entry
  BY <1>2 DEF MergeSubdomains
<1> QED
  BY <1>3, <1>4 DEF Merged

CTEMTypeOK == ctem \in [Tenants -> [Fields -> SUBSET Entry]]

\* Writing a set of entries under one key leaves CTEMData well formed.
LEMMA SetCTEMFieldLemma ==
    ASSUME CTEMTypeOK, NEW t \in Tenants, NEW f \in Fields,
           NEW value \in SUBSET Entry, SetCTEMField(t, f, value)
    PROVE  CTEMTypeOK'
BY DEF SetCTEMField, CTEMTypeOK

\* The platform's writes leave entries in the array.
LEMMA PlatformWritesLemma ==
    ASSUME CTEMTypeOK, NEW t \in Tenants, NEW h \in Hosts, PlatformWrites(t, h)
    PROVE  CTEMTypeOK'
<1> DEFINE old == ctem[t]["subdomains"]
           mine == {e \in old : e.host = h}
           new == IF mine = {}
                  THEN old \cup {[host |-> h, by |-> Platform, admin |-> TRUE]}
                  ELSE (old \ mine) \cup {[e EXCEPT !.admin = TRUE] : e \in mine}
<1>1. old \in SUBSET Entry
  BY DEF CTEMTypeOK, Fields
<1>2. [host |-> h, by |-> Platform, admin |-> TRUE] \in Entry
  BY DEF Entry
<1>3. \A e \in mine : [e EXCEPT !.admin = TRUE] \in Entry
  BY <1>1 DEF Entry
<1>4. new \in SUBSET Entry
  BY <1>1, <1>2, <1>3
<1>5. ctem' = [ctem EXCEPT ![t]["subdomains"] = new]
  BY DEF PlatformWrites
<1> HIDE DEF new
<1> QED
  BY <1>4, <1>5 DEF CTEMTypeOK, Fields

-----------------------------------------------------------------------------
(* What the steps have in common.                                          *)

\* What a live run can rely on.
LEMMA LiveFacts ==
    ASSUME ScanInv, NEW r \in Requests, pc[r] \in Live
    PROVE  /\ server # "down"
           /\ post[r] \in Post
           /\ Id(r) \in JobIds
           /\ post[r].tenant \in Tenants
           /\ post[r].domain \in Domains
           /\ FieldOfRun(r) \in Fields
           /\ JobsTypeOK /\ SinkTypeOK /\ CTEMTypeOK
           /\ Known(Id(r))
           /\ JobOf(r) \in Job
           /\ JobOf(r).module = post[r].module
           /\ JobOf(r).tenant = post[r].tenant
           /\ JobOf(r).domain = post[r].domain
<1>1. TypeOK /\ JobsTypeOK /\ SinkTypeOK /\ CTEMTypeOK
  BY DEF ScanInv, TypeOK, SinkTypeOK, CTEMTypeOK
<1>2. post[r] \in Post
  BY DEF ScanInv, AcceptedBodies, Live
<1>3. /\ server # "down"
      /\ JobOf(r) \in Job
      /\ JobOf(r).module = post[r].module
      /\ JobOf(r).tenant = post[r].tenant
      /\ JobOf(r).domain = post[r].domain
  BY DEF ScanInv, RunsOwnJobs, Owner
<1>4. /\ Id(r) \in JobIds
      /\ post[r].tenant \in Tenants
      /\ post[r].domain \in Domains
  BY <1>2 DEF Id, Post
<1>5. FieldOfRun(r) \in Fields
  BY DEF FieldOfRun, FieldOf, Fields
<1>6. Known(Id(r))
  BY <1>1, <1>3, <1>4, KnownIsJob DEF JobOf
<1> QED
  BY <1>1, <1>2, <1>3, <1>4, <1>5, <1>6

\* A live run that moves on, touching no job but its own, disturbs no other
\* run; what is left to show is what its own next place requires.
LEMMA RunMoves ==
    ASSUME ScanInv, NEW r \in Requests, NEW to \in Live \cup {"done"},
           pc[r] \in Live, pc' = [pc EXCEPT ![r] = to],
           server' = server, post' = post,
           OnlyJob(Id(r)) \/ jobs' = jobs,
           stored' = stored \/ stored' = stored \cup {r},
           pc[r] \in Written \/ stored' # stored => to \in Written,
           to \in {"succeeded", "loading", "merging", "recordFailure"} =>
               JobOf(r)'.result # NoResult,
           to \in {"loading", "merging"} => JobOf(r)'.status = "complete",
           to = "recording" =>
               /\ JobOf(r)'.status \in Terminal
               /\ JobOf(r)'.status = "complete" => r \in stored'
    PROVE  /\ AcceptedBodies'
           /\ RunsOwnJobs'
           /\ OneRunPerJob'
           /\ WritersHaveResults'
           /\ VerdictIsEarned'
           /\ StoredIsWritten'
<1>0. /\ AcceptedBodies /\ RunsOwnJobs /\ OneRunPerJob
      /\ WritersHaveResults /\ VerdictIsEarned /\ StoredIsWritten
      /\ pc \in [Requests -> Pcs]
  BY DEF ScanInv, TypeOK
<1>1. pc'[r] = to /\ \A s \in Requests : s # r => pc'[s] = pc[s]
  BY <1>0
<1>2. AcceptedBodies'
  BY <1>0, <1>1 DEF AcceptedBodies, Live
<1>3. \A s \in Requests : Owner(s)' <=> Owner(s)
  BY <1>1 DEF Owner
<1>4. Owner(r) /\ \A s \in Requests : Owner(s) => Id(s) \in JobIds
  BY <1>0 DEF Owner, AcceptedBodies, Live, Id, Post
<1>5. \A s \in Requests : Owner(s) /\ s # r =>
          Id(s) # Id(r) /\ JobOf(s)' = JobOf(s)
  <2> SUFFICES ASSUME NEW s \in Requests, Owner(s), s # r
               PROVE  Id(s) # Id(r) /\ JobOf(s)' = JobOf(s)
    OBVIOUS
  <2>1. Id(s) # Id(r)
    BY <1>0, <1>4 DEF OneRunPerJob
  <2>2. jobs'[Id(s)] = jobs[Id(s)]
    BY <1>4, <2>1 DEF OnlyJob
  <2> QED
    BY <2>1, <2>2 DEF JobOf, Id
<1>6. RunsOwnJobs'
  <2> SUFFICES ASSUME NEW s \in Requests, Owner(s)
               PROVE  /\ server' # "down"
                      /\ JobOf(s)' \in Job
                      /\ JobOf(s)'.module = post[s].module
                      /\ JobOf(s)'.tenant = post[s].tenant
                      /\ JobOf(s)'.domain = post[s].domain
    BY <1>3 DEF RunsOwnJobs, Owner
  <2>1. CASE s = r
    BY <1>0, <2>1 DEF RunsOwnJobs, JobOf, Id, OnlyJob
  <2>2. CASE s # r
    BY <1>0, <1>5, <2>2 DEF RunsOwnJobs
  <2> QED
    BY <2>1, <2>2
<1>7. OneRunPerJob'
  BY <1>0, <1>3 DEF OneRunPerJob, Id
<1>8. WritersHaveResults'
  BY <1>0, <1>1, <1>5 DEF WritersHaveResults, Owner, Live
<1>9. VerdictIsEarned'
  BY <1>0, <1>1, <1>5 DEF VerdictIsEarned, Owner, Live
<1>10. StoredIsWritten'
  BY <1>0, <1>1 DEF StoredIsWritten, Live
<1> QED
  BY <1>2, <1>6, <1>7, <1>8, <1>9, <1>10

\* A row that says complete after the step either said so before and
\* describes the same scan, or describes a run that is stored by now.
LEMMA RowsKept ==
    ASSUME ScanInv, stored \subseteq stored',
           \A r \in stored : post'[r] = post[r],
           \A id \in JobIds : RowStatus(id)' = "complete" =>
               \/ /\ RowStatus(id) = "complete"
                  /\ scanJobs'[id].tenant = scanJobs[id].tenant
                  /\ scanJobs'[id].domain = scanJobs[id].domain
                  /\ scanJobs'[id].type = scanJobs[id].type
               \/ \E r \in stored' :
                  /\ Id(r)' = id
                  /\ scanJobs'[id].tenant = post'[r].tenant
                  /\ scanJobs'[id].domain = post'[r].domain
                  /\ scanJobs'[id].type = FieldOfRun(r)'
    PROVE  RowCompleteMeansStored'
<1> SUFFICES ASSUME NEW id \in JobIds, RowStatus(id)' = "complete"
             PROVE  \E r \in stored' :
                        /\ Id(r)' = id
                        /\ scanJobs'[id].tenant = post'[r].tenant
                        /\ scanJobs'[id].domain = post'[r].domain
                        /\ scanJobs'[id].type = FieldOfRun(r)'
  BY DEF RowCompleteMeansStored
<1>1. CASE /\ RowStatus(id) = "complete"
           /\ scanJobs'[id].tenant = scanJobs[id].tenant
           /\ scanJobs'[id].domain = scanJobs[id].domain
           /\ scanJobs'[id].type = scanJobs[id].type
  <2>1. PICK r \in stored : /\ Id(r) = id
                            /\ scanJobs[id].tenant = post[r].tenant
                            /\ scanJobs[id].domain = post[r].domain
                            /\ scanJobs[id].type = FieldOfRun(r)
    BY <1>1 DEF ScanInv, RowCompleteMeansStored
  <2>2. post'[r] = post[r] /\ r \in stored'
    OBVIOUS
  <2> QED
    BY <1>1, <2>1, <2>2 DEF Id, FieldOfRun
<1> QED
  BY <1>1

-----------------------------------------------------------------------------
(* Steps that call the job store and leave the sink alone.                 *)

\* A step of a live run that leaves the rows alone.
LEMMA RowsUntouched ==
    ASSUME ScanInv, scanJobs' = scanJobs, post' = post,
           stored \subseteq stored'
    PROVE  RowCompleteMeansStored'
<1>1. \A id \in JobIds : RowStatus(id)' = RowStatus(id)
  BY DEF RowStatus
<1> QED
  BY <1>1, RowsKept

\* One call of the store on the run's own job.
LEMMA JobStep ==
    ASSUME ScanInv, NEW r \in Requests, NEW to \in Live \cup {"done"},
           pc[r] \in Live, pc' = [pc EXCEPT ![r] = to],
           OnlyJob(Id(r)), found' \in [Requests -> SUBSET Hosts],
           UNCHANGED <<sinkVars, server, post, targets, loaded, stored>>,
           pc[r] \in Written => to \in Written,
           to \in {"succeeded", "loading", "merging", "recordFailure"} =>
               JobOf(r)'.result # NoResult,
           to \in {"loading", "merging"} => JobOf(r)'.status = "complete",
           to = "recording" => JobOf(r)'.status = "failed"
    PROVE  ScanInv'
<1>1. /\ AcceptedBodies' /\ RunsOwnJobs' /\ OneRunPerJob'
      /\ WritersHaveResults' /\ VerdictIsEarned' /\ StoredIsWritten'
  BY RunMoves DEF Terminal
<1>2. RowCompleteMeansStored'
  BY RowsUntouched DEF sinkVars
<1>3. TypeOK'
  BY DEF ScanInv, TypeOK, SinkTypeOK, sinkVars, OnlyJob, Pcs
<1> QED
  BY <1>1, <1>2, <1>3 DEF ScanInv

\* onProgress sets a count and keeps the invariant.
LEMMA ReportStep ==
    ASSUME ScanInv, NEW r \in Requests, NEW hosts \in SUBSET Hosts,
           Report(r, hosts)
    PROVE  ScanInv'
<1>1. /\ pc[r] \in Live \ Written
      /\ pc' = [pc EXCEPT ![r] = "progress"]
  BY DEF Report, GoTo, Live, Written
<1>2. Cardinality(hosts) \in Nat
  BY HostsAssumption, FS_Subset, FS_CardinalityType
<1>3. OnlyJob(Id(r))
  BY <1>1, <1>2, LiveFacts, SetCountLemma DEF Report
<1>4. found' \in [Requests -> SUBSET Hosts]
  BY DEF Report, ScanInv, TypeOK
<1>5. UNCHANGED <<sinkVars, server, post, targets, loaded, stored>>
  BY DEF Report
<1> QED
  BY <1>1, <1>3, <1>4, <1>5, JobStep DEF Live, Written

\* A run that goes on to SetStatus(complete) has a result (SetResult).
LEMMA RunSucceedsStep ==
    ASSUME ScanInv, NEW r \in Requests, RunSucceeds(r)
    PROVE  ScanInv'
<1>1. /\ pc[r] \in Live \ Written
      /\ pc' = [pc EXCEPT ![r] = "succeeded"]
  BY DEF RunSucceeds, GoTo, Live, Written
<1>2. found[r] \in SUBSET Hosts
  BY DEF ScanInv, TypeOK
<1>3. OnlyJob(Id(r)) /\ jobs'[Id(r)].result = found[r]
  BY <1>1, <1>2, LiveFacts, SetResultLemma DEF RunSucceeds
<1>4. UNCHANGED <<sinkVars, server, post, found, targets, loaded, stored>>
  BY DEF RunSucceeds, work
<1>5. JobOf(r)'.result # NoResult
  BY <1>2, <1>3, <1>4, NoResultIsNotAResult DEF JobOf, Id
<1>6. found' \in [Requests -> SUBSET Hosts]
  BY <1>4 DEF ScanInv, TypeOK
<1> QED
  BY <1>1, <1>3, <1>4, <1>5, <1>6, JobStep DEF Live, Written

\* Every SetError of runJob and persist keeps the invariant.
LEMMA ErrorStep ==
    ASSUME ScanInv, NEW r \in Requests,
           NEW to \in {"failing", "saveErrored"},
           NEW e \in {"scan", "panic", "store"},
           pc[r] \in Live, pc' = [pc EXCEPT ![r] = to], SetError(Id(r), e),
           pc[r] \in Written => to \in Written,
           UNCHANGED <<sinkVars, server, post, work>>
    PROVE  ScanInv'
<1>1. OnlyJob(Id(r))
  BY LiveFacts, SetErrorLemma
<1>2. found' \in [Requests -> SUBSET Hosts]
  BY DEF work, ScanInv, TypeOK
<1> QED
  BY <1>1, <1>2, JobStep DEF work, Live

\* Save never starts to write a result for a failed job, and records at
\* once only a failed one.
LEMMA SaveFromLemma ==
    ASSUME NEW r \in Requests, NEW status \in Terminal
    PROVE  /\ SaveFrom(r, status) \in Live \cup {"done"}
           /\ SaveFrom(r, status) \notin {"succeeded", "merging", "recordFailure"}
           /\ SaveFrom(r, status) = "recording" => status = "failed"
           /\ SaveFrom(r, status) = "loading" => status = "complete"
BY ModeAssumption DEF SaveFrom, Live, Terminal

\* runJob's SetStatus keeps the invariant: only a complete job goes on to
\* have its result written.
LEMMA MarkStep ==
    ASSUME ScanInv, NEW r \in Requests, NEW status \in Terminal,
           pc[r] \in {"succeeded", "failing"},
           status = "complete" => pc[r] = "succeeded",
           pc' = [pc EXCEPT ![r] = SaveFrom(r, status)],
           SetStatus(Id(r), status),
           UNCHANGED <<sinkVars, server, post, work>>
    PROVE  ScanInv'
<1> DEFINE to == SaveFrom(r, status)
<1>1. pc[r] \in Live
  BY DEF Live
<1>2. /\ OnlyJob(Id(r))
      /\ jobs'[Id(r)].status = status
      /\ jobs'[Id(r)].result = jobs[Id(r)].result
  BY <1>1, LiveFacts, SetStatusLemma DEF Terminal, Statuses
<1>3. JobOf(r)' = jobs'[Id(r)]
  BY DEF JobOf, Id
<1>4. /\ to \in Live \cup {"done"}
      /\ to \notin {"succeeded", "merging", "recordFailure"}
      /\ to = "recording" => status = "failed"
      /\ to = "loading" => status = "complete"
  BY SaveFromLemma
<1> HIDE DEF to
<1>5. to = "loading" => JobOf(r)'.result # NoResult
  BY <1>2, <1>3, <1>4 DEF ScanInv, WritersHaveResults, JobOf
<1>6. found' \in [Requests -> SUBSET Hosts]
  BY DEF work, ScanInv, TypeOK
<1>7. pc' = [pc EXCEPT ![r] = to]
  BY DEF to
<1> QED
  BY <1>1, <1>2, <1>3, <1>4, <1>5, <1>6, <1>7, JobStep DEF work, Written

\* persist's SetStatus(failed) keeps the invariant.
LEMMA FailAfterSaveStep ==
    ASSUME ScanInv, NEW r \in Requests, FailAfterSave(r)
    PROVE  ScanInv'
<1>1. pc[r] \in Live /\ pc' = [pc EXCEPT ![r] = "done"]
  BY DEF FailAfterSave, GoTo, Live
<1>2. OnlyJob(Id(r))
  BY <1>1, LiveFacts, SetStatusLemma DEF FailAfterSave, Statuses
<1>3. found' \in [Requests -> SUBSET Hosts]
  BY DEF FailAfterSave, work, ScanInv, TypeOK
<1> QED
  BY <1>1, <1>2, <1>3, JobStep DEF FailAfterSave, work, Written

-----------------------------------------------------------------------------
(* Steps that write a ScanJob row.                                         *)

\* A write of the run's own row keeps the invariant if a row it leaves
\* complete was so before for the same scan, or describes a stored result.
LEMMA RowStep ==
    ASSUME ScanInv, NEW r \in Requests, NEW to \in Live \cup {"done"},
           pc[r] \in Live, pc' = [pc EXCEPT ![r] = to],
           UNCHANGED <<jobs, ctem, server, post, work>>,
           pc[r] \in Written => to \in Written,
           OnlyRow(Id(r)),
           to \notin {"succeeded", "loading", "merging", "recordFailure",
                      "recording"},
           RowStatus(Id(r))' = "complete" =>
               \/ /\ RowStatus(Id(r)) = "complete"
                  /\ scanJobs'[Id(r)].tenant = scanJobs[Id(r)].tenant
                  /\ scanJobs'[Id(r)].domain = scanJobs[Id(r)].domain
                  /\ scanJobs'[Id(r)].type = scanJobs[Id(r)].type
               \/ RowDescribes(Id(r), JobOf(r)) /\ r \in stored
    PROVE  ScanInv'
<1>1. /\ AcceptedBodies' /\ RunsOwnJobs' /\ OneRunPerJob'
      /\ WritersHaveResults' /\ VerdictIsEarned' /\ StoredIsWritten'
  BY RunMoves DEF work
<1>2. TypeOK'
  BY DEF ScanInv, TypeOK, JobsTypeOK, SinkTypeOK, work, OnlyRow, Pcs
<1>3. \A id \in JobIds : id # Id(r) =>
          RowStatus(id)' = RowStatus(id) /\ scanJobs'[id] = scanJobs[id]
  BY DEF OnlyRow, RowStatus
<1>4. /\ post[r].tenant = JobOf(r).tenant
      /\ post[r].domain = JobOf(r).domain
      /\ FieldOfRun(r) = FieldOf(JobOf(r).module)
  BY LiveFacts DEF FieldOfRun
<1>5. /\ post' = post /\ stored' = stored
      /\ Id(r)' = Id(r) /\ FieldOfRun(r)' = FieldOfRun(r)
  BY DEF work, Id, FieldOfRun
<1>6. RowDescribes(Id(r), JobOf(r)) =>
          /\ scanJobs'[Id(r)].tenant = post'[r].tenant
          /\ scanJobs'[Id(r)].domain = post'[r].domain
          /\ scanJobs'[Id(r)].type = FieldOfRun(r)'
  BY <1>4, <1>5 DEF RowDescribes
<1>7. RowCompleteMeansStored'
  BY <1>3, <1>5, <1>6, RowsKept
<1> QED
  BY <1>1, <1>2, <1>7 DEF ScanInv

\* Nothing was written: the command failed or the sink is closed.
LEMMA NoRowStep ==
    ASSUME ScanInv, NEW r \in Requests, NEW to \in Live \cup {"done"},
           pc[r] \in Live, pc' = [pc EXCEPT ![r] = to],
           UNCHANGED <<jobs, scanJobs, ctem, server, post, work>>,
           pc[r] \in Written => to \in Written,
           to \notin {"succeeded", "loading", "merging", "recordFailure",
                      "recording"}
    PROVE  ScanInv'
<1>1. OnlyRow(Id(r))
  BY DEF OnlyRow, ScanInv, TypeOK, SinkTypeOK
<1>2. RowStatus(Id(r))' = "complete" =>
          /\ RowStatus(Id(r)) = "complete"
          /\ scanJobs'[Id(r)] = scanJobs[Id(r)]
  BY DEF RowStatus, Id
<1> QED
  BY <1>1, <1>2, RowStep

\* announce(Start) keeps the invariant: it leaves a running row or none.
LEMMA AnnounceStartStep ==
    ASSUME ScanInv, NEW r \in Requests, AnnounceStart(r)
    PROVE  ScanInv'
<1> DEFINE to == IF post[r].module = "ports" THEN "listing" ELSE "scanning"
<1>1. /\ pc[r] \in Live \ Written /\ pc' = [pc EXCEPT ![r] = to]
      /\ to \in {"listing", "scanning"}
      /\ UNCHANGED <<jobs, ctem, server, post, work>>
  BY DEF AnnounceStart, GoTo, Live, Written
<1> HIDE DEF to
<1>2. CASE WriteStart(Id(r), JobOf(r))
  <2>1. OnlyRow(Id(r)) /\ scanJobs'[Id(r)].status = "running"
        /\ scanJobs'[Id(r)] \in Row
    BY <1>1, <1>2, LiveFacts, WriteStartLemma DEF RowDescribes
  <2>2. RowStatus(Id(r))' # "complete"
    BY <1>1, <2>1 DEF RowStatus, Id
  <2> QED
    BY <1>1, <2>1, <2>2, RowStep DEF Live, Written
<1>3. CASE UNCHANGED scanJobs
  BY <1>1, <1>3, NoRowStep DEF Live, Written
<1> QED
  BY <1>2, <1>3 DEF AnnounceStart

\* announce(Progress) keeps the invariant: it changes no status.
LEMMA AnnounceProgressStep ==
    ASSUME ScanInv, NEW r \in Requests, AnnounceProgress(r)
    PROVE  ScanInv'
<1> DEFINE to == IF post[r].module = "ports" THEN "scanning" ELSE "returning"
<1>1. /\ pc[r] \in Live \ Written /\ pc' = [pc EXCEPT ![r] = to]
      /\ to \in {"scanning", "returning"}
      /\ UNCHANGED <<jobs, ctem, server, post, work>>
  BY DEF AnnounceProgress, GoTo, Live, Written
<1> HIDE DEF to
<1>2. CASE WriteProgress(Id(r), JobOf(r))
  <2>1. /\ OnlyRow(Id(r))
        /\ scanJobs'[Id(r)] = NoRow <=> scanJobs[Id(r)] = NoRow
        /\ scanJobs[Id(r)] # NoRow =>
             /\ scanJobs'[Id(r)].status = scanJobs[Id(r)].status
             /\ scanJobs'[Id(r)].type = scanJobs[Id(r)].type
             /\ scanJobs'[Id(r)].tenant = scanJobs[Id(r)].tenant
             /\ scanJobs'[Id(r)].domain = scanJobs[Id(r)].domain
    BY <1>1, <1>2, LiveFacts, WriteProgressLemma
  <2>2. Id(r)' = Id(r)
    BY <1>1 DEF Id
  <2>3. RowStatus(Id(r))' = "complete" =>
             /\ RowStatus(Id(r)) = "complete"
             /\ scanJobs[Id(r)] # NoRow
    BY <2>1, <2>2 DEF RowStatus
  <2> QED
    BY <1>1, <2>1, <2>3, RowStep DEF Live, Written
<1>3. CASE UNCHANGED scanJobs
  BY <1>1, <1>3, NoRowStep DEF Live, Written
<1> QED
  BY <1>2, <1>3 DEF AnnounceProgress

\* saveScanJob of the run's own terminal job.
LEMMA VerdictStep ==
    ASSUME ScanInv, NEW r \in Requests, NEW to \in {"done", "saveFailed"},
           pc[r] = "recording", pc' = [pc EXCEPT ![r] = to],
           UNCHANGED <<jobs, ctem, server, post, work>>,
           WriteVerdict(Id(r), JobOf(r), JobOf(r).status, JobOf(r).error)
    PROVE  ScanInv'
<1>1. pc[r] \in Live /\ to \in Live \cup {"done"}
  BY DEF Live
<1>2. /\ JobOf(r).status \in Terminal
      /\ JobOf(r).status = "complete" => r \in stored
  BY DEF ScanInv, VerdictIsEarned
<1>3. JobOf(r) \in Job /\ JobOf(r).error \in Errors
  BY <1>1, LiveFacts DEF Job
<1>4. /\ OnlyRow(Id(r)) /\ RowDescribes(Id(r), JobOf(r))
      /\ scanJobs'[Id(r)].status = JobOf(r).status
  BY <1>1, <1>2, <1>3, LiveFacts, WriteVerdictLemma
<1>5. RowStatus(Id(r))' = "complete" => r \in stored
  <2>1. Id(r)' = Id(r)
    BY DEF Id
  <2> QED
    BY <1>2, <1>4, <2>1 DEF RowStatus
<1> QED
  BY <1>1, <1>4, <1>5, RowStep DEF Written

\* Save's record of a failed result write keeps the invariant.
LEMMA RecordFailureStep ==
    ASSUME ScanInv, NEW r \in Requests, RecordFailure(r)
    PROVE  ScanInv'
<1>1. /\ pc[r] \in Live /\ pc' = [pc EXCEPT ![r] = "saveFailed"]
      /\ UNCHANGED <<jobs, ctem, server, post, work>>
  BY DEF RecordFailure, GoTo, Live
<1>2. OnlyRow(Id(r)) /\ scanJobs'[Id(r)].status = "failed"
  BY <1>1, LiveFacts, WriteVerdictLemma DEF RecordFailure, Terminal, Errors
<1>3. RowStatus(Id(r))' # "complete"
  <2>1. Id(r)' = Id(r)
    BY <1>1 DEF Id
  <2> QED
    BY <1>2, <2>1 DEF RowStatus
<1> QED
  BY <1>1, <1>2, <1>3, RowStep DEF Live, Written

\* A saveScanJob that reports an error keeps the invariant, whether it was
\* applied or not.
LEMMA RecordingFailsStep ==
    ASSUME ScanInv, NEW r \in Requests, RecordingFails(r)
    PROVE  ScanInv'
<1>1. /\ pc[r] \in Live /\ pc' = [pc EXCEPT ![r] = "saveFailed"]
      /\ UNCHANGED <<jobs, ctem, server, post, work>>
  BY DEF RecordingFails, GoTo, Live
<1>2. CASE scanJobs' = scanJobs
  BY <1>1, <1>2, NoRowStep DEF Live, Written
<1>3. CASE /\ pc[r] = "recording"
           /\ WriteVerdict(Id(r), JobOf(r), JobOf(r).status, JobOf(r).error)
  BY <1>1, <1>3, VerdictStep
<1> QED
  BY <1>2, <1>3 DEF RecordingFails, GoTo

-----------------------------------------------------------------------------
(* Steps that read or write CTEMData.                                      *)

\* Targets keeps the invariant: what is in scope are hosts.
LEMMA ListTargetsStep ==
    ASSUME ScanInv, NEW r \in Requests, ListTargets(r)
    PROVE  ScanInv'
<1>1. /\ pc[r] \in Live \ Written /\ pc' = [pc EXCEPT ![r] = "scanning"]
      /\ UNCHANGED <<jobs, sinkVars, server, post, found, loaded, stored>>
  BY DEF ListTargets, GoTo, Live, Written
<1>2. InScope(r) \subseteq Hosts
  <2>1. Apex[post[r].domain] \in Hosts
    BY <1>1, LiveFacts, ApexAssumption
  <2>2. InDomain[post[r].domain] \subseteq Hosts
    BY <1>1, LiveFacts, DomainsAssumption
  <2> QED
    BY <2>1, <2>2 DEF InScope
<1>3. TypeOK'
  BY <1>1, <1>2 DEF ListTargets, ScanInv, TypeOK, JobsTypeOK, SinkTypeOK,
                    sinkVars, Pcs, Live
<1>4. /\ AcceptedBodies' /\ RunsOwnJobs' /\ OneRunPerJob'
      /\ WritersHaveResults' /\ VerdictIsEarned' /\ StoredIsWritten'
  BY <1>1, RunMoves DEF Live, Written
<1>5. RowCompleteMeansStored'
  BY <1>1, RowsUntouched DEF sinkVars
<1> QED
  BY <1>3, <1>4, <1>5 DEF ScanInv

\* loadCTEM keeps the invariant: the array loaded holds entries.
LEMMA LoadCTEMStep ==
    ASSUME ScanInv, NEW r \in Requests, LoadCTEM(r)
    PROVE  ScanInv'
<1>1. /\ pc[r] = "loading" /\ pc' = [pc EXCEPT ![r] = "merging"]
      /\ UNCHANGED <<jobs, sinkVars, server, post, targets, found, stored>>
  BY DEF LoadCTEM, GoTo
<1>2. pc[r] \in Live
  BY <1>1 DEF Live
<1>3. CurrentArray(r) \in SUBSET Entry
  BY <1>2, LiveFacts DEF CurrentArray, CTEMTypeOK
<1>4. TypeOK'
  BY <1>1, <1>3 DEF LoadCTEM, ScanInv, TypeOK, JobsTypeOK, SinkTypeOK,
                    sinkVars, Pcs, Live
<1>5. JobOf(r)'.result # NoResult /\ JobOf(r)'.status = "complete"
  BY <1>1 DEF ScanInv, WritersHaveResults, VerdictIsEarned, JobOf, Id
<1>6. /\ AcceptedBodies' /\ RunsOwnJobs' /\ OneRunPerJob'
      /\ WritersHaveResults' /\ VerdictIsEarned' /\ StoredIsWritten'
  BY <1>1, <1>2, <1>5, RunMoves DEF Live, Written
<1>7. RowCompleteMeansStored'
  BY <1>1, RowsUntouched DEF sinkVars
<1> QED
  BY <1>4, <1>6, <1>7 DEF ScanInv

\* Applied or not, the write of a result leaves entries in the array.
LEMMA WriteResultLemma ==
    ASSUME ScanInv, NEW r \in Requests, pc[r] = "merging", WriteResult(r)
    PROVE  CTEMTypeOK' /\ stored' = stored \cup {r}
<1>1. pc[r] \in Live
  BY DEF Live
<1>2. JobOf(r).result # NoResult
  BY DEF ScanInv, WritersHaveResults
<1>3. loaded[r] \in SUBSET Entry
  BY DEF ScanInv, TypeOK
<1>4. Merged(loaded[r], JobOf(r), r) \in SUBSET Entry
  BY <1>1, <1>2, <1>3, LiveFacts, MergedLemma
<1> QED
  BY <1>1, <1>4, LiveFacts, SetCTEMFieldLemma DEF WriteResult

\* A run leaving loading or merging keeps the invariant, given that the
\* array it wrote, if any, holds entries.
LEMMA ResultStep ==
    ASSUME ScanInv, NEW r \in Requests,
           NEW to \in {"recording", "recordFailure", "saveFailed"},
           pc[r] \in {"loading", "merging"}, pc' = [pc EXCEPT ![r] = to],
           \/ pc[r] = "merging" /\ WriteResult(r)
           \/ UNCHANGED <<ctem, stored>> /\ to # "recording",
           UNCHANGED <<jobs, scanJobs, server, post, targets, found, loaded>>
    PROVE  ScanInv'
<1>1. pc[r] \in Live /\ to \in Live \cup {"done"}
  BY DEF Live
<1>2. CTEMTypeOK' /\ (stored' = stored \cup {r} \/ stored' = stored)
  <2>1. CASE pc[r] = "merging" /\ WriteResult(r)
    BY <2>1, WriteResultLemma
  <2>2. CASE UNCHANGED <<ctem, stored>>
    BY <2>2 DEF ScanInv, TypeOK, SinkTypeOK, CTEMTypeOK
  <2> QED
    BY <2>1, <2>2
<1>3. to = "recording" => stored' = stored \cup {r}
  BY DEF WriteResult
<1>4. /\ JobOf(r)' = JobOf(r)
      /\ JobOf(r).result # NoResult
  BY DEF ScanInv, WritersHaveResults, JobOf, Id
<1>5. JobOf(r).status \in Terminal
  BY DEF ScanInv, VerdictIsEarned, Terminal
<1>6. /\ AcceptedBodies' /\ RunsOwnJobs' /\ OneRunPerJob'
      /\ WritersHaveResults' /\ VerdictIsEarned' /\ StoredIsWritten'
  BY <1>1, <1>2, <1>3, <1>4, <1>5, RunMoves DEF Written
<1>7. RowCompleteMeansStored'
  BY <1>2, RowsUntouched
<1>8. TypeOK'
  BY <1>1, <1>2 DEF ScanInv, TypeOK, JobsTypeOK, SinkTypeOK, CTEMTypeOK, Pcs
<1> QED
  BY <1>6, <1>7, <1>8 DEF ScanInv

\* setCTEMField keeps the invariant.
LEMMA StoreMergedStep ==
    ASSUME ScanInv, NEW r \in Requests, StoreMerged(r)
    PROVE  ScanInv'
BY ResultStep DEF StoreMerged, GoTo

\* A failed saveResult keeps the invariant, applied or not.
LEMMA ResultWriteFailsStep ==
    ASSUME ScanInv, NEW r \in Requests, ResultWriteFails(r)
    PROVE  ScanInv'
<1>1. PICK from \in {"loading", "merging"},
           to \in {"recordFailure", "saveFailed"} : GoTo(r, from, to)
  BY DEF ResultWriteFails
<1>2. pc[r] \in {"loading", "merging"} /\ pc' = [pc EXCEPT ![r] = to]
  BY <1>1 DEF GoTo
<1>3. /\ \/ pc[r] = "merging" /\ WriteResult(r)
         \/ UNCHANGED <<ctem, stored>>
      /\ UNCHANGED <<jobs, scanJobs, server, post, targets, found, loaded>>
  BY DEF ResultWriteFails
<1> QED
  BY <1>2, <1>3, ResultStep

-----------------------------------------------------------------------------
(* Requests, the process and the platform.                                 *)

\* A request that spawns nothing only moves to a place that owns nothing.
LEMMA NoSpawnStep ==
    ASSUME ScanInv, NEW r \in Requests, NEW to \in {"rejected", "repeated"},
           pc[r] = "idle", pc' = [pc EXCEPT ![r] = to],
           \/ to = "rejected" /\ post' = post
           \/ \E p \in Post : post' = [post EXCEPT ![r] = p],
           UNCHANGED <<jobs, sinkVars, server, work>>
    PROVE  ScanInv'
<1>0. pc \in [Requests -> Pcs] /\ post \in [Requests -> Post \cup {NoPost}]
  BY DEF ScanInv, TypeOK
<1>1. \A s \in Requests : s # r => pc'[s] = pc[s] /\ post'[s] = post[s]
  BY <1>0
<1>2. pc'[r] = to /\ (to = "repeated" => post'[r] \in Post)
  BY <1>0
<1>3. \A s \in Requests : Owner(s)' => Owner(s) /\ s # r
  BY <1>1, <1>2 DEF Owner, Live
<1>4. \A s \in Requests : s # r =>
          JobOf(s)' = JobOf(s) /\ Id(s)' = Id(s)
  BY <1>1 DEF JobOf, Id
<1>5. AcceptedBodies'
  BY <1>1, <1>2 DEF ScanInv, AcceptedBodies
<1>6. RunsOwnJobs'
  BY <1>1, <1>3, <1>4 DEF ScanInv, RunsOwnJobs
<1>7. OneRunPerJob'
  BY <1>3, <1>4 DEF ScanInv, OneRunPerJob
<1>8. WritersHaveResults' /\ VerdictIsEarned'
  BY <1>1, <1>2, <1>4
     DEF ScanInv, WritersHaveResults, VerdictIsEarned, work
<1>9. stored' = stored /\ r \notin stored
  BY DEF ScanInv, StoredIsWritten, work, Written
<1>10. StoredIsWritten' /\ stored \subseteq Requests
  BY <1>1, <1>9 DEF ScanInv, StoredIsWritten, TypeOK
<1>11. RowCompleteMeansStored'
  <2>1. \A s \in stored : post'[s] = post[s]
    BY <1>1, <1>9, <1>10
  <2>2. \A id \in JobIds : RowStatus(id)' = RowStatus(id)
    BY DEF RowStatus, sinkVars
  <2> QED
    BY <1>9, <2>1, <2>2, RowsKept DEF sinkVars
<1>12. TypeOK'
  BY <1>0 DEF ScanInv, TypeOK, JobsTypeOK, SinkTypeOK, sinkVars, work, Pcs
<1> QED
  BY <1>5, <1>6, <1>7, <1>8, <1>10, <1>11, <1>12 DEF ScanInv

\* CreateIfAbsent gives a new run a job nobody else owns.
LEMMA AcceptScanStep ==
    ASSUME ScanInv, NEW r \in Requests, NEW p, AcceptScan(r, p)
    PROVE  ScanInv'
<1>0. /\ pc \in [Requests -> Pcs] /\ post \in [Requests -> Post \cup {NoPost}]
      /\ jobs \in [JobIds -> Job \cup {NoJob}]
  BY DEF ScanInv, TypeOK, JobsTypeOK
<1>1. /\ server # "down" /\ pc[r] = "idle"
      /\ pc' = [pc EXCEPT ![r] = "start"]
      /\ post' = [post EXCEPT ![r] = p]
      /\ p \in Post /\ ~ Known(p.id)
      /\ UNCHANGED <<sinkVars, server, work>>
  BY DEF AcceptScan, GoTo, CreateIfAbsent
<1> DEFINE new == NewJob(p.module, p.tenant, p.domain)
<1>2. jobs' = [jobs EXCEPT ![p.id] = new]
  BY DEF AcceptScan, CreateIfAbsent
<1>3. /\ new \in Job /\ new.module = p.module
      /\ new.tenant = p.tenant /\ new.domain = p.domain
  BY <1>1 DEF NewJob, Job, Post, Statuses, Errors
<1> HIDE DEF new
<1>4. p.id \in JobIds
  BY <1>1 DEF Post
<1>5. \A s \in Requests : s # r => pc'[s] = pc[s] /\ post'[s] = post[s]
  BY <1>0, <1>1
<1>6. pc'[r] = "start" /\ post'[r] = p /\ Id(r)' = p.id
  BY <1>0, <1>1 DEF Id
<1>7. \A s \in Requests : s # r => (Owner(s)' <=> Owner(s)) /\ Id(s)' = Id(s)
  BY <1>5 DEF Owner, Id
<1>8. \A s \in Requests : Owner(s) =>
          Id(s) \in JobIds /\ Id(s) # p.id /\ JobOf(s)' = JobOf(s)
  <2> SUFFICES ASSUME NEW s \in Requests, Owner(s)
               PROVE  Id(s) \in JobIds /\ Id(s) # p.id /\ JobOf(s)' = JobOf(s)
    OBVIOUS
  <2>1. Id(s) \in JobIds /\ s # r
    BY <1>1 DEF Owner, Live, ScanInv, AcceptedBodies, Id, Post
  <2>2. Known(Id(s))
    BY <2>1, KnownIsJob DEF ScanInv, RunsOwnJobs, JobOf, TypeOK
  <2>3. Id(s) # p.id
    BY <1>1, <2>2
  <2> QED
    BY <1>0, <1>2, <1>5, <2>1, <2>3 DEF JobOf, Id
<1>9. JobOf(r)' = new
  BY <1>0, <1>2, <1>4, <1>6 DEF JobOf, Id
<1>10. AcceptedBodies'
  BY <1>1, <1>5, <1>6 DEF ScanInv, AcceptedBodies
<1>11. RunsOwnJobs'
  <2> SUFFICES ASSUME NEW s \in Requests, Owner(s)'
               PROVE  /\ server' # "down"
                      /\ JobOf(s)' \in Job
                      /\ JobOf(s)'.module = post'[s].module
                      /\ JobOf(s)'.tenant = post'[s].tenant
                      /\ JobOf(s)'.domain = post'[s].domain
    BY DEF RunsOwnJobs
  <2>1. CASE s = r
    BY <1>1, <1>3, <1>6, <1>9, <2>1
  <2>2. CASE s # r
    BY <1>1, <1>5, <1>7, <1>8, <2>2 DEF ScanInv, RunsOwnJobs
  <2> QED
    BY <2>1, <2>2
<1>12. OneRunPerJob'
  <2> SUFFICES ASSUME NEW s \in Requests, NEW u \in Requests,
                      Owner(s)', Owner(u)', Id(s)' = Id(u)'
               PROVE  s = u
    BY DEF OneRunPerJob
  <2>1. CASE s # r /\ u # r
    BY <1>7, <2>1 DEF ScanInv, OneRunPerJob
  <2>2. CASE s = r /\ u # r
    BY <1>6, <1>7, <1>8, <2>2
  <2>3. CASE s # r /\ u = r
    BY <1>6, <1>7, <1>8, <2>3
  <2> QED
    BY <2>1, <2>2, <2>3
<1>13. WritersHaveResults'
  BY <1>5, <1>6, <1>8 DEF ScanInv, WritersHaveResults, Owner, Live
<1>14. stored' = stored /\ r \notin stored /\ stored \subseteq Requests
  BY <1>1 DEF ScanInv, StoredIsWritten, TypeOK, work, Written
<1>15. VerdictIsEarned'
  BY <1>5, <1>6, <1>8, <1>14 DEF ScanInv, VerdictIsEarned, Owner, Live
<1>16. StoredIsWritten'
  BY <1>5, <1>14 DEF ScanInv, StoredIsWritten
<1>17. RowCompleteMeansStored'
  <2>1. \A s \in stored : post'[s] = post[s]
    BY <1>5, <1>14
  <2>2. \A id \in JobIds : RowStatus(id)' = RowStatus(id)
    BY <1>1 DEF RowStatus, sinkVars
  <2> QED
    BY <1>1, <1>14, <2>1, <2>2, RowsKept DEF sinkVars
<1>18. TypeOK'
  BY <1>0, <1>1, <1>2, <1>3, <1>4
     DEF ScanInv, TypeOK, JobsTypeOK, SinkTypeOK, sinkVars, work, Pcs, Live
<1> QED
  BY <1>10, <1>11, <1>12, <1>13, <1>15, <1>16, <1>17, <1>18 DEF ScanInv

\* The process goes, and with it every owner of a job.
LEMMA DieStep ==
    ASSUME ScanInv, Die
    PROVE  ScanInv'
<1>1. /\ server' = "down"
      /\ jobs' = [id \in JobIds |-> NoJob]
      /\ UNCHANGED <<sinkVars, post, stored>>
  BY DEF Die, Life!End
<1>2. \A r \in Requests : pc'[r] = CASE pc[r] \in Live -> "dead"
                                    [] pc[r] = "done" -> "past"
                                    [] OTHER -> pc[r]
  BY DEF Die
<1>3. \A r \in Requests :
          /\ pc'[r] \in Pcs \ (Live \cup {"done"})
          /\ pc'[r] \in {"idle", "rejected"} <=> pc[r] \in {"idle", "rejected"}
  BY <1>2 DEF ScanInv, TypeOK, Pcs, Live
<1>4. \A r \in Requests : ~ Owner(r)'
  BY <1>3 DEF Owner
<1>5. AcceptedBodies' /\ RunsOwnJobs' /\ OneRunPerJob'
  BY <1>1, <1>3, <1>4 DEF ScanInv, AcceptedBodies, RunsOwnJobs, OneRunPerJob
<1>6. WritersHaveResults' /\ VerdictIsEarned'
  BY <1>3 DEF WritersHaveResults, VerdictIsEarned, Live
<1>7. StoredIsWritten'
  BY <1>1, <1>2 DEF ScanInv, StoredIsWritten, TypeOK, Live, Written
<1>8. RowCompleteMeansStored'
  BY <1>1, RowsUntouched DEF sinkVars
<1>9. pc' \in [Requests -> Pcs]
  BY <1>3 DEF Die
<1>10. TypeOK'
  BY <1>1, <1>9 DEF Die, ScanInv, TypeOK, JobsTypeOK, SinkTypeOK, sinkVars
<1> QED
  BY <1>5, <1>6, <1>7, <1>8, <1>10 DEF ScanInv

\* Signal, CloseSink and Restart move the server only, a stutter nothing.
LEMMA ServerStep ==
    ASSUME ScanInv,
           server' = server \/ server' \in {"up", "stopping", "closed"},
           UNCHANGED <<jobs, sinkVars, pc, post, work>>
    PROVE  ScanInv'
<1>1. \A r \in Requests : JobOf(r)' = JobOf(r) /\ Id(r)' = Id(r)
  BY DEF JobOf, Id
<1>2. AcceptedBodies' /\ RunsOwnJobs' /\ OneRunPerJob'
  BY <1>1 DEF ScanInv, AcceptedBodies, RunsOwnJobs, OneRunPerJob, Owner
<1>3. WritersHaveResults' /\ VerdictIsEarned' /\ StoredIsWritten'
  BY <1>1 DEF ScanInv, WritersHaveResults, VerdictIsEarned,
              StoredIsWritten, work
<1>4. RowCompleteMeansStored'
  BY RowsUntouched DEF sinkVars, work
<1>5. TypeOK'
  BY DEF ScanInv, TypeOK, JobsTypeOK, SinkTypeOK, sinkVars, work
<1> QED
  BY <1>2, <1>3, <1>4, <1>5 DEF ScanInv

\* The platform's own writes keep the invariant.
LEMMA PlatformStepLemma ==
    ASSUME ScanInv, PlatformStep
    PROVE  ScanInv'
<1>1. PICK t \in ObjectIds, h \in PlatformHosts : PlatformEdits(t, h)
  BY DEF PlatformStep
<1>2. t \in Tenants /\ h \in Hosts
  BY TenantsAssumption, PlatformHostsAssumption
<1>3. CTEMTypeOK'
  BY <1>1, <1>2, PlatformWritesLemma
     DEF PlatformEdits, ScanInv, TypeOK, SinkTypeOK, CTEMTypeOK
<1>4. UNCHANGED <<jobs, scanJobs, server, pc, post, work>>
  BY <1>1 DEF PlatformEdits, PlatformWrites
<1>5. \A r \in Requests : JobOf(r)' = JobOf(r) /\ Id(r)' = Id(r)
  BY <1>4 DEF JobOf, Id
<1>6. AcceptedBodies' /\ RunsOwnJobs' /\ OneRunPerJob'
  BY <1>4, <1>5 DEF ScanInv, AcceptedBodies, RunsOwnJobs, OneRunPerJob, Owner
<1>7. WritersHaveResults' /\ VerdictIsEarned' /\ StoredIsWritten'
  BY <1>4, <1>5 DEF ScanInv, WritersHaveResults, VerdictIsEarned,
                    StoredIsWritten, work
<1>8. RowCompleteMeansStored'
  BY <1>4, RowsUntouched DEF work
<1>9. TypeOK'
  BY <1>3, <1>4 DEF ScanInv, TypeOK, JobsTypeOK, SinkTypeOK, CTEMTypeOK, work
<1> QED
  BY <1>6, <1>7, <1>8, <1>9 DEF ScanInv

-----------------------------------------------------------------------------
(* The theorems.                                                           *)

\* A fresh process and an empty database satisfy the invariant.
LEMMA InitInv == Init => ScanInv
<1> SUFFICES ASSUME Init PROVE ScanInv
  OBVIOUS
<1>1. /\ \A r \in Requests : pc[r] = "idle"
      /\ \A id \in JobIds : RowStatus(id) = "none"
      /\ stored = {}
  BY DEF Init, SinkInit, RowStatus
<1>2. TypeOK
  BY DEF Init, JobsInit, SinkInit, TypeOK, JobsTypeOK, SinkTypeOK, Pcs
<1> QED
  BY <1>1, <1>2 DEF ScanInv, AcceptedBodies, RunsOwnJobs, OneRunPerJob, Owner,
      Live, WritersHaveResults, VerdictIsEarned, StoredIsWritten,
      RowCompleteMeansStored

\* Every answer to a POST keeps the invariant.
LEMMA SubmitStep ==
    ASSUME ScanInv, NEW r \in Requests, Submit(r)
    PROVE  ScanInv'
<1> PICK p \in Posts : RejectScan(r, p) \/ AcceptScan(r, p) \/ RepeatScan(r, p)
  BY DEF Submit
<1>1. CASE RejectScan(r, p)
  BY <1>1, NoSpawnStep DEF RejectScan, GoTo
<1>2. CASE AcceptScan(r, p)
  BY <1>2, AcceptScanStep
<1>3. CASE RepeatScan(r, p)
  BY <1>3, NoSpawnStep DEF RepeatScan, GoTo
<1> QED
  BY <1>1, <1>2, <1>3

\* Every step of runJob up to the module's return keeps the invariant.
LEMMA ScanStep ==
    ASSUME ScanInv, NEW r \in Requests, Scan(r)
    PROVE  ScanInv'
<1>1. CASE AnnounceStart(r)
  BY <1>1, AnnounceStartStep
<1>2. CASE ListTargets(r)
  BY <1>2, ListTargetsStep
<1>3. ASSUME NEW h \in Hosts, ReportHost(r, h) PROVE ScanInv'
  <2>1. found[r] \cup {h} \in SUBSET Hosts
    BY DEF ScanInv, TypeOK
  <2> QED
    BY <1>3, <2>1, ReportStep DEF ReportHost
<1>4. ASSUME NEW names \in SUBSET Hosts, ReportNames(r, names) PROVE ScanInv'
  BY <1>4, ReportStep DEF ReportNames
<1>5. CASE AnnounceProgress(r)
  BY <1>5, AnnounceProgressStep
<1>6. CASE RunSucceeds(r)
  BY <1>6, RunSucceedsStep
<1>7. CASE RunFails(r)
  BY <1>7, ErrorStep DEF RunFails, GoTo, Live, Written
<1>8. CASE RunPanics(r)
  BY <1>8, ErrorStep DEF RunPanics, GoTo, Live, Written
<1> QED
  BY <1>1, <1>2, <1>3, <1>4, <1>5, <1>6, <1>7, <1>8 DEF Scan

\* Every step of persist and Save keeps the invariant.
LEMMA PersistStep ==
    ASSUME ScanInv, NEW r \in Requests, Persist(r)
    PROVE  ScanInv'
<1>1. CASE MarkComplete(r)
  BY <1>1, MarkStep DEF MarkComplete, GoTo, Terminal
<1>2. CASE MarkFailed(r)
  BY <1>2, MarkStep DEF MarkFailed, GoTo, Terminal
<1>3. CASE LoadCTEM(r)
  BY <1>3, LoadCTEMStep
<1>4. CASE StoreMerged(r)
  BY <1>4, StoreMergedStep
<1>5. CASE ResultWriteFails(r)
  BY <1>5, ResultWriteFailsStep
<1>6. CASE RecordVerdict(r)
  BY <1>6, VerdictStep DEF RecordVerdict, GoTo
<1>7. CASE RecordFailure(r)
  BY <1>7, RecordFailureStep
<1>8. CASE RecordingFails(r)
  BY <1>8, RecordingFailsStep
<1>9. CASE NoteSaveError(r)
  BY <1>9, ErrorStep DEF NoteSaveError, GoTo, Live, Written
<1>10. CASE FailAfterSave(r)
  BY <1>10, FailAfterSaveStep
<1> QED
  BY <1>1, <1>2, <1>3, <1>4, <1>5, <1>6, <1>7, <1>8, <1>9, <1>10 DEF Persist

\* Every step of the service keeps it.
LEMMA NextInv ==
    ASSUME ScanInv, [Next]_vars
    PROVE  ScanInv'
<1>1. ASSUME NEW r \in Requests, Submit(r) PROVE ScanInv'
  BY <1>1, SubmitStep
<1>2. ASSUME NEW r \in Requests, Scan(r) PROVE ScanInv'
  BY <1>2, ScanStep
<1>3. ASSUME NEW r \in Requests, Persist(r) PROVE ScanInv'
  BY <1>3, PersistStep
<1>4. CASE Process
  <2>1. CASE Signal \/ CloseSink \/ Restart
    BY <2>1, ServerStep
    DEF Signal, CloseSink, Restart, Life!Stop, Life!Close, Life!Begin
  <2> QED
    BY <1>4, <2>1, DieStep DEF Process
<1>5. CASE PlatformStep
  BY <1>5, PlatformStepLemma
<1>6. CASE UNCHANGED vars
  BY <1>6, ServerStep DEF vars, sinkVars, work
<1> QED
  BY <1>1, <1>2, <1>3, <1>4, <1>5, <1>6 DEF Next

\* The inductive invariant: what each run owns, and what it holds before
\* each of its writes (runJob, persist, MongoSink.Save).
THEOREM InvariantHolds == Spec => []ScanInv
<1> QED
  BY InitInv, NextInv, PTL DEF Spec

\* Every state of the service is well typed.
THEOREM TypeCorrect == Spec => []TypeOK
<1>1. ScanInv => TypeOK
  BY DEF ScanInv
<1> QED
  BY <1>1, InvariantHolds, PTL

\* At most one run of a job id in one process, for any number of posts of
\* it and any interleaving of them (CreateIfAbsent).
THEOREM OneRun == Spec => []OneRunPerJob
<1>1. ScanInv => OneRunPerJob
  BY DEF ScanInv
<1> QED
  BY <1>1, InvariantHolds, PTL

\* No crash, lost reply, expired context or restart makes a ScanJob row say
\* complete for findings that are not in CTEMData (MongoSink.Save).
THEOREM NoFalseComplete == Spec => []RowCompleteMeansStored
<1>1. ScanInv => RowCompleteMeansStored
  BY DEF ScanInv
<1> QED
  BY <1>1, InvariantHolds, PTL

=============================================================================
