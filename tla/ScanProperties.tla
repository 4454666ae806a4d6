--------------------------- MODULE ScanProperties ---------------------------
(***************************************************************************)
(* What ScanServer is meant to guarantee.                                  *)
(***************************************************************************)
EXTENDS ScanServer

Mongo == Mode = "mongo"

\* Runs that own a job the process holds in memory.
Owner(r) == pc[r] \in Live \cup {"done"}

\* What a poller of the ScanJob collection reads for a job id.
RowStatus(id) == IF scanJobs[id] = NoRow THEN "none" ELSE scanJobs[id].status

-----------------------------------------------------------------------------
(* Safety.                                                                 *)

\* However posts of one id interleave, retried before, during or after the
\* scan, one process starts at most one scan for it (CreateIfAbsent).
\* Everything persist and announce do with a Snapshot relies on this.
OneRunPerJob ==
    \A r, s \in Requests :
        Owner(r) /\ Owner(s) /\ Id(r) = Id(s) => r = s

\* A ScanJob row that says complete describes a run whose findings did
\* reach CTEMData, across every failed or lost write, crash and restart;
\* it carries that run's tenant, domain and type (Save's order of writes).
RowCompleteMeansStored ==
    \A id \in JobIds :
        RowStatus(id) = "complete" =>
            \E r \in stored :
                /\ Id(r) = id
                /\ scanJobs[id].tenant = post[r].tenant
                /\ scanJobs[id].domain = post[r].domain
                /\ scanJobs[id].type = FieldOfRun(r)

\* Once runJob has returned, a job the API still calls complete was saved:
\* the row says complete with the same count as the job and its result.
CompletedRunIsRecorded ==
    \A r \in Requests :
        (Mongo /\ pc[r] = "done" /\ JobOf(r).status = "complete") =>
            LET row == scanJobs[Id(r)] IN
            /\ r \in stored
            /\ RowStatus(Id(r)) = "complete"
            /\ row.completedAt
            /\ row.count = JobOf(r).count
            /\ row.count = Cardinality(JobOf(r).result)

\* Whoever sees failed, on the API or in ScanJob, finds a reason with it.
FailureCarriesReason ==
    \A id \in JobIds :
        /\ (jobs[id] # NoJob /\ jobs[id].status = "failed") =>
               jobs[id].error # "" /\ jobs[id].completedAt
        /\ RowStatus(id) = "failed" =>
               scanJobs[id].error # "" /\ scanJobs[id].completedAt

\* In api_response mode, a poller of the API that is shown complete is shown
\* the result with it, and all of it: as many findings as the count says
\* (runJob sets the result before the status, and viewJob lets it through).
CompleteCarriesResult ==
    \A id \in JobIds :
        (Mode = "api_response" /\ Known(id)) =>
            LET shown == View(jobs[id]) IN
            shown.status = "complete" =>
                /\ shown.result # NoResult
                /\ shown.count = Cardinality(shown.result)

-----------------------------------------------------------------------------
(* What makes the invariants above inductive.                              *)

\* Past validation, a request keeps a valid body.
AcceptedBodies ==
    \A r \in Requests : pc[r] \notin {"idle", "rejected"} => post[r] \in Post

\* The job a run owns is in memory and is the scan its request asked for.
RunsOwnJobs ==
    \A r \in Requests : Owner(r) =>
        /\ server # "down"
        /\ JobOf(r) \in Job
        /\ JobOf(r).module = post[r].module
        /\ JobOf(r).tenant = post[r].tenant
        /\ JobOf(r).domain = post[r].domain

\* Whoever writes a result has one.
WritersHaveResults ==
    \A r \in Requests :
        pc[r] \in {"succeeded", "loading", "merging", "recordFailure"} =>
            JobOf(r).result # NoResult

\* Only a complete job has its result written; a verdict about to be
\* recorded is final, and complete only with the result stored.
VerdictIsEarned ==
    \A r \in Requests :
        /\ pc[r] \in {"loading", "merging"} => JobOf(r).status = "complete"
        /\ pc[r] = "recording" =>
              /\ JobOf(r).status \in Terminal
              /\ JobOf(r).status = "complete" => r \in stored

\* Where a run can be once its result was applied to CTEMData.
Written == {"recording", "recordFailure", "saveFailed", "saveErrored",
            "done", "dead", "past"}

\* A result is written once, and nothing is announced after it.
StoredIsWritten == \A r \in stored : pc[r] \in Written

\* The inductive invariant behind the theorems of ScanProofs: which run
\* owns which job, and what a run holds before each write (persist, Save).
ScanInv ==
    /\ TypeOK
    /\ AcceptedBodies
    /\ RunsOwnJobs
    /\ OneRunPerJob
    /\ WritersHaveResults
    /\ VerdictIsEarned
    /\ StoredIsWritten
    /\ RowCompleteMeansStored

\* Where a run is inside its module, and where inside a Save that found a
\* tenant to write for.
Scanning == {"start", "listing", "scanning", "progress", "returning"}
Saving == {"loading", "merging", "recording", "recordFailure", "saveFailed",
           "saveErrored"}

\* In either mode, a complete job has its whole result in memory.
CompleteJobIsWhole ==
    \A id \in JobIds :
        (Known(id) /\ jobs[id].status = "complete") =>
            /\ jobs[id].result # NoResult
            /\ jobs[id].count = Cardinality(jobs[id].result)

\* What a run that is about to take a step knows of its job: it runs until
\* runJob says otherwise, its count is that of the hosts found so far, and a
\* reason is set before the status that needs one.
SoundRun(place, job, hosts) ==
    /\ place = "idle" => hosts = {}
    /\ place \in Scanning =>
          job.status = "running" /\ job.count = Cardinality(hosts)
    /\ place = "succeeded" =>
          job.status = "running" /\ job.count = Cardinality(job.result)
    /\ place = "failing" => job.status = "running" /\ job.error # ""
    /\ place = "saveErrored" => job.error # ""
    /\ place \in Saving => Mongo

\* The inductive invariant behind the theorems of RunProofs.
RunInv ==
    /\ ScanInv
    /\ CompletedRunIsRecorded
    /\ FailureCarriesReason
    /\ CompleteJobIsWhole
    /\ \A r \in Requests : SoundRun(pc[r], JobOf(r), found[r])

-----------------------------------------------------------------------------
(* Steps.                                                                  *)

\* While the process lives, a finished job only ever changes from complete
\* to failed: it never runs again, never turns complete after failing, and
\* keeps its count and result.
FinishedJobIsFrozen ==
    [][\A id \in JobIds :
          (Known(id) /\ jobs[id].status \in Terminal /\ server' # "down") =>
              /\ jobs'[id].status \in {jobs[id].status, "failed"}
              /\ jobs'[id].count = jobs[id].count
              /\ jobs'[id].result = jobs[id].result]_vars

\* In api_response mode nothing can go wrong after the scan: complete is
\* final whatever the tenant id looks like.
CompleteIsFinal ==
    [][\A id \in JobIds :
          (Known(id) /\ jobs[id].status = "complete" /\ server' # "down") =>
              jobs'[id].status = "complete"]_vars

\* A merge built from an array that is still current loses nothing it must
\* keep: entries of other root domains stay as they are; a subdomain scan
\* drops no host and no platform data; a port scan leaves nothing of the
\* scanned domain behind but its own groups.
MergeIsScoped ==
    [][\A r \in Requests :
          (/\ pc[r] = "merging" /\ r \in stored' \ stored
           /\ loaded[r] = CurrentArray(r)) =>
              LET before == CurrentArray(r)
                  after == ctem'[post[r].tenant][FieldOfRun(r)]
                  inside == InDomain[post[r].domain]
              IN  /\ {e \in before : e.host \notin inside} \subseteq after
                  /\ post[r].module = "subdomains" =>
                        \A e \in before : \E f \in after :
                            f.host = e.host /\ (e.admin => f.admin)
                  /\ post[r].module = "ports" =>
                        \A e \in after : e.host \in inside => e.by = r]_vars

-----------------------------------------------------------------------------
(* Liveness, under FairSpec.                                               *)

\* Every scan the API accepted ends: its job reaches a terminal status and
\* stays there, unless the process dies with it.
EveryScanEnds ==
    \A r \in Requests :
        pc[r] = "start" ~>
            \/ pc[r] \in {"dead", "past"}
            \/ pc[r] = "done" /\ JobOf(r).status \in Terminal

\* While the process that ran a scan lives, the scan's row does not show
\* running for good, except when the API shows the job as failed because
\* the database did not take the verdict.
RowIsSettled ==
    \A id \in JobIds :
        RowStatus(id) = "running" ~>
            \/ RowStatus(id) # "running"
            \/ Known(id) /\ jobs[id].status = "failed"
            \/ \E r \in Requests : pc[r] \in {"dead", "past"} /\ Id(r) = id

-----------------------------------------------------------------------------
(* Refinement.                                                             *)

\* A run is over for the platform once its last command to the database is
\* behind it, whatever the process still does to the job in memory.
Phase(place) ==
    CASE place \in {"idle", "rejected", "repeated"} -> "none"
      [] place \in {"saveFailed", "saveErrored", "done", "dead", "past"} -> "over"
      [] OTHER -> "live"

PhaseMap == [r \in Requests |-> Phase(pc[r])]
OfMap == [r \in Requests |->
             IF Phase(pc[r]) = "none" THEN NoPost ELSE post[r].id]
RowMap == [id \in JobIds |-> RowStatus(id)]

Promise == INSTANCE ScanPromise WITH
    Runs <- Requests, Ids <- JobIds, NoId <- NoPost,
    phase <- PhaseMap, of <- OfMap, row <- RowMap, kept <- stored

\* The service keeps its promise to whoever polls a row.
ImplementsPromise == Promise!PromiseSpec

=============================================================================
