----------------------------- MODULE ScanServer -----------------------------
(***************************************************************************)
(* internal/api: POST /scans/{module}, the goroutine it spawns for a job   *)
(* (runJob, announce, persist), and the life of the process around them.   *)
(*                                                                         *)
(* A run is one POST request and, when it creates a job, that job's        *)
(* goroutine.  pc[r] is where the goroutine stands between two steps other *)
(* actors can see: a call of the job store (one mutex) or a command of the *)
(* sink (one MongoDB document).                                            *)
(*                                                                         *)
(*   start        before announce(Sink.Start)                              *)
(*   listing      in portscan.Run, before lister.Targets                   *)
(*   scanning     in module.Run, tools working                             *)
(*   progress     in onProgress, between SetCount and Sink.Progress        *)
(*   returning    in subdomain.Run, after its only onProgress              *)
(*   succeeded    between SetResult and SetStatus(complete)                *)
(*   failing      between SetError and SetStatus(failed)                   *)
(*   loading      in Save, before loadCTEM                                 *)
(*   merging      in Save, between loadCTEM and setCTEMField               *)
(*   recording    in Save, before the verdict is written                   *)
(*   recordFailure  in Save, result write failed, its failure not written  *)
(*   saveFailed   Save returned an error                                   *)
(*   saveErrored  between persist's SetError and its SetStatus(failed)     *)
(*                                                                         *)
(* announce and persist take a Snapshot and hand it to the sink.  Nothing  *)
(* but the run itself writes its job (OneRunPerJob), so the snapshot is    *)
(* the job as it stands.  A host found by portscan has one open port.      *)
(***************************************************************************)
EXTENDS MongoSink

CONSTANTS
    Mode,          \* config.Mode: "mongo" or "api_response"
    Posts,         \* the bodies clients send, valid or not
    NoPost,        \* a request that has not been accepted
    Apex,          \* Apex[d]: the host that is domain d itself
    Discoverable,  \* Discoverable[d]: names the tools can report for d
    PlatformHosts  \* hosts the platform may edit or add meanwhile

VARIABLES
    server,   \* the process: up, stopping, closed (sink closed) or down
    pc,       \* where each run stands
    post,     \* the body of each request that passed validation
    targets,  \* portscan: hosts in scope
    found,    \* hosts with findings so far
    loaded,   \* the array loadCTEM returned
    stored    \* history: runs whose result was applied to CTEMData

vars == <<jobs, scanJobs, ctem, server, pc, post, targets, found, loaded,
          stored>>

work == <<targets, found, loaded, stored>>

Post == [id : JobIds, module : Modules, tenant : Tenants, domain : Domains]

ASSUME ModeAssumption == Mode \in {"mongo", "api_response"}
ASSUME ApexAssumption == Apex \in [Domains -> Hosts]
ASSUME DiscoverableAssumption == Discoverable \in [Domains -> SUBSET Hosts]
ASSUME PlatformHostsAssumption == PlatformHosts \subseteq Hosts
ASSUME HostsAssumption == IsFiniteSet(Hosts)
ASSUME NoPostIsNoPost == NoPost \notin Post

Live == {"start", "listing", "scanning", "progress", "returning",
         "succeeded", "failing", "loading", "merging", "recording",
         "recordFailure", "saveFailed", "saveErrored"}

\* dead and past: the process that held the goroutine, live or done, is gone.
Pcs == Live \cup {"idle", "rejected", "repeated", "done", "dead", "past"}

TypeOK ==
    /\ JobsTypeOK
    /\ SinkTypeOK
    /\ server \in {"up", "stopping", "closed", "down"}
    /\ pc \in [Requests -> Pcs]
    /\ post \in [Requests -> Post \cup {NoPost}]
    /\ targets \in [Requests -> SUBSET Hosts]
    /\ found \in [Requests -> SUBSET Hosts]
    /\ loaded \in [Requests -> SUBSET Entry]
    /\ stored \in SUBSET Requests

Init ==
    /\ JobsInit
    /\ SinkInit
    /\ server = "up"
    /\ pc = [r \in Requests |-> "idle"]
    /\ post = [r \in Requests |-> NoPost]
    /\ targets = [r \in Requests |-> {}]
    /\ found = [r \in Requests |-> {}]
    /\ loaded = [r \in Requests |-> {}]
    /\ stored = {}

-----------------------------------------------------------------------------
Id(r) == post[r].id
JobOf(r) == jobs[Id(r)]
FieldOfRun(r) == FieldOf(post[r].module)
CurrentArray(r) == ctem[post[r].tenant][FieldOfRun(r)]

\* Both persist and announce start from ObjectIDFromHex(job.TenantID).
TenantParses(r) == post[r].tenant \in ObjectIds

\* A command can reach the database: not in api_response mode, where the
\* sink does nothing, and not after run's deferred sink.Close.
SinkOpen == Mode = "mongo" /\ server \in {"up", "stopping"}

GoTo(r, from, to) ==
    /\ server # "down"
    /\ pc[r] = from
    /\ pc' = [pc EXCEPT ![r] = to]

-----------------------------------------------------------------------------
(* Broken variants of definitions below, each put in place of its original *)
(* to show that some property notices.                                     *)

\* SetStatus(complete) before SetResult.
RunSucceedsStatusFirst(r) ==
    /\ pc[r] \in {"scanning", "returning"}
    /\ GoTo(r, pc[r], "succeeded")
    /\ SetStatus(Id(r), "complete")
    /\ UNCHANGED <<sinkVars, server, post, work>>

\* Save checks the tenant in either mode.
SaveFromTenantFirst(r, status) ==
    CASE ~ TenantParses(r) -> "saveFailed"
      [] TenantParses(r) /\ Mode = "api_response" -> "done"
      [] OTHER -> IF status = "failed" THEN "recording" ELSE "loading"

\* Save writes the verdict and leaves the result for later.
SaveFromVerdictFirst(r, status) ==
    CASE Mode = "api_response" -> "done"
      [] Mode = "mongo" /\ ~ TenantParses(r) -> "saveFailed"
      [] OTHER -> "recording"

\* index.js: the failed result write is swallowed, complete is recorded.
RecordFailureAsComplete(r) ==
    /\ SinkOpen
    /\ GoTo(r, "recordFailure", "saveFailed")
    /\ WriteVerdict(Id(r), JobOf(r), JobOf(r).status, JobOf(r).error)
    /\ UNCHANGED <<jobs, ctem, server, post, work>>

\* saveScanJob is tried again until it succeeds.
RecordingRetries(r) ==
    /\ SinkOpen
    /\ GoTo(r, "recording", "recording")
    /\ UNCHANGED <<jobs, sinkVars, server, post, work>>

\* persist logs Save's error and leaves the status alone.
FailAfterSaveForgets(r) ==
    /\ GoTo(r, "saveErrored", "done")
    /\ UNCHANGED <<jobs, sinkVars, server, post, work>>

-----------------------------------------------------------------------------
(* handleScan.  A request under way when the process is told to stop goes  *)
(* on, past the deadline of Shutdown and the closing of the sink if need be. *)

\* 404 for the module, 400 for the body.
RejectScan(r, p) ==
    /\ p \notin Post
    /\ GoTo(r, "idle", "rejected")
    /\ UNCHANGED <<jobs, sinkVars, server, post, work>>

\* 202, and a goroutine.
AcceptScan(r, p) ==
    /\ p \in Post
    /\ CreateIfAbsent(p.id, NewJob(p.module, p.tenant, p.domain))
    /\ GoTo(r, "idle", "start")
    /\ post' = [post EXCEPT ![r] = p]
    /\ UNCHANGED <<sinkVars, server, work>>

\* 202 for an id the store knows, whatever else the body says.
RepeatScan(r, p) ==
    /\ p \in Post
    /\ Known(p.id)
    /\ GoTo(r, "idle", "repeated")
    /\ post' = [post EXCEPT ![r] = p]
    /\ UNCHANGED <<jobs, sinkVars, server, work>>

-----------------------------------------------------------------------------
(* runJob, up to the module's return.                                      *)

\* announce(Sink.Start): a failure is logged and dropped.
AnnounceStart(r) ==
    /\ GoTo(r, "start",
            IF post[r].module = "ports" THEN "listing" ELSE "scanning")
    /\ \/ SinkOpen /\ TenantParses(r) /\ WriteStart(Id(r), JobOf(r))
       \/ UNCHANGED scanJobs
    /\ UNCHANGED <<jobs, ctem, server, post, work>>

\* Targets: the root domain, and in mongo mode the tenant's stored names of it.
InScope(r) ==
    LET d == post[r].domain
        known == {e.host : e \in ctem[post[r].tenant]["subdomains"]}
    IN  {Apex[d]} \cup (IF Mode = "mongo" THEN known \cap InDomain[d] ELSE {})

ListTargets(r) ==
    /\ GoTo(r, "listing", "scanning")
    /\ Mode = "mongo" => SinkOpen /\ TenantParses(r)
    /\ targets' = [targets EXCEPT ![r] = InScope(r)]
    /\ UNCHANGED <<jobs, sinkVars, server, post, found, loaded, stored>>

\* onProgress, first half: SetCount.
Report(r, hosts) ==
    /\ GoTo(r, "scanning", "progress")
    /\ found' = [found EXCEPT ![r] = hosts]
    /\ SetCount(Id(r), Cardinality(hosts))
    /\ UNCHANGED <<sinkVars, server, post, targets, loaded, stored>>

\* scanTargets reports each host that has something open, in any order.
ReportHost(r, h) ==
    /\ pc[r] = "scanning"
    /\ post[r].module = "ports"
    /\ h \in targets[r] \ found[r]
    /\ Report(r, found[r] \cup {h})

\* subdomain.Run reports once, when every name has been resolved.
ReportNames(r, names) ==
    /\ pc[r] = "scanning"
    /\ post[r].module = "subdomains"
    /\ names \subseteq Discoverable[post[r].domain]
    /\ Report(r, names)

\* onProgress, second half: announce(Sink.Progress), failure dropped too.
\* Progress does not look at the tenant.
AnnounceProgress(r) ==
    /\ GoTo(r, "progress",
            IF post[r].module = "ports" THEN "scanning" ELSE "returning")
    /\ \/ SinkOpen /\ WriteProgress(Id(r), JobOf(r))
       \/ UNCHANGED scanJobs
    /\ UNCHANGED <<jobs, ctem, server, post, work>>

\* The module returned a result.
RunSucceeds(r) ==
    /\ pc[r] \in {"scanning", "returning"}
    /\ pc[r] = "scanning" => post[r].module = "ports"
    /\ GoTo(r, pc[r], "succeeded")
    /\ SetResult(Id(r), found[r])
    /\ UNCHANGED <<sinkVars, server, post, work>>

\* The module returned an error: a tool is missing, the targets cannot be
\* listed, discovery failed, or every target failed.
RunFails(r) ==
    /\ pc[r] \in {"listing", "scanning"}
    /\ found[r] = {}
    /\ GoTo(r, pc[r], "failing")
    /\ SetError(Id(r), "scan")
    /\ UNCHANGED <<sinkVars, server, post, work>>

\* The module panicked on the run's goroutine: runJob's deferred recover.
RunPanics(r) ==
    /\ pc[r] \in {"listing", "scanning", "returning"}
    /\ GoTo(r, pc[r], "failing")
    /\ SetError(Id(r), "panic")
    /\ UNCHANGED <<sinkVars, server, post, work>>

-----------------------------------------------------------------------------
(* runJob's SetStatus, and persist.  Save's 30 second context covers every *)
(* command of it.  A command can fail without reaching the database, or    *)
(* be applied and lose its reply.                                          *)

\* Where Save stands once it has looked at the snapshot.
SaveFrom(r, status) ==
    CASE Mode = "api_response" -> "done"
      [] Mode = "mongo" /\ ~ TenantParses(r) -> "saveFailed"
      [] Mode = "mongo" /\ TenantParses(r) /\ status = "failed" -> "recording"
      [] OTHER -> "loading"

MarkComplete(r) ==
    /\ GoTo(r, "succeeded", SaveFrom(r, "complete"))
    /\ SetStatus(Id(r), "complete")
    /\ UNCHANGED <<sinkVars, server, post, work>>

MarkFailed(r) ==
    /\ GoTo(r, "failing", SaveFrom(r, "failed"))
    /\ SetStatus(Id(r), "failed")
    /\ UNCHANGED <<sinkVars, server, post, work>>

LoadCTEM(r) ==
    /\ SinkOpen
    /\ GoTo(r, "loading", "merging")
    /\ loaded' = [loaded EXCEPT ![r] = CurrentArray(r)]
    /\ UNCHANGED <<jobs, sinkVars, server, post, targets, found, stored>>

\* setCTEMField applied to what was loaded, however old that is by now.
WriteResult(r) ==
    /\ SinkOpen
    /\ SetCTEMField(post[r].tenant, FieldOfRun(r),
                    Merged(loaded[r], JobOf(r), r))
    /\ stored' = stored \cup {r}

StoreMerged(r) ==
    /\ GoTo(r, "merging", "recording")
    /\ WriteResult(r)
    /\ UNCHANGED <<jobs, scanJobs, server, post, targets, found, loaded>>

\* saveResult returned an error; with time left, Save goes on to record it.
\* When it was the context that expired, that write cannot succeed either.
ResultWriteFails(r) ==
    /\ \E from \in {"loading", "merging"}, to \in {"recordFailure", "saveFailed"} :
          GoTo(r, from, to)
    /\ \/ pc[r] = "merging" /\ WriteResult(r)
       \/ UNCHANGED <<ctem, stored>>
    /\ UNCHANGED <<jobs, scanJobs, server, post, targets, found, loaded>>

\* saveScanJob of the snapshot.
RecordVerdict(r) ==
    /\ SinkOpen
    /\ GoTo(r, "recording", "done")
    /\ WriteVerdict(Id(r), JobOf(r), JobOf(r).status, JobOf(r).error)
    /\ UNCHANGED <<jobs, ctem, server, post, work>>

\* saveScanJob of the copy marked failed; Save then returns resultErr.
RecordFailure(r) ==
    /\ SinkOpen
    /\ GoTo(r, "recordFailure", "saveFailed")
    /\ WriteVerdict(Id(r), JobOf(r), "failed", "store")
    /\ UNCHANGED <<jobs, ctem, server, post, work>>

\* saveScanJob returned an error.
RecordingFails(r) ==
    /\ \/ /\ GoTo(r, "recording", "saveFailed")
          /\ \/ SinkOpen /\ WriteVerdict(Id(r), JobOf(r), JobOf(r).status,
                                         JobOf(r).error)
             \/ UNCHANGED scanJobs
       \/ GoTo(r, "recordFailure", "saveFailed") /\ UNCHANGED scanJobs
    /\ UNCHANGED <<jobs, ctem, server, post, work>>

NoteSaveError(r) ==
    /\ GoTo(r, "saveFailed", "saveErrored")
    /\ SetError(Id(r), "store")
    /\ UNCHANGED <<sinkVars, server, post, work>>

FailAfterSave(r) ==
    /\ GoTo(r, "saveErrored", "done")
    /\ SetStatus(Id(r), "failed")
    /\ UNCHANGED <<sinkVars, server, post, work>>

-----------------------------------------------------------------------------
(* The process: main.run and Server.ListenAndServe.  Nothing waits for the *)
(* goroutines of runs, neither Shutdown nor the deferred sink.Close.  What *)
(* a process may do is taken from ProcessPromise, which Lifecycle, the     *)
(* model of main.run, implements.  AcceptScan asks no more of the process  *)
(* than Accept does there: that it is not down.                            *)

\* Requests a scan was started for.
AcceptedRuns == {r \in Requests : pc[r] \notin {"idle", "rejected", "repeated"}}

Life == INSTANCE ProcessPromise WITH accepted <- AcceptedRuns

Signal ==
    /\ Life!Stop
    /\ UNCHANGED <<jobs, sinkVars, pc, post, work>>

CloseSink ==
    /\ Life!Close
    /\ UNCHANGED <<jobs, sinkVars, pc, post, work>>

\* The process exits after CloseSink, or is killed or crashes at any point
\* (a panic outside runJob's own goroutine is a crash).  Memory is gone.
Die ==
    /\ Life!End
    /\ jobs' = [id \in JobIds |-> NoJob]
    /\ pc' = [r \in Requests |-> CASE pc[r] \in Live -> "dead"
                                   [] pc[r] = "done" -> "past"
                                   [] OTHER -> pc[r]]
    /\ targets' = [r \in Requests |-> {}]
    /\ found' = [r \in Requests |-> {}]
    /\ loaded' = [r \in Requests |-> {}]
    /\ UNCHANGED <<sinkVars, post, stored>>

Restart ==
    /\ Life!Begin
    /\ UNCHANGED <<jobs, sinkVars, pc, post, work>>

\* Another program that shares the database.
PlatformEdits(tenant, host) ==
    /\ PlatformWrites(tenant, host)
    /\ UNCHANGED <<jobs, server, pc, post, work>>

-----------------------------------------------------------------------------
Submit(r) ==
    \E p \in Posts : RejectScan(r, p) \/ AcceptScan(r, p) \/ RepeatScan(r, p)

\* The steps of a run's goroutine inside the module.
Scan(r) ==
    \/ AnnounceStart(r)
    \/ ListTargets(r)
    \/ \E h \in Hosts : ReportHost(r, h)
    \/ \E names \in SUBSET Hosts : ReportNames(r, names)
    \/ AnnounceProgress(r)
    \/ RunSucceeds(r)
    \/ RunFails(r)
    \/ RunPanics(r)

\* The steps of a run's goroutine after it.
Persist(r) ==
    \/ MarkComplete(r)
    \/ MarkFailed(r)
    \/ LoadCTEM(r)
    \/ StoreMerged(r)
    \/ ResultWriteFails(r)
    \/ RecordVerdict(r)
    \/ RecordFailure(r)
    \/ RecordingFails(r)
    \/ NoteSaveError(r)
    \/ FailAfterSave(r)

Process == Signal \/ CloseSink \/ Die \/ Restart

PlatformStep ==
    \E tenant \in ObjectIds, host \in PlatformHosts : PlatformEdits(tenant, host)

Next ==
    \/ \E r \in Requests : Submit(r) \/ Scan(r) \/ Persist(r)
    \/ Process
    \/ PlatformStep

Spec == Init /\ [][Next]_vars

\* The runtime schedules every goroutine, and each call a run makes ends:
\* nmap and the subdomain tools within the configured minutes, announce and
\* persist within 10 and 30 seconds.  Targets has no timeout of its own; the
\* driver is taken to give up on a server that does not answer.
FairSpec == Spec /\ \A r \in Requests : WF_vars(Scan(r) \/ Persist(r))

\* What GET /jobs/{id} shows of a job.
View(job) ==
    IF Mode = "api_response" THEN job ELSE [job EXCEPT !.result = NoResult]

=============================================================================
