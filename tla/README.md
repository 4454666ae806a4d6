# scan-helper: TLA+ models and proofs

scan-helper is a Go service (`cmd/`, `internal/`) that runs two recon modules,
subdomain enumeration and port scanning, behind an HTTP API. A POST starts a scan on
a goroutine of its own and returns at once; the result is either kept in memory and
returned by the API (`mode: api_response`) or merged into the MongoDB collections of
the ThreatIntel platform (`mode: mongo`), which follows a scan by polling its `ScanJob`
row. This directory models the parts where several actors meet and the functions on
which stored data depends, checks them with TLC, and proves the results that matter most
with TLAPS.

## 1. Inventory

| Component | Code | State | Operations | Model |
|---|---|---|---|---|
| Job store | `internal/jobs` | map of jobs under one mutex | CreateIfAbsent, SetCount, SetStatus, SetResult, SetError, Snapshot, List | `JobStore` |
| API and scan goroutines | `internal/api` | none of its own; each goroutine's position | handleScan, runJob, announce, persist, viewJob | `ScanServer` |
| Sink | `internal/storage` | ScanJob rows, CTEMData documents (shared with the platform) | Start, Progress, Save, Targets, Close | `MongoSink`, `ScanServer`, `LateCommands` |
| Process, configuration, registry, middleware | `cmd/scan-helper`, `config`, `modules/registry.go`, `api/server.go`, `api/middleware.go` | where main stands, the configuration, the sink, the listener, the requests under way | Load, Validate, buildStorage, ListenAndServe, Shutdown, deferred Close, requireAPIKey, recoverPanic | `Lifecycle` |
| Worker pools | `portscan/module.go`, `subdomain/resolve.go` | two channels, workers, a wait group, a counter | scanTargets, resolveAll | `WorkerPool` |
| Discovery | `subdomain/module.go`, `subfinder.go`, `amass.go` | a child process, its pipe, amass's files, a deadline | Run, discover, runSubfinder, runAmass, fillMissingIPs | `Discovery` |
| Stored arrays | `subdomain/merge.go`, `portscan/merge.go`, `BuildTargets`, `nmap.go`, `parse.go`, `hostname.go` | the two arrays of a tenant's document | Merge, Merge, BuildTargets, runNmap, parseNmapXML, IsValidHostname | `Assets`, `SetMerge` |
| Tool check, setup script | `toolcheck`, `scripts` | none | | not modelled (section 8) |

How they interact. `main.run` loads the configuration, opens the sink, registers the
enabled modules and serves until a signal or an error. `handleScan` calls the job store
and spawns `runJob`. `runJob` announces the job to the sink, calls the module (which for
ports first asks the sink for its targets), forwards progress to the store and the sink,
records the outcome in the store in two calls, and hands a snapshot to `Sink.Save`. `Save`
is up to four MongoDB commands; one of them writes back a whole array it has merged. The
platform reads and writes the same database in between. A module's run is a pool of
goroutines around two channels, or two child processes.

What is hard, and would be missed by a test:

- two calls of the store where a reader expects one (result and status, error and status);
- a Save whose commands fail one by one, or are applied and lose their reply, or share
  a context that has already expired, or are applied long after their caller gave up;
- the read-merge-write of a whole array, against another scan or the platform;
- a restart that empties memory but not the database, and the same job id posted again;
- a shutdown that closes the sink under goroutines nobody waits for, and one that runs
  out of time under requests that do not end;
- closing a channel while somebody may still send, waiting on somebody who waits, and a
  counter read without its mutex;
- a reader that stops before the child process does, and a deadline that kills the tool
  and is then handed to the resolver;
- rows without a name, second rows of a host, two spellings, and a `www.` that counts for
  identity and not for attribution, in an array that every scan rewrites.

`PROJECT.json` lists each of these at its line ("hazards"), with the properties that
cover it or the reason none does.

## 2. Modules

```
JobStore, SetMerge <- MongoSink <- ScanServer <- ScanProperties
ScanServer INSTANCEs ProcessPromise, ScanProperties INSTANCEs ScanPromise
ScanProperties <- ScanClaims <- MCScanServer
ScanProperties <- LateCommands;  MCScanServer, LateCommands <- MCLateCommands
ScanProperties <- ScanProofs <- RunProofs, ScanRefinement;  ScanProofs, LateCommands <- LateProofs

Lifecycle (INSTANCE ProcessPromise) <- MCLifecycle, LifecycleProofs
WorkerPool (INSTANCE PoolPromise) <- PoolProofs
Discovery <- MCDiscovery, DiscoveryProofs
Assets (INSTANCE SetMerge) <- MCAssets, AssetsProofs
```

**JobStore** has one action per method of `jobs.Store`. Every method holds the mutex,
so a call is one step. An error is the step it came from, a result the set of hosts
it reports, a timestamp whether it is set.

**MongoSink** has the two collections and one action per command. `Upserted` is an
UpdateOne with `$set`: keys that are not named keep what is stored and no write unsets
one. An array of CTEMData is a set of entries, an entry being its host, the run whose
finding it carries, and whether the platform put data of its own on it. Both merges are
those of **SetMerge**.

**ScanServer** composes the two. `pc[r]` is where the goroutine of request `r` stands
between two steps another actor can see; the header of the module lists the places.
Every step of `runJob`, `announce`, `persist` and `Save` is one action, in the order of
the code:

| Code | Actions |
|---|---|
| `handleScan` | RejectScan, AcceptScan, RepeatScan |
| `announce(Sink.Start)` | AnnounceStart |
| `module.Run` and its callback | ListTargets, ReportHost / ReportNames, AnnounceProgress, RunFails, RunPanics |
| `SetResult`, `SetStatus(complete)` | RunSucceeds, MarkComplete |
| `SetError` (in RunFails, RunPanics), `SetStatus(failed)` | MarkFailed |
| `Save` | SaveFrom (which way it goes), LoadCTEM, StoreMerged, ResultWriteFails, RecordVerdict, RecordFailure, RecordingFails |
| `persist` after a failed Save | NoteSaveError, FailAfterSave |
| `main.run`, `ListenAndServe` | Signal, CloseSink, Die, Restart |
| the platform | PlatformEdits |

Commands can fail without reaching the database, or be applied and lose their reply.
`stored` is a history variable: the runs whose result was applied.

**LateCommands** extends ScanServer by the set `late` of commands that no call waits for
any more. Abandon is a call that gives up on a command it sent (the run goes on as after any
failure), DieSending a process that dies with one on its way, and ApplyLate the server
getting to it, at any later time, after a restart too, or never. `Sent(r)` is the
command a run has in hand at each place, with the snapshot and the merged array it was
built from.

**ScanPromise** is what the platform may rely on without knowing any of that: rows are
written on behalf of live runs only, one run of an id is live at a time, a run announces
before it keeps a result, and a row says complete only once its run's result is kept.
`ScanProperties` maps ScanServer onto it (`PhaseMap`, `OfMap`, `RowMap`).

**Lifecycle** is one process after another. `main` is where `main.run` stands; beside it are
the goroutine of the listener with `errCh`, net/http with one goroutine per request, and
the signal context.

| Code | Actions |
|---|---|
| `config.Load`, `-print-tools` | LoadConfig (with Load and Valid), LoadFails, PrintTools |
| `buildStorage`, `NewMongo`, `buildRegistry` | OpenStorage, StorageFails, Registered |
| the listener's goroutine | Bind, ListenerDies |
| the `select` of ListenAndServe, `Shutdown` | SelectErr, SelectSignal, Drained, DrainTimesOut |
| deferred calls, `os.Exit` | CloseSink, Exit |
| `requireAPIKey`, handlers, `recoverPanic` | Allowed, AnswerTo, Starts, AnswerRequest, StartScan, Panic |
| operating system, supervisor | Signal, Crash, Restart |

**ProcessPromise** is what a scan may take for granted of its process: a sink before
anything is accepted, a sink closed at most once and only after the process has begun to
stop. It stands between the two models. ScanServer is built on it: Signal, CloseSink, Die
and Restart *are* its steps Stop, Close, End and Begin, with what they do to runs, so there
is nothing to check on that side. Lifecycle implements it, which is checked and proved: each
step of main is one of these or none, so ScanServer leaves out no process main makes.

**Assets** is one tenant's document as it is stored. A row has a name (labels and a
form: plain, capitals, trailing dot, white space), an address and what the platform owns;
arrays are sequences, with rows that have no name and second rows of a host. `Kept`,
`Told` and `Retained` are the three parts `subdomain.Merge` appends; `Merge` is a set of
arrays because the last part comes in the order of a Go map. What the code appends in a
loop is `At(seq, I)` here, the elements at the indices in `I` in order, the `k`-th being
the one of rank `k`: a definition without recursion, which a proof can use. `BuildTargets` chooses what
nmap runs on, `RunNmap` what becomes of each way a process can end, `MergeGroups` is
`portscan.Merge`. `RefinesSetMerge` ties it to the rest: on arrays without second rows
the two merges are those of SetMerge, with which ScanServer works.

**WorkerPool** is `scanTargets` and `resolveAll`, which are the same pool: feeder,
workers, closer and collector, the unbuffered channel `in`, the buffered channel `out`,
the wait group, the failure counter, the context. `kind`, chosen at the start, is the
call; only that of the resolver has a context that can end. **PoolPromise** is the view
of its caller; the actions ReportHost, RunSucceeds and RunFails of ScanServer (an error
only if nothing was found) are that view.

**Discovery** is `subdomain.Module.Run`: subfinder as a process that writes into a
bounded pipe, the reader that stops at an over-long line and drains, the fallback to
amass and its two files, and the resolver under the same deadline.

Definitions commented as broken variants stand just before the definition they spoil.
They are used by nothing; each replaces its original to confirm that some property fails.

## 3. Properties and runs

`PROJECT.json` lists every run with its question. The passing ones:

| Run | Instance | Distinct states | Properties |
|---|---|---|---|
| `scans_mongo` | 2 posts of 7 bodies (2 ids, 2 tenants, one not an ObjectID, 2 modules, 2 domains, 2 refused bodies), 3 hosts, the platform editing one host, mongo mode | 1.9 million | TypeOK, RunInv, OneRunPerJob, RowCompleteMeansStored, CompletedRunIsRecorded, FailureCarriesReason, FinishedJobIsFrozen, MergeIsScoped |
| `scans_api` | the same, api_response mode | 9.5 thousand | CompleteCarriesResult, CompleteIsFinal |
| `scans_live` | 2 posts of 3 bodies with one id, fairness | 120 thousand | ImplementsPromise, EveryScanEnds, RowIsSettled |
| `late` | 2 posts of 3 bodies, one command late at a time | 1.8 million | LateInv, RowCompleteMeansStored |
| `pool` | 4 items, 3 workers, either call | 777 thousand | PoolInv, SendsAreSafe, NothingIsLost, EmptySuccessIsEarned, ImplementsPoolPromise, PoolReturns |
| `discovery` | every script of up to 4 lines, a pipe of 2, files of up to 2 entries | 5.4 thousand | DiscoveryInv, EmptyIsEarned, PartialReadIsKept, RunReturns |
| `assets` | up to 3 rows, 2 findings a scan, 5 names, 5 ends of nmap | 8.6 thousand | AssetsInv, OtherDomainsStay, MergeUpserts, RescanSettles, TargetsCover, OneGroupPerHost, RefinesSetMerge, NoRowIsLost |
| `lifecycle` | 7 configuration files, 5 requests, unbounded restarts | 721 thousand | LifeInv, ExitClosesSink, ServedAsConfigured, CleanExitCutsNothing, SignalEndsProcess, ImplementsProcess |

Why the bounds are enough. Every hazard of ScanServer is between two runs, or a run and
the platform, or a run and its successor after a restart; two requests give all of these,
and crashes and restarts are not bounded at all. Two domains, one of them with a name
below its apex, are what scoping tells apart. One late command at a time meets its own
run's next commands, the successor of the run under the same id and the other run's
write; LateProofs removes the bound. In the pool, four items and three workers make a
worker take a second item, several hold results while the collector is busy, and the
feeder stop between items; PoolProofs removes the bound. In Discovery an output of four
lines through a pipe of two blocks the writer before and after the over-long line;
DiscoveryProofs removes that bound for its safety properties. In Assets three rows hold
a host twice beside another, in either order, and two findings hold a name twice, or one
that is stored beside one that is not (AssetsProofs removes both bounds); the names are a domain, its `www.` name in two
spellings, a name that is no hostname and a name of another domain. The properties
quantify over every scan that could come next, not only over the steps taken. In
Lifecycle the five requests are two posts of one id for either module, one that is
malformed, a status request without the key and a health check; the files state every key
in a valid and an invalid way. The bounds in the guards are MaxRows and MaxFresh
(Assets), MaxEntries (Discovery) and MaxLate (LateCommands). Requests, and the marks of
the platform in Assets, are interchangeable and no property names one, so they are
symmetry sets where no liveness is checked.

Which properties a reviewer may want to look at first: RowCompleteMeansStored and
CompletedRunIsRecorded (what a poller is told is true), FinishedJobIsFrozen,
MergeIsScoped and NoRowIsLost (a scan does not destroy data), EmptySuccessIsEarned (a port
scan that found nothing, and whose merge deletes, is never one in which every host failed),
OneGroupPerHost (two notions of a domain and two of a host agree in the end),
SignalEndsProcess and CleanExitCutsNothing. EmptyIsEarned says which empty results of the
subdomain module there are: those of an amass that ended cleanly and left nothing, and those
in which a deadline lost names after they were found, which section 6 comes back to.

## 4. Fairness

`ScanServer!FairSpec` asks weak fairness of each run's goroutine (`Scan(r) \/ Persist(r)`)
and of nothing else: not of clients, signals, crashes, restarts or the platform. The
goroutine's steps end because nmap is killed after `timeout_minutes` per host, the
subdomain module after its own deadline, and announce and persist after 10 and 30
seconds. One call has no such bound: `Targets` runs under `context.Background`
(`mongo_store.go:283`), and that it returns is an assumption on the MongoDB driver. A
tool whose children keep its output open after it was killed would also break the
assumption, as the commands set no WaitDelay.

`WorkerPool!FairSpec` asks weak fairness of each worker, the closing of each channel and
the collector; that scans, lookups and progress reports return is the same assumption.
`Discovery!FairSpec` asks it of the child process and of Run, and not of the deadline:
RunReturns says the drain makes the deadline unnecessary.

`Lifecycle!FairSpec` asks weak fairness of `main.run` alone: the steps it waits for have
timeouts of their own (15 seconds to connect and to shut down, 10 to close the sink).
Nothing is asked of a handler, as a client may take as long as it likes over a body
(`server.go:64` sets a timeout for headers only): SignalEndsProcess holds because of
DrainTimesOut.

A command in `late` is never obliged to arrive.

## 5. Proofs

All theorems hold for every value of the constants that satisfies the named assumptions
of the modules: any sets of requests, ids, tenants, domains and posts, any finite set
of hosts, both modes; any number of late commands; any positive number of items, any
finite and non-empty pool; a pipe of any size and any output; any configuration files,
keys and requests; arrays and scans of any length, any names, domains, addresses and marks.

`ScanProofs` proves `Spec => []ScanInv` (InvariantHolds), and from it TypeCorrect, OneRun
and NoFalseComplete. RowCompleteMeansStored is not inductive: that the verdict written
is earned depends on where the goroutine stands (VerdictIsEarned: `recording` with status
complete only after the result was stored), which depends on the job being the run's own
(RunsOwnJobs, OneRunPerJob: nobody else changes its status between the steps) and on
results being there to write (WritersHaveResults); StoredIsWritten says that a run writes
its result once and announces nothing after. The proof has one lemma per call of
the store and per command of the sink, lemmas for steps of the same kind (a step that writes a
job, a row, or an array), and one lemma per action.

`RunProofs` strengthens ScanInv to RunInv by what a run knows of its job before each step
(SoundRun: it is running until runJob says otherwise, its count is that of the hosts found
so far, its reason is set before the status that needs one), and proves from it Recording,
Reasons and Results, and the action properties FinishedStays, ApiCompleteIsFinal and
MergeScoped. Its shape is one lemma for steps that call nothing, one for a call of the
store, one for a command, and one per action that instantiates them.

`LateProofs` proves LateInv: what a late command says stays true until it is applied
(Truthful). The reason is that a verdict is built after the result it speaks of was
stored, and `stored` never shrinks; NoFalseCompleteLate follows. ScanProofs!NextInv is
used as it is for the steps that are not about late commands.

`ScanRefinement` proves `Spec => ImplementsPromise`: with ScanInv, every action is a
step of ScanPromise or a stutter under the mapping.

`LifecycleProofs` proves LifeInv (which exit codes, sinks, listeners and requests go with
which place of main) with one lemma per action, and from it SinkIsClosed, CleanExit,
Configured and ProcessRefinement, which carries the steps of main over to the process that
ScanServer is built on.

`PoolProofs` proves `Spec => []PoolInv` and from it SafeSends, CompleteFanIn,
EarnedSuccess and PoolRefinement. PoolInv says where each item is (EachItemOnce),
relates the history of outcomes to the channels and the counter (Accounted), and orders the
end (WindsDown). That a sender finds room follows by counting: what is in `out` and
what it holds are different items, so `out` has fewer than `N`.

`DiscoveryProofs` proves DiscoveryInv: amass is asked only when subfinder left no
name, the pool gets exactly the names of the tool that was asked last, and the result misses
some of them only when they were bare names and the deadline has passed. EarnedEmpty
and PartialKept follow.

`AssetsProofs` proves what the merges, the targets and the ends of nmap come to, for arrays
and scans of any length and any names. There is no induction over arrays in it: every array
of the model is put together with `At`, and the first lemmas show that ranks number the
indices of a set without gaps and in order, so that `At` keeps exactly the elements it is
told to, in order. `MergeLayout` says the same of a merged array as a whole: each of its
rows is a stored row unchanged or the entry of a finding, and two maps, `old` and `new`, tell
which, without overlap, with the kept rows first. `FollowProperties` joins the two into a map
from each stored row to its place afterwards, one to one and true to host and mark. The
theorems are then about sets of indices:

- the invariant AssetsInv (InvariantHolds). MarksAreUnique is what NoRowIsLost needs of the
  state (that a mark is on *one* row afterwards follows only if it was before), and
  HostsAreKnown what RefinesSetMerge needs, as SetMerge is told of the domain's hosts among
  those known;
- NoRowIsLost (RowsAreNotLost): every kind of step has a one-to-one map of the rows
  (`Carries`), and the counts follow from it;
- MergeUpserts (MergesUpsert): the map takes the rows of a host onto its rows afterwards,
  unless it had none, when the entry is the only one;
- OtherDomainsStay (OtherDomainsAreKept): a row outside the domain has the same rank among
  those outside, before and after;
- RescanSettles (RescansSettle): after a first merge the rows taken out by a second are
  exactly the entries of the first, and an entry of an entry is itself. It assumes that no
  host had two rows and that every finding belongs to the scanned domain;
- OneGroupPerHost (GroupsAreUnique), inductive as it stands: the targets differ in their
  labels, each of them belongs to the domain, and a group of the domain is not kept;
- TargetsCover (TargetsAreCovered) and RefinesSetMerge (MergesRefineSetMerge).

Late commands weaken some of this. LateProofs carries RowCompleteMeansStored over; but a
Start or a Progress applied after the verdict puts a row that was settled back to running,
or its count back, so CompletedRunIsRecorded, RowIsSettled and ImplementsPromise hold of
ScanServer and not of LateCommands.

Every safety property and every refinement a passing run checks is thereby a theorem. Only
model-checked are the liveness properties (EveryScanEnds, RowIsSettled, PoolReturns,
RunReturns, SignalEndsProcess), which are beyond the prover like everything about ENABLED.

## 6. Where the documents and the code disagree

Four are runs that end in a counterexample (`Claim*.cfg`); the findings in
`PROJECT.json` quote the sentence.

- Concurrent writers of one CTEMData array lose each other's entries
  (`OtherDomainsUntouched`); `MergeIsScoped` is what does hold: nothing is lost if the
  array did not change between the read and the write.
- A port scan deletes the groups of hosts that became targets after it had listed its own,
  and that a second scan has stored meanwhile (`DroppedPortsWereRescanned`).
- A name outside the scanned domain that a tool reports gets one more row at every rescan
  (`FoundAgainIsRefreshed`): stored rows of other domains are not in `prev`, where every
  fresh name is looked up. MergeUpserts is what holds for names of the domain.
- When the module deadline passes, names already found disappear from a successful
  result (`PartialBeatsNone`); PartialReadIsKept is what holds of the reader.

Four more follow from the models and have no run of their own:

- The API says complete before the data is in the database (`handlers.go:131` precedes
  Save), and takes it back if Save fails; README.md:65 says the data is there by then.
  What does hold is about the platform's row: RowCompleteMeansStored.
- The API shows an error on a job that still runs (place `failing`), or is still complete
  (place `saveErrored`), to a poller that comes between SetError and SetStatus;
  docs/API.md:126 says only when failed. In the same way it shows, in api_response mode, a
  result on a job that still runs, between SetResult and SetStatus (docs/API.md:127: only
  when complete). FailureCarriesReason and CompleteCarriesResult are what the order of the
  two calls does give.
- No write unsets a key of a row, so after a restart the row of an id that is posted again
  runs with the completedAt and the error of its earlier life, and completes with that
  error (docs/API.md:197: when failed).
- A result write that consumed Save's 30 seconds leaves the row running, because the failed
  status is written under the same context (`mongo_store.go:152`; the comment at 133 and
  docs/API.md:228 say otherwise). What holds is RowIsSettled: the API then shows failed.

## 7. Abstractions that matter to a reader

- MongoDB applies one command to one document atomically; one document exists per jobId
  and per tenantId (the code creates no unique index). In ScanServer a command takes
  effect before its failure is reported or never; LateCommands lifts that.
- `announce` and `persist` use a snapshot taken a moment earlier; as only the run itself
  writes its job (OneRunPerJob), that is the job as it stands.
- `deferred recover` covers the module; a panic inside `persist` itself is not modelled.
- A host found by a port scan has one open port, so the count is the number of hosts.
- `out` of the pool is a set: EachItemOnce, part of PoolInv, shows a set loses nothing.
- In Assets a scan is one step; ScanServer has its interleavings. The groups of a port
  scan come in the order of the targets, and carry no ports. Which rows are told apart is
  the subject, so `ip` stands for all a scan refreshes and `mark` for all it must keep.
- In Lifecycle a scan is a job id; what becomes of it is ScanServer's. A request is
  answered in one step, but for the accepted one, which is stored first.
- `IsValidHostname` is about labels and white space; the limit of 253 bytes is left out.

## 8. Not modelled

The tool check (a look at the file system; its answer is an input of Discovery), and with
it the list of `-print-tools` and the health page; the setup script (not part of the
running service); the fields of a port and of an SSL check, which are copied; read-only
handlers other than what a job looks like through them (`View`); which address of
several the resolver takes. Two kinds of hazard stay open because nothing in the
repository says what should happen: what a late Progress may do to the count of an older
row, and what a scan with some hosts unreachable may delete. Duplicate documents through
concurrent upserts, and two generated ids in one tick of the clock, need a model of
MongoDB's index and of the clock that the code gives nothing to check against.

## 9. Plan

1. *Done:* job store, sink, server; the promise; the pools; discovery; stored arrays and
   scoping; the life of the process with configuration and middleware; late commands.
2. *Done:* all safety properties of ScanServer, WorkerPool, Discovery, Lifecycle,
   LateCommands and Assets proved for every instance.
3. *Open:* a model of upserts without a unique index, should the collections' indexes
   become part of the repository.
