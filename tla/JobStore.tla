------------------------------ MODULE JobStore ------------------------------
(***************************************************************************)
(* internal/jobs: the in-memory registry of scan jobs.                     *)
(*                                                                         *)
(* Every method of jobs.Store runs under one mutex, so a call is one step. *)
(* What is NOT one step is a caller that needs two calls: SetError and     *)
(* then SetStatus, SetResult and then SetStatus.  This module gives one    *)
(* action per method; ScanServer, the only caller, decides which of them   *)
(* run and in which order.                                                 *)
(*                                                                         *)
(* Abstractions.  An error is the step that produced it ("" is no error).  *)
(* A result is the set of hosts it reports.  A timestamp is whether it is  *)
(* set.  StartedAt, which every job carries from CreateIfAbsent on and     *)
(* nothing reads back, is left out.  Store.Create is called by tests only. *)
(***************************************************************************)
EXTENDS Naturals, FiniteSets

CONSTANTS
    JobIds,     \* ids a job can have, chosen by a client or generated
    Tenants,    \* tenant ids a client can send
    Domains,    \* root domains a client can ask to scan
    Hosts,      \* host names a scan can report
    NoJob,      \* "no such key" in the map of jobs
    NoResult    \* a nil Job.Result

VARIABLE jobs   \* jobs[id]: the job the map holds for id, or NoJob

\* Registered modules, by API name.
Modules == {"subdomains", "ports"}

Statuses == {"running", "complete", "failed"}
Terminal == {"complete", "failed"}

\* Where Job.Error came from: Run returned it, Run panicked, or Save failed.
Errors == {"", "scan", "panic", "store"}

Job == [module : Modules, tenant : Tenants, domain : Domains,
        status : Statuses, count : Nat, error : Errors,
        result : {NoResult} \cup SUBSET Hosts, completedAt : BOOLEAN]

ASSUME NoJobIsNotAJob == NoJob \notin Job
ASSUME NoResultIsNotAResult == \A hosts \in SUBSET Hosts : hosts # NoResult

JobsTypeOK == jobs \in [JobIds -> Job \cup {NoJob}]

JobsInit == jobs = [id \in JobIds |-> NoJob]

Known(id) == jobs[id] # NoJob

\* The job value handleScan builds before it asks for it to be stored.
NewJob(module, tenant, domain) ==
    [module |-> module, tenant |-> tenant, domain |-> domain,
     status |-> "running", count |-> 0, error |-> "",
     result |-> NoResult, completedAt |-> FALSE]

-----------------------------------------------------------------------------
(* Broken variants, put in place of the definitions below to show that     *)
(* some property notices.                                                  *)

\* The exists-check and Create are two calls, and another post got between.
CreateUnchecked(id, job) == jobs' = [jobs EXCEPT ![id] = job]

\* A failed job can be started again by posting its id.
CreateOrRestart(id, job) ==
    /\ Known(id) => jobs[id].status = "failed"
    /\ jobs' = [jobs EXCEPT ![id] = job]

-----------------------------------------------------------------------------
\* CreateIfAbsent returning true; it returns false exactly when Known(id).
CreateIfAbsent(id, job) ==
    /\ ~ Known(id)
    /\ jobs' = [jobs EXCEPT ![id] = job]

\* The setters ignore an id the map does not hold.
SetCount(id, n) ==
    jobs' = IF Known(id) THEN [jobs EXCEPT ![id].count = n] ELSE jobs

SetStatus(id, status) ==
    jobs' = IF Known(id)
            THEN [jobs EXCEPT ![id].status = status,
                              ![id].completedAt = @ \/ status \in Terminal]
            ELSE jobs

SetResult(id, result) ==
    jobs' = IF Known(id) THEN [jobs EXCEPT ![id].result = result] ELSE jobs

SetError(id, error) ==
    jobs' = IF Known(id) /\ error # ""
            THEN [jobs EXCEPT ![id].error = error]
            ELSE jobs

=============================================================================
