------------------------------ MODULE MongoSink ------------------------------
(***************************************************************************)
(* internal/storage in mongo mode: the two collections the ThreatIntel     *)
(* platform reads, and the commands MongoSink sends to them.               *)
(*                                                                         *)
(* MongoDB applies one command to one document atomically, so a command is *)
(* one step; a Save is several commands, and ScanServer interleaves them.  *)
(* Whether a command reaches the database, and whether its reply comes     *)
(* back, is decided there too.                                             *)
(*                                                                         *)
(* Abstractions.  A ScanJob row keeps the keys some property reads; a key  *)
(* a row lacks is "" (error) or FALSE (completedAt).  createdAt, updatedAt *)
(* and startedAt are left out.  A CTEMData array is the set of its         *)
(* entries; an entry is its host, the run whose finding it carries (ip and *)
(* status, or ports) and whether the platform has put data of its own on   *)
(* it.  A missing CTEMData document reads as one with two empty arrays.    *)
(***************************************************************************)
EXTENDS JobStore, SetMerge

CONSTANTS
    Requests,   \* POST requests; the one that creates a job names its run
    Platform,   \* provenance of an entry the platform added itself
    NoRow,      \* no ScanJob document with that jobId
    ObjectIds   \* the tenant ids that parse as a MongoDB ObjectID

VARIABLES
    scanJobs,   \* scanJobs[id]: the ScanJob document for id, or NoRow
    ctem        \* ctem[t][field]: an array of the CTEMData document of t

sinkVars == <<scanJobs, ctem>>

Fields == {"subdomains", "openPorts"}

\* The CTEMData array a module owns, which is also its ScanJob.type.
FieldOf(module) == IF module = "ports" THEN "openPorts" ELSE "subdomains"

Row == [type : Fields, tenant : Tenants, domain : Domains,
        status : Statuses, count : Nat, error : Errors, completedAt : BOOLEAN]

Entry == [host : Hosts, by : Requests \cup {Platform}, admin : BOOLEAN]

ASSUME NoRowIsNotARow == NoRow \notin Row
ASSUME PlatformIsNoRequest == Platform \notin Requests
ASSUME TenantsAssumption == ObjectIds \subseteq Tenants
ASSUME DomainsAssumption == InDomain \in [Domains -> SUBSET Hosts]

SinkTypeOK ==
    /\ scanJobs \in [JobIds -> Row \cup {NoRow}]
    /\ ctem \in [Tenants -> [Fields -> SUBSET Entry]]

SinkInit ==
    /\ scanJobs = [id \in JobIds |-> NoRow]
    /\ ctem = [t \in Tenants |-> [f \in Fields |-> {}]]

-----------------------------------------------------------------------------
(* ScanJob.  updateScanJob is an UpdateOne with $set: keys that are not    *)
(* named keep what is stored, and no write ever unsets one.                *)

\* What $set starts from: the stored row, or an empty one under upsert.
Upserted(id, job) ==
    IF scanJobs[id] = NoRow
    THEN [type |-> FieldOf(job.module), tenant |-> job.tenant,
          domain |-> job.domain, status |-> "running", count |-> 0,
          error |-> "", completedAt |-> FALSE]
    ELSE [scanJobs[id] EXCEPT !.type = FieldOf(job.module),
                              !.tenant = job.tenant,
                              !.domain = job.domain]

\* Broken variant of WriteProgress: an upsert.
WriteProgressUpserts(id, job) ==
    scanJobs' = [scanJobs EXCEPT ![id] =
        IF @ = NoRow THEN [count |-> job.count] ELSE [@ EXCEPT !.count = job.count]]

\* Broken variant of WriteVerdict: the error key is never set.
WriteVerdictAlone(id, job, status, error) ==
    scanJobs' = [scanJobs EXCEPT
        ![id] = [Upserted(id, job) EXCEPT
            !.status = status,
            !.count = job.count,
            !.completedAt = @ \/ status \in Terminal]]

\* Start: the running row, upserted before the module is invoked.
WriteStart(id, job) ==
    scanJobs' = [scanJobs EXCEPT
        ![id] = [Upserted(id, job) EXCEPT !.status = "running",
                                          !.count = job.count]]

\* Progress: count only, and deliberately not an upsert.
WriteProgress(id, job) ==
    scanJobs' = IF scanJobs[id] = NoRow
                THEN scanJobs
                ELSE [scanJobs EXCEPT ![id].count = job.count]

\* saveScanJob for a terminal job; the error key is only set, never removed.
WriteVerdict(id, job, status, error) ==
    scanJobs' = [scanJobs EXCEPT
        ![id] = [Upserted(id, job) EXCEPT
            !.status = status,
            !.count = job.count,
            !.error = IF error # "" THEN error ELSE @,
            !.completedAt = @ \/ status \in Terminal]]

-----------------------------------------------------------------------------
(* CTEMData.                                                               *)

Merged(existing, job, run) ==
    IF job.module = "ports"
    THEN MergePorts(existing, job.result, job.domain, run)
    ELSE MergeSubdomains(existing, job.result, job.domain, run)

\* setCTEMField: one key of one tenant's document.
SetCTEMField(tenant, field, value) ==
    ctem' = [ctem EXCEPT ![tenant][field] = value]

\* The platform shares the database: an admin edits an entry, or a client
\* requests a host the scanner may never find.
PlatformWrites(tenant, host) ==
    /\ ctem' = [ctem EXCEPT ![tenant]["subdomains"] =
           LET mine == {e \in @ : e.host = host} IN
           IF mine = {}
           THEN @ \cup {[host |-> host, by |-> Platform, admin |-> TRUE]}
           ELSE (@ \ mine) \cup {[e EXCEPT !.admin = TRUE] : e \in mine}]
    /\ UNCHANGED scanJobs

=============================================================================
