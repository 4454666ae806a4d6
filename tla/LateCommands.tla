---------------------------- MODULE LateCommands ----------------------------
(***************************************************************************)
(* internal/storage: commands that outlive the call that sent them.        *)
(*                                                                         *)
(* announce gives a command 10 seconds and a Save 30 for all of its own.   *)
(* When the context ends, or the process does, the driver stops waiting;   *)
(* a command the server already has is applied all the same, after         *)
(* whatever the run, its successor under the same id, or another run of    *)
(* the tenant wrote meanwhile.  ScanServer applies a command before its    *)
(* call returns or never; here it can also be late.  A command carries the *)
(* snapshot it was made from: the document is built before it is sent.     *)
(***************************************************************************)
EXTENDS ScanProperties

CONSTANT MaxLate    \* bound: commands that are late at a time

VARIABLE late       \* commands no call waits for and the server has not applied

lateVars == <<vars, late>>

Command ==
    [kind : {"start", "progress"}, run : Requests, job : Job]
    \cup [kind : {"verdict"}, run : Requests, job : Job,
          status : Terminal, error : Errors]
    \cup [kind : {"result"}, run : Requests, value : SUBSET Entry]

LateTypeOK == TypeOK /\ late \in SUBSET Command

LateInit == Init /\ late = {}

-----------------------------------------------------------------------------
Verdict(r, status, error) ==
    [kind |-> "verdict", run |-> r, job |-> JobOf(r),
     status |-> status, error |-> error]

\* Broken variant of Sent: the verdict travels along with the result.
SentTogether(r) ==
    IF pc[r] \in {"merging", "recording"}
    THEN {Verdict(r, JobOf(r).status, JobOf(r).error)}
    ELSE {}

\* The command a run has sent, or is about to, where it stands.
Sent(r) ==
    CASE pc[r] = "start" /\ TenantParses(r) ->
             {[kind |-> "start", run |-> r, job |-> JobOf(r)]}
      [] pc[r] = "progress" ->
             {[kind |-> "progress", run |-> r, job |-> JobOf(r)]}
      [] pc[r] = "merging" ->
             {[kind |-> "result", run |-> r,
               value |-> Merged(loaded[r], JobOf(r), r)]}
      [] pc[r] = "recording" -> {Verdict(r, JobOf(r).status, JobOf(r).error)}
      [] pc[r] = "recordFailure" -> {Verdict(r, "failed", "store")}
      [] OTHER -> {}

Leave(r) ==
    /\ SinkOpen
    /\ Cardinality(late) < MaxLate
    /\ \E c \in Sent(r) : c \notin late /\ late' = late \cup {c}

\* The call gives up on a command: to the run it failed like any other.
Abandon(r) ==
    /\ Leave(r)
    /\ \/ AnnounceStart(r)
       \/ AnnounceProgress(r)
       \/ ResultWriteFails(r)
       \/ RecordingFails(r)
    /\ UNCHANGED <<scanJobs, ctem, stored>>

\* The process dies with a command on its way.
DieSending(r) == Leave(r) /\ Die

Apply(c) ==
    /\ CASE c.kind = "start" -> WriteStart(Id(c.run), c.job)
         [] c.kind = "progress" -> WriteProgress(Id(c.run), c.job)
         [] c.kind = "verdict" ->
                WriteVerdict(Id(c.run), c.job, c.status, c.error)
         [] OTHER -> UNCHANGED scanJobs
    /\ \/ /\ c.kind = "result"
          /\ SetCTEMField(post[c.run].tenant, FieldOfRun(c.run), c.value)
          /\ stored' = stored \cup {c.run}
       \/ c.kind # "result" /\ UNCHANGED <<ctem, stored>>

\* The server gets to a command; whether the process lives does not matter.
ApplyLate(c) ==
    /\ Apply(c)
    /\ late' = late \ {c}
    /\ UNCHANGED <<jobs, server, pc, post, targets, found, loaded>>

LateNext ==
    \/ Next /\ UNCHANGED late
    \/ \E r \in Requests : Abandon(r) \/ DieSending(r)
    \/ \E c \in late : ApplyLate(c)

-----------------------------------------------------------------------------
\* What a late command still says once it is applied: the body of its run,
\* which no longer touches the array, and complete only if the result was
\* in CTEMData before the verdict was sent.
Truthful(c) ==
    /\ c.run \in AcceptedRuns
    /\ post[c.run] \in Post
    /\ c.kind = "result" => pc[c.run] \in Written
    /\ c.kind # "result" =>
          /\ c.job.module = post[c.run].module
          /\ c.job.tenant = post[c.run].tenant
          /\ c.job.domain = post[c.run].domain
    /\ (c.kind = "verdict" /\ c.status = "complete") => c.run \in stored

LateIsTruthful == \A c \in late : Truthful(c)

\* The inductive invariant behind the theorems of LateProofs.
LateInv == LateTypeOK /\ ScanInv /\ LateIsTruthful

LateSpec == LateInit /\ [][LateNext]_lateVars

=============================================================================
