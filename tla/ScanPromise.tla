----------------------------- MODULE ScanPromise -----------------------------
(***************************************************************************)
(* What the service promises the platform that polls a scan's row by its   *)
(* job id: a row is written only on behalf of a live run of that id, at    *)
(* most one run of an id is live at a time, a run announces itself before  *)
(* it keeps a result, and a row says complete only once the result of its  *)
(* run is kept.  Nothing here says how: no goroutine, no command, no       *)
(* retry, no in-memory job.  ScanServer implements this module.            *)
(***************************************************************************)
CONSTANTS Runs, Ids, NoId

VARIABLES
    phase,   \* none, live or over, for each run
    of,      \* the id each run was begun for, or NoId
    row,     \* the status the platform reads for each id, or none
    kept     \* runs whose result is in the database

promiseVars == <<phase, of, row, kept>>

Verdicts == {"complete", "failed"}

PromiseInit ==
    /\ phase = [r \in Runs |-> "none"]
    /\ of = [r \in Runs |-> NoId]
    /\ row = [id \in Ids |-> "none"]
    /\ kept = {}

Begin(r, id) ==
    /\ phase[r] = "none"
    /\ \A s \in Runs : of[s] = id => phase[s] # "live"
    /\ phase' = [phase EXCEPT ![r] = "live"]
    /\ of' = [of EXCEPT ![r] = id]
    /\ UNCHANGED <<row, kept>>

Announce(r) ==
    /\ phase[r] = "live"
    /\ r \notin kept
    /\ row' = [row EXCEPT ![of[r]] = "running"]
    /\ UNCHANGED <<phase, of, kept>>

\* A run can keep its result and not live to say so.
Keep(r) ==
    /\ phase[r] = "live"
    /\ kept' = kept \cup {r}
    /\ \E p \in {"live", "over"} : phase' = [phase EXCEPT ![r] = p]
    /\ UNCHANGED <<of, row>>

Conclude(r, verdict) ==
    /\ phase[r] = "live"
    /\ verdict = "complete" => r \in kept
    /\ row' = [row EXCEPT ![of[r]] = verdict]
    /\ phase' = [phase EXCEPT ![r] = "over"]
    /\ UNCHANGED <<of, kept>>

\* The row keeps what it says: a poller may see running from then on.
GiveUp(r) ==
    /\ phase[r] = "live"
    /\ phase' = [phase EXCEPT ![r] = "over"]
    /\ UNCHANGED <<of, row, kept>>

Crash ==
    /\ phase' = [r \in Runs |-> IF phase[r] = "live" THEN "over" ELSE phase[r]]
    /\ UNCHANGED <<of, row, kept>>

PromiseNext ==
    \/ \E r \in Runs :
          \/ \E id \in Ids : Begin(r, id)
          \/ Announce(r)
          \/ Keep(r)
          \/ \E verdict \in Verdicts : Conclude(r, verdict)
          \/ GiveUp(r)
    \/ Crash

PromiseSpec == PromiseInit /\ [][PromiseNext]_promiseVars

=============================================================================
