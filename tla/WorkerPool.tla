----------------------------- MODULE WorkerPool -----------------------------
(***************************************************************************)
(* scanTargets (portscan) and resolveAll (subdomain): the same pool of     *)
(* goroutines around two channels.                                         *)
(*                                                                         *)
(*   feeder     sends the items, in order, on the unbuffered channel in,   *)
(*              gives up when ctx is done, and closes in                   *)
(*   workers    take an item, scan or resolve it, send what they found on  *)
(*              the buffered channel out, and finish when in is closed     *)
(*   closer     waits for all workers (wg), then closes out                *)
(*   collector  the caller: ranges over out, reports progress, and returns *)
(*                                                                         *)
(* scanTargets counts errors under a mutex and reads the count, unlocked,  *)
(* after out is closed.  Its ctx is context.Background, which never ends;  *)
(* resolveAll's is the module's deadline.                                  *)
(*                                                                         *)
(* Abstractions.  Items are their positions in the slice.  What a scan     *)
(* returns is one of Outcomes.  out holds at most one message per item,    *)
(* so it is a set; EachItemOnce is what makes that sound.                  *)
(***************************************************************************)
EXTENDS Naturals, FiniteSets

CONSTANTS
    N,         \* number of items, at least one
    Workers    \* the pool

VARIABLES
    kind,       \* the call: scan (scanTargets) or resolve (resolveAll)
    next,       \* feeder: the item it offers on in
    inClosed,   \* channel in is closed
    at,         \* at[w]: what worker w is doing
    item,       \* item[w]: the item w took last, 0 before that
    out,        \* items whose result waits in channel out
    outClosed,  \* channel out is closed
    collector,  \* ranging, reporting or returned
    groups,     \* items whose result the collector has
    failCount,  \* the counter under the mutex
    expired,    \* ctx is done
    outcome,    \* history: what the scan of each item returned
    verdict     \* what the call returned: none yet, ok or error

vars == <<kind, next, inClosed, at, item, out, outClosed, collector, groups,
          failCount, expired, outcome, verdict>>

Items == 1..N

ASSUME NAssumption == N \in Nat \ {0}
ASSUME WorkersAssumption == IsFiniteSet(Workers) /\ Workers # {}

\* What scan or resolve can return.  A lookup reports failure as no address.
Outcomes == IF kind = "scan" THEN {"ports", "nothing", "failed"}
                             ELSE {"address", "unresolved"}

\* Those that are sent on out.
Sent == {"ports", "address", "unresolved"}

\* The places a message is in between the feeder and the collector.
Busy == {"working", "sending"}

TypeOK ==
    /\ kind \in {"scan", "resolve"}
    /\ next \in 1..(N + 1)
    /\ inClosed \in BOOLEAN
    /\ at \in [Workers -> Busy \cup {"waiting", "finished"}]
    /\ item \in [Workers -> 0..N]
    /\ out \in SUBSET Items
    /\ outClosed \in BOOLEAN
    /\ collector \in {"ranging", "reporting", "returned"}
    /\ groups \in SUBSET Items
    /\ failCount \in Nat
    /\ expired \in BOOLEAN
    /\ outcome \in [Items -> Outcomes \cup {"none"}]
    /\ verdict \in {"none", "ok", "error"}

Init ==
    /\ kind \in {"scan", "resolve"}
    /\ next = 1
    /\ inClosed = FALSE
    /\ at = [w \in Workers |-> "waiting"]
    /\ item = [w \in Workers |-> 0]
    /\ out = {}
    /\ outClosed = FALSE
    /\ collector = "ranging"
    /\ groups = {}
    /\ failCount = 0
    /\ expired = FALSE
    /\ outcome = [i \in Items |-> "none"]
    /\ verdict = "none"

-----------------------------------------------------------------------------
(* Broken variants, each put in place of its original to show that some    *)
(* property notices.                                                       *)

\* The feeder's range variable is captured late: an item is offered twice.
TakeTwice(w) ==
    /\ ~ inClosed
    /\ next \in Items
    /\ at[w] = "waiting"
    /\ at' = [at EXCEPT ![w] = "working"]
    /\ item' = [item EXCEPT ![w] = next]
    /\ next' \in {next, next + 1}
    /\ UNCHANGED <<kind, inClosed, out, outClosed, collector, groups,
                   failCount, expired, outcome, verdict>>

\* Nobody counts the worker that is still busy: wg.Done before the send.
CloseOutEarly ==
    /\ inClosed
    /\ ~ outClosed
    /\ \A w \in Workers : at[w] # "working"
    /\ outClosed' = TRUE
    /\ UNCHANGED <<kind, next, inClosed, at, item, out, collector, groups,
                   failCount, expired, outcome, verdict>>

\* The feeder returns without closing in.
FeederStopsOpen ==
    /\ ~ inClosed
    /\ next = N + 1 \/ expired
    /\ UNCHANGED vars

\* Every worker-side failure is treated like a host with nothing open.
FailUncounted(w) ==
    /\ at[w] = "working"
    /\ kind = "scan"
    /\ at' = [at EXCEPT ![w] = "waiting"]
    /\ outcome' = [outcome EXCEPT ![item[w]] = "failed"]
    /\ UNCHANGED <<kind, next, inClosed, item, out, outClosed, collector,
                   groups, failCount, expired, verdict>>

\* A call in which no host had anything open is taken for a failure.
AllFailedIsNothingFound(failures, found) == kind = "scan" /\ found = {}

\* One host that could not be scanned fails the whole call.
AllFailedIsAnyFailed(failures, found) == kind = "scan" /\ failures > 0

-----------------------------------------------------------------------------
\* The buffer of out: make(chan HostGroup, len(targets)).
Capacity == N

\* The rendezvous on in.
Take(w) ==
    /\ ~ inClosed
    /\ next \in Items
    /\ at[w] = "waiting"
    /\ at' = [at EXCEPT ![w] = "working"]
    /\ item' = [item EXCEPT ![w] = next]
    /\ next' = next + 1
    /\ UNCHANGED <<kind, inClosed, out, outClosed, collector, groups,
                   failCount, expired, outcome, verdict>>

\* The feeder ran out of items, or its select took ctx.Done.
CloseIn ==
    /\ ~ inClosed
    /\ next = N + 1 \/ expired
    /\ inClosed' = TRUE
    /\ UNCHANGED <<kind, next, at, item, out, outClosed, collector, groups,
                   failCount, expired, outcome, verdict>>

\* scan failed: count it and take the next item.
Fail(w) ==
    /\ at[w] = "working"
    /\ kind = "scan"
    /\ at' = [at EXCEPT ![w] = "waiting"]
    /\ outcome' = [outcome EXCEPT ![item[w]] = "failed"]
    /\ failCount' = failCount + 1
    /\ UNCHANGED <<kind, next, inClosed, item, out, outClosed, collector,
                   groups, expired, verdict>>

\* scan found nothing open: no group, no message.
FindNothing(w) ==
    /\ at[w] = "working"
    /\ kind = "scan"
    /\ at' = [at EXCEPT ![w] = "waiting"]
    /\ outcome' = [outcome EXCEPT ![item[w]] = "nothing"]
    /\ UNCHANGED <<kind, next, inClosed, item, out, outClosed, collector,
                   groups, failCount, expired, verdict>>

\* scan or resolve returned something to send.  A lookup under a context
\* that is done answers nothing.
Find(w, o) ==
    /\ at[w] = "working"
    /\ o \in Outcomes \cap Sent
    /\ expired => o # "address"
    /\ at' = [at EXCEPT ![w] = "sending"]
    /\ outcome' = [outcome EXCEPT ![item[w]] = o]
    /\ UNCHANGED <<kind, next, inClosed, item, out, outClosed, collector,
                   groups, failCount, expired, verdict>>

Send(w) ==
    /\ at[w] = "sending"
    /\ Cardinality(out) < Capacity
    /\ out' = out \cup {item[w]}
    /\ at' = [at EXCEPT ![w] = "waiting"]
    /\ UNCHANGED <<kind, next, inClosed, item, outClosed, collector, groups,
                   failCount, expired, outcome, verdict>>

\* range in ends: wg.Done.
Finish(w) ==
    /\ at[w] = "waiting"
    /\ inClosed
    /\ at' = [at EXCEPT ![w] = "finished"]
    /\ UNCHANGED <<kind, next, inClosed, item, out, outClosed, collector,
                   groups, failCount, expired, outcome, verdict>>

\* wg.Wait returned.
CloseOut ==
    /\ ~ outClosed
    /\ \A w \in Workers : at[w] = "finished"
    /\ outClosed' = TRUE
    /\ UNCHANGED <<kind, next, inClosed, at, item, out, collector, groups,
                   failCount, expired, outcome, verdict>>

Receive(i) ==
    /\ collector = "ranging"
    /\ i \in out
    /\ out' = out \ {i}
    /\ groups' = groups \cup {i}
    /\ collector' = IF kind = "scan" THEN "reporting" ELSE "ranging"
    /\ UNCHANGED <<kind, next, inClosed, at, item, outClosed, failCount,
                   expired, outcome, verdict>>

\* onProgress, which waits for a database, returned.
Report ==
    /\ collector = "reporting"
    /\ collector' = "ranging"
    /\ UNCHANGED <<kind, next, inClosed, at, item, out, outClosed, groups,
                   failCount, expired, outcome, verdict>>

\* Only scanTargets has an error to return.
AllFailed(failures, found) == kind = "scan" /\ failures = N

\* range out ended.
Return ==
    /\ collector = "ranging"
    /\ outClosed
    /\ out = {}
    /\ collector' = "returned"
    /\ verdict' = IF AllFailed(failCount, groups) THEN "error" ELSE "ok"
    /\ UNCHANGED <<kind, next, inClosed, at, item, out, outClosed, groups,
                   failCount, expired, outcome>>

\* The module's deadline passes.
Expire ==
    /\ kind = "resolve"
    /\ ~ expired
    /\ expired' = TRUE
    /\ UNCHANGED <<kind, next, inClosed, at, item, out, outClosed, collector,
                   groups, failCount, outcome, verdict>>

-----------------------------------------------------------------------------
Work(w) ==
    \/ Take(w)
    \/ Fail(w)
    \/ FindNothing(w)
    \/ \E o \in Sent : Find(w, o)
    \/ Send(w)
    \/ Finish(w)

Collect == (\E i \in Items : Receive(i)) \/ Report \/ Return

Next ==
    \/ \E w \in Workers : Work(w)
    \/ CloseIn
    \/ CloseOut
    \/ Collect
    \/ Expire

Spec == Init /\ [][Next]_vars

\* The runtime schedules every goroutine, and nmap, the resolver and the
\* sink all answer within their own timeouts.
FairSpec ==
    /\ Spec
    /\ \A w \in Workers : WF_vars(Work(w))
    /\ WF_vars(CloseIn)
    /\ WF_vars(CloseOut)
    /\ WF_vars(Collect)

-----------------------------------------------------------------------------
(* What the pool guarantees.                                               *)

\* Every item is in one place only: offered, with one worker, in out, with
\* the collector, or dealt with.  No host is scanned twice in a run.
EachItemOnce ==
    /\ \A v, w \in Workers :
          at[v] \in Busy /\ at[w] \in Busy /\ item[v] = item[w] => v = w
    /\ \A w \in Workers : at[w] \in Busy =>
          /\ item[w] \in 1..(next - 1)
          /\ item[w] \notin out \cup groups
          /\ at[w] = "working" => outcome[item[w]] = "none"
    /\ out \cap groups = {}

\* out is closed only when nobody will send on it (a send on a closed
\* channel panics on a goroutine that nothing recovers), and a worker with
\* a result never waits for a collector that is busy reporting progress.
SendsAreSafe ==
    /\ outClosed => \A w \in Workers : at[w] = "finished"
    /\ \A w \in Workers : at[w] = "sending" => Cardinality(out) < Capacity

\* When the call returns it has what every worker found and the final
\* failure count, though it reads that count without the mutex.
NothingIsLost ==
    verdict # "none" =>
        /\ groups = {i \in Items : outcome[i] \in Sent}
        /\ failCount = Cardinality({i \in Items : outcome[i] = "failed"})

\* portscan.Merge deletes what it does not get, so scanTargets may return
\* nothing without an error only after reaching some host, and an error
\* only when it has nothing.
EmptySuccessIsEarned ==
    kind = "scan" =>
        /\ verdict = "ok" =>
              /\ \A i \in Items : outcome[i] # "none"
              /\ \E i \in Items : outcome[i] # "failed"
        /\ verdict = "error" => \A i \in Items : outcome[i] = "failed"

\* Which items are still to come, at work, sent on, or counted as failed.
Accounted ==
    /\ \A i \in Items : i >= next => outcome[i] = "none"
    /\ \A i \in Items : (i < next /\ outcome[i] = "none") =>
          \E w \in Workers : at[w] = "working" /\ item[w] = i
    /\ \A i \in Items :
          outcome[i] \in Sent <=>
              \/ i \in out \cup groups
              \/ \E w \in Workers : at[w] = "sending" /\ item[w] = i
    /\ failCount = Cardinality({i \in Items : outcome[i] = "failed"})

\* The order in which the pool comes to its end.
WindsDown ==
    /\ \A w \in Workers : at[w] = "finished" => inClosed
    /\ expired => kind = "resolve"
    /\ inClosed /\ ~ expired => next = N + 1
    /\ outClosed => \A w \in Workers : at[w] = "finished"
    /\ verdict # "none" =>
          /\ outClosed
          /\ out = {}
          /\ collector = "returned"
          /\ verdict = "error" <=> AllFailed(failCount, groups)

\* The inductive invariant behind the theorems of PoolProofs: where every
\* item of scanTargets and resolveAll is, and what is over when.
PoolInv == TypeOK /\ EachItemOnce /\ Accounted /\ WindsDown

\* The call returns, and every goroutine it started ends.
PoolReturns ==
    <>(verdict # "none" /\ inClosed /\ \A w \in Workers : at[w] = "finished")

\* As its caller sees it: hosts turn up one at a time, then a result, or an
\* error if there were none.  ScanServer's Report, RunSucceeds and RunFails
\* rest on this.
Promise == INSTANCE PoolPromise WITH found <- groups
ImplementsPoolPromise == Promise!PromiseSpec

=============================================================================
