---------------------------- MODULE PoolPromise -----------------------------
(***************************************************************************)
(* What a module's run looks like from runJob: findings turn up one at a   *)
(* time, each reported as progress, until the module returns a result, or  *)
(* an error if it has nothing.                                             *)
(***************************************************************************)
EXTENDS Naturals

CONSTANT N

VARIABLES found, verdict

PromiseInit == found = {} /\ verdict = "none"

FindOne ==
    /\ verdict = "none"
    /\ \E i \in (1..N) \ found : found' = found \cup {i}
    /\ UNCHANGED verdict

Succeed == verdict = "none" /\ verdict' = "ok" /\ UNCHANGED found

GiveUp ==
    /\ verdict = "none"
    /\ found = {}
    /\ verdict' = "error"
    /\ UNCHANGED found

PromiseNext == FindOne \/ Succeed \/ GiveUp

PromiseSpec == PromiseInit /\ [][PromiseNext]_<<found, verdict>>

=============================================================================
