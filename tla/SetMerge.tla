------------------------------ MODULE SetMerge ------------------------------
(***************************************************************************)
(* subdomain.Merge and portscan.Merge on an array seen as a set: an entry  *)
(* is its host, the run whose finding it carries, and whether the platform *)
(* put data of its own on it.  Assets has the same two functions on arrays *)
(* of rows, with duplicates and rows without a name, and shows that this   *)
(* is what they come to when there are none.  fresh is the set of hosts a  *)
(* run found.                                                              *)
(***************************************************************************)

CONSTANT InDomain    \* InDomain[d]: hosts belongsToDomain(_, d) accepts

\* Broken variant of MergeSubdomains: the replace that ports get.
MergeSubdomainsReplaces(existing, fresh, domain, run) ==
    {e \in existing : e.host \notin InDomain[domain]}
    \cup {[host |-> h, by |-> run, admin |-> FALSE] : h \in fresh}

\* An upsert: what another root domain owns and what the run did not return
\* pass through, what it found again keeps the platform's data.
MergeSubdomains(existing, fresh, domain, run) ==
    LET prev == {e \in existing : e.host \in InDomain[domain]}
        Keeps(h) == \E e \in prev : e.host = h /\ e.admin
    IN  {e \in existing : e \notin prev \/ e.host \notin fresh}
        \cup {[host |-> h, by |-> run, admin |-> Keeps(h)] : h \in fresh}

\* A replace within the domain: nothing of it survives but the fresh groups.
MergePorts(existing, fresh, domain, run) ==
    {e \in existing : e.host \notin InDomain[domain]}
    \cup {[host |-> h, by |-> run, admin |-> FALSE] : h \in fresh}

=============================================================================
