----------------------------- MODULE ScanClaims -----------------------------
(***************************************************************************)
(* Sentences of the repository's docs that the service does not live up    *)
(* to; each run that checks one ends in a counterexample.                  *)
(***************************************************************************)
EXTENDS ScanProperties

\* docs/API.md:208: entries of a root domain other than the one just
\* scanned are always left untouched.
OtherDomainsUntouched ==
    [][\A r \in Requests :
          r \in stored' \ stored =>
              LET others == {e \in CurrentArray(r) :
                                e.host \notin InDomain[post[r].domain]}
              IN  others \subseteq ctem'[post[r].tenant][FieldOfRun(r)]]_vars

\* docs/API.md:211, and the comment on portscan.Merge: every target in scope
\* is actively re-scanned each run.  So a group of the scanned domain that
\* the merge of a port scan deletes is that of a host the scan looked at,
\* even when the array is still as loadCTEM found it.
DroppedPortsWereRescanned ==
    [][\A r \in Requests :
          (/\ r \in stored' \ stored
           /\ post[r].module = "ports"
           /\ loaded[r] = CurrentArray(r)) =>
              \A e \in CurrentArray(r) :
                  \/ e.host \in targets[r]
                  \/ e.host \notin InDomain[post[r].domain]
                  \/ \E f \in ctem'[post[r].tenant][FieldOfRun(r)] :
                        f.host = e.host]_vars

=============================================================================
