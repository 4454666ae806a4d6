---------------------------- MODULE MCLifecycle ----------------------------
(***************************************************************************)
(* An instance of Lifecycle: three files that can start a process and four *)
(* that do not, two posts of one job id and four requests that start nothing.   *)
(***************************************************************************)
EXTENDS Lifecycle

MCFiles ==
    {[api_key |-> "k"],
     [api_key |-> "k", mode |-> "api_response", ports |-> FALSE],
     [api_key |-> "k", uri |-> "bare"],
     [mode |-> "api_response"],
     [api_key |-> "k", uri |-> ""],
     [api_key |-> "k", mode |-> "other"],
     [api_key |-> "k", subdomains |-> FALSE, ports |-> FALSE]}

Says(route, key, module, valid) ==
    [route |-> route, key |-> key, module |-> module, valid |-> valid, job |-> "j"]

MCRequests == {"names", "ports", "status", "stranger", "mistake"}

MCSent == [r \in MCRequests |->
    CASE r = "names" -> Says("scan", "k", "subdomains", TRUE)
      [] r = "ports" -> Says("scan", "k", "ports", TRUE)
      [] r = "status" -> Says("job", "", "", TRUE)
      [] r = "stranger" -> Says("health", "", "", TRUE)
      [] r = "mistake" -> Says("scan", "k", "subdomains", FALSE)]

=============================================================================
