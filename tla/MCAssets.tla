------------------------------ MODULE MCAssets ------------------------------
(***************************************************************************)
(* Instances of Assets: a domain and its "www." name, which the platform   *)
(* spells in capitals, a name no scanner is given, and another domain.     *)
(***************************************************************************)
EXTENDS Assets

Plain(labels) == [labels |-> labels, form |-> "plain"]

Root == Plain(<<"a">>)
Www == Plain(<<"www", "a">>)
WWW == [labels |-> <<"www", "a">>, form |-> "upper"]
Service == Plain(<<"_srv", "a">>)
Foreign == Plain(<<"b">>)

MCNames == {WWW, Service}
MCReported == {Root, Www, Foreign}
MCDomains == {Root, Www, Service}
MCInvalidLabels == {"_srv"}
MCNmapRuns ==
    {[ended |-> "ok", xml |-> "open"], [ended |-> "ok", xml |-> "nohost"],
     [ended |-> "failed", xml |-> "open"], [ended |-> "failed", xml |-> "none"],
     [ended |-> "timeout", xml |-> "open"]}

RowSymmetry == Permutations(Marks)

=============================================================================
