------------------------------- MODULE Assets -------------------------------
(***************************************************************************)
(* The CTEMData document of one tenant as it is stored: an array of        *)
(* subdomain rows and an array of port groups, rewritten by scans and      *)
(* edited by the platform.  The subject is the data: how rows are told     *)
(* apart (hostKey), which root domain they count to (normHost,             *)
(* belongsToDomain), which of them nmap is run on (BuildTargets) and what  *)
(* either Merge makes of them.  A scan is one step here; ScanServer has    *)
(* the steps of a Save and what happens between them.                      *)
(*                                                                         *)
(* Abstractions.  A name is the sequence of its labels and the form it is  *)
(* spelled in.  Of a row's fields, ip stands for what a scan refreshes     *)
(* (status follows from it) and mark for what the platform owns: _id,      *)
(* criticality, owner, source and every key the code does not know.  A     *)
(* group is its host.                                                      *)
(***************************************************************************)
EXTENDS Naturals, FiniteSets, SequencesExt

CONSTANTS
    Names,          \* names the platform stores
    Reported,       \* names subfinder or amass can report
    Domains,        \* domains a client can ask to scan
    Addresses,      \* what a lookup can answer
    Marks,          \* data of the platform, different for every row
    NoMark,         \* a row with nothing of the platform's on it
    InvalidLabels,  \* labels isValidLabel rejects
    NmapRuns,       \* ways an nmap process can end
    MaxRows,        \* bound on the rows of the array
    MaxFresh        \* bound on the findings of one scan

VARIABLES
    subs,    \* CTEMData.subdomains
    groups   \* CTEMData.openPorts

vars == <<subs, groups>>

\* upper and dot ("Acme.Test", "acme.test.") are spellings of the same name;
\* space has white space around it.
Forms == {"plain", "upper", "dot", "space"}

Spelling == [labels : Seq(STRING), form : Forms]

Nameless == [labels |-> <<>>, form |-> "plain"]

\* How nmap ended and what it wrote before that.
NmapRun == [ended : {"ok", "failed", "timeout"},
            xml : {"none", "broken", "nohost", "closed", "open"}]

Ips == Addresses \cup {""}
Row == [sub : Spelling, ip : Ips, mark : Marks \cup {NoMark}]
Finding == [sub : Reported, ip : Ips]
Findings == SeqOf(Finding, MaxFresh)

ASSUME NamesAssumption == Names \cup Reported \cup Domains \subseteq Spelling
ASSUME MarksAssumption == NoMark \notin Marks
ASSUME RunsAssumption == NmapRuns \subseteq NmapRun
ASSUME BoundsAssumption == MaxRows \in Nat \ {0} /\ MaxFresh \in Nat

-----------------------------------------------------------------------------
(* Names.                                                                  *)

\* Broken variant of hostKey, for identity: "www." stripped as well.
hostKeyAsNorm(name) ==
    IF Len(name.labels) > 1 /\ Head(name.labels) = "www"
    THEN Tail(name.labels) ELSE name.labels

\* The identity of a row: its labels, whatever the form.
hostKey(name) == name.labels

\* What attributes a host to a root domain, where "www." does not count.
normHost(labels) ==
    IF Len(labels) > 1 /\ Head(labels) = "www" THEN Tail(labels) ELSE labels

belongsToDomain(name, domain) ==
    LET root == normHost(domain.labels)
    IN  root # <<>> /\ IsSuffix(root, normHost(name.labels))

IsValidHostname(name) ==
    /\ name.labels # <<>>
    /\ name.form # "space"
    /\ \A i \in DOMAIN name.labels : name.labels[i] \notin InvalidLabels

-----------------------------------------------------------------------------
(* Arrays.                                                                 *)

\* How far up in a set of indices one is, and the k-th smallest of them.
Rank(I, i) == Cardinality({j \in I : j <= i})
Nth(I, k) == CHOOSE i \in I : Rank(I, i) = k

\* The elements at the indices in I, in order.
At(seq, I) == [k \in 1 .. Cardinality(I) |-> seq[Nth(I, k)]]

\* The indices in I whose row is the first one in I with its key.
FirstOf(rows, I) ==
    {i \in I : \A j \in I :
        j < i => hostKey(rows[j].sub) # hostKey(rows[i].sub)}

Named(rows) == {i \in DOMAIN rows : rows[i].sub # Nameless}
Inside(rows, domain) ==
    {i \in Named(rows) : belongsToDomain(rows[i].sub, domain)}

-----------------------------------------------------------------------------
(* subdomain.Merge.                                                        *)

\* Broken variant of Kept: a row without a name, or a second one, is dropped.
KeptNamed(existing, domain) ==
    At(existing, Named(existing) \ Inside(existing, domain))

\* Broken variant of Kept: the array is rewritten with the domain's own rows.
KeptInside(existing, domain) ==
    At(existing, Inside(existing, domain)
                     \ FirstOf(existing, Inside(existing, domain)))

\* Rows kept as they are: no name, another domain, a second row of a key.
Kept(existing, domain) ==
    At(existing, DOMAIN existing \ FirstOf(existing, Inside(existing, domain)))

\* Broken variant of Told: the platform's data is looked up nowhere.
ToldAnew(existing, fresh, domain) ==
    LET news == At(fresh, FirstOf(fresh, Named(fresh)))
    IN  [k \in DOMAIN news |->
            [sub |-> [labels |-> hostKey(news[k].sub), form |-> "plain"],
             ip |-> news[k].ip, mark |-> NoMark]]

\* What the platform put on the stored row of that key.
MarkFor(existing, domain, key) ==
    LET same == {i \in FirstOf(existing, Inside(existing, domain)) :
                    hostKey(existing[i].sub) = key}
    IN  IF same = {} THEN NoMark
        ELSE existing[CHOOSE i \in same : TRUE].mark

\* What becomes of a name found.
Entry(existing, finding, domain) ==
    LET key == hostKey(finding.sub)
    IN  [sub |-> [labels |-> key, form |-> "plain"],
         ip |-> finding.ip,
         mark |-> MarkFor(existing, domain, key)]

\* One row per name found.
Told(existing, fresh, domain) ==
    LET news == At(fresh, FirstOf(fresh, Named(fresh)))
    IN  [k \in DOMAIN news |-> Entry(existing, news[k], domain)]

\* Broken variant of Retained: what was found again is not taken out of prev.
RetainedAll(existing, fresh, domain) ==
    {existing[i] : i \in FirstOf(existing, Inside(existing, domain))}

\* Stored rows of the domain that were not found; distinct, so a set.
Retained(existing, fresh, domain) ==
    {existing[i] : i \in {j \in FirstOf(existing, Inside(existing, domain)) :
        hostKey(existing[j].sub) \notin
            {hostKey(fresh[k].sub) : k \in Named(fresh)}}}

\* Every array Merge can return: what is retained comes in map order.
Merge(existing, fresh, domain) ==
    {Kept(existing, domain) \o Told(existing, fresh, domain) \o rest :
        rest \in SetToSeqs(Retained(existing, fresh, domain))}

-----------------------------------------------------------------------------
(* portscan: targets, one nmap per target, Merge.                          *)

\* Broken variant of BuildTargets: keys as normHost has them.
BuildTargetsByNorm(domain, rows) ==
    LET others == At(rows, FirstOf(rows, {i \in Inside(rows, domain) :
            /\ IsValidHostname(rows[i].sub)
            /\ normHost(rows[i].sub.labels) # normHost(domain.labels)}))
    IN  IF IsValidHostname(domain)
        THEN <<domain>> \o [k \in DOMAIN others |-> others[k].sub]
        ELSE <<>>

\* The domain, then the first row of each key that names a host of it.
BuildTargets(domain, rows) ==
    LET scanned == {i \in Inside(rows, domain) :
            /\ IsValidHostname(rows[i].sub)
            /\ hostKey(rows[i].sub) # hostKey(domain)}
        others == At(rows, FirstOf(rows, scanned))
    IN  IF IsValidHostname(domain)
        THEN <<domain>> \o [k \in DOMAIN others |-> others[k].sub]
        ELSE <<>>

\* parseNmapXML: only an open port is a finding; no host is not an error.
ParseNmapXML(xml) ==
    CASE xml = "broken" -> "failed"
      [] xml = "open" -> "open"
      [] OTHER -> "nothing"

\* runNmap: a timeout is a failure; a failed nmap is one unless it left a
\* report that can be read.
RunNmap(run) ==
    IF run.ended = "timeout" \/ run.xml = "none"
    THEN "failed"
    ELSE ParseNmapXML(run.xml)

\* scanTargets, runs[k] being what nmap makes of target k; that groups come
\* in the order of the targets is an abstraction, workers finish in any.
ScanFails(runs) == \A k \in DOMAIN runs : RunNmap(runs[k]) = "failed"
OpenHosts(targets, runs) ==
    At(targets, {k \in DOMAIN targets : RunNmap(runs[k]) = "open"})

\* Broken variant of MergeGroups: "www." counts for what is deleted, as it
\* does for what is scanned.
MergeGroupsByKey(existing, fresh, domain) ==
    At(existing, {i \in DOMAIN existing :
        \/ existing[i] = Nameless
        \/ ~ IsSuffix(hostKey(domain), hostKey(existing[i]))}) \o fresh

\* The groups of one domain, after the ones kept.
MergeGroups(existing, fresh, domain) ==
    At(existing, {i \in DOMAIN existing :
        \/ existing[i] = Nameless
        \/ ~ belongsToDomain(existing[i], domain)}) \o fresh

-----------------------------------------------------------------------------
\* No document yet, or one holding a row and a group without a name.
Init ==
    \/ subs = <<>> /\ groups = <<>>
    \/ /\ subs = <<[sub |-> Nameless, ip |-> "", mark |-> NoMark]>>
       /\ groups = <<Nameless>>

\* The domains handleScan accepts.
Valid == {domain \in Domains : IsValidHostname(domain)}

\* A subdomain scan of domain, saved.
ScanNames(domain, fresh) ==
    /\ subs' \in {rows \in Merge(subs, fresh, domain) : Len(rows) <= MaxRows}
    /\ UNCHANGED groups

\* A port scan of domain, saved; a scan that failed is not merged.
ScanPorts(domain, runs) ==
    LET targets == BuildTargets(domain, subs)
    IN  /\ ~ ScanFails(runs)
        /\ groups' = MergeGroups(groups, OpenHosts(targets, runs), domain)
        /\ UNCHANGED subs

\* The platform adds a row of its own, whatever is there already.
PlatformAdds(name, mark) ==
    /\ Len(subs) < MaxRows
    /\ \A i \in DOMAIN subs : subs[i].mark # mark
    /\ subs' = Append(subs, [sub |-> name, ip |-> "", mark |-> mark])
    /\ UNCHANGED groups

\* An analyst edits a row a scan made.
PlatformEdits(i, mark) ==
    /\ subs[i].mark = NoMark
    /\ \A j \in DOMAIN subs : subs[j].mark # mark
    /\ subs' = [subs EXCEPT ![i].mark = mark]
    /\ UNCHANGED groups

ScanStep ==
    \E domain \in Valid :
        \/ \E fresh \in Findings : ScanNames(domain, fresh)
        \/ \E runs \in [DOMAIN BuildTargets(domain, subs) -> NmapRuns] :
               ScanPorts(domain, runs)

PlatformStep ==
    \E mark \in Marks :
        \/ \E name \in Names : PlatformAdds(name, mark)
        \/ \E i \in DOMAIN subs : PlatformEdits(i, mark)

Next == ScanStep \/ PlatformStep

Spec == Init /\ [][Next]_vars

-----------------------------------------------------------------------------
(* Properties.  They tell hosts apart by their labels, not by hostKey.     *)

TypeOK ==
    /\ subs \in Seq(Row)
    /\ Len(subs) <= MaxRows
    /\ groups \in Seq(Spelling)

\* No mark is on two rows.
MarksAreUnique ==
    \A i, j \in DOMAIN subs :
        subs[i].mark = subs[j].mark /\ subs[i].mark # NoMark => i = j

\* Every host of either array is one somebody stored, reported or asked for.
KnownLabels == {n.labels : n \in Names \cup Reported \cup Domains}
HostsAreKnown ==
    /\ \A i \in Named(subs) : subs[i].sub.labels \in KnownLabels
    /\ \A i \in DOMAIN groups :
          groups[i] # Nameless => groups[i].labels \in KnownLabels

\* What the platform put on a row is on that row alone, and a scan invents no
\* host: neither merge writes a row twice or under another name.
AssetsInv == TypeOK /\ MarksAreUnique /\ HostsAreKnown

Spelled(rows, key) == {i \in Named(rows) : rows[i].sub.labels = key}
Hosts(rows) == {rows[i].sub.labels : i \in Named(rows)}
Outside(rows, domain) == At(rows, DOMAIN rows \ Inside(rows, domain))

\* No step, and so no sequence of scans and edits, loses a row: not one
\* without a name, not a duplicate, and never what the platform put on one,
\* which stays on one row and on the same host.
NoRowIsLost ==
    [][/\ Cardinality(DOMAIN subs \ Named(subs))
              <= Cardinality(DOMAIN subs' \ Named(subs'))
       /\ \A key \in Hosts(subs) :
              Cardinality(Spelled(subs, key)) <= Cardinality(Spelled(subs', key))
       /\ \A i \in DOMAIN subs : subs[i].mark # NoMark =>
              \E j \in DOMAIN subs' :
                  /\ subs'[j].sub.labels = subs[i].sub.labels
                  /\ {k \in DOMAIN subs' : subs'[k].mark = subs[i].mark} = {j}]_vars

\* Merge leaves the rows of other root domains as they are and in their
\* order, in front of any it adds there.
OtherDomainsStay ==
    \A domain \in Valid, fresh \in Findings :
        \A rows \in Merge(subs, fresh, domain) :
            IsPrefix(Outside(subs, domain), Outside(rows, domain))

\* Merge is an upsert by host: one found in the domain has a row with the
\* fresh address and no more rows than before, one not found keeps its rows
\* as they were.
MergeUpserts ==
    \A domain \in Valid, fresh \in Findings :
        \A rows \in Merge(subs, fresh, domain) :
            /\ \A k \in DOMAIN fresh :
                 LET key == fresh[k].sub.labels
                     before == Cardinality(Spelled(subs, key))
                 IN  belongsToDomain(fresh[k].sub, domain) =>
                       /\ Cardinality(Spelled(rows, key)) =
                              IF before = 0 THEN 1 ELSE before
                       /\ (\A j \in 1 .. k - 1 : fresh[j].sub.labels # key) =>
                              \E i \in Spelled(rows, key) : rows[i].ip = fresh[k].ip
            /\ \A key \in Hosts(subs) \ Hosts(fresh) :
                 {rows[i] : i \in Spelled(rows, key)} =
                     {subs[i] : i \in Spelled(subs, key)}

\* The same findings saved a second time, as when a client repeats a scan
\* under a new id, change nothing, if no host has two rows and every finding
\* belongs to the scanned domain (FoundAgainIsRefreshed is about the others).
Once(rows) == \A key \in Hosts(rows) : Cardinality(Spelled(rows, key)) = 1
RescanSettles ==
    \A domain \in Valid, fresh \in Findings :
        (/\ Once(subs)
         /\ \A k \in DOMAIN fresh : belongsToDomain(fresh[k].sub, domain)) =>
            \A rows \in Merge(subs, fresh, domain) :
                \A again \in Merge(rows, fresh, domain) :
                    /\ Len(again) = Len(rows)
                    /\ ToSet(again) = ToSet(rows)

\* nmap is run on the domain first and then once on every stored host of it
\* that a scanner can be given, and on nothing else.
TargetsCover ==
    \A domain \in Domains :
        LET targets == BuildTargets(domain, subs)
            scanned == {targets[k].labels : k \in DOMAIN targets}
        IN  IF IsValidHostname(domain)
            THEN /\ Head(targets) = domain
                 /\ Cardinality(scanned) = Len(targets)
                 /\ scanned = {domain.labels} \cup
                        {subs[i].sub.labels : i \in {j \in Inside(subs, domain) :
                            IsValidHostname(subs[j].sub)}}
            ELSE targets = <<>>

\* No host ever has two port groups, however scans of a domain, of its www.
\* name and of a name below it follow each other: a port scan deletes every
\* group of a host it may scan again, though portscan.Merge tells domains
\* apart without "www." and BuildTargets tells hosts apart with it.
OneGroupPerHost ==
    \A i, j \in DOMAIN groups :
        (groups[i] # Nameless /\ groups[i].labels = groups[j].labels) => i = j

\* On an array where no host has two rows both merges are those of SetMerge,
\* which is what the model of the sink uses: by stands for the address here,
\* and so the findings have one address.
AsSets == INSTANCE SetMerge WITH
    InDomain <- [domain \in Domains |->
        {n.labels : n \in {m \in Names \cup Reported \cup Domains :
                           belongsToDomain(m, domain)}}]

Entries(rows) ==
    {[host |-> rows[i].sub.labels, by |-> rows[i].ip,
      admin |-> rows[i].mark # NoMark] : i \in DOMAIN rows}

Groups(hosts, by) ==
    {[host |-> hosts[k].labels, by |-> by, admin |-> FALSE] : k \in DOMAIN hosts}

RefinesSetMerge ==
    \A domain \in Valid :
        /\ \A fresh \in Findings, address \in Addresses :
             (/\ Once(subs)
              /\ \A k \in DOMAIN fresh : fresh[k].ip = address) =>
               \A rows \in Merge(subs, fresh, domain) :
                 Entries(rows) = AsSets!MergeSubdomains(
                     Entries(subs), Hosts(fresh), domain, address)
        /\ LET found == BuildTargets(domain, subs)
               merged == MergeGroups(groups, found, domain)
               kept == Len(merged) - Len(found)
           IN  Groups(SubSeq(merged, 1, kept), "before") \cup Groups(found, "now") =
                   AsSets!MergePorts(Groups(groups, "before"),
                       {found[k].labels : k \in DOMAIN found}, domain, "now")

-----------------------------------------------------------------------------
\* docs/API.md:204: "A rescan refreshes what it finds again, creates what's
\* new": a host that has a row does not get another one.
FoundAgainIsRefreshed ==
    \A domain \in Valid, fresh \in Findings :
        \A rows \in Merge(subs, fresh, domain) :
            \A key \in Hosts(subs) \cap Hosts(fresh) :
                Cardinality(Spelled(rows, key)) = Cardinality(Spelled(subs, key))

=============================================================================
