---------------------------- MODULE MCScanServer ----------------------------
(***************************************************************************)
(* Small instances of ScanServer for TLC.                                  *)
(*                                                                         *)
(* Two root domains: acme has its apex and one name below it, zeta its     *)
(* apex only.  Two posts can share an id or a tenant's document; the       *)
(* sixth and seventh are refused.                                          *)
(***************************************************************************)
EXTENDS ScanClaims, TLC

CONSTANTS acme, zeta, www, zhost, ahost, t1, t2, j1, j2, nowhere

MCInDomain == (acme :> {ahost, www}) @@ (zeta :> {zhost})
MCApex == (acme :> ahost) @@ (zeta :> zhost)
MCDiscoverable == (acme :> {www}) @@ (zeta :> {zhost})

Body(id, module, tenant, domain) ==
    [id |-> id, module |-> module, tenant |-> tenant, domain |-> domain]

NamesOfAcme == Body(j1, "subdomains", t1, acme)
NamesOfZeta == Body(j2, "subdomains", t1, zeta)
PortsOfAcme == Body(j1, "ports", t1, acme)
PortsOfZeta == Body(j2, "ports", t1, zeta)
OtherPortsOfAcme == Body(j2, "ports", t1, acme)
NotAnObjectId == Body(j1, "subdomains", t2, acme)
NoSuchModule == Body(j1, "dns", t1, acme)
NoHostname == Body(j1, "ports", t1, nowhere)

Refused == {NoSuchModule, NoHostname}

\* Every kind of body, with both ids and both tenants, and both arrays of
\* one tenant's document under two root domains.
MixedPosts ==
    {NamesOfAcme, PortsOfAcme, PortsOfZeta, NamesOfZeta, NotAnObjectId}
    \cup Refused

\* A port scan, and a tenant Save refuses, under one id.
LivePosts == {PortsOfAcme, NamesOfAcme, NotAnObjectId}

TwoDomains == {NamesOfAcme, NamesOfZeta}

\* Two port scans of one domain.
TwoPortScans == {PortsOfAcme, OtherPortsOfAcme}

\* No body names a request.
RequestSymmetry == Permutations(Requests)

=============================================================================
