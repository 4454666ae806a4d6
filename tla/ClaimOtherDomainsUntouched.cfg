SPECIFICATION Spec
CONSTANTS
    JobIds = {j1, j2}
    Tenants = {t1, t2}
    ObjectIds = {t1}
    Domains = {acme, zeta}
    Hosts = {ahost, www, zhost}
    Requests = {r1, r2}
    acme = acme
    zeta = zeta
    nowhere = nowhere
    ahost = ahost
    www = www
    zhost = zhost
    t1 = t1
    t2 = t2
    j1 = j1
    j2 = j2
    NoJob = NoJob
    NoResult = NoResult
    NoRow = NoRow
    NoPost = NoPost
    Platform = Platform
    InDomain <- MCInDomain
    Apex <- MCApex
    Discoverable <- MCDiscoverable
    Mode = "mongo"
    Posts <- TwoDomains
    PlatformHosts = {}
SYMMETRY RequestSymmetry
PROPERTY OtherDomainsUntouched
