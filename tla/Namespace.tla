----------------------------- MODULE Namespace -----------------------------
(***************************************************************************)
(* Who may write which names: the check that rejects a policy in which two *)
(* repositories' grants overlap (src/policy/config.js), the configured     *)
(* zone a name belongs to (src/dns/normalize.js) and the authorization of  *)
(* a record (src/policy/authorize.js).                                     *)
(*                                                                         *)
(* The other modules give every key one owner (OwnerOf).  These definitions *)
(* are what entitles them to it.  A name is the sequence of its labels, as *)
(* normalizeDnsName and normalizeSrvOwner leave it; strings, pattern       *)
(* checks, YAML and the claims of the token are left out.                  *)
(***************************************************************************)
EXTENDS SequencesExt

\* A host name, and the owner name of an SRV record: two service labels, which
\* are no host labels, before a host name.
HostName(Host) == Seq(Host) \ {<<>>}
OwnerName(Host, Service, type) ==
    IF type = "SRV"
    THEN {name \in Seq(Host \cup Service) :
            /\ Len(name) > 2 /\ name[1] \in Service /\ name[2] \in Service
            /\ SubSeq(name, 3, Len(name)) \in HostName(Host)}
    ELSE HostName(Host)

RecordType == {"A", "AAAA", "CNAME", "SRV", "TXT"}

\* A grant of a repository; the root itself, or what is below it.
Grant(Host, Repo) ==
    [owner: Repo, zone: HostName(Host), kind: {"exact", "descendants"},
     root: HostName(Host), types: SUBSET RecordType]

\* A policy: its zones, which of them are enabled, its enabled repositories.
Policy(Host, Repo) ==
    [zones: SUBSET HostName(Host), enabled: SUBSET HostName(Host),
     active: SUBSET Repo, grants: SUBSET Grant(Host, Repo)]

-----------------------------------------------------------------------------
Below(name, root) == IsStrictSuffix(root, name)

\* validatePolicy: do two grants of one zone overlap?
Overlap(a, b) ==
    \/ a.root = b.root
    \/ b.kind = "descendants" /\ Below(a.root, b.root)
    \/ a.kind = "descendants" /\ Below(b.root, a.root)

\* selectConfiguredZone: the longest configured zone the name is in.
ZonesOf(name, zones) == {z \in zones : IsSuffix(z, name)}
ZoneAt(name, zones, z) ==
    /\ z \in ZonesOf(name, zones)
    /\ \A y \in ZonesOf(name, zones) : Len(y) <= Len(z)

\* Every grant is in the zone its root is selected into, and grants of different
\* repositories never overlap.
ValidPolicy(policy) ==
    /\ \A g \in policy.grants : ZoneAt(g.root, policy.zones, g.zone)
    /\ \A a, b \in policy.grants :
          a.owner # b.owner /\ a.zone = b.zone => ~Overlap(a, b)

\* The part of a name that selects its zone.
HostPart(name, type) == IF type = "SRV" THEN SubSeq(name, 3, Len(name)) ELSE name

\* The grants of a repository that cover a name.
Covering(policy, repo, zone, name) ==
    {g \in policy.grants :
        /\ g.owner = repo /\ g.zone = zone
        /\ IF g.kind = "exact" THEN name = g.root ELSE Below(name, g.root)}

\* authorizeRecords, for one record.
Authorized(policy, repo, name, type) ==
    /\ repo \in policy.active
    /\ \E zone \in policy.enabled \cap policy.zones :
          /\ ZoneAt(HostPart(name, type), policy.zones, zone)
          /\ \E g \in Covering(policy, repo, zone, name) : type \in g.types
=============================================================================
