-------------------------- MODULE Namespace_proofs --------------------------
(***************************************************************************)
(* A name has one owner, in every policy that validatePolicy accepts.      *)
(***************************************************************************)
EXTENDS Namespace, TLAPS

\* Suffixes, element by element.
LEMMA SuffixIs ==
    ASSUME NEW S, NEW s \in Seq(S), NEW t \in Seq(S)
    PROVE  IsSuffix(s, t) <=>
             /\ Len(s) <= Len(t)
             /\ \A i \in 1..Len(s) : s[Len(s) - i + 1] = t[Len(t) - i + 1]
<1>1. /\ Reverse(s) \in Seq(S) /\ Len(Reverse(s)) = Len(s)
      /\ \A i \in 1..Len(s) : Reverse(s)[i] = s[Len(s) - i + 1]
  BY DEF Reverse
<1>2. /\ Reverse(t) \in Seq(S) /\ Len(Reverse(t)) = Len(t)
      /\ \A i \in 1..Len(t) : Reverse(t)[i] = t[Len(t) - i + 1]
  BY DEF Reverse
<1>3. CASE Len(s) <= Len(t)
  <2> DEFINE u == SubSeq(Reverse(s), 1, Len(s))
             v == SubSeq(Reverse(t), 1, Len(s))
  <2>1. /\ u \in Seq(S) /\ Len(u) = Len(s)
        /\ \A i \in 1..Len(s) : u[i] = s[Len(s) - i + 1]
    BY <1>1
  <2>2. /\ v \in Seq(S) /\ Len(v) = Len(s)
        /\ \A i \in 1..Len(s) : v[i] = t[Len(t) - i + 1]
    BY <1>2, <1>3
  <2>3. u = v <=> \A i \in 1..Len(s) : u[i] = v[i]
    BY <2>1, <2>2
  <2>4. u = v <=> \A i \in 1..Len(s) : s[Len(s) - i + 1] = t[Len(t) - i + 1]
    BY <2>1, <2>2, <2>3
  <2>5. IsSuffix(s, t) <=> u = v
    BY <1>1, <1>2, <1>3 DEF IsSuffix, IsPrefix
  <2> HIDE DEF u, v
  <2>6. QED
    BY <1>3, <2>4, <2>5
<1>4. CASE ~(Len(s) <= Len(t))
  BY <1>1, <1>2, <1>4 DEF IsSuffix, IsPrefix
<1>5. QED
  BY <1>3, <1>4

\* Of two suffixes of a name the shorter is a suffix of the longer.
LEMMA SuffixesNest ==
    ASSUME NEW S, NEW s \in Seq(S), NEW t \in Seq(S), NEW name \in Seq(S),
           IsSuffix(s, name), IsSuffix(t, name), Len(s) <= Len(t)
    PROVE  IsSuffix(s, t)
<1>1. \A i \in 1..Len(s) : s[Len(s) - i + 1] = name[Len(name) - i + 1]
  BY SuffixIs
<1>2. \A i \in 1..Len(t) : t[Len(t) - i + 1] = name[Len(name) - i + 1]
  BY SuffixIs
<1>3. \A i \in 1..Len(s) : s[Len(s) - i + 1] = t[Len(t) - i + 1]
  BY <1>1, <1>2
<1>4. QED
  BY <1>3, SuffixIs

LEMMA SuffixSelf == ASSUME NEW S, NEW s \in Seq(S) PROVE IsSuffix(s, s)
BY SuffixIs

\* Suffixes of one length are equal.
LEMMA SuffixesAgree ==
    ASSUME NEW S, NEW s \in Seq(S), NEW t \in Seq(S), NEW name \in Seq(S),
           IsSuffix(s, name), IsSuffix(t, name), Len(s) = Len(t)
    PROVE  s = t
<1>1. \A i \in 1..Len(s) : s[Len(s) - i + 1] = name[Len(name) - i + 1]
  BY SuffixIs
<1>2. \A i \in 1..Len(t) : t[Len(t) - i + 1] = name[Len(name) - i + 1]
  BY SuffixIs
<1>3. ASSUME NEW j \in 1..Len(s) PROVE s[j] = t[j]
  <2>1. Len(s) - j + 1 \in 1..Len(s) /\ Len(s) - (Len(s) - j + 1) + 1 = j
    BY <1>3
  <2>2. QED
    BY <1>1, <1>2, <2>1
<1>4. QED
  BY <1>3

\* Grants of different repositories that cover one name overlap.
LEMMA CoveringOverlap ==
    ASSUME NEW S, NEW name \in Seq(S), NEW a, NEW b,
           a.root \in Seq(S), b.root \in Seq(S),
           IF a.kind = "exact" THEN name = a.root ELSE Below(name, a.root),
           IF b.kind = "exact" THEN name = b.root ELSE Below(name, b.root),
           a.kind \in {"exact", "descendants"}, b.kind \in {"exact", "descendants"}
    PROVE  Overlap(a, b)
<1>1. CASE a.kind = "exact" \/ b.kind = "exact"
  BY <1>1 DEF Overlap, Below
<1>2. CASE a.kind = "descendants" /\ b.kind = "descendants"
  <2>1. IsSuffix(a.root, name) /\ IsSuffix(b.root, name)
    BY <1>2 DEF Below, IsStrictSuffix
  <2>2. IsSuffix(a.root, b.root) \/ IsSuffix(b.root, a.root)
    BY <2>1, SuffixesNest
  <2>3. QED
    BY <1>2, <2>2 DEF Overlap, Below, IsStrictSuffix
<1>3. QED
  BY <1>1, <1>2

\* A name is selected into one zone.
LEMMA OneZone ==
    ASSUME NEW S, NEW zones \in SUBSET Seq(S), NEW name \in Seq(S),
           NEW y, NEW z, ZoneAt(name, zones, y), ZoneAt(name, zones, z)
    PROVE  y = z
<1>1. /\ y \in Seq(S) /\ z \in Seq(S)
      /\ IsSuffix(y, name) /\ IsSuffix(z, name)
      /\ Len(y) <= Len(z) /\ Len(z) <= Len(y)
  BY DEF ZoneAt, ZonesOf
<1>2. QED
  BY <1>1, SuffixesAgree

\* The name of an SRV record is the name of no other record.
LEMMA ServiceNamesApart ==
    ASSUME NEW Host, NEW Service, Host \cap Service = {},
           NEW name \in OwnerName(Host, Service, "SRV")
    PROVE  /\ name \notin HostName(Host)
           /\ SubSeq(name, 3, Len(name)) \in Seq(Host)
           /\ name \in Seq(Host \cup Service)
BY DEF OwnerName, HostName

\* "A namespace has one owner independent of record type" (config.js:212): under a
\* policy that validatePolicy accepts no two repositories are authorized for the
\* same name, whatever the record types, the zones and the kinds of the grants.
\* This is the assumption OwnerOf of the modules that model the mutation path.
THEOREM OneOwner ==
    ASSUME NEW Host, NEW Service, Host \cap Service = {}, NEW Repo,
           NEW policy \in Policy(Host, Repo), ValidPolicy(policy),
           NEW q, NEW r, NEW c \in RecordType, NEW d \in RecordType, NEW name,
           name \in OwnerName(Host, Service, c), name \in OwnerName(Host, Service, d),
           Authorized(policy, q, name, c), Authorized(policy, r, name, d)
    PROVE  q = r
<1> DEFINE S == Host \cup Service
<1>1. /\ name \in Seq(S)
      /\ HostPart(name, c) \in Seq(Host) /\ HostPart(name, d) = HostPart(name, c)
  <2>1. CASE c = "SRV" /\ d = "SRV"
    BY <2>1, ServiceNamesApart DEF HostPart
  <2>2. CASE c # "SRV" /\ d # "SRV"
    BY <2>2 DEF HostPart, OwnerName, HostName
  <2>3. OwnerName(Host, Service, c) = HostName(Host) \/ c = "SRV"
    BY DEF OwnerName
  <2>4. OwnerName(Host, Service, d) = HostName(Host) \/ d = "SRV"
    BY DEF OwnerName
  <2>5. (c = "SRV") <=> (d = "SRV")
    BY <2>3, <2>4, ServiceNamesApart
  <2>6. QED
    BY <2>1, <2>2, <2>5
<1>2. PICK y \in policy.zones :
         /\ ZoneAt(HostPart(name, c), policy.zones, y)
         /\ \E g \in Covering(policy, q, y, name) : c \in g.types
  BY DEF Authorized
<1>3. PICK z \in policy.zones :
         /\ ZoneAt(HostPart(name, d), policy.zones, z)
         /\ \E g \in Covering(policy, r, z, name) : d \in g.types
  BY DEF Authorized
<1>4. policy.zones \in SUBSET Seq(Host)
  BY DEF Policy, HostName
<1>5. y = z
  BY <1>1, <1>2, <1>3, <1>4, OneZone
<1>6. PICK a \in Covering(policy, q, y, name), b \in Covering(policy, r, y, name) : TRUE
  BY <1>2, <1>3, <1>5
<1>7. a \in Grant(Host, Repo) /\ b \in Grant(Host, Repo)
  BY <1>6 DEF Covering, Policy
<1>8. a.root \in Seq(S) /\ b.root \in Seq(S)
  BY <1>7 DEF Grant, HostName
<1>9. Overlap(a, b)
  BY <1>1, <1>6, <1>7, <1>8, CoveringOverlap DEF Covering, Grant
<1>10. QED
  BY <1>6, <1>9 DEF Covering, ValidPolicy
=============================================================================
