-------------------------- MODULE TrafficPathProofs --------------------------
(***************************************************************************)
(* Theorems about TrafficPath, for any set of valid topologies.            *)
(***************************************************************************)
EXTENDS RoutingProofs

-----------------------------------------------------------------------------
(* What the cross-reference checks say of ids.                             *)

\* Region ids and node ids are unique, as validation requires.
LEMMA DistinctIds ==
    ASSUME NEW t \in TopologyRecords, UniqueIds(t)
    PROVE  /\ \A r, q \in ToSet(t.exits) : r.id = q.id => r = q
           /\ \A r, q \in ToSet(t.exits) : NodeIds(r) \cap NodeIds(q) # {} => r = q
           /\ ExitNodes(t) \cap HubNodes(t) = {}
  <1>1. \A r \in ToSet(t.exits) : \E i \in DOMAIN t.exits : r = t.exits[i]
    BY Shapes, SeqFacts, Elements
  <1>2. \A r, q \in ToSet(t.exits) : r.id = q.id => r = q
    BY <1>1 DEF UniqueIds, Distinct
  <1>3. QED
    BY <1>2 DEF UniqueIds

\* So are the ids of portals.
LEMMA DistinctPortals ==
    ASSUME NEW t \in TopologyRecords, PortalNamesValid(t)
    PROVE  \A p, q \in ToSet(t.portals) : p.id = q.id => p = q
  <1>1. \A p \in ToSet(t.portals) : \E i \in DOMAIN t.portals : p = t.portals[i]
    BY Shapes, SeqFacts, Elements
  <1>2. QED
    BY <1>1 DEF PortalNamesValid, Distinct

\* Ids, element by element.
LEMMA PortalIds ==
    ASSUME NEW t
    PROVE  \A id : id \in Ids(t.portals) <=> \E p \in ToSet(t.portals) : p.id = id
  BY DEF Ids, ToSet

LEMMA RegionIds ==
    ASSUME NEW t
    PROVE  \A id : id \in Ids(t.exits) <=> \E r \in ToSet(t.exits) : r.id = id
  BY DEF Ids, ToSet

LEMMA NodesOfRegion ==
    ASSUME NEW r
    PROVE  \A id : id \in NodeIds(r) <=> \E n \in ToSet(r.nodes) : n.id = id
  BY DEF NodeIds, Ids, ToSet

\* The tag of a published port tells its portal and its port.
LEMMA PublishTags ==
    ASSUME NEW a, NEW b, IsSeq(a), IsSeq(b), NEW k, NEW m
    PROVE  /\ PublishTag(a, k) = PublishTag(b, m) => a = b /\ k = m
           /\ PublishTag(a, k) # UserInbound
  <1> DEFINE one == <<"-publish-">>
             x == a \o one
             y == b \o one
  <1>1. \A id, port : IsSeq(id) => PublishTag(id, port) = (id \o one) \o <<port>>
    <2> SUFFICES ASSUME NEW id, NEW port, IsSeq(id)
                 PROVE  PublishTag(id, port) = (id \o one) \o <<port>>
      OBVIOUS
    <2> DEFINE two == <<"-publish-", port>>
               last == <<port>>
               u == id \o two
               v == id \o one
               w == v \o last
    <2>1. /\ IsSeq(one) /\ Len(one) = 1 /\ one[1] = "-publish-"
          /\ IsSeq(two) /\ Len(two) = 2 /\ two[1] = "-publish-" /\ two[2] = port
          /\ IsSeq(last) /\ Len(last) = 1 /\ last[1] = port
      BY OneIsSeq, TwoIsSeq
    <2> HIDE DEF one, two, last
    <2>2. /\ IsSeq(u) /\ Len(u) = Len(id) + 2
          /\ \A i \in 1..Len(id) : u[i] = id[i]
          /\ u[Len(id) + 1] = two[1] /\ u[Len(id) + 2] = two[2]
      <3>1. /\ IsSeq(u) /\ Len(u) = Len(id) + Len(two)
            /\ \A i \in 1..Len(id) : u[i] = id[i]
            /\ \A i \in 1..Len(two) : u[Len(id) + i] = two[i]
        <4>1. IsSeq(two)
          BY <2>1
        <4>2. QED
          BY <4>1, Concatenation
      <3> HIDE DEF u
      <3>2. QED
        BY <2>1, <3>1
    <2>3. /\ IsSeq(v) /\ Len(v) = Len(id) + 1
          /\ \A i \in 1..Len(id) : v[i] = id[i]
          /\ v[Len(id) + 1] = one[1]
      BY <2>1, Concatenation
    <2> HIDE DEF v
    <2>4. /\ IsSeq(w) /\ Len(w) = Len(v) + 1
          /\ \A i \in 1..Len(v) : w[i] = v[i]
          /\ w[Len(v) + 1] = last[1]
      <3>1. /\ IsSeq(w) /\ Len(w) = Len(v) + Len(last)
            /\ \A i \in 1..Len(v) : w[i] = v[i]
            /\ \A i \in 1..Len(last) : w[Len(v) + i] = last[i]
        <4>1. IsSeq(v) /\ IsSeq(last)
          BY <2>1, <2>3
        <4>2. QED
          BY <4>1, Concatenation
      <3> HIDE DEF w
      <3>2. QED
        BY <2>1, <3>1
    <2>5. Len(id) \in Nat
      BY SeqFacts
    <2> HIDE DEF u, w
    <2>6. ASSUME NEW i \in 1..Len(u) PROVE u[i] = w[i]
      <3>1. CASE i \in 1..Len(id)
        BY <2>2, <2>3, <2>4, <2>5, <3>1
      <3>2. CASE i = Len(id) + 1
        BY <2>1, <2>2, <2>3, <2>4, <2>5, <3>2
      <3>3. CASE i = Len(id) + 2
        BY <2>1, <2>2, <2>3, <2>4, <2>5, <3>3
      <3>4. QED
        BY <2>2, <2>5, <3>1, <3>2, <3>3
    <2>7. u = w
      BY <2>2, <2>3, <2>4, <2>5, <2>6, SeqEquality
    <2>8. QED
      BY <2>7 DEF u, v, w, two, last, PublishTag
  <1>2. /\ IsSeq(one) /\ Len(one) = 1
        /\ IsSeq(x) /\ IsSeq(y) /\ Len(x) = Len(a) + 1 /\ Len(a) \in Nat
    BY OneIsSeq, Concatenation, SeqFacts
  <1>3. PublishTag(a, k) = x \o <<k>> /\ PublishTag(b, m) = y \o <<m>>
    BY <1>1
  <1>4. Len(x \o <<k>>) = Len(a) + 2
    <2> HIDE DEF x
    <2>1. QED
      BY <1>2, OneIsSeq, Concatenation
  <1>5. PublishTag(a, k) # UserInbound
    <2>1. Len(UserInbound) = 1
      BY DEF UserInbound
    <2> HIDE DEF x
    <2>2. QED
      BY <1>2, <1>3, <1>4, <2>1
  <1>6. ASSUME PublishTag(a, k) = PublishTag(b, m) PROVE a = b /\ k = m
    <2>1. x = y /\ k = m
      <3>1. ButLast(x \o <<k>>) = x /\ LastOf(x \o <<k>>) = k
        BY <1>2, Appended
      <3>2. ButLast(y \o <<m>>) = y /\ LastOf(y \o <<m>>) = m
        BY <1>2, Appended
      <3>3. QED
        BY <1>3, <1>6, <3>1, <3>2
    <2>2. a = b
      <3>1. ButLast(x) = a /\ ButLast(y) = b
        BY Appended
      <3>2. QED
        BY <2>1, <3>1
    <2>3. QED
      BY <2>1, <2>2
  <1>7. QED
    BY <1>5, <1>6

\* Two portals never share a tag.
LEMMA PortalTags ==
    ASSUME NEW a, NEW b, IsSeq(a), IsSeq(b), PortalTag(a) = PortalTag(b)
    PROVE  a = b
  <1>1. ButLast(PortalTag(a)) = a /\ ButLast(PortalTag(b)) = b
    BY Appended DEF PortalTag
  <1>2. QED
    BY <1>1

-----------------------------------------------------------------------------
(* What regions, fallbacks and destinations lead to.                       *)

HasPrimary(r) == \E n \in ToSet(r.nodes) : ~n.backup

\* The node a region is named by is one of its own, and no backup if it has a
\* primary.
LEMMA FirstPrimaryIs ==
    ASSUME NEW r, IsSeq(r.nodes), r.nodes # <<>>
    PROVE  \E n \in ToSet(r.nodes) : FirstPrimary(r) = n.id /\ (HasPrimary(r) => ~n.backup)
  <1> DEFINE s == r.nodes
             P == {i \in DOMAIN s : ~s[i].backup}
             Is(i) == i \in P /\ \A j \in P : i <= j
  <1>1. /\ DOMAIN s = 1..Len(s) /\ Len(s) \in Nat
        /\ \A i \in 1..Len(s) : s[i] \in ToSet(s)
        /\ \A n \in ToSet(s) : \E i \in 1..Len(s) : n = s[i]
    BY SeqFacts, Elements
  <1>2. Len(s) > 0
    <2>1. Len(s) = 0 => s = <<>>
      <3> HIDE DEF s
      <3>1. QED
        BY EmptyIsSeq, SeqEquality DEF s
    <2>2. QED
      BY <1>1, <2>1
  <1>3. FirstPrimary(r) = s[IF P # {} THEN Min(P) ELSE 1].id
    BY DEF FirstPrimary
  <1>4. CASE P # {}
    <2>1. P \subseteq Nat
      BY <1>1
    <2>2. \E i \in P : \A j \in P : i <= j
      <3> HIDE DEF P
      <3>1. QED
        BY <1>4, <2>1, Least
    <2>3. Min(P) \in P
      <3> HIDE DEF P
      <3>1. QED
        BY <2>2 DEF Min
    <2>4. s[Min(P)] \in ToSet(s) /\ ~s[Min(P)].backup
      BY <1>1, <2>3
    <2>5. FirstPrimary(r) = s[Min(P)].id
      BY <1>3, <1>4
    <2> HIDE DEF P
    <2>6. QED
      BY <2>4, <2>5
  <1>5. CASE P = {}
    <2>1. s[1] \in ToSet(s)
      BY <1>1, <1>2
    <2>2. ~HasPrimary(r)
      BY <1>1, <1>5 DEF HasPrimary
    <2>3. FirstPrimary(r) = s[1].id
      BY <1>3, <1>5
    <2>4. QED
      BY <2>1, <2>2, <2>3
  <1>6. QED
    BY <1>4, <1>5

\* A fallback is the link of a node of the region, unless only backups are
\* left.
LEMMA FallbackIs ==
    ASSUME NEW r, IsSeq(r.nodes), r.nodes # <<>>, r.fallback # NoId => r.fallback \in NodeIds(r)
    PROVE  \E n \in ToSet(r.nodes) : /\ FallbackTag(r) \in {n.id, LinkTag(n)}
                                     /\ HasPrimary(r) => FallbackTag(r) = LinkTag(n)
  <1>1. CASE r.fallback = NoId
    <2>1. PICK n \in ToSet(r.nodes) : FirstPrimary(r) = n.id /\ (HasPrimary(r) => ~n.backup)
      BY FirstPrimaryIs
    <2>2. FallbackTag(r) = n.id /\ (HasPrimary(r) => LinkTag(n) = n.id)
      BY <1>1, <2>1 DEF FallbackTag, LinkTag
    <2>3. QED
      BY <2>2
  <1>2. CASE r.fallback # NoId /\ IsBackup(r, r.fallback)
    <2>1. PICK n \in ToSet(r.nodes) : n.id = r.fallback /\ n.backup
      BY <1>2 DEF IsBackup
    <2>2. FallbackTag(r) = LinkTag(n)
      BY <1>2, <2>1 DEF FallbackTag, LinkTag
    <2>3. QED
      BY <2>2
  <1>3. CASE r.fallback # NoId /\ ~IsBackup(r, r.fallback)
    <2>1. PICK n \in ToSet(r.nodes) : n.id = r.fallback
      BY <1>3, NodesOfRegion
    <2>2. ~n.backup
      BY <1>3, <2>1 DEF IsBackup
    <2>3. FallbackTag(r) = LinkTag(n)
      BY <1>3, <2>1, <2>2 DEF FallbackTag, LinkTag
    <2>4. QED
      BY <2>3
  <1>4. QED
    BY <1>1, <1>2, <1>3

\* Destinations: an outbound, or a rendered region.
LEMMA DestIs ==
    ASSUME NEW t \in TopologyRecords, UniqueIds(t), NEW dest, dest \in Ids(t.exits) => dest \in Rendered(t)
    PROVE  \/ /\ dest \in Specials \/ dest \notin Ids(t.exits)
              /\ DestTarget(t, dest) = Outbound(dest)
           \/ /\ dest \notin Specials
              /\ \E r \in ToSet(t.exits) :
                    r.id = dest /\ r.nodes # <<>> /\ DestTarget(t, dest) = RegionTarget(r)
  <1>1. CASE dest \in Specials \/ dest \notin Ids(t.exits)
    <2>1. DestTarget(t, dest) = Outbound(dest)
      BY <1>1 DEF DestTarget
    <2>2. QED
      BY <1>1, <2>1
  <1>2. CASE dest \notin Specials /\ dest \in Ids(t.exits)
    <2>1. PICK r \in ToSet(t.exits) : r.id = dest /\ r.nodes # <<>>
      BY <1>2 DEF Rendered
    <2>2. ExitRegion(t, dest) \in ToSet(t.exits) /\ ExitRegion(t, dest).id = dest
      BY <2>1 DEF ExitRegion
    <2>3. ExitRegion(t, dest) = r
      BY <2>1, <2>2, DistinctIds
    <2>4. DestTarget(t, dest) = RegionTarget(r)
      BY <1>2, <2>3 DEF DestTarget
    <2>5. QED
      BY <1>2, <2>1, <2>4
  <1>3. QED
    BY <1>1, <1>2

\* What a hub's decision can be.
Plainly(t, to) == \/ to \in {Outbound(Direct), Outbound(Blocked)}
                  \/ \E dest \in Specials : to = Outbound(dest)
IntoTunnel(t, hub, c, to) ==
    \E p \in ToSet(t.portals) :
        /\ to = Outbound(PortalTag(p.id))
        /\ ByMember(t, p, c) \/ \E e \in OnHub(p, hub) : c.in = PublishTag(p.id, e.port)
ToRegion(t, to) ==
    \E r \in ToSet(t.exits) :
        /\ r.nodes # <<>>
        /\ \/ to = RegionTarget(r)
           \/ r.warp # NoRoute /\ to = RegionWarpTarget(r)
ToNode(t, to) ==
    \E route \in ToSet(t.routes) :
        /\ route.dest \in ExitNodes(t) \ Ids(t.exits)
        /\ to = Outbound(route.dest)

\* Everything a hub's rules may name.
LEMMA HubTarget ==
    ASSUME NEW t \in TopologyRecords, Valid(t), NEW hub, NEW c
    PROVE  LET to == Decision(HubRules(t, hub), c)
           IN  Plainly(t, to) \/ IntoTunnel(t, hub, c, to) \/ ToRegion(t, to) \/ ToNode(t, to)
  <1> DEFINE to == Decision(HubRules(t, hub), c)
             pub == Decides(PublishRules(t, hub), c)
             dns == c.ip \in t.dns /\ c.port = DnsPort
             vless == Decides(VlessRules(t), c)
             grouped == Decides(GroupedRoutes(t), c)
             Goal == Plainly(t, to) \/ IntoTunnel(t, hub, c, to) \/ ToRegion(t, to) \/ ToNode(t, to)
  <1>1. /\ pub => to = Decision(PublishRules(t, hub), c)
        /\ (~pub /\ dns) => to = Outbound(Direct)
        /\ (~pub /\ ~dns /\ vless) => to = Decision(VlessRules(t), c)
        /\ (~pub /\ ~dns /\ ~vless /\ grouped) => to = Decision(GroupedRoutes(t), c)
        /\ (~pub /\ ~dns /\ ~vless /\ ~grouped) => to = DestTarget(t, t.default)
    BY HubDecision
  <1>2. UniqueIds(t) /\ RoutingValid(t)
    BY DEF Valid
  <1> SUFFICES Goal
    OBVIOUS
  <1> HIDE DEF to, pub, dns, vless, grouped
  <1>3. ASSUME NEW route \in ToSet(t.routes), to = DestTarget(t, route.dest) PROVE Goal
    <2>1. /\ route.dest \in Specials \cup Rendered(t) \cup ExitNodes(t)
          /\ route.dest \in Ids(t.exits) => route.dest \in Rendered(t)
          /\ Rendered(t) \subseteq Ids(t.exits)
      BY <1>2, RegionIds DEF RoutingValid, Rendered
    <2>2. CASE /\ route.dest \in Specials \/ route.dest \notin Ids(t.exits)
               /\ to = Outbound(route.dest)
      <3>1. route.dest \in Specials \/ route.dest \in ExitNodes(t) \ Ids(t.exits)
        BY <2>1, <2>2
      <3>2. QED
        BY <2>2, <3>1 DEF Plainly, ToNode
    <2>3. CASE \E r \in ToSet(t.exits) : r.nodes # <<>> /\ to = RegionTarget(r)
      BY <2>3 DEF ToRegion
    <2>4. QED
      BY <1>2, <1>3, <2>1, <2>2, <2>3, DestIs
  <1>4. ASSUME to = DestTarget(t, t.default) PROVE Goal
    <2>1. t.default \in Specials \cup Rendered(t) /\ Rendered(t) \subseteq Ids(t.exits)
      BY <1>2, RegionIds DEF RoutingValid, Rendered
    <2>2. CASE t.default \in Specials
      BY <1>4, <2>2 DEF DestTarget, Plainly
    <2>3. CASE t.default \in Rendered(t) /\ t.default \notin Specials
      <3>1. \E r \in ToSet(t.exits) : r.nodes # <<>> /\ to = RegionTarget(r)
        BY <1>2, <1>4, <2>1, <2>3, DestIs
      <3>2. QED
        BY <3>1 DEF ToRegion
    <2>4. QED
      BY <2>1, <2>2, <2>3
  <1>5. CASE pub
    <2>1. PICK x \in ToSet(Published(t, hub)) : c.in = x.tag /\ to = PublishTarget(x, c.source)
      BY <1>1, <1>5, PublishDecision DEF pub
    <2>2. PICK p \in ToSet(t.portals) : \E e \in OnHub(p, hub) : x = Pub(p, e)
      BY PublishedElements
    <2>3. x.portal = p.id /\ \E e \in OnHub(p, hub) : c.in = PublishTag(p.id, e.port)
      BY <2>1, <2>2 DEF Pub
    <2>4. to = Outbound(PortalTag(p.id)) \/ to = Outbound(Blocked)
      BY <2>1, <2>3 DEF PublishTarget
    <2>5. QED
      BY <2>3, <2>4 DEF Plainly, IntoTunnel
  <1>6. CASE ~pub /\ dns
    BY <1>1, <1>6 DEF Plainly
  <1>7. CASE ~pub /\ ~dns /\ vless
    <2>1. PICK r \in ToSet(t.exits) :
              /\ r.nodes # <<>>
              /\ \/ to = RegionTarget(r)
                 \/ r.warp # NoRoute /\ to = RegionWarpTarget(r)
      <3>1. to = Decision(VlessRules(t), c) /\ Decides(VlessRules(t), c)
        BY <1>1, <1>7 DEF vless
      <3>2. QED
        BY <3>1, VlessDecision
    <2>2. QED
      BY <2>1 DEF ToRegion
  <1>8. CASE ~pub /\ ~dns /\ ~vless /\ grouped
    <2> DEFINE members == Decides(PortalRoutes(t), c)
               early == BlockedEarly(t, c)
               tunnels == AcceptedTo(t, TunnelDests(t), c)
               direct == AcceptedTo(t, {Direct}, c)
               late == BlockedLate(t, c)
    <2>1. to = Decision(GroupedRoutes(t), c) /\ Decides(GroupedRoutes(t), c)
      BY <1>1, <1>8 DEF grouped
    <2>2. /\ (early # {} \/ members \/ tunnels # {} \/ direct # {} \/ late # {})
          /\ early # {} => to = Outbound(Blocked)
          /\ (early = {} /\ members) => to = Decision(PortalRoutes(t), c)
          /\ (early = {} /\ ~members /\ tunnels # {}) =>
                 \E i \in tunnels : to = DestTarget(t, t.routes[i].dest)
          /\ (early = {} /\ ~members /\ tunnels = {} /\ direct # {}) =>
                 \E i \in direct : to = DestTarget(t, t.routes[i].dest)
          /\ (early = {} /\ ~members /\ tunnels = {} /\ direct = {} /\ late # {}) =>
                 to = Outbound(Blocked)
      BY <2>1, GroupedDecision
    <2>3. \A i \in tunnels \cup direct : t.routes[i] \in ToSet(t.routes)
      BY Shapes, Elements DEF AcceptedTo
    <2> HIDE DEF early, tunnels, direct, late, members
    <2>4. CASE \E i \in tunnels \cup direct : to = DestTarget(t, t.routes[i].dest)
      BY <1>3, <2>3, <2>4
    <2>5. CASE to = Outbound(Blocked)
      BY <2>5 DEF Plainly
    <2>6. CASE members /\ to = Decision(PortalRoutes(t), c)
      BY <2>6, PortalDecision DEF members, IntoTunnel
    <2>7. QED
      BY <2>2, <2>4, <2>5, <2>6
  <1>9. CASE ~pub /\ ~dns /\ ~vless /\ ~grouped
    BY <1>1, <1>4, <1>9
  <1>10. QED
    BY <1>5, <1>6, <1>7, <1>8, <1>9

\* Every link is one of a node of a region, and every node has one.
LEMMA LinkElements ==
    ASSUME NEW t
    PROVE  /\ \A l \in Links(t) : \E r \in ToSet(t.exits) : \E n \in ToSet(r.nodes) :
                 /\ l.node = n.id
                 /\ \/ l.tag = LinkTag(n) /\ l.warp = FALSE
                    \/ r.warp # NoRoute /\ l.tag = WarpPrefix \o LinkTag(n) /\ l.warp = TRUE
           /\ \A r \in ToSet(t.exits) : \A n \in ToSet(r.nodes) :
                 /\ [tag |-> LinkTag(n), node |-> n.id, warp |-> FALSE] \in Links(t)
                 /\ r.warp # NoRoute =>
                       [tag |-> WarpPrefix \o LinkTag(n), node |-> n.id, warp |-> TRUE] \in Links(t)
  <1> DEFINE Plain(r) == {[tag |-> LinkTag(n), node |-> n.id, warp |-> FALSE] : n \in ToSet(r.nodes)}
             Warps(r) == {[tag |-> WarpPrefix \o LinkTag(n), node |-> n.id, warp |-> TRUE]
                             : n \in {m \in ToSet(r.nodes) : r.warp # NoRoute}}
  <1>1. Links(t) = UNION {Plain(r) \cup Warps(r) : r \in ToSet(t.exits)}
    BY DEF Links
  <1>2. ASSUME NEW r, NEW l
        PROVE  /\ l \in Plain(r) <=> \E n \in ToSet(r.nodes) :
                                         l = [tag |-> LinkTag(n), node |-> n.id, warp |-> FALSE]
               /\ l \in Warps(r) <=> \E n \in ToSet(r.nodes) :
                     /\ r.warp # NoRoute
                     /\ l = [tag |-> WarpPrefix \o LinkTag(n), node |-> n.id, warp |-> TRUE]
    OBVIOUS
  <1> HIDE DEF Plain, Warps
  <1>3. ASSUME NEW l \in Links(t)
        PROVE  \E r \in ToSet(t.exits) : \E n \in ToSet(r.nodes) :
                 /\ l.node = n.id
                 /\ \/ l.tag = LinkTag(n) /\ l.warp = FALSE
                    \/ r.warp # NoRoute /\ l.tag = WarpPrefix \o LinkTag(n) /\ l.warp = TRUE
    <2>1. PICK r \in ToSet(t.exits) : l \in Plain(r) \/ l \in Warps(r)
      BY <1>1
    <2>2. CASE l \in Plain(r)
      <3>1. PICK n \in ToSet(r.nodes) : l = [tag |-> LinkTag(n), node |-> n.id, warp |-> FALSE]
        BY <1>2, <2>2
      <3>2. l.node = n.id /\ l.tag = LinkTag(n) /\ l.warp = FALSE
        BY <3>1
      <3>3. QED
        BY <3>2
    <2>3. CASE l \in Warps(r)
      <3>1. PICK n \in ToSet(r.nodes) :
                /\ r.warp # NoRoute
                /\ l = [tag |-> WarpPrefix \o LinkTag(n), node |-> n.id, warp |-> TRUE]
        BY <1>2, <2>3
      <3>2. l.node = n.id /\ l.tag = WarpPrefix \o LinkTag(n) /\ l.warp = TRUE
        BY <3>1
      <3>3. QED
        BY <3>1, <3>2
    <2>4. QED
      BY <2>1, <2>2, <2>3
  <1>4. ASSUME NEW r \in ToSet(t.exits), NEW n \in ToSet(r.nodes)
        PROVE  /\ [tag |-> LinkTag(n), node |-> n.id, warp |-> FALSE] \in Links(t)
               /\ r.warp # NoRoute =>
                     [tag |-> WarpPrefix \o LinkTag(n), node |-> n.id, warp |-> TRUE] \in Links(t)
    <2> DEFINE x == [tag |-> LinkTag(n), node |-> n.id, warp |-> FALSE]
               y == [tag |-> WarpPrefix \o LinkTag(n), node |-> n.id, warp |-> TRUE]
    <2>1. x \in Plain(r) /\ (r.warp # NoRoute => y \in Warps(r))
      BY <1>2
    <2> HIDE DEF x, y
    <2>2. x \in Links(t) /\ (r.warp # NoRoute => y \in Links(t))
      BY <1>1, <2>1
    <2>3. QED
      BY <2>2 DEF x, y
  <1>5. QED
    BY <1>3, <1>4

\* The names of exit nodes, with all their prefixes, are kept from the portals.
LEMMA TagsDerived ==
    ASSUME NEW t \in TopologyRecords, NEW r \in ToSet(t.exits), NEW n \in ToSet(r.nodes)
    PROVE  /\ n.id \in ExitNodes(t)
           /\ {n.id, LinkTag(n), WarpPrefix \o n.id, WarpPrefix \o LinkTag(n)} \subseteq DerivedTags(t)
  <1> DEFINE nodes == ExitNodes(t) \cup HubNodes(t)
             regions == Ids(t.exits) \cup Ids(t.hubs)
             Q == {BackupPrefix, WarpPrefix, WarpPrefix \o BackupPrefix}
             P == {p \o m : p \in Q, m \in nodes}
             L == {LbPrefix \o x : x \in regions}
             W == {LbPrefix \o WarpPrefix \o x : x \in regions}
             id == n.id
  <1>1. id \in ExitNodes(t)
    <2>1. id \in NodeIds(r)
      BY NodesOfRegion
    <2>2. QED
      BY <2>1 DEF ExitNodes
  <1>2. P \subseteq DerivedTags(t) /\ ExitNodes(t) \subseteq DerivedTags(t)
    <2>1. DerivedTags(t) = Specials \cup nodes \cup P \cup L \cup W
      BY DEF DerivedTags
    <2>2. ExitNodes(t) \subseteq nodes
      OBVIOUS
    <2> HIDE DEF P, L, W, nodes
    <2>3. QED
      BY <2>1, <2>2
  <1>3. /\ BackupPrefix \o id \in P /\ WarpPrefix \o id \in P
        /\ (WarpPrefix \o BackupPrefix) \o id \in P
    <2>1. /\ BackupPrefix \in Q /\ WarpPrefix \in Q /\ WarpPrefix \o BackupPrefix \in Q
          /\ id \in nodes
      BY <1>1
    <2> HIDE DEF Q, nodes, id
    <2>2. \A p \in Q, m \in nodes : p \o m \in P
      OBVIOUS
    <2> HIDE DEF P
    <2>3. QED
      BY <2>1, <2>2
  <1>4. (WarpPrefix \o BackupPrefix) \o id = WarpPrefix \o (BackupPrefix \o id)
    <2>1. IsSeq(id)
      BY Shapes
    <2>2. IsSeq(WarpPrefix) /\ IsSeq(BackupPrefix)
      BY ThreeIsSeq, TwoIsSeq DEF WarpPrefix, BackupPrefix
    <2> HIDE DEF id
    <2>3. QED
      BY <2>1, <2>2, ConcatRegroups
  <1>5. LinkTag(n) = BackupPrefix \o id \/ LinkTag(n) = id
    BY DEF LinkTag
  <1> HIDE DEF P, id
  <1>6. {id, LinkTag(n), WarpPrefix \o id, WarpPrefix \o LinkTag(n)} \subseteq DerivedTags(t)
    BY <1>1, <1>2, <1>3, <1>4, <1>5
  <1>7. QED
    BY <1>1, <1>6 DEF id

-----------------------------------------------------------------------------
(* Every step finds what it looks up.                                      *)

IsPos == pos = [at |-> pos.at, node |-> pos.node, tag |-> pos.tag, warp |-> pos.warp]
TypeInv == IsPos /\ TypeOK

\* The topology is one of those the run was given.
LEMMA Topo == TypeInv => topo \in TopologyRecords /\ Valid(topo)
  BY TopologiesValid DEF TypeInv, TypeOK

\* A region's target is one of its links' tags or a balancer that exists.
LEMMA RegionTargetIs ==
    ASSUME NEW t \in TopologyRecords, NEW r \in ToSet(t.exits), r.nodes # <<>>, NEW to,
           to = RegionTarget(r) \/ (r.warp # NoRoute /\ to = RegionWarpTarget(r))
    PROVE  /\ to.key = "balancerTag" => \E b \in ToSet(Balancers(t)) : b.tag = to.tag
           /\ to.key # "balancerTag" =>
                 /\ ~Balanced(r)
                 /\ \E n \in ToSet(r.nodes) :
                       /\ HasPrimary(r) => ~n.backup
                       /\ \/ to = RegionTarget(r) /\ to.tag = n.id
                          \/ /\ r.warp # NoRoute /\ to = RegionWarpTarget(r)
                             /\ to.tag = WarpPrefix \o n.id
  <1>1. CASE Balanced(r)
    <2> DEFINE b == BalancerOf(r.id, FallbackTag(r))
               w == BalancerOf(WarpPrefix \o r.id, WarpPrefix \o FallbackTag(r))
    <2>1. b \in ToSet(Balancers(t)) /\ (r.warp # NoRoute => w \in ToSet(Balancers(t)))
      <3> HIDE DEF b, w
      <3>1. QED
        BY <1>1, BalancerElements DEF b, w
    <2>2. /\ RegionTarget(r) = Balancer(r.id)
          /\ RegionWarpTarget(r) = Balancer(WarpPrefix \o r.id)
      BY <1>1 DEF RegionTarget, RegionWarpTarget
    <2>3. /\ RegionTarget(r).key = "balancerTag" /\ RegionTarget(r).tag = b.tag
          /\ RegionWarpTarget(r).key = "balancerTag" /\ RegionWarpTarget(r).tag = w.tag
      BY <2>2 DEF Balancer, BalancerOf
    <2> HIDE DEF b, w
    <2>4. QED
      BY <2>1, <2>3
  <1>2. CASE ~Balanced(r)
    <2>1. PICK n \in ToSet(r.nodes) : FirstPrimary(r) = n.id /\ (HasPrimary(r) => ~n.backup)
      BY Shapes, FirstPrimaryIs
    <2>2. /\ RegionTarget(r) = Outbound(n.id)
          /\ RegionWarpTarget(r) = Outbound(WarpPrefix \o n.id)
      BY <1>2, <2>1 DEF RegionTarget, RegionWarpTarget
    <2>3. /\ RegionTarget(r).key # "balancerTag" /\ RegionTarget(r).tag = n.id
          /\ RegionWarpTarget(r).key # "balancerTag" /\ RegionWarpTarget(r).tag = WarpPrefix \o n.id
      BY <2>2 DEF Outbound
    <2>4. QED
      BY <1>2, <2>1, <2>3
  <1>3. QED
    BY <1>1, <1>2

\* An outbound is no balancer.
LEMMA OutboundFields == \A tag : Outbound(tag).key # "balancerTag" /\ Outbound(tag).tag = tag
  BY DEF Outbound

\* What a hub's step leaves behind.
LEMMA HubStep ==
    ASSUME TypeInv, HubDecides
    PROVE  \E to : /\ to = Decision(HubRules(topo, pos.node), HubView)
                   /\ pos' = [at |-> IF to.key = "balancerTag" THEN "balancer" ELSE "outbound",
                              node |-> pos.node, tag |-> to.tag, warp |-> pos.warp]
                   /\ pos.node \in HubNodes(topo)
  <1> DEFINE to == Decision(HubRules(topo, pos.node), HubView)
  <1>1. /\ pos' = [pos EXCEPT !.tag = to.tag,
                              !.at = IF to.key = "balancerTag" THEN "balancer" ELSE "outbound"]
        /\ pos.at = "hub"
    BY DEF HubDecides
  <1> HIDE DEF to
  <1>2. pos.node \in HubNodes(topo)
    BY <1>1 DEF TypeInv, TypeOK
  <1>3. pos' = [at |-> IF to.key = "balancerTag" THEN "balancer" ELSE "outbound",
                node |-> pos.node, tag |-> to.tag, warp |-> pos.warp]
    BY <1>1 DEF TypeInv, IsPos
  <1>4. QED
    BY <1>2, <1>3 DEF to

\* The type invariant holds at first, is kept, and so always holds.
LEMMA TypeInit == Init => TypeInv
  BY DEF Init, TypeInv, IsPos, TypeOK, Idle

LEMMA TypeStep == TypeInv /\ [Next]_vars => TypeInv'
  <1> SUFFICES ASSUME TypeInv, [Next]_vars PROVE TypeInv'
    OBVIOUS
  <1> USE DEF TypeInv, IsPos, TypeOK, AtExit, AtPortal
  <1>1. ASSUME NEW hub \in HubNodes(topo), NEW c, Connect(hub, c) PROVE TypeInv'
    BY <1>1 DEF Connect, Idle
  <1>2. CASE HubDecides
    <2>1. PICK to : /\ to = Decision(HubRules(topo, pos.node), HubView)
                    /\ pos' = [at |-> IF to.key = "balancerTag" THEN "balancer" ELSE "outbound",
                               node |-> pos.node, tag |-> to.tag, warp |-> pos.warp]
                    /\ pos.node \in HubNodes(topo)
      BY <1>2, HubStep
    <2>2. to.key = "balancerTag" => \E b \in ToSet(Balancers(topo)) : b.tag = to.tag
      <3>1. topo \in TopologyRecords /\ Valid(topo)
        BY Topo
      <3>2. Plainly(topo, to) \/ IntoTunnel(topo, pos.node, HubView, to) \/ ToRegion(topo, to) \/ ToNode(topo, to)
        BY <2>1, <3>1, HubTarget
      <3>3. CASE Plainly(topo, to) \/ IntoTunnel(topo, pos.node, HubView, to) \/ ToNode(topo, to)
        BY <3>3, OutboundFields DEF Plainly, IntoTunnel, ToNode
      <3>4. CASE ToRegion(topo, to)
        BY <3>1, <3>4, RegionTargetIs DEF ToRegion
      <3>5. QED
        BY <3>2, <3>3, <3>4
    <2>3. topo' = topo /\ conn' = conn
      BY <1>2 DEF HubDecides
    <2>4. QED
      BY <2>1, <2>2, <2>3
  <1>3. CASE EndAtHub
    BY <1>3 DEF EndAtHub
  <1>4. CASE Drop
    BY <1>4 DEF Drop
  <1>5. CASE Close
    BY <1>5 DEF Close, Idle
  <1>6. ASSUME NEW tag, Balance(tag) PROVE TypeInv'
    BY <1>6 DEF Balance
  <1>7. ASSUME NEW link \in Links(topo), Forward(link) PROVE TypeInv'
    <2>1. PICK r \in ToSet(topo.exits) : \E n \in ToSet(r.nodes) : link.node = n.id
      BY LinkElements
    <2>2. link.node \in ExitNodes(topo)
      BY <2>1, Topo, TagsDerived
    <2>3. QED
      BY <1>7, <2>2 DEF Forward
  <1>8. ASSUME NEW ip, ExitDecides(ip) PROVE TypeInv'
    BY <1>8 DEF ExitDecides
  <1>9. ASSUME NEW ip, NEW p, PortalDecides(p, ip) PROVE TypeInv'
    BY <1>9 DEF PortalDecides
  <1>10. ASSUME NEW p \in ToSet(topo.portals), Enter(p) PROVE TypeInv'
    <2>1. p.id \in Ids(topo.portals)
      BY PortalIds
    <2>2. QED
      BY <1>10, <2>1 DEF Enter
  <1>11. CASE UNCHANGED vars
    BY <1>11 DEF vars
  <1>12. QED
    BY <1>1, <1>2, <1>3, <1>4, <1>5, <1>6, <1>7, <1>8, <1>9, <1>10, <1>11 DEF Next

LEMMA TypeInvariant == Spec => []TypeInv
  BY TypeInit, TypeStep, PTL DEF Spec

\* Hubs route at hubs, links lead to nodes of exit regions, tunnels to portals,
\* and every balancer the rules name is rendered.
THEOREM EveryStepFinds == Spec => []TypeOK
  <1>1. TypeInv => TypeOK
    BY DEF TypeInv
  <1>2. QED
    BY <1>1, TypeInvariant, PTL

-----------------------------------------------------------------------------
(* Every outbound that is named is rendered.                               *)

\* Strengthens NoDangling to the step before the drop.
TagRendered == pos.at \in {"outbound", "dropped"} => pos.tag \in Outbounds

\* Outbounds, element by element.
LEMMA OutboundElements ==
    /\ Specials \subseteq Outbounds
    /\ \A p \in ToSet(topo.portals) : PortalTag(p.id) \in Outbounds
    /\ \A l \in Links(topo) : l.tag \in Outbounds
  BY PortalIds DEF Outbounds

LEMMA LinkTagsOut ==
    ASSUME NEW r \in ToSet(topo.exits), NEW n \in ToSet(r.nodes)
    PROVE  /\ LinkTag(n) \in Outbounds
           /\ r.warp # NoRoute => WarpPrefix \o LinkTag(n) \in Outbounds
  <1> DEFINE x == [tag |-> LinkTag(n), node |-> n.id, warp |-> FALSE]
             y == [tag |-> WarpPrefix \o LinkTag(n), node |-> n.id, warp |-> TRUE]
  <1>1. x \in Links(topo) /\ (r.warp # NoRoute => y \in Links(topo))
    BY LinkElements
  <1>2. x.tag = LinkTag(n) /\ y.tag = WarpPrefix \o LinkTag(n)
    OBVIOUS
  <1> HIDE DEF x, y
  <1>3. x.tag \in Outbounds /\ (r.warp # NoRoute => y.tag \in Outbounds)
    BY <1>1, OutboundElements
  <1>4. QED
    BY <1>2, <1>3

\* What a hub's rules name is rendered: an outbound that exists, or a balancer.
LEMMA HubNamesRendered ==
    ASSUME TypeInv, PrimariesNamed(topo), NEW hub, NEW c
    PROVE  LET to == Decision(HubRules(topo, hub), c)
           IN  to.key # "balancerTag" => to.tag \in Outbounds
  <1> DEFINE to == Decision(HubRules(topo, hub), c)
  <1> SUFFICES ASSUME to.key # "balancerTag" PROVE to.tag \in Outbounds
    OBVIOUS
  <1>1. topo \in TopologyRecords /\ Valid(topo)
    BY Topo
  <1>2. Plainly(topo, to) \/ IntoTunnel(topo, hub, c, to) \/ ToRegion(topo, to) \/ ToNode(topo, to)
    BY <1>1, HubTarget
  <1> HIDE DEF to
  <1>3. CASE Plainly(topo, to)
    <2>1. to.tag \in Specials
      BY <1>3, OutboundFields DEF Plainly, Specials
    <2>2. QED
      BY <2>1, OutboundElements
  <1>4. CASE IntoTunnel(topo, hub, c, to)
    BY <1>4, OutboundFields, OutboundElements DEF IntoTunnel
  <1>5. CASE ToRegion(topo, to)
    <2>1. PICK r \in ToSet(topo.exits) :
              /\ r.nodes # <<>>
              /\ to = RegionTarget(r) \/ (r.warp # NoRoute /\ to = RegionWarpTarget(r))
      BY <1>5 DEF ToRegion
    <2>2. HasPrimary(r)
      BY <2>1 DEF PrimariesNamed, HasPrimary
    <2>3. PICK n \in ToSet(r.nodes) :
              ~n.backup /\ (to.tag = n.id \/ (r.warp # NoRoute /\ to.tag = WarpPrefix \o n.id))
      BY <1>1, <2>1, <2>2, RegionTargetIs
    <2>4. LinkTag(n) = n.id
      BY <2>3 DEF LinkTag
    <2>5. QED
      BY <2>3, <2>4, LinkTagsOut
  <1>6. CASE ToNode(topo, to)
    <2>1. PICK route \in ToSet(topo.routes) :
              route.dest \in ExitNodes(topo) \ Ids(topo.exits) /\ to = Outbound(route.dest)
      BY <1>6 DEF ToNode
    <2>2. PICK r \in ToSet(topo.exits) : route.dest \in NodeIds(r)
      BY <2>1 DEF ExitNodes
    <2>3. PICK n \in ToSet(r.nodes) : n.id = route.dest
      BY <2>2, NodesOfRegion
    <2>4. ~n.backup
      BY <2>1, <2>3 DEF PrimariesNamed
    <2>5. LinkTag(n) = route.dest /\ to.tag = route.dest
      BY <2>1, <2>3, <2>4, OutboundFields DEF LinkTag
    <2>6. QED
      BY <2>5, LinkTagsOut
  <1>7. QED
    BY <1>2, <1>3, <1>4, <1>5, <1>6

\* So is the fallback of a balancer.
LEMMA FallbackRendered ==
    ASSUME TypeInv, PrimariesNamed(topo), NEW b \in ToSet(Balancers(topo))
    PROVE  b.fallback \in Outbounds
  <1>1. topo \in TopologyRecords /\ Valid(topo)
    BY Topo
  <1>2. PICK r \in ToSet(topo.exits) :
            /\ Balanced(r)
            /\ \/ b = BalancerOf(r.id, FallbackTag(r))
               \/ /\ r.warp # NoRoute
                  /\ b = BalancerOf(WarpPrefix \o r.id, WarpPrefix \o FallbackTag(r))
    BY <1>1, BalancerElements
  <1>3. r.nodes # <<>>
    BY <1>2 DEF Balanced
  <1>4. HasPrimary(r)
    BY <1>3 DEF PrimariesNamed, HasPrimary
  <1>5. r.fallback # NoId => r.fallback \in NodeIds(r)
    BY <1>1 DEF Valid, ExitRegionsValid
  <1>6. PICK n \in ToSet(r.nodes) : FallbackTag(r) = LinkTag(n)
    BY <1>1, <1>3, <1>4, <1>5, Shapes, FallbackIs
  <1>7. b.fallback = LinkTag(n) \/ (r.warp # NoRoute /\ b.fallback = WarpPrefix \o LinkTag(n))
    BY <1>2, <1>6 DEF BalancerOf
  <1>8. QED
    BY <1>7, LinkTagsOut

\* Every step keeps to tags that are rendered.
LEMMA RenderedStep ==
    ASSUME \A t \in Topologies : PrimariesNamed(t)
    PROVE  TypeInv /\ TagRendered /\ [Next]_vars => TagRendered'
  <1> SUFFICES ASSUME TypeInv, TagRendered, [Next]_vars PROVE TagRendered'
    OBVIOUS
  <1>1. PrimariesNamed(topo)
    BY DEF TypeInv, TypeOK
  <1> USE DEF TypeInv, IsPos, TagRendered, Outbounds
  <1>2. ASSUME NEW hub, NEW c, Connect(hub, c) PROVE TagRendered'
    BY <1>2 DEF Connect, Idle
  <1>3. CASE HubDecides
    <2>1. PICK to : /\ to = Decision(HubRules(topo, pos.node), HubView)
                    /\ pos' = [at |-> IF to.key = "balancerTag" THEN "balancer" ELSE "outbound",
                               node |-> pos.node, tag |-> to.tag, warp |-> pos.warp]
      BY <1>3, HubStep
    <2>2. to.key # "balancerTag" => to.tag \in Outbounds
      <3> HIDE DEF Outbounds
      <3>1. QED
        BY <1>1, <2>1, HubNamesRendered
    <2>3. topo' = topo
      BY <1>3 DEF HubDecides
    <2>4. QED
      BY <2>1, <2>2, <2>3
  <1>4. CASE EndAtHub
    BY <1>4 DEF EndAtHub
  <1>5. CASE Drop
    BY <1>5 DEF Drop
  <1>6. CASE Close
    BY <1>6 DEF Close, Idle
  <1>7. ASSUME NEW tag, Balance(tag) PROVE TagRendered'
    <2>1. tag \in Outbounds
      <3> HIDE DEF Outbounds
      <3>1. QED
        BY <1>1, <1>7, FallbackRendered DEF Balance
    <2>2. QED
      BY <1>7, <2>1 DEF Balance
  <1>8. ASSUME NEW link, Forward(link) PROVE TagRendered'
    BY <1>8 DEF Forward
  <1>9. ASSUME NEW ip, ExitDecides(ip) PROVE TagRendered'
    BY <1>9 DEF ExitDecides
  <1>10. ASSUME NEW ip, NEW p, PortalDecides(p, ip) PROVE TagRendered'
    BY <1>10 DEF PortalDecides
  <1>11. ASSUME NEW p, Enter(p) PROVE TagRendered'
    BY <1>11 DEF Enter
  <1>12. CASE UNCHANGED vars
    BY <1>12 DEF vars
  <1>13. QED
    BY <1>2, <1>3, <1>4, <1>5, <1>6, <1>7, <1>8, <1>9, <1>10, <1>11, <1>12 DEF Next

\* Every outbound a rule, a balancer or a fallback names is rendered, if every
\* exit region with nodes has a primary and no route names a backup node.
THEOREM NamedIsRendered ==
    ASSUME \A t \in Topologies : PrimariesNamed(t)
    PROVE  Spec => []NoDangling
  <1>1. Init => TagRendered
    BY DEF Init, TagRendered, Idle
  <1>2. TypeInv /\ TagRendered /\ [Next]_vars => TagRendered'
    BY RenderedStep
  <1>3. TagRendered => NoDangling
    BY DEF TagRendered, NoDangling
  <1>4. QED
    BY <1>1, <1>2, <1>3, TypeInvariant, PTL DEF Spec

-----------------------------------------------------------------------------
(* Exits leave through warp as they were asked to.                         *)

\* Hubs, exits and portals are different nodes.
LEMMA Places ==
    ASSUME TypeInv
    PROVE  /\ pos.at \in {"hub", "balancer", "outbound", "dropped"} =>
                 pos.node \notin ExitNodes(topo) /\ pos.node \notin Ids(topo.portals)
           /\ pos.at = "portal" => pos.node \notin ExitNodes(topo)
           /\ pos.at = "exit" => pos.node \notin Ids(topo.portals)
  <1>1. topo \in TopologyRecords /\ UniqueIds(topo) /\ PortalNamesValid(topo)
    BY Topo DEF Valid, PortalsValid
  <1>2. ExitNodes(topo) \cap HubNodes(topo) = {}
    BY <1>1, DistinctIds
  <1>3. Ids(topo.portals) \cap (ExitNodes(topo) \cup HubNodes(topo)) = {}
    BY <1>1 DEF PortalNamesValid
  <1>4. QED
    BY <1>2, <1>3 DEF TypeInv, TypeOK, AtExit, AtPortal

\* The special outbounds are three.
LEMMA SpecialsDiffer == Direct # Warp /\ Blocked # Warp /\ Direct # Blocked
  <1>1. Direct[1] = "d" /\ Blocked[1] = "b" /\ Warp[1] = "w"
    BY DEF Direct, Blocked, Warp
  <1>2. QED
    BY <1>1

\* An exit's region is one that has the node.
LEMMA RegionOfNode ==
    ASSUME AtExit
    PROVE  RegionOf(pos.node) \in ToSet(topo.exits) /\ pos.node \in NodeIds(RegionOf(pos.node))
  <1>1. \E r \in ToSet(topo.exits) : pos.node \in NodeIds(r)
    BY DEF AtExit, ExitNodes
  <1>2. QED
    BY <1>1 DEF RegionOf

Routed(r, dest) ==
    \E route \in ToSet(r.routes \o topo.globals) :
        route.dest = dest /\ (Known(conn) \in route.domains \/ route.ips # {})

\* What the exit decides of a connection, as it came or with its address.
LEMMA ExitChoice ==
    ASSUME topo \in TopologyRecords, NEW r \in ToSet(topo.exits), NEW ip,
           Decides(ExitRules(topo, r), ExitView(ip))
    PROVE  LET to == Decision(ExitRules(topo, r), ExitView(ip))
           IN  \/ /\ ip = "" => ForResolver
                  /\ to = Outbound(Direct)
               \/ \E dest : Routed(r, dest) /\ to = Outbound(dest)
               \/ pos.warp /\ to = Outbound(Warp)
               \/ /\ Known(conn) \in r.warpDomains \cup topo.warpDomains
                  /\ to = Outbound(Warp)
  <1> DEFINE c == ExitView(ip)
             e == ExitRules(topo, r)
             to == Decision(e, c)
  <1>1. /\ c.domain = Known(conn)
        /\ c.ip = IF Known(conn) = "" THEN conn.dialed.ip ELSE ip
        /\ c.port = conn.dialed.port
        /\ c.vroute = IF pos.warp THEN WarpRoute ELSE NoRoute
    BY DEF ExitView
  <1>2. "" \notin topo.dns
    BY DEF TopologyRecords, Name
  <1> HIDE DEF c
  <1>3. \/ c.ip \in topo.dns /\ c.port = DnsPort /\ to = Outbound(Direct)
        \/ \E route \in ToSet(r.routes \o topo.globals) :
              OnRoute(route, c) /\ to = Outbound(route.dest)
        \/ c.vroute = WarpRoute /\ to = Outbound(Warp)
        \/ c.domain \in r.warpDomains \cup topo.warpDomains /\ to = Outbound(Warp)
    <2>1. Decides(e, c)
      BY DEF c
    <2> HIDE DEF to
    <2>2. QED
      BY <2>1, ExitDecision DEF to
  <1> HIDE DEF to
  <1>4. CASE c.ip \in topo.dns /\ c.port = DnsPort /\ to = Outbound(Direct)
    <2>1. ip = "" => ForResolver
      BY <1>1, <1>2, <1>4 DEF ForResolver
    <2>2. QED
      BY <1>4, <2>1 DEF to, c
  <1>5. CASE \E route \in ToSet(r.routes \o topo.globals) :
               OnRoute(route, c) /\ to = Outbound(route.dest)
    <2>1. PICK route \in ToSet(r.routes \o topo.globals) :
              OnRoute(route, c) /\ to = Outbound(route.dest)
      BY <1>5
    <2>2. Known(conn) \in route.domains \/ route.ips # {}
      BY <1>1, <2>1 DEF OnRoute
    <2>3. Routed(r, route.dest)
      BY <2>2 DEF Routed
    <2>4. QED
      BY <2>1, <2>3 DEF to, c
  <1>6. CASE c.vroute = WarpRoute /\ to = Outbound(Warp)
    <2>1. pos.warp
      <3>1. WarpRoute # NoRoute
        BY DEF WarpRoute, NoRoute
      <3>2. (IF pos.warp THEN WarpRoute ELSE NoRoute) = WarpRoute
        BY <1>1, <1>6
      <3>3. QED
        BY <3>1, <3>2
    <2>2. QED
      BY <1>6, <2>1 DEF to, c
  <1>7. CASE c.domain \in r.warpDomains \cup topo.warpDomains /\ to = Outbound(Warp)
    <2>1. Known(conn) \in r.warpDomains \cup topo.warpDomains
      BY <1>1, <1>7
    <2>2. QED
      BY <1>7, <2>1 DEF to, c
  <1>8. QED
    BY <1>3, <1>4, <1>5, <1>6, <1>7

WarpAt(r, tag) ==
    /\ (pos.warp /\ tag # Warp) => Routed(r, tag) \/ ForResolver
    /\ (~pos.warp /\ tag = Warp) =>
          Routed(r, Warp) \/ Known(conn) \in r.warpDomains \cup topo.warpDomains

\* What an exit decides, it decides by warp.
LEMMA WarpDecided ==
    ASSUME TypeInv, NEW ip, ExitDecides(ip)
    PROVE  WarpAt(RegionOf(pos.node), pos'.tag) /\ pos'.node = pos.node /\ pos'.warp = pos.warp
  <1> DEFINE r == RegionOf(pos.node)
             rules == ExitRules(topo, r)
             a == ExitView("")
             b == ExitView(ip)
             to == IF Decides(rules, a) THEN Decision(rules, a)
                   ELSE IF Decides(rules, b) THEN Decision(rules, b)
                   ELSE Outbound(Direct)
  <1>1. r \in ToSet(topo.exits) /\ topo \in TopologyRecords
    BY Topo, RegionOfNode DEF ExitDecides, TypeInv, TypeOK
  <1>2. pos' = [pos EXCEPT !.at = "end", !.tag = to.tag]
    BY DEF ExitDecides
  <1> HIDE DEF r
  <1>3. a.vroute = IF pos.warp THEN WarpRoute ELSE NoRoute
    BY DEF ExitView
  <1>4. pos.warp => Decides(rules, a)
    <2> HIDE DEF a, rules
    <2>1. QED
      BY <1>1, <1>3, ExitDecision DEF rules
  <1>5. pos'.tag = to.tag /\ pos'.node = pos.node /\ pos'.warp = pos.warp
    <2> HIDE DEF to
    <2>1. QED
      BY <1>2 DEF TypeInv, IsPos
  <1>6. WarpAt(r, to.tag)
    <2>1. CASE Decides(rules, a)
      <3>1. \/ ForResolver /\ to = Outbound(Direct)
            \/ \E dest : Routed(r, dest) /\ to = Outbound(dest)
            \/ pos.warp /\ to = Outbound(Warp)
            \/ Known(conn) \in r.warpDomains \cup topo.warpDomains /\ to = Outbound(Warp)
        <4>1. to = Decision(rules, a)
          BY <2>1
        <4> HIDE DEF to
        <4>2. QED
          BY <1>1, <2>1, <4>1, ExitChoice
      <3> HIDE DEF to
      <3>2. QED
        BY <3>1, OutboundFields, SpecialsDiffer DEF WarpAt
    <2>2. CASE ~Decides(rules, a) /\ Decides(rules, b)
      <3>1. \/ to = Outbound(Direct)
            \/ \E dest : Routed(r, dest) /\ to = Outbound(dest)
            \/ pos.warp /\ to = Outbound(Warp)
            \/ Known(conn) \in r.warpDomains \cup topo.warpDomains /\ to = Outbound(Warp)
        <4>1. to = Decision(rules, b)
          BY <2>2
        <4> HIDE DEF to
        <4>2. QED
          BY <1>1, <2>2, <4>1, ExitChoice
      <3>2. ~pos.warp
        BY <1>4, <2>2
      <3> HIDE DEF to
      <3>3. QED
        BY <3>1, <3>2, OutboundFields, SpecialsDiffer DEF WarpAt
    <2>3. CASE ~Decides(rules, a) /\ ~Decides(rules, b)
      <3>1. to = Outbound(Direct) /\ ~pos.warp
        BY <1>4, <2>3
      <3> HIDE DEF to
      <3>2. QED
        BY <3>1, OutboundFields, SpecialsDiffer DEF WarpAt
    <2>4. QED
      BY <2>1, <2>2, <2>3
  <1> HIDE DEF to
  <1>7. QED
    BY <1>5, <1>6 DEF r

\* Every step keeps WarpAsAsked.
LEMMA WarpStep == TypeInv /\ WarpAsAsked /\ [Next]_vars => WarpAsAsked'
  <1> SUFFICES ASSUME TypeInv, WarpAsAsked, [Next]_vars PROVE WarpAsAsked'
    OBVIOUS
  <1>1. WarpAsAsked <=> (AtExit /\ pos.at = "end" => WarpAt(RegionOf(pos.node), pos.tag))
    BY DEF WarpAsAsked, WarpAt, Routed
  <1>2. WarpAsAsked' <=> (AtExit' /\ pos'.at = "end" => WarpAt(RegionOf(pos.node), pos.tag)')
    BY DEF WarpAsAsked, WarpAt, Routed
  <1>3. pos'.at # "end" => WarpAsAsked'
    BY <1>2
  <1>4. TypeInv => pos = [at |-> pos.at, node |-> pos.node, tag |-> pos.tag, warp |-> pos.warp]
    BY DEF TypeInv, IsPos
  <1>5. ASSUME NEW hub, NEW c, Connect(hub, c) PROVE WarpAsAsked'
    BY <1>3, <1>5 DEF Connect, Idle
  <1>6. CASE HubDecides
    BY <1>3, <1>6, HubStep
  <1>7. CASE EndAtHub
    <2>1. ~AtExit'
      BY <1>4, <1>7, Places DEF EndAtHub, AtExit
    <2>2. QED
      BY <1>2, <2>1
  <1>8. CASE Drop
    BY <1>3, <1>4, <1>8 DEF Drop
  <1>9. CASE Close
    BY <1>3, <1>9 DEF Close, Idle
  <1>10. ASSUME NEW tag, Balance(tag) PROVE WarpAsAsked'
    BY <1>3, <1>4, <1>10 DEF Balance
  <1>11. ASSUME NEW link, Forward(link) PROVE WarpAsAsked'
    BY <1>3, <1>11 DEF Forward
  <1>12. ASSUME NEW ip, ExitDecides(ip) PROVE WarpAsAsked'
    <2>1. /\ WarpAt(RegionOf(pos.node), pos'.tag)
          /\ pos'.node = pos.node /\ pos'.warp = pos.warp
      BY <1>12, WarpDecided
    <2>2. topo' = topo /\ conn' = conn
      BY <1>12 DEF ExitDecides
    <2>3. RegionOf(pos.node)' = RegionOf(pos.node)
      BY <2>1, <2>2 DEF RegionOf
    <2>4. WarpAt(RegionOf(pos.node), pos.tag)'
      BY <2>1, <2>2, <2>3 DEF WarpAt, Routed, Known, ForResolver
    <2>5. QED
      BY <1>2, <2>4
  <1>13. ASSUME NEW ip, NEW p, PortalDecides(p, ip) PROVE WarpAsAsked'
    <2>1. ~AtExit'
      <3>1. pos'.node = pos.node /\ topo' = topo /\ pos.at = "portal"
        BY <1>4, <1>13 DEF PortalDecides
      <3>2. QED
        BY <3>1, Places DEF AtExit
    <2>2. QED
      BY <1>2, <2>1
  <1>14. ASSUME NEW p, Enter(p) PROVE WarpAsAsked'
    BY <1>3, <1>14 DEF Enter
  <1>15. CASE UNCHANGED vars
    BY <1>15 DEF vars, WarpAsAsked, AtExit, RegionOf, Known, ForResolver
  <1>16. QED
    BY <1>5, <1>6, <1>7, <1>8, <1>9, <1>10, <1>11, <1>12, <1>13, <1>14, <1>15 DEF Next

\* On an exit, what came over a warp link leaves through warp, and nothing else
\* does, unless a route of the exit, a warp domain or the resolver says so.
THEOREM WarpIsAgreed == Spec => []WarpAsAsked
  <1>1. Init => WarpAsAsked
    BY DEF Init, WarpAsAsked, Idle
  <1>2. QED
    BY <1>1, TypeInvariant, WarpStep, PTL DEF Spec

-----------------------------------------------------------------------------
(* Who enters a portal, and for what.                                      *)

\* A connection by identity, as its client made it.
Named(c) ==
    /\ c.name \in topo.users
    /\ \/ c.who = "user" /\ c.email = UserEmail(topo, c.name)
       \/ c.who = "server" /\ c.email = ServerEmail(c.name)
       \/ c.who = "proxy" /\ c.email = <<c.name>>
       \/ c.who = "guest" /\ \E l \in topo.guests : c.email = GuestEmail(topo, l, c.name)
Dialable(c) ==
    /\ \/ c.dialed.domain \in Names /\ c.dialed.ip = ""
       \/ c.dialed.domain = "" /\ c.dialed.ip \in Addresses
    /\ c.dialed.domain # "" => c.sniffed \in {"", c.dialed.domain}

\* A connection to a port that a portal publishes on a hub.
PublishedTo(hub, p, e, c) ==
    /\ e \in OnHub(p, hub)
    /\ c.in = PublishTag(p.id, e.port)
    /\ c.dialed = e.target
    /\ c.sniffed = ""

\* An identity is a user's, or a guest's of a user, with the email that belongs
\* to it.
LEMMA IdentityIs ==
    ASSUME NEW i \in Identities(topo)
    PROVE  /\ i.name \in topo.users
           /\ \/ i.who = "user" /\ i.email = UserEmail(topo, i.name)
              \/ i.who = "server" /\ i.email = ServerEmail(i.name)
              \/ i.who = "proxy" /\ i.email = <<i.name>>
              \/ i.who = "guest" /\ \E l \in topo.guests : i.email = GuestEmail(topo, l, i.name)
  <1> DEFINE G(u) == {[who |-> "guest", name |-> u, email |-> GuestEmail(topo, l, u)] : l \in topo.guests}
             A(u) == [who |-> "user", name |-> u, email |-> UserEmail(topo, u)]
             B(u) == [who |-> "server", name |-> u, email |-> ServerEmail(u)]
             C(u) == [who |-> "proxy", name |-> u, email |-> <<u>>]
  <1>1. Identities(topo) = UNION {{A(u), B(u), C(u)} \cup G(u) : u \in topo.users}
    BY DEF Identities
  <1>2. PICK u \in topo.users : i = A(u) \/ i = B(u) \/ i = C(u) \/ i \in G(u)
    <2> HIDE DEF A, B, C, G
    <2>1. QED
      BY <1>1
  <1>3. CASE i = A(u)
    BY <1>3
  <1>4. CASE i = B(u)
    BY <1>4
  <1>5. CASE i = C(u)
    BY <1>5
  <1>6. CASE i \in G(u)
    <2>1. PICK l \in topo.guests :
              i = [who |-> "guest", name |-> u, email |-> GuestEmail(topo, l, u)]
      BY <1>6
    <2>2. i.who = "guest" /\ i.name = u /\ i.email = GuestEmail(topo, l, u)
      BY <2>1
    <2>3. QED
      BY <2>2
  <1>7. QED
    BY <1>2, <1>3, <1>4, <1>5, <1>6

\* A published port's inbound is not one that tells users apart.
LEMMA PublishNotUser ==
    ASSUME NEW id, IsSeq(id), NEW port
    PROVE  PublishTag(id, port) # UserInbound
  BY PublishTags

\* The connections of ByIdentity and of Openable, made of what they range over.
NamedConn(i, v, d, n) ==
    [in |-> UserInbound, who |-> i.who, name |-> i.name, email |-> i.email, source |-> Home,
     vroute |-> v, dialed |-> d, sniffed |-> n]
PublishedConn(pub, s) == [NoConn EXCEPT !.in = pub.tag, !.source = s, !.dialed = pub.target]
Sniffs(c) == c.dialed.domain # "" => c.sniffed \in {"", c.dialed.domain}

OpenedByName == {c \in ByIdentity(topo) : (c.who = "proxy" => c.vroute = NoRoute) /\ Sniffs(c)}
OpenedOnPort(hub) == {PublishedConn(pub, s) : pub \in ToSet(Published(topo, hub)), s \in Sources}

\* What may be opened on a hub: by name or on a port, element by element.
LEMMA OpenableSets == \A hub : Openable(topo, hub) = OpenedByName \cup OpenedOnPort(hub)
  BY DEF Openable, OpenedByName, OpenedOnPort, Sniffs, PublishedConn

LEMMA OpenableElements ==
    ASSUME NEW hub, NEW c \in Openable(topo, hub)
    PROVE  \/ /\ Sniffs(c)
              /\ \E i \in Identities(topo), v \in Asked(topo), d \in Destinations, n \in Names \cup {""} :
                    c = NamedConn(i, v, d, n)
           \/ \E pub \in ToSet(Published(topo, hub)), s \in Sources : c = PublishedConn(pub, s)
  <1> DEFINE N == Names \cup {""}
             A == {NamedConn(i, v, d, n) :
                      i \in Identities(topo), v \in Asked(topo), d \in Destinations, n \in N}
  <1>1. ByIdentity(topo) = A
    BY DEF ByIdentity, NamedConn
  <1>2. c \in OpenedByName \/ c \in OpenedOnPort(hub)
    BY OpenableSets
  <1>3. c \in OpenedByName => c \in A /\ Sniffs(c)
    <2> HIDE DEF A
    <2>1. QED
      BY <1>1 DEF OpenedByName
  <1>4. c \in A => \E i \in Identities(topo), v \in Asked(topo), d \in Destinations, n \in N :
                      c = NamedConn(i, v, d, n)
    <2> HIDE DEF N
    <2>1. QED
      BY SMT
  <1>5. c \in OpenedOnPort(hub) =>
            \E pub \in ToSet(Published(topo, hub)), s \in Sources : c = PublishedConn(pub, s)
    BY SMT DEF OpenedOnPort
  <1> HIDE DEF A
  <1>6. QED
    BY <1>2, <1>3, <1>4, <1>5

LEMMA OpenableIs ==
    ASSUME topo \in TopologyRecords, NEW hub, NEW c \in Openable(topo, hub)
    PROVE  \/ c.in = UserInbound /\ Named(c) /\ Dialable(c)
           \/ /\ c.in # UserInbound
              /\ \E p \in ToSet(topo.portals) : \E e : PublishedTo(hub, p, e, c)
  <1>1. ASSUME NEW i \in Identities(topo), NEW v \in Asked(topo), NEW d \in Destinations, NEW n,
               c = NamedConn(i, v, d, n), Sniffs(c)
        PROVE  c.in = UserInbound /\ Named(c) /\ Dialable(c)
    <2>1. /\ c.in = UserInbound /\ c.dialed = d
          /\ c.who = i.who /\ c.name = i.name /\ c.email = i.email
      BY <1>1 DEF NamedConn
    <2>2. Named(c)
      BY <2>1, IdentityIs DEF Named
    <2>3. \/ d.domain \in Names /\ d.ip = ""
          \/ d.domain = "" /\ d.ip \in Addresses
      BY DEF Destinations
    <2>4. Dialable(c)
      BY <1>1, <2>1, <2>3 DEF Dialable, Sniffs
    <2>5. QED
      BY <2>1, <2>2, <2>4
  <1>2. ASSUME NEW pub \in ToSet(Published(topo, hub)), NEW s, c = PublishedConn(pub, s)
        PROVE  c.in # UserInbound /\ \E p \in ToSet(topo.portals) : \E e : PublishedTo(hub, p, e, c)
    <2>1. c.in = pub.tag /\ c.dialed = pub.target /\ c.sniffed = ""
      BY <1>2 DEF NoConn, PublishedConn
    <2>2. PICK p \in ToSet(topo.portals) : \E e \in OnHub(p, hub) : pub = Pub(p, e)
      BY PublishedElements
    <2>3. PICK e \in OnHub(p, hub) : pub = Pub(p, e)
      BY <2>2
    <2>4. pub.tag = PublishTag(p.id, e.port) /\ pub.target = e.target
      BY <2>3 DEF Pub
    <2>5. IsSeq(p.id)
      BY Shapes
    <2>6. c.in # UserInbound
      BY <2>1, <2>4, <2>5, PublishNotUser
    <2>7. QED
      BY <2>1, <2>3, <2>4, <2>6 DEF PublishedTo
  <1>3. CASE /\ Sniffs(c)
             /\ \E i \in Identities(topo), v \in Asked(topo), d \in Destinations, n \in Names \cup {""} :
                   c = NamedConn(i, v, d, n)
    BY <1>1, <1>3
  <1>4. CASE \E pub \in ToSet(Published(topo, hub)), s \in Sources : c = PublishedConn(pub, s)
    BY <1>2, <1>4
  <1>5. QED
    BY <1>3, <1>4, OpenableElements

ConnInv == ByUser => Named(conn) /\ Dialable(conn)

\* Where nothing is open there is no user.
LEMMA NoUserIdle == NoConn.in # UserInbound
  <1>1. NoConn.in = <<>>
    BY DEF NoConn, NoId
  <1>2. QED
    BY <1>1 DEF UserInbound

\* Connections stay as they were opened.
LEMMA ConnStep == TypeInv /\ ConnInv /\ [Next]_vars => ConnInv'
  <1> SUFFICES ASSUME TypeInv, ConnInv, [Next]_vars PROVE ConnInv'
    OBVIOUS
  <1>1. ASSUME UNCHANGED <<topo, conn>> PROVE ConnInv'
    BY <1>1 DEF ConnInv, ByUser, Named, Dialable
  <1>2. ASSUME NEW hub \in HubNodes(topo), NEW c \in Openable(topo, hub), Connect(hub, c)
        PROVE  ConnInv'
    <2>1. c.in = UserInbound => Named(c) /\ Dialable(c)
      BY Topo, OpenableIs
    <2>2. conn' = c /\ topo' = topo
      BY <1>2 DEF Connect
    <2>3. QED
      BY <2>1, <2>2 DEF ConnInv, ByUser, Named, Dialable
  <1>3. CASE Close
    BY <1>3, NoUserIdle DEF Close, ConnInv, ByUser
  <1>4. QED
    BY <1>1, <1>2, <1>3
    DEF Next, HubDecides, EndAtHub, Drop, Balance, Forward, ExitDecides, PortalDecides, Enter, vars

\* Who is in a tunnel, or on a portal's machine, is there as a member and for
\* what the portal lists.
Entered ==
    ByUser =>
        \A p \in ToSet(topo.portals) :
            ((pos.at = "outbound" /\ pos.tag = PortalTag(p.id)) \/ pos.node = p.id)
                => ByMember(topo, p, HubView)

\* No portal's tag is one that other parts of the configuration derive.
LEMMA PortalTagsKept ==
    ASSUME NEW t \in TopologyRecords, Valid(t), NEW p \in ToSet(t.portals)
    PROVE  /\ PortalTag(p.id) \notin DerivedTags(t)
           /\ \A s \in Selectors(t) : ~IsPrefix(s, PortalTag(p.id))
           /\ Specials \subseteq DerivedTags(t)
  <1>1. p.id \in Ids(t.portals)
    BY PortalIds
  <1>2. Specials \subseteq DerivedTags(t)
    BY DEF DerivedTags
  <1>3. QED
    BY <1>1, <1>2 DEF Valid, PortalsValid, PortalNamesValid

\* Only the rules about portals name a tunnel.
LEMMA TunnelNamed ==
    ASSUME NEW t \in TopologyRecords, Valid(t), NEW hub, NEW c, NEW p \in ToSet(t.portals),
           NEW to, to = Decision(HubRules(t, hub), c),
           to.key # "balancerTag", to.tag = PortalTag(p.id)
    PROVE  ByMember(t, p, c) \/ \E e \in OnHub(p, hub) : c.in = PublishTag(p.id, e.port)
  <1>1. Plainly(t, to) \/ IntoTunnel(t, hub, c, to) \/ ToRegion(t, to) \/ ToNode(t, to)
    BY HubTarget
  <1>2. to.tag \notin DerivedTags(t) /\ Specials \subseteq DerivedTags(t)
    BY PortalTagsKept
  <1>3. ~Plainly(t, to)
    BY <1>2, OutboundFields DEF Plainly, Specials
  <1>4. ~ToRegion(t, to)
    <2> SUFFICES ASSUME ToRegion(t, to) PROVE FALSE
      OBVIOUS
    <2>1. PICK r \in ToSet(t.exits) :
              /\ r.nodes # <<>>
              /\ to = RegionTarget(r) \/ (r.warp # NoRoute /\ to = RegionWarpTarget(r))
      BY DEF ToRegion
    <2>2. PICK n \in ToSet(r.nodes) : to.tag = n.id \/ to.tag = WarpPrefix \o n.id
      BY <2>1, RegionTargetIs
    <2>3. QED
      BY <1>2, <2>2, TagsDerived
  <1>5. ~ToNode(t, to)
    <2> SUFFICES ASSUME ToNode(t, to) PROVE FALSE
      OBVIOUS
    <2>1. PICK route \in ToSet(t.routes) : route.dest \in ExitNodes(t) /\ to = Outbound(route.dest)
      BY DEF ToNode
    <2>2. PICK r \in ToSet(t.exits) : route.dest \in NodeIds(r)
      BY <2>1 DEF ExitNodes
    <2>3. PICK n \in ToSet(r.nodes) : n.id = route.dest
      BY <2>2, NodesOfRegion
    <2>4. QED
      BY <1>2, <2>1, <2>3, TagsDerived, OutboundFields
  <1>6. PICK q \in ToSet(t.portals) :
            /\ to = Outbound(PortalTag(q.id))
            /\ ByMember(t, q, c) \/ \E e \in OnHub(q, hub) : c.in = PublishTag(q.id, e.port)
    BY <1>1, <1>3, <1>4, <1>5 DEF IntoTunnel
  <1>7. PortalTag(q.id) = PortalTag(p.id)
    BY <1>6, OutboundFields
  <1>8. q.id = p.id
    BY <1>7, Shapes, PortalTags
  <1>9. q = p
    BY <1>8, DistinctPortals DEF Valid, PortalsValid
  <1>10. QED
    BY <1>6, <1>9

\* Selectors are the ids of regions, with and without warp.
LEMMA SelectorElements ==
    ASSUME NEW t, NEW id \in Ids(t.exits)
    PROVE  id \in Selectors(t) /\ WarpPrefix \o id \in Selectors(t)
  <1> DEFINE S(x) == {x, WarpPrefix \o x}
  <1>1. Selectors(t) = UNION {S(x) : x \in Ids(t.exits)}
    BY DEF Selectors
  <1>2. id \in S(id) /\ WarpPrefix \o id \in S(id)
    OBVIOUS
  <1> HIDE DEF S
  <1>3. S(id) \in {S(x) : x \in Ids(t.exits)}
    OBVIOUS
  <1>4. QED
    BY <1>1, <1>2, <1>3

\* No balancer picks a tunnel.
LEMMA TunnelNotBalanced ==
    ASSUME NEW t \in TopologyRecords, Valid(t), NEW p \in ToSet(t.portals),
           NEW b \in ToSet(Balancers(t))
    PROVE  b.fallback # PortalTag(p.id) /\ ~IsPrefix(b.selector, PortalTag(p.id))
  <1>1. PICK r \in ToSet(t.exits) :
            /\ Balanced(r)
            /\ \/ b = BalancerOf(r.id, FallbackTag(r))
               \/ b = BalancerOf(WarpPrefix \o r.id, WarpPrefix \o FallbackTag(r))
    BY BalancerElements
  <1>2. r.nodes # <<>>
    BY <1>1 DEF Balanced
  <1>3. r.fallback # NoId => r.fallback \in NodeIds(r)
    BY DEF Valid, ExitRegionsValid
  <1>4. PICK n \in ToSet(r.nodes) : FallbackTag(r) \in {n.id, LinkTag(n)}
    BY <1>2, <1>3, Shapes, FallbackIs
  <1>5. b.fallback \in {n.id, LinkTag(n), WarpPrefix \o n.id, WarpPrefix \o LinkTag(n)}
    <2>1. b.fallback = FallbackTag(r) \/ b.fallback = WarpPrefix \o FallbackTag(r)
      BY <1>1 DEF BalancerOf
    <2>2. CASE FallbackTag(r) = n.id
      BY <2>1, <2>2
    <2>3. CASE FallbackTag(r) = LinkTag(n)
      BY <2>1, <2>3
    <2>4. QED
      BY <1>4, <2>2, <2>3
  <1>6. b.selector = r.id \/ b.selector = WarpPrefix \o r.id
    BY <1>1 DEF BalancerOf
  <1>7. b.selector \in Selectors(t)
    <2>1. r.id \in Ids(t.exits)
      BY RegionIds
    <2>2. QED
      BY <1>6, <2>1, SelectorElements
  <1>8. QED
    BY <1>5, <1>7, TagsDerived, PortalTagsKept

\* The node and the tag of a step that leads into no portal.
LEMMA NotEntered ==
    ASSUME TypeInv, topo' = topo, pos'.at # "outbound",
           pos'.node \in HubNodes(topo) \cup ExitNodes(topo)
    PROVE  Entered'
  <1>1. \A p \in ToSet(topo.portals) : pos'.node # p.id
    <2>1. Ids(topo.portals) \cap (ExitNodes(topo) \cup HubNodes(topo)) = {}
      BY Topo DEF Valid, PortalsValid, PortalNamesValid
    <2>2. QED
      BY <2>1, PortalIds
  <1>2. QED
    BY <1>1 DEF Entered

\* Every step keeps Entered: a tunnel is entered by its members, or on its
\* ports.
LEMMA EnteredStep == TypeInv /\ Entered /\ [Next]_vars => Entered'
  <1> SUFFICES ASSUME TypeInv, Entered, [Next]_vars PROVE Entered'
    OBVIOUS
  <1>1. topo \in TopologyRecords /\ Valid(topo)
    BY Topo
  <1>2. IsPos
    BY DEF TypeInv
  <1>3. /\ pos.at \in {"hub", "balancer", "outbound", "dropped"} => pos.node \in HubNodes(topo)
        /\ pos.at = "exit" => pos.node \in ExitNodes(topo)
    BY DEF TypeInv, TypeOK, AtExit
  <1>4. ASSUME pos.node \in HubNodes(topo) PROVE \A p \in ToSet(topo.portals) : pos.node # p.id
    <2>1. Ids(topo.portals) \cap HubNodes(topo) = {}
      BY <1>1 DEF Valid, PortalsValid, PortalNamesValid
    <2>2. QED
      BY <1>4, <2>1, PortalIds
  <1>5. ASSUME NEW hub \in HubNodes(topo), NEW c, Connect(hub, c) PROVE Entered'
    <2>1. pos'.at = "hub" /\ pos'.node = hub /\ topo' = topo
      BY <1>5 DEF Connect, Idle
    <2>2. QED
      BY <2>1, NotEntered
  <1>6. CASE HubDecides
    <2>1. PICK to : /\ to = Decision(HubRules(topo, pos.node), HubView)
                    /\ pos' = [at |-> IF to.key = "balancerTag" THEN "balancer" ELSE "outbound",
                               node |-> pos.node, tag |-> to.tag, warp |-> pos.warp]
                    /\ pos.node \in HubNodes(topo)
      BY <1>6, HubStep
    <2>2. topo' = topo /\ conn' = conn
      BY <1>6 DEF HubDecides
    <2>3. /\ pos'.at = "outbound" => to.key # "balancerTag"
          /\ pos'.node = pos.node /\ pos'.tag = to.tag
      BY <2>1
    <2>4. ASSUME ByUser, NEW p \in ToSet(topo.portals), to.key # "balancerTag", to.tag = PortalTag(p.id)
          PROVE  ByMember(topo, p, HubView)
      <3>1. \/ ByMember(topo, p, HubView)
            \/ \E e \in OnHub(p, pos.node) : HubView.in = PublishTag(p.id, e.port)
        BY <1>1, <2>1, <2>4, TunnelNamed
      <3>2. HubView.in = UserInbound
        BY <2>4 DEF HubView, ByUser
      <3>3. IsSeq(p.id)
        BY <1>1, Shapes
      <3>4. QED
        BY <3>1, <3>2, <3>3, PublishNotUser
    <2>5. ByUser' = ByUser /\ HubView' = HubView
      BY <2>2 DEF ByUser, HubView, Known
    <2>6. QED
      BY <1>4, <2>1, <2>2, <2>3, <2>4, <2>5 DEF Entered
  <1>7. CASE EndAtHub
    <2>1. topo' = topo /\ pos'.at = "end" /\ pos'.node = pos.node /\ pos.at = "outbound"
      BY <1>2, <1>7 DEF EndAtHub, IsPos
    <2>2. QED
      BY <1>3, <2>1, NotEntered
  <1>8. CASE Drop
    <2>1. topo' = topo /\ pos'.at = "dropped" /\ pos'.node = pos.node /\ pos.at = "outbound"
      BY <1>2, <1>8 DEF Drop, IsPos
    <2>2. QED
      BY <1>3, <2>1, NotEntered
  <1>9. CASE Close
    BY <1>9, NoUserIdle DEF Close, Entered, ByUser
  <1>10. ASSUME NEW tag, Balance(tag) PROVE Entered'
    <2>1. /\ topo' = topo /\ conn' = conn /\ pos.at = "balancer"
          /\ pos'.tag = tag /\ pos'.node = pos.node
      BY <1>2, <1>10 DEF Balance, IsPos
    <2>2. PICK b \in ToSet(Balancers(topo)) : tag = b.fallback \/ IsPrefix(b.selector, tag)
      BY <1>10 DEF Balance
    <2>3. \A p \in ToSet(topo.portals) : tag # PortalTag(p.id)
      BY <1>1, <2>2, TunnelNotBalanced
    <2>4. QED
      BY <1>3, <1>4, <2>1, <2>3 DEF Entered
  <1>11. ASSUME NEW link \in Links(topo), Forward(link) PROVE Entered'
    <2>1. PICK r \in ToSet(topo.exits) : \E n \in ToSet(r.nodes) : link.node = n.id
      BY LinkElements
    <2>2. link.node \in ExitNodes(topo)
      BY <1>1, <2>1, TagsDerived
    <2>3. topo' = topo /\ pos'.at = "exit" /\ pos'.node = link.node
      BY <1>11 DEF Forward
    <2>4. QED
      BY <2>2, <2>3, NotEntered
  <1>12. ASSUME NEW ip, ExitDecides(ip) PROVE Entered'
    <2>1. topo' = topo /\ pos'.at = "end" /\ pos'.node = pos.node /\ pos.at = "exit"
      <3>1. pos.at = "exit" /\ topo' = topo
        BY <1>12 DEF ExitDecides
      <3>2. \E x : pos' = [pos EXCEPT !.at = "end", !.tag = x]
        BY <1>12 DEF ExitDecides
      <3>3. QED
        BY <1>2, <3>1, <3>2 DEF IsPos
    <2>2. QED
      BY <1>3, <2>1, NotEntered
  <1>13. ASSUME NEW ip, NEW p, PortalDecides(p, ip) PROVE Entered'
    <2>1. topo' = topo /\ conn' = conn /\ pos'.at = "end" /\ pos'.node = pos.node
      <3>1. topo' = topo /\ conn' = conn
        BY <1>13 DEF PortalDecides
      <3>2. \E x : pos' = [pos EXCEPT !.at = "end", !.tag = x]
        BY <1>13 DEF PortalDecides
      <3>3. QED
        BY <1>2, <3>1, <3>2 DEF IsPos
    <2>2. ByUser' = ByUser /\ HubView' = HubView
      BY <2>1 DEF ByUser, HubView, Known
    <2>3. QED
      BY <2>1, <2>2 DEF Entered
  <1>14. ASSUME NEW q \in ToSet(topo.portals), Enter(q) PROVE Entered'
    <2>1. /\ topo' = topo /\ conn' = conn /\ pos'.at = "portal" /\ pos'.node = q.id
          /\ pos.at = "outbound" /\ pos.tag = PortalTag(q.id)
      BY <1>14 DEF Enter
    <2>2. ByUser => ByMember(topo, q, HubView)
      BY <2>1 DEF Entered
    <2>3. \A p \in ToSet(topo.portals) : p.id = q.id => p = q
      BY <1>1, DistinctPortals DEF Valid, PortalsValid
    <2>4. ByUser' = ByUser /\ HubView' = HubView
      BY <2>1 DEF ByUser, HubView, Known
    <2>5. QED
      BY <2>1, <2>2, <2>3, <2>4 DEF Entered
  <1>15. CASE UNCHANGED vars
    BY <1>15 DEF vars, Entered, ByUser, HubView, Known
  <1>16. QED
    BY <1>5, <1>6, <1>7, <1>8, <1>9, <1>10, <1>11, <1>12, <1>13, <1>14, <1>15 DEF Next

\* So it always holds.
LEMMA EnteredInvariant == Spec => [](TypeInv /\ ConnInv /\ Entered)
  <1>1. Init => ConnInv /\ Entered
    BY NoUserIdle DEF Init, ConnInv, Entered, ByUser
  <1>2. QED
    BY <1>1, TypeInvariant, ConnStep, EnteredStep, PTL DEF Spec

\* Whoever has a member's email is that member, if the namespace is no username.
LEMMA OnlyMembers ==
    ASSUME NEW c, Named(c), NamespaceApart(topo), NEW u \in topo.users, c.email = UserEmail(topo, u)
    PROVE  c.who = "user" /\ c.name = u
  <1>1. c.email = <<u, topo.ns>> /\ topo.ns \notin topo.users /\ c.name \in topo.users
    BY DEF UserEmail, NamespaceApart, Named
  <1>2. CASE c.who = "user" /\ c.email = UserEmail(topo, c.name)
    BY <1>1, <1>2 DEF UserEmail
  <1>3. CASE c.email = ServerEmail(c.name)
    <2>1. c.email[2] = c.name
      BY <1>3 DEF ServerEmail
    <2>2. QED
      BY <1>1, <2>1
  <1>4. CASE c.email = <<c.name>>
    BY <1>1, <1>4
  <1>5. CASE \E l \in topo.guests : c.email = GuestEmail(topo, l, c.name)
    <2>1. c.email[2] = c.name
      BY <1>5 DEF GuestEmail
    <2>2. QED
      BY <1>1, <2>1
  <1>6. QED
    BY <1>2, <1>3, <1>4, <1>5 DEF Named

\* Apart from published ports, only a member's own identity enters a portal, if
\* the namespace is nobody's username.
THEOREM MembersEnter ==
    ASSUME \A t \in Topologies : NamespaceApart(t)
    PROVE  Spec => []MembersOnly
  <1>1. TypeInv /\ ConnInv /\ Entered => MembersOnly
    <2> SUFFICES ASSUME TypeInv, ConnInv, Entered, AtPortal, ByUser
                 PROVE  /\ conn.who = "user"
                        /\ \A p \in ToSet(topo.portals) : p.id = pos.node => conn.name \in p.users
      BY DEF MembersOnly
    <2>1. NamespaceApart(topo) /\ PortalsValid(topo)
      BY Topo DEF TypeInv, TypeOK, Valid
    <2>2. ASSUME NEW p \in ToSet(topo.portals), p.id = pos.node
          PROVE  conn.who = "user" /\ conn.name \in p.users
      <3>1. ByMember(topo, p, HubView)
        BY <2>2 DEF Entered
      <3>2. HubView.user = conn.email
        BY DEF HubView
      <3>3. PICK u \in p.users : conn.email = UserEmail(topo, u)
        BY <3>1, <3>2 DEF ByMember
      <3>4. u \in topo.users
        BY <2>1 DEF PortalsValid
      <3>5. QED
        BY <2>1, <3>3, <3>4, OnlyMembers DEF ConnInv
    <2>3. QED
      BY <2>2, PortalIds DEF AtPortal
  <1>2. QED
    BY <1>1, EnteredInvariant, PTL

\* What the portal's rules say of a connection that its members' rules sent in.
LEMMA TunnelChoice ==
    ASSUME TypeInv, NEW p \in ToSet(topo.portals), NEW ip, ByMember(topo, p, HubView), Dialable(conn),
           NEW to, to = Decision(PortalRules(p), PortalView(p.id, ip)), to.tag = Blocked
    PROVE  conn.sniffed # "" /\ conn.dialed.ip # "" /\ conn.dialed.ip \notin p.ips
  <1> DEFINE c == PortalView(p.id, ip)
  <1>1. p \in PortalRecords
    BY Topo, Shapes
  <1>2. "" \notin p.domains /\ "" \notin p.ips
    BY <1>1 DEF PortalRecords, Matcher, Name
  <1>3. /\ c.in = PortalTag(p.id) /\ c.domain = conn.dialed.domain
        /\ conn.dialed.domain = "" => c.ip = conn.dialed.ip
    BY DEF PortalView
  <1>4. Known(conn) \in p.domains \/ conn.dialed.ip \in p.ips
    BY DEF ByMember, HubView
  <1>5. ~Dialed(p, c)
    <2> HIDE DEF c
    <2>1. to = Outbound(IF Dialed(p, c) THEN Direct ELSE Blocked)
      BY <1>1, <1>3, TunnelDecision DEF c
    <2>2. QED
      BY <2>1, OutboundFields, SpecialsDiffer
  <1>6. c.domain \notin p.domains /\ c.ip \notin p.ips
    BY <1>5 DEF Dialed
  <1> HIDE DEF c
  <1>7. CASE conn.dialed.domain \in Names /\ conn.dialed.ip = ""
    <2>1. conn.dialed.domain # ""
      BY <1>7, DestinationsNamed DEF Name
    <2>2. Known(conn) = conn.dialed.domain
      BY <2>1 DEF Dialable, Known
    <2>3. QED
      BY <1>2, <1>3, <1>4, <1>6, <1>7, <2>2
  <1>8. CASE conn.dialed.domain = "" /\ conn.dialed.ip \in Addresses
    <2>1. conn.dialed.ip # "" /\ conn.dialed.ip \notin p.ips
      BY <1>3, <1>6, <1>8, DestinationsNamed DEF Name
    <2>2. Known(conn) # ""
      BY <1>2, <1>4, <2>1
    <2>3. conn.sniffed # ""
      BY <1>8, <2>2 DEF Known
    <2>4. QED
      BY <2>1, <2>3
  <1>9. QED
    BY <1>7, <1>8 DEF Dialable

\* Every step keeps TunnelAgrees: what the hub let into the tunnel the portal
\* lets out.
LEMMA AgreesStep == TypeInv /\ ConnInv /\ Entered /\ TunnelAgrees /\ [Next]_vars => TunnelAgrees'
  <1> SUFFICES ASSUME TypeInv, ConnInv, Entered, TunnelAgrees, [Next]_vars PROVE TunnelAgrees'
    OBVIOUS
  <1>1. IsPos
    BY DEF TypeInv
  <1>2. pos'.at # "end" => TunnelAgrees'
    BY DEF TunnelAgrees, Ended
  <1>3. ASSUME NEW hub, NEW c, Connect(hub, c) PROVE TunnelAgrees'
    BY <1>2, <1>3 DEF Connect, Idle
  <1>4. CASE HubDecides
    BY <1>2, <1>4, HubStep
  <1>5. CASE EndAtHub
    <2>1. pos'.node = pos.node /\ topo' = topo /\ pos.at = "outbound"
      BY <1>1, <1>5 DEF EndAtHub, IsPos
    <2>2. QED
      BY <2>1, Places DEF TunnelAgrees, AtPortal
  <1>6. CASE Drop
    BY <1>1, <1>2, <1>6 DEF Drop, IsPos
  <1>7. CASE Close
    BY <1>2, <1>7 DEF Close, Idle
  <1>8. ASSUME NEW tag, Balance(tag) PROVE TunnelAgrees'
    BY <1>1, <1>2, <1>8 DEF Balance, IsPos
  <1>9. ASSUME NEW link, Forward(link) PROVE TunnelAgrees'
    BY <1>2, <1>9 DEF Forward
  <1>10. ASSUME NEW ip, ExitDecides(ip) PROVE TunnelAgrees'
    <2>1. pos.at = "exit" /\ topo' = topo
      BY <1>10 DEF ExitDecides
    <2>2. \E x : pos' = [pos EXCEPT !.at = "end", !.tag = x]
      BY <1>10 DEF ExitDecides
    <2>3. pos'.node = pos.node
      BY <1>1, <2>2 DEF IsPos
    <2>4. QED
      BY <2>1, <2>3, Places DEF TunnelAgrees, AtPortal
  <1>11. ASSUME NEW ip, NEW p \in ToSet(topo.portals), PortalDecides(p, ip) PROVE TunnelAgrees'
    <2> DEFINE to == Decision(PortalRules(p), PortalView(p.id, ip))
    <2>1. /\ p.id = pos.node /\ topo' = topo /\ conn' = conn
          /\ pos' = [pos EXCEPT !.at = "end", !.tag = to.tag]
      BY <1>11 DEF PortalDecides
    <2> HIDE DEF to
    <2>2. pos'.node = pos.node /\ pos'.tag = to.tag
      BY <1>1, <2>1 DEF IsPos
    <2>3. ASSUME ByUser, to.tag = Blocked
          PROVE  conn.sniffed # "" /\ conn.dialed.ip # "" /\ conn.dialed.ip \notin p.ips
      <3>1. ByMember(topo, p, HubView) /\ Dialable(conn)
        BY <2>1, <2>3 DEF Entered, ConnInv
      <3>2. QED
        BY <2>3, <3>1, TunnelChoice DEF to
    <2>4. \A q \in ToSet(topo.portals) : q.id = pos'.node => q = p
      BY <2>1, <2>2, Topo, DistinctPortals DEF Valid, PortalsValid
    <2>5. QED
      BY <2>1, <2>2, <2>3, <2>4 DEF TunnelAgrees, ByUser, Ended
  <1>12. ASSUME NEW p, Enter(p) PROVE TunnelAgrees'
    BY <1>2, <1>12 DEF Enter
  <1>13. CASE UNCHANGED vars
    BY <1>13 DEF vars, TunnelAgrees, AtPortal, ByUser, Ended
  <1>14. QED
    BY <1>3, <1>4, <1>5, <1>6, <1>7, <1>8, <1>9, <1>10, <1>11, <1>12, <1>13 DEF Next

\* What the hub sends a member's traffic into the tunnel for, the portal dials,
\* but for an address dialed under a sniffed name.
THEOREM TunnelsAgree == Spec => []TunnelAgrees
  <1>1. Init => TunnelAgrees
    BY NoUserIdle DEF Init, TunnelAgrees, ByUser
  <1>2. QED
    BY <1>1, EnteredInvariant, AgreesStep, PTL DEF Spec

-----------------------------------------------------------------------------
(* Where a connection to a published port goes.                            *)

Allowed(e) == e.allow = {} \/ conn.source \in e.allow
DialsTarget(p) == \E f \in ToSet(p.publish) : conn.dialed = f.target
Steered(p, e) ==
    /\ conn.in = PublishTag(p.id, e.port)
    /\ pos.at \notin {"balancer", "exit"}
    /\ pos.at = "hub" => e \in OnHub(p, pos.node)
    /\ pos.at = "outbound" => pos.tag = IF Allowed(e) THEN PortalTag(p.id) ELSE Blocked
    /\ pos.at = "dropped" => Allowed(e) /\ pos.tag = PortalTag(p.id)
    /\ pos.at = "portal" => Allowed(e) /\ pos.node = p.id
    /\ (pos.at = "end" /\ Allowed(e)) => pos.node = p.id /\ pos.tag = Direct
    /\ (pos.at = "end" /\ ~Allowed(e)) => pos.node \in HubNodes(topo) /\ pos.tag = Blocked
\* Strengthens PublishedStaysPut to the steps before the end.
OnPort ==
    (~ByUser /\ pos.at # "idle") =>
        \E p \in ToSet(topo.portals) : DialsTarget(p) /\ \E e \in ToSet(p.publish) : Steered(p, e)

\* The hub's rule for a published port is the one of a portal that publishes it.
LEMMA PublishedChoice ==
    ASSUME NEW t \in TopologyRecords, PortalNamesValid(t), NEW hub, NEW c,
           NEW p \in ToSet(t.portals), NEW e \in OnHub(p, hub), c.in = PublishTag(p.id, e.port),
           NEW to, to = Decision(HubRules(t, hub), c)
    PROVE  \E x \in OnHub(p, hub) :
               /\ c.in = PublishTag(p.id, x.port)
               /\ to = Outbound(IF x.allow = {} \/ c.source \in x.allow THEN PortalTag(p.id) ELSE Blocked)
  <1>1. Pub(p, e) \in ToSet(Published(t, hub))
    BY PublishedElements
  <1>2. Pub(p, e).tag = c.in
    BY DEF Pub
  <1>3. Decides(PublishRules(t, hub), c)
    BY <1>1, <1>2, PublishDecision
  <1>4. PICK pub \in ToSet(Published(t, hub)) : c.in = pub.tag /\ to = PublishTarget(pub, c.source)
    BY <1>3, PublishDecision, HubDecision
  <1>5. PICK q \in ToSet(t.portals) : \E x \in OnHub(q, hub) : pub = Pub(q, x)
    BY PublishedElements
  <1>6. PICK x \in OnHub(q, hub) : pub = Pub(q, x)
    BY <1>5
  <1>7. pub.tag = PublishTag(q.id, x.port) /\ pub.portal = q.id /\ pub.allow = x.allow
    BY <1>6 DEF Pub
  <1>8. q.id = p.id
    <2>1. PublishTag(q.id, x.port) = PublishTag(p.id, e.port)
      BY <1>4, <1>7
    <2>2. IsSeq(q.id) /\ IsSeq(p.id)
      BY Shapes
    <2>3. QED
      BY <2>1, <2>2, PublishTags
  <1>9. q = p
    BY <1>8, DistinctPortals
  <1>10. QED
    BY <1>4, <1>6, <1>7, <1>9 DEF PublishTarget

\* A portal dials what it publishes.
LEMMA TargetDialed ==
    ASSUME TypeInv, NEW p \in ToSet(topo.portals), DialsTarget(p), NEW ip,
           NEW to, to = Decision(PortalRules(p), PortalView(p.id, ip))
    PROVE  to.tag = Direct
  <1> DEFINE c == PortalView(p.id, ip)
  <1>1. p \in PortalRecords /\ ToSet(p.publish) \subseteq PublishRecords
    BY Topo, Shapes
  <1>2. PICK f \in ToSet(p.publish) : conn.dialed = f.target
    BY DEF DialsTarget
  <1>3. f.target \in TargetRecords
    BY <1>1 DEF PublishRecords
  <1>4. f.target.ip # "" => f.target.domain = ""
    BY <1>3 DEF TargetRecords, Name
  <1>5. /\ c.in = PortalTag(p.id) /\ c.domain = f.target.domain /\ c.port = f.target.port
        /\ f.target.domain = "" => c.ip = f.target.ip
    BY <1>2 DEF PortalView
  <1> HIDE DEF c
  <1>6. OfTarget(f, c)
    BY <1>4, <1>5 DEF OfTarget
  <1>7. Dialed(p, c)
    BY <1>6 DEF Dialed
  <1>8. to = Outbound(IF Dialed(p, c) THEN Direct ELSE Blocked)
    BY <1>1, <1>5, TunnelDecision DEF c
  <1>9. QED
    BY <1>7, <1>8, OutboundFields

\* Every step keeps OnPort.
LEMMA OnPortStep ==
    ASSUME \A t \in Topologies : NoSpecialLink(t)
    PROVE  TypeInv /\ OnPort /\ [Next]_vars => OnPort'
  <1> SUFFICES ASSUME TypeInv, OnPort, [Next]_vars, ~ByUser', pos'.at # "idle" PROVE OnPort'
    BY DEF OnPort
  <1>1. topo \in TopologyRecords /\ Valid(topo) /\ PortalNamesValid(topo) /\ NoSpecialLink(topo)
    BY Topo DEF Valid, PortalsValid, TypeInv, TypeOK
  <1>2. IsPos
    BY DEF TypeInv
  <1>3. pos.at \in {"hub", "balancer", "outbound", "dropped"} => pos.node \in HubNodes(topo)
    BY DEF TypeInv, TypeOK
  <1>4. \A p \in ToSet(topo.portals) : PortalTag(p.id) \notin Specials
    BY <1>1, PortalTagsKept
  <1>5. ASSUME NEW hub, NEW c \in Openable(topo, hub), Connect(hub, c) PROVE OnPort'
    <2>1. /\ topo' = topo /\ conn' = c /\ pos'.at = "hub" /\ pos'.node = hub
      BY <1>5 DEF Connect, Idle
    <2>2. c.in # UserInbound
      BY <2>1 DEF ByUser
    <2>0. PICK p \in ToSet(topo.portals) : \E e : PublishedTo(hub, p, e, c)
      BY <1>1, <2>2, OpenableIs
    <2>3. PICK e : PublishedTo(hub, p, e, c)
      BY <2>0
    <2>4. e \in OnHub(p, hub) /\ e \in ToSet(p.publish)
      BY <2>3 DEF PublishedTo, OnHub
    <2>5. DialsTarget(p)' /\ Steered(p, e)'
      BY <2>1, <2>3, <2>4 DEF PublishedTo, DialsTarget, Steered
    <2>6. QED
      BY <2>1, <2>4, <2>5 DEF OnPort
  <1>6. CASE Close
    BY <1>6 DEF Close, Idle
  <1>7. CASE UNCHANGED vars
    BY <1>7 DEF vars, OnPort, ByUser, DialsTarget, Steered, Allowed
  <1>8. ASSUME topo' = topo, conn' = conn, pos.at # "idle"
        PROVE  \E p \in ToSet(topo.portals) :
                   /\ DialsTarget(p) /\ DialsTarget(p)'
                   /\ \E e \in ToSet(p.publish) :
                         /\ Steered(p, e)
                         /\ Steered(p, e)' => OnPort'
    BY <1>8 DEF OnPort, ByUser, DialsTarget
  <1>9. \A e : conn' = conn => (Allowed(e)' <=> Allowed(e))
    BY DEF Allowed
  <1>10. CASE HubDecides
    <2>1. topo' = topo /\ conn' = conn /\ pos.at = "hub"
      BY <1>10 DEF HubDecides
    <2>2. PICK p \in ToSet(topo.portals) :
              /\ DialsTarget(p) /\ DialsTarget(p)'
              /\ \E e \in ToSet(p.publish) : Steered(p, e)
      BY <1>8, <2>1
    <2>3. PICK e \in ToSet(p.publish) : Steered(p, e)
      BY <2>2
    <2>4. e \in OnHub(p, pos.node) /\ HubView.in = PublishTag(p.id, e.port) /\ HubView.source = conn.source
      BY <2>1, <2>3 DEF Steered, HubView
    <2>5. PICK to : /\ to = Decision(HubRules(topo, pos.node), HubView)
                    /\ pos' = [at |-> IF to.key = "balancerTag" THEN "balancer" ELSE "outbound",
                               node |-> pos.node, tag |-> to.tag, warp |-> pos.warp]
      BY <1>10, HubStep
    <2>6. PICK x \in OnHub(p, pos.node) :
              /\ HubView.in = PublishTag(p.id, x.port)
              /\ to = Outbound(IF x.allow = {} \/ HubView.source \in x.allow
                               THEN PortalTag(p.id) ELSE Blocked)
      BY <1>1, <2>4, <2>5, PublishedChoice
    <2>7. to = Outbound(IF Allowed(x) THEN PortalTag(p.id) ELSE Blocked)
      BY <2>4, <2>6 DEF Allowed
    <2>8. pos'.at = "outbound" /\ pos'.tag = IF Allowed(x) THEN PortalTag(p.id) ELSE Blocked
      BY <2>5, <2>7, OutboundFields
    <2>9. x \in ToSet(p.publish) /\ conn.in = PublishTag(p.id, x.port)
      BY <2>6 DEF OnHub, HubView
    <2>10. Steered(p, x)'
      BY <1>9, <2>1, <2>8, <2>9 DEF Steered
    <2>11. QED
      BY <2>1, <2>2, <2>9, <2>10 DEF OnPort
  <1>11. CASE EndAtHub
    <2>1. /\ topo' = topo /\ conn' = conn /\ pos.at = "outbound" /\ pos.tag \in Specials
          /\ pos'.at = "end" /\ pos'.tag = pos.tag /\ pos'.node = pos.node
      BY <1>2, <1>11 DEF EndAtHub, IsPos
    <2>2. PICK p \in ToSet(topo.portals) : \E e \in ToSet(p.publish) :
              Steered(p, e) /\ (Steered(p, e)' => OnPort')
      BY <1>8, <2>1
    <2>3. PICK e \in ToSet(p.publish) : Steered(p, e) /\ (Steered(p, e)' => OnPort')
      BY <2>2
    <2>4. ~Allowed(e) /\ pos.tag = Blocked
      BY <1>4, <2>1, <2>3 DEF Steered
    <2>5. Steered(p, e)'
      BY <1>3, <1>9, <2>1, <2>3, <2>4 DEF Steered
    <2>6. QED
      BY <2>3, <2>5
  <1>12. CASE Drop
    <2>1. /\ topo' = topo /\ conn' = conn /\ pos.at = "outbound" /\ pos.tag \notin Specials
          /\ pos'.at = "dropped" /\ pos'.tag = pos.tag /\ pos'.node = pos.node
      BY <1>2, <1>12 DEF Drop, IsPos
    <2>2. PICK p \in ToSet(topo.portals) : \E e \in ToSet(p.publish) :
              Steered(p, e) /\ (Steered(p, e)' => OnPort')
      BY <1>8, <2>1
    <2>3. PICK e \in ToSet(p.publish) : Steered(p, e) /\ (Steered(p, e)' => OnPort')
      BY <2>2
    <2>4. Allowed(e) /\ pos.tag = PortalTag(p.id)
      BY <2>1, <2>3 DEF Steered, Specials
    <2>5. Steered(p, e)'
      BY <1>9, <2>1, <2>3, <2>4 DEF Steered
    <2>6. QED
      BY <2>3, <2>5
  <1>13. ASSUME NEW tag, Balance(tag) PROVE OnPort'
    <2>1. topo' = topo /\ conn' = conn /\ pos.at = "balancer"
      BY <1>13 DEF Balance
    <2>2. QED
      BY <1>8, <2>1 DEF Steered
  <1>14. ASSUME NEW link \in Links(topo), Forward(link) PROVE OnPort'
    <2>1. topo' = topo /\ conn' = conn /\ pos.at = "outbound" /\ link.tag = pos.tag
      BY <1>14 DEF Forward
    <2>2. PICK p \in ToSet(topo.portals) : \E e \in ToSet(p.publish) : Steered(p, e)
      BY <1>8, <2>1
    <2>3. link.tag \notin Specials
      BY <1>1 DEF NoSpecialLink
    <2>4. link.tag = PortalTag(p.id)
      BY <2>1, <2>2, <2>3 DEF Steered, Specials
    <2>5. PICK r \in ToSet(topo.exits) : \E n \in ToSet(r.nodes) :
              link.tag = LinkTag(n) \/ link.tag = WarpPrefix \o LinkTag(n)
      BY LinkElements
    <2>6. link.tag \in DerivedTags(topo)
      BY <1>1, <2>5, TagsDerived
    <2>7. QED
      BY <1>1, <2>4, <2>6, PortalTagsKept
  <1>15. ASSUME NEW ip, ExitDecides(ip) PROVE OnPort'
    <2>1. topo' = topo /\ conn' = conn /\ pos.at = "exit"
      BY <1>15 DEF ExitDecides
    <2>2. QED
      BY <1>8, <2>1 DEF Steered
  <1>16. ASSUME NEW ip, NEW q \in ToSet(topo.portals), PortalDecides(q, ip) PROVE OnPort'
    <2> DEFINE to == Decision(PortalRules(q), PortalView(q.id, ip))
    <2>1. /\ q.id = pos.node /\ topo' = topo /\ conn' = conn /\ pos.at = "portal"
          /\ pos' = [pos EXCEPT !.at = "end", !.tag = to.tag]
      BY <1>16 DEF PortalDecides
    <2> HIDE DEF to
    <2>2. pos'.at = "end" /\ pos'.node = pos.node /\ pos'.tag = to.tag
      BY <1>2, <2>1 DEF IsPos
    <2>3. PICK p \in ToSet(topo.portals) :
              /\ DialsTarget(p)
              /\ \E e \in ToSet(p.publish) : Steered(p, e) /\ (Steered(p, e)' => OnPort')
      BY <1>8, <2>1
    <2>4. PICK e \in ToSet(p.publish) : Steered(p, e) /\ (Steered(p, e)' => OnPort')
      BY <2>3
    <2>5. Allowed(e) /\ pos.node = p.id
      BY <2>1, <2>4 DEF Steered
    <2>6. q = p
      BY <1>1, <2>1, <2>5, DistinctPortals
    <2>7. to.tag = Direct
      BY <2>3, <2>6, TargetDialed DEF to
    <2>8. Steered(p, e)'
      BY <1>9, <2>1, <2>2, <2>4, <2>5, <2>7 DEF Steered
    <2>9. QED
      BY <2>4, <2>8
  <1>17. ASSUME NEW q \in ToSet(topo.portals), Enter(q) PROVE OnPort'
    <2>1. /\ topo' = topo /\ conn' = conn /\ pos.at = "outbound" /\ pos.tag = PortalTag(q.id)
          /\ pos'.at = "portal" /\ pos'.node = q.id
      BY <1>17 DEF Enter
    <2>2. PICK p \in ToSet(topo.portals) : \E e \in ToSet(p.publish) :
              Steered(p, e) /\ (Steered(p, e)' => OnPort')
      BY <1>8, <2>1
    <2>3. PICK e \in ToSet(p.publish) : Steered(p, e) /\ (Steered(p, e)' => OnPort')
      BY <2>2
    <2>4. Allowed(e) /\ pos.tag = PortalTag(p.id)
      BY <1>4, <2>1, <2>3 DEF Steered, Specials
    <2>5. q.id = p.id
      <3>1. PortalTag(q.id) = PortalTag(p.id)
        BY <2>1, <2>4
      <3>2. IsSeq(q.id) /\ IsSeq(p.id)
        BY <1>1, Shapes
      <3>3. QED
        BY <3>1, <3>2, PortalTags
    <2>6. Steered(p, e)'
      BY <1>9, <2>1, <2>3, <2>4, <2>5 DEF Steered
    <2>7. QED
      BY <2>3, <2>6
  <1>18. QED
    BY <1>5, <1>6, <1>7, <1>10, <1>11, <1>12, <1>13, <1>14, <1>15, <1>16, <1>17 DEF Next

\* A connection to a published port is dialed by the portal's machine, or nowhere
\* if its source is not allowed, if no link is called like a special destination.
THEOREM PublishedPortsStayPut ==
    ASSUME \A t \in Topologies : NoSpecialLink(t)
    PROVE  Spec => []PublishedStaysPut
  <1>1. Init => OnPort
    BY DEF Init, OnPort, Idle
  <1>2. TypeInv /\ OnPort /\ [Next]_vars => OnPort'
    BY OnPortStep
  <1>3. TypeInv /\ OnPort => PublishedStaysPut
    <2> SUFFICES ASSUME TypeInv, OnPort, ~ByUser, pos.at \in {"end", "dropped"} PROVE PublishedStaysPut
      BY DEF PublishedStaysPut
    <2>1. PICK p \in ToSet(topo.portals) : \E e \in ToSet(p.publish) : Steered(p, e)
      BY DEF OnPort
    <2>2. PICK e \in ToSet(p.publish) : Steered(p, e)
      BY <2>1
    <2>3. HubNodes(topo) \cap Ids(topo.portals) = {}
      BY Topo DEF Valid, PortalsValid, PortalNamesValid
    <2>4. /\ conn.in = PublishTag(p.id, e.port)
          /\ IF e.allow = {} \/ conn.source \in e.allow
             THEN \/ pos.node = p.id /\ Ended(Direct)
                  \/ pos.at = "dropped" /\ pos.tag = PortalTag(p.id)
             ELSE ~AtPortal /\ Ended(Blocked)
      BY <2>2, <2>3 DEF Steered, Allowed, Ended, AtPortal
    <2>5. QED
      BY <2>4 DEF PublishedStaysPut
  <1>4. QED
    BY <1>1, <1>2, <1>3, TypeInvariant, PTL DEF Spec

-----------------------------------------------------------------------------
(* The order of hub_routes.                                                *)

\* The least element is the minimum.
LEMMA MinIs ==
    ASSUME NEW S, S \subseteq Nat, NEW i \in S, \A j \in S : i <= j
    PROVE  Min(S) = i
  <1>1. Min(S) \in S /\ \A j \in S : Min(S) <= j
    BY DEF Min
  <1>2. Min(S) \in Nat /\ i \in Nat /\ Min(S) <= i /\ i <= Min(S)
    BY <1>1
  <1>3. QED
    BY <1>2

EarlyHits ==
    {i \in Hits : /\ topo.routes[i].dest \in {Blocked}
                  /\ \/ Known(conn) \in topo.routes[i].domains
                     \/ topo.routes[i].domains \cup topo.routes[i].ips = {}}

\* What the hits are to the rules.
LEMMA HitsAre ==
    ASSUME TypeInv
    PROVE  /\ Hits \subseteq 1..Len(topo.routes)
           /\ \A i \in 1..Len(topo.routes) : i \in Hits <=> Accepts(topo, topo.routes[i], HubView)
           /\ EarlyHits = BlockedEarly(topo, HubView)
           /\ {i \in Hits : topo.routes[i].dest \in {Direct}} = AcceptedTo(topo, {Direct}, HubView)
           /\ {i \in Hits : topo.routes[i].dest \notin {Blocked, Direct}}
                  = AcceptedTo(topo, TunnelDests(topo), HubView)
  <1> DEFINE c == HubView
             routes == topo.routes
  <1>1. topo \in TopologyRecords /\ RoutingValid(topo)
    BY Topo DEF Valid
  <1>2. /\ DOMAIN routes = 1..Len(routes) /\ Len(routes) \in Nat
        /\ \A i \in 1..Len(routes) : routes[i] \in ToSet(routes)
    BY <1>1, Shapes, SeqFacts, Elements
  <1>3. c.user = conn.email /\ c.domain = Known(conn) /\ c.ip = conn.dialed.ip
    BY DEF HubView
  <1> HIDE DEF c
  <1>4. Hits \subseteq 1..Len(routes)
    BY <1>2 DEF Hits
  <1>5. ASSUME NEW i \in 1..Len(routes)
        PROVE  /\ i \in Hits <=> Accepts(topo, routes[i], c)
               /\ i \in EarlyHits <=> routes[i].dest \in {Blocked} /\ Early(topo, routes[i], c)
               /\ routes[i].dest \notin {Blocked, Direct} <=> routes[i].dest \in TunnelDests(topo)
    <2> DEFINE route == routes[i]
               users == RouteUsers(topo, route)
    <2>1. route \in ToSet(routes)
      BY <1>2
    <2>2. route.domains = {} /\ route.ips = {} => users # {}
      <3> SUFFICES ASSUME route.domains = {}, route.ips = {} PROVE users # {}
        OBVIOUS
      <3>1. \E u : u \in route.users \/ u \in route.proxyUsers
        BY <1>1, <2>1 DEF RoutingValid
      <3>2. QED
        BY <3>1 DEF RouteUsers
    <2>3. i \in Hits <=> /\ users = {} \/ c.user \in users
                         /\ \/ c.domain \in route.domains
                            \/ c.ip \in route.ips
                            \/ route.domains = {} /\ route.ips = {}
      BY <1>2, <1>3 DEF Hits
    <2>4. i \in Hits <=> Accepts(topo, route, c)
      <3> HIDE DEF route, users
      <3>1. QED
        BY <2>2, <2>3 DEF Accepts, ByDomain, ByIp, ByUserOnly, ForUser, users
    <2>5. i \in EarlyHits <=>
              /\ i \in Hits
              /\ route.dest \in {Blocked}
              /\ c.domain \in route.domains \/ (route.domains = {} /\ route.ips = {})
      BY <1>3 DEF EarlyHits
    <2>6. i \in EarlyHits <=> route.dest \in {Blocked} /\ Early(topo, route, c)
      <3> HIDE DEF route, users
      <3>1. QED
        BY <2>2, <2>3, <2>5 DEF Early, ByDomain, ByUserOnly, ForUser, users
    <2>7. route.dest \notin {Blocked, Direct} <=> route.dest \in TunnelDests(topo)
      BY <2>1 DEF TunnelDests
    <2>8. QED
      BY <2>4, <2>6, <2>7
  <1>6. EarlyHits \subseteq Hits
    BY DEF EarlyHits
  <1>7. EarlyHits = BlockedEarly(topo, c)
    BY <1>4, <1>5, <1>6 DEF BlockedEarly
  <1>8. {i \in Hits : routes[i].dest \in {Direct}} = AcceptedTo(topo, {Direct}, c)
    BY <1>4, <1>5 DEF AcceptedTo
  <1>9. {i \in Hits : routes[i].dest \notin {Blocked, Direct}} = AcceptedTo(topo, TunnelDests(topo), c)
    BY <1>4, <1>5 DEF AcceptedTo
  <1>10. QED
    BY <1>4, <1>5, <1>7, <1>8, <1>9 DEF c

\* Without portals, a connection that asks for no route is decided by hub_routes
\* or hub_default.
LEMMA RoutesDecide ==
    ASSUME TypeInv, ByRoutes
    PROVE  LET g == GroupedRoutes(topo)
               to == Decision(HubRules(topo, pos.node), HubView)
           IN  /\ ~Decides(PortalRoutes(topo), HubView)
               /\ Decides(g, HubView) => to = Decision(g, HubView)
               /\ ~Decides(g, HubView) => to = DestTarget(topo, topo.default)
  <1> DEFINE c == HubView
  <1>1. topo \in TopologyRecords /\ UniqueRoutes(topo) /\ topo.portals = <<>>
    BY Topo DEF Valid, ByRoutes
  <1>2. /\ c.ip = conn.dialed.ip /\ c.port = conn.dialed.port
        /\ c.vroute = conn.vroute
    BY DEF HubView
  <1>3. ~(c.ip \in topo.dns /\ c.port = DnsPort) /\ c.vroute = NoRoute
    BY <1>2 DEF ByRoutes, ForResolver
  <1> HIDE DEF c
  <1>4. ~Decides(PublishRules(topo, pos.node), c)
    <2>1. ToSet(topo.portals) = {}
      BY <1>1, EmptyIsSeq
    <2>2. ToSet(Published(topo, pos.node)) = {}
      BY <1>1, <2>1, PublishedElements
    <2>3. QED
      BY <1>1, <2>2, PublishDecision
  <1>5. ~Decides(VlessRules(topo), c)
    BY <1>1, <1>3, VlessDecision DEF UniqueRoutes
  <1>6. ~Decides(PortalRoutes(topo), c)
    BY <1>1, NoPortalRoutes
  <1>7. QED
    BY <1>1, <1>3, <1>4, <1>5, <1>6, HubDecision DEF c

Chosen(early, tunnels, direct) ==
    ChosenTag(IF early # {} THEN early
              ELSE IF tunnels # {} THEN tunnels
              ELSE IF direct # {} THEN direct
              ELSE Hits)

\* What a hub decides of a connection no earlier kind of rule takes.
LEMMA ChosenIs ==
    ASSUME TypeInv, ByRoutes
    PROVE  pos'.tag = Chosen(EarlyHits, {i \in Hits : topo.routes[i].dest \notin {Blocked, Direct}},
                             {i \in Hits : topo.routes[i].dest \in {Direct}})
  <1> DEFINE c == HubView
             g == GroupedRoutes(topo)
             to == Decision(HubRules(topo, pos.node), c)
             early == BlockedEarly(topo, c)
             tunnels == AcceptedTo(topo, TunnelDests(topo), c)
             direct == AcceptedTo(topo, {Direct}, c)
             late == BlockedLate(topo, c)
             tag(i) == DestTarget(topo, topo.routes[i].dest).tag
  <1>1. topo \in TopologyRecords
    BY Topo
  <1>2. pos'.tag = to.tag
    <2>1. pos' = [pos EXCEPT !.tag = to.tag,
                             !.at = IF to.key = "balancerTag" THEN "balancer" ELSE "outbound"]
      BY DEF ByRoutes, HubDecides
    <2> HIDE DEF to
    <2>2. QED
      BY <2>1 DEF TypeInv, IsPos
  <1>3. /\ ~Decides(PortalRoutes(topo), c)
        /\ Decides(g, c) => to = Decision(g, c)
        /\ ~Decides(g, c) => to = DestTarget(topo, topo.default)
    BY RoutesDecide
  <1> HIDE DEF to
  <1>4. /\ Decides(g, c) <=> (early # {} \/ tunnels # {} \/ direct # {} \/ late # {})
        /\ early # {} => to = Outbound(Blocked)
        /\ (early = {} /\ tunnels # {}) =>
              \E i \in tunnels : (\A j \in tunnels : i <= j) /\ to.tag = tag(i)
        /\ (early = {} /\ tunnels = {} /\ direct # {}) =>
              \E i \in direct : (\A j \in direct : i <= j) /\ to.tag = tag(i)
        /\ (early = {} /\ tunnels = {} /\ direct = {} /\ late # {}) => to = Outbound(Blocked)
    <2> HIDE DEF c, g
    <2>1. QED
      BY <1>1, <1>3, GroupedDecision DEF g
  <1>5. /\ Hits \subseteq 1..Len(topo.routes)
        /\ \A i \in 1..Len(topo.routes) : i \in Hits <=> Accepts(topo, topo.routes[i], c)
        /\ EarlyHits = early
        /\ {i \in Hits : topo.routes[i].dest \in {Direct}} = direct
        /\ {i \in Hits : topo.routes[i].dest \notin {Blocked, Direct}} = tunnels
    BY HitsAre
  <1>6. /\ early \subseteq Nat /\ tunnels \subseteq Nat /\ direct \subseteq Nat /\ Hits \subseteq Nat
    <2>1. \A i \in 1..Len(topo.routes) : i \in Nat
      BY <1>1, Shapes, SeqFacts
    <2>2. QED
      BY <1>5, <2>1 DEF BlockedEarly, AcceptedTo
  <1>7. \A i : topo.routes[i].dest = Blocked => tag(i) = Blocked
    BY OutboundFields DEF DestTarget, Specials
  <1>8. /\ \A i \in early : topo.routes[i].dest = Blocked
        /\ \A i \in late : i \in Hits
    <2>1. \A i \in early : topo.routes[i].dest = Blocked
      BY DEF BlockedEarly
    <2>2. \A i \in late : i \in 1..Len(topo.routes) /\ Accepts(topo, topo.routes[i], c)
      BY DEF BlockedLate, Accepts
    <2>3. QED
      BY <1>5, <2>1, <2>2
  <1>9. (tunnels = {} /\ direct = {}) => \A i \in Hits : topo.routes[i].dest = Blocked
    BY <1>5
  <1>10. (early = {} /\ tunnels = {} /\ direct = {}) => \A i \in Hits : i \in late
    <2> SUFFICES ASSUME early = {}, tunnels = {}, direct = {}, NEW i \in Hits PROVE i \in late
      OBVIOUS
    <2>1. topo.routes[i].dest = Blocked /\ i \in 1..Len(topo.routes)
      BY <1>5, <1>9
    <2>2. ~Early(topo, topo.routes[i], c)
      BY <2>1 DEF BlockedEarly
    <2>3. ByIp(topo, topo.routes[i], c)
      BY <1>5, <2>1, <2>2 DEF Accepts, Early
    <2>4. QED
      BY <2>1, <2>3 DEF BlockedLate
  <1>11. \A S : ChosenTag(S) = IF S = {} THEN DestTarget(topo, topo.default).tag ELSE tag(Min(S))
    BY DEF ChosenTag
  <1>12. \A S : (S \subseteq Nat /\ S # {}) => Min(S) \in S
    <2>1. ASSUME NEW S, S \subseteq Nat, S # {} PROVE Min(S) \in S
      <3>1. PICK x \in S : \A y \in S : x <= y
        BY <2>1, Least
      <3>2. QED
        BY <2>1, <3>1, MinIs
    <2>2. QED
      BY <2>1
  <1> HIDE DEF tag, c, g, early, tunnels, direct, late
  <1>13. CASE early # {}
    <2>1. ChosenTag(early) = Blocked
      BY <1>6, <1>7, <1>8, <1>11, <1>12, <1>13
    <2>2. to.tag = Blocked
      BY <1>4, <1>13, OutboundFields
    <2>3. QED
      BY <1>2, <1>5, <1>13, <2>1, <2>2 DEF Chosen
  <1>14. CASE early = {} /\ tunnels # {}
    <2>1. PICK i \in tunnels : (\A j \in tunnels : i <= j) /\ to.tag = tag(i)
      BY <1>4, <1>14
    <2>2. Min(tunnels) = i
      BY <1>6, <2>1, MinIs
    <2>3. QED
      BY <1>2, <1>5, <1>11, <1>14, <2>1, <2>2 DEF Chosen
  <1>15. CASE early = {} /\ tunnels = {} /\ direct # {}
    <2>1. PICK i \in direct : (\A j \in direct : i <= j) /\ to.tag = tag(i)
      BY <1>4, <1>15
    <2>2. Min(direct) = i
      BY <1>6, <2>1, MinIs
    <2>3. QED
      BY <1>2, <1>5, <1>11, <1>15, <2>1, <2>2 DEF Chosen
  <1>16. CASE early = {} /\ tunnels = {} /\ direct = {} /\ Hits # {}
    <2>1. to.tag = Blocked
      BY <1>4, <1>10, <1>16, OutboundFields
    <2>2. ChosenTag(Hits) = Blocked
      BY <1>6, <1>7, <1>9, <1>11, <1>12, <1>16
    <2>3. QED
      BY <1>2, <1>5, <1>16, <2>1, <2>2 DEF Chosen
  <1>17. CASE early = {} /\ tunnels = {} /\ direct = {} /\ Hits = {}
    <2>1. late = {}
      BY <1>8, <1>17
    <2>2. to = DestTarget(topo, topo.default)
      BY <1>3, <1>4, <1>17, <2>1
    <2>3. QED
      BY <1>2, <1>5, <1>11, <1>17, <2>2 DEF Chosen
  <1>18. QED
    BY <1>13, <1>14, <1>15, <1>16, <1>17

\* Every set of positions has a least one, which is in it.
LEMMA LeastOf == ASSUME NEW S, S \subseteq Nat, S # {} PROVE Min(S) \in S
  <1>1. PICK x \in S : \A y \in S : x <= y
    BY Least
  <1>2. QED
    BY <1>1, MinIs

\* Hits are positions.
LEMMA HitsNumbered == TypeInv => Hits \subseteq Nat
  <1> SUFFICES ASSUME TypeInv PROVE Hits \subseteq Nat
    OBVIOUS
  <1>1. topo \in TopologyRecords
    BY Topo
  <1>2. \A i \in 1..Len(topo.routes) : i \in Nat
    BY <1>1, Shapes, SeqFacts
  <1>3. Hits \subseteq 1..Len(topo.routes)
    BY HitsAre
  <1>4. QED
    BY <1>2, <1>3

\* The hits of a list of one kind are the early ones, the tunnels, the direct
\* ones, or blocked networks, all of them.
LEMMA OneKindChosen ==
    ASSUME TypeInv, OneKind(topo), ByRoutes
    PROVE  pos'.tag = ChosenTag(Hits)
  <1> DEFINE tunnels == {i \in Hits : topo.routes[i].dest \notin {Blocked, Direct}}
             direct == {i \in Hits : topo.routes[i].dest \in {Direct}}
  <1>1. pos'.tag = Chosen(EarlyHits, tunnels, direct)
    BY ChosenIs
  <1>2. PICK S \in {{Blocked}, {Direct}, TunnelDests(topo)} :
            \A route \in ToSet(topo.routes) : route.dest \in S
    BY DEF OneKind
  <1>3. \A i \in Hits : topo.routes[i].dest \in S
    BY <1>2 DEF Hits, ToSet
  <1>4. \A i \in EarlyHits : i \in Hits /\ topo.routes[i].dest = Blocked
    BY DEF EarlyHits
  <1>5. Blocked # Direct
    BY DEF Blocked, Direct
  <1>6. CASE S = TunnelDests(topo)
    <2>1. \A i \in Hits : topo.routes[i].dest \notin {Blocked, Direct}
      BY <1>3, <1>6 DEF TunnelDests
    <2>2. EarlyHits = {} /\ tunnels = Hits /\ direct = {}
      BY <1>4, <2>1
    <2>3. QED
      BY <1>1, <2>2 DEF Chosen
  <1>7. CASE S = {Direct}
    <2>1. EarlyHits = {} /\ tunnels = {} /\ direct = Hits
      BY <1>3, <1>4, <1>5, <1>7
    <2>2. QED
      BY <1>1, <2>1 DEF Chosen
  <1>8. CASE S = {Blocked}
    <2>1. tunnels = {} /\ direct = {}
      BY <1>3, <1>5, <1>8
    <2>2. \A s : (s \subseteq Hits /\ s # {}) => ChosenTag(s) = Blocked
      <3>1. Hits \subseteq Nat
        BY HitsNumbered
      <3>2. \A s : (s \subseteq Hits /\ s # {}) => Min(s) \in s
        BY <3>1, LeastOf
      <3>3. \A i \in Hits : DestTarget(topo, topo.routes[i].dest).tag = Blocked
        BY <1>3, <1>8, OutboundFields DEF DestTarget, Specials
      <3>4. QED
        BY <3>2, <3>3 DEF ChosenTag
    <2>3. EarlyHits \subseteq Hits
      BY <1>4
    <2>4. QED
      BY <1>1, <2>1, <2>2, <2>3 DEF Chosen
  <1>9. QED
    BY <1>2, <1>6, <1>7, <1>8

\* Where the entries of hub_routes are of one kind, the first that matches decides
\* (build_hub_routing_rules keeps the order of the file within a kind).
THEOREM FirstOfOneKind ==
    ASSUME \A t \in Topologies : OneKind(t)
    PROVE  Spec => FirstMatchWins
  <1>1. TypeInv /\ [Next]_vars => [ByRoutes => pos'.tag = ChosenTag(Hits)]_vars
    <2> SUFFICES ASSUME TypeInv, ByRoutes PROVE pos'.tag = ChosenTag(Hits)
      OBVIOUS
    <2>1. topo \in Topologies
      BY DEF TypeInv, TypeOK
    <2>2. QED
      BY <2>1, OneKindChosen
  <1>2. QED
    BY <1>1, TypeInvariant, PTL DEF Spec, FirstMatchWins

-----------------------------------------------------------------------------
(* The region a client asks for.                                           *)

Wants(r) ==
    /\ r.nodes # <<>> /\ ByUser /\ ~ForResolver
    /\ \/ conn.vroute \in {r.vroute, r.warp} \ {NoRoute}
       \/ /\ conn.vroute = NoRoute /\ topo.default = r.id
          /\ topo.routes = <<>> /\ topo.portals = <<>>
ByWarp(r) == conn.vroute = r.warp /\ r.warp # NoRoute
LinkOf(r, tag) == \E l \in Links(topo) : l.tag = tag /\ l.node \in NodeIds(r) /\ l.warp = ByWarp(r)
\* The id of the balancer that picks for those who ask for r.
BalancedBy(r) == IF ByWarp(r) THEN WarpPrefix \o r.id ELSE r.id
OnItsWay(r) ==
    /\ pos.at = "balancer" => Balanced(r) /\ pos.tag = LbPrefix \o BalancedBy(r)
    /\ pos.at = "outbound" => LinkOf(r, pos.tag)
    /\ pos.at \in {"exit", "end", "dropped"} => pos.node \in NodeIds(r) /\ pos.warp = ByWarp(r)
    /\ pos.at # "portal"
\* Strengthens RegionChosen to the steps before the exit.
Bound == \A r \in ToSet(topo.exits) : Wants(r) => OnItsWay(r)

\* What some theorems ask of the topologies.
Apart(t) == PrimariesNamed(t) /\ LinksApart(t) /\ SelectorsApart(t)

\* The vless rule that decides is the one of the region asked for.
LEMMA VlessUnique ==
    ASSUME NEW t \in TopologyRecords, UniqueRoutes(t), NEW r \in ToSet(t.exits), NEW q \in ToSet(t.exits),
           NEW v, v # NoRoute, v \in {r.vroute, r.warp}, v \in {q.vroute, q.warp}
    PROVE  q = r /\ (v = r.vroute <=> v # r.warp)
  <1>1. v \in {r.vroute, r.warp} \cap {q.vroute, q.warp}
    OBVIOUS
  <1>2. r = q
    BY <1>1 DEF UniqueRoutes
  <1>3. r.vroute # r.warp
    BY DEF UniqueRoutes
  <1>4. QED
    BY <1>2, <1>3

\* Without routes and portals nothing comes before hub_default.
LEMMA NothingGrouped ==
    ASSUME NEW t \in TopologyRecords, t.routes = <<>>, t.portals = <<>>, NEW c
    PROVE  ~Decides(GroupedRoutes(t), c)
  <1>1. Len(t.routes) = 0
    OBVIOUS
  <1>2. \A i : i \notin 1..Len(t.routes)
    BY <1>1
  <1>3. /\ BlockedEarly(t, c) = {} /\ BlockedLate(t, c) = {}
        /\ AcceptedTo(t, TunnelDests(t), c) = {} /\ AcceptedTo(t, {Direct}, c) = {}
    BY <1>2 DEF BlockedEarly, BlockedLate, AcceptedTo
  <1>4. ~Decides(PortalRoutes(t), c)
    BY NoPortalRoutes
  <1>5. QED
    BY <1>3, <1>4, GroupedDecision

\* A hub sends those who ask for a region to its target.
LEMMA WantedTarget ==
    ASSUME TypeInv, SelectorsApart(topo), NEW r \in ToSet(topo.exits), Wants(r), NEW hub
    PROVE  Decision(HubRules(topo, hub), HubView) = IF ByWarp(r) THEN RegionWarpTarget(r) ELSE RegionTarget(r)
  <1> DEFINE c == HubView
             to == Decision(HubRules(topo, hub), c)
  <1>1. topo \in TopologyRecords /\ UniqueRoutes(topo) /\ UniqueIds(topo) /\ RoutingValid(topo)
    BY Topo DEF Valid
  <1>2. /\ c.in = UserInbound /\ c.vroute = conn.vroute
        /\ ~(c.ip \in topo.dns /\ c.port = DnsPort)
    BY DEF HubView, Wants, ByUser, ForResolver
  <1> HIDE DEF c
  <1>3. ~Decides(PublishRules(topo, hub), c)
    <2> SUFFICES ASSUME NEW pub \in ToSet(Published(topo, hub)), c.in = pub.tag PROVE FALSE
      BY <1>1, PublishDecision
    <2>1. PICK p \in ToSet(topo.portals) : \E e \in OnHub(p, hub) : pub = Pub(p, e)
      BY <1>1, PublishedElements
    <2>2. PICK e \in OnHub(p, hub) : pub = Pub(p, e)
      BY <2>1
    <2>3. UserInbound = PublishTag(p.id, e.port)
      BY <1>2, <2>2 DEF Pub
    <2>4. IsSeq(p.id)
      BY <1>1, Shapes
    <2>5. QED
      BY <2>3, <2>4, PublishNotUser
  <1>4. CASE conn.vroute \in {r.vroute, r.warp} \ {NoRoute}
    <2>1. r.nodes # <<>>
      BY DEF Wants
    <2>2. Decides(VlessRules(topo), c)
      BY <1>1, <1>2, <1>4, <2>1, VlessDecision
    <2>3. to = Decision(VlessRules(topo), c)
      BY <1>1, <1>2, <1>3, <2>2, HubDecision
    <2>4. PICK q \in ToSet(topo.exits) :
              \/ conn.vroute = q.vroute /\ to = RegionTarget(q)
              \/ q.warp # NoRoute /\ conn.vroute = q.warp /\ to = RegionWarpTarget(q)
      BY <1>1, <1>2, <2>2, <2>3, VlessDecision
    <2>5. q = r /\ (conn.vroute = r.vroute <=> conn.vroute # r.warp)
      <3>1. conn.vroute \in {q.vroute, q.warp} /\ conn.vroute \in {r.vroute, r.warp} /\ conn.vroute # NoRoute
        BY <1>4, <2>4
      <3>2. QED
        BY <1>1, <3>1, VlessUnique
    <2> HIDE DEF to
    <2>6. to = IF ByWarp(r) THEN RegionWarpTarget(r) ELSE RegionTarget(r)
      BY <1>4, <2>4, <2>5 DEF ByWarp
    <2>7. QED
      BY <2>6 DEF to, c
  <1>5. CASE /\ conn.vroute = NoRoute /\ topo.default = r.id
             /\ topo.routes = <<>> /\ topo.portals = <<>>
    <2>1. ~Decides(VlessRules(topo), c)
      BY <1>1, <1>2, <1>5, VlessDecision DEF UniqueRoutes
    <2>2. ~Decides(GroupedRoutes(topo), c)
      BY <1>1, <1>5, NothingGrouped
    <2>3. to = DestTarget(topo, r.id)
      BY <1>1, <1>2, <1>3, <1>5, <2>1, <2>2, HubDecision
    <2> DEFINE id == r.id
    <2>4. id \in Ids(topo.exits) /\ id \in Rendered(topo) /\ id \notin Specials
      <3>1. r.id \in Ids(topo.exits)
        BY RegionIds
      <3>2. r.id \in Rendered(topo)
        BY DEF Rendered, Wants
      <3>3. QED
        BY <3>1, <3>2 DEF SelectorsApart
    <2> HIDE DEF id
    <2>5. PICK q \in ToSet(topo.exits) : q.id = id /\ DestTarget(topo, id) = RegionTarget(q)
      BY <1>1, <2>4, DestIs
    <2>6. q = r
      BY <1>1, <2>5, DistinctIds DEF id
    <2>7. ~ByWarp(r)
      BY <1>5 DEF ByWarp
    <2> HIDE DEF to
    <2>8. to = RegionTarget(r)
      BY <2>3, <2>5, <2>6 DEF id
    <2>9. QED
      BY <2>7, <2>8 DEF to, c
  <1>6. QED
    BY <1>4, <1>5 DEF Wants

\* The links of a region, by tag.
LEMMA LinkFound ==
    ASSUME NEW r \in ToSet(topo.exits), NEW n \in ToSet(r.nodes), NEW tag,
           tag = IF ByWarp(r) THEN WarpPrefix \o LinkTag(n) ELSE LinkTag(n)
    PROVE  LinkOf(r, tag)
  <1> DEFINE x == [tag |-> LinkTag(n), node |-> n.id, warp |-> FALSE]
             y == [tag |-> WarpPrefix \o LinkTag(n), node |-> n.id, warp |-> TRUE]
  <1>1. x \in Links(topo) /\ (r.warp # NoRoute => y \in Links(topo))
    BY LinkElements
  <1>2. /\ x.tag = LinkTag(n) /\ x.node = n.id /\ x.warp = FALSE
        /\ y.tag = WarpPrefix \o LinkTag(n) /\ y.node = n.id /\ y.warp = TRUE
    OBVIOUS
  <1> HIDE DEF x, y
  <1>3. n.id \in NodeIds(r)
    BY NodesOfRegion
  <1>4. CASE ByWarp(r)
    <2>1. y \in Links(topo) /\ y.tag = tag /\ y.node \in NodeIds(r) /\ y.warp = ByWarp(r)
      BY <1>1, <1>2, <1>3, <1>4 DEF ByWarp
    <2>2. QED
      BY <2>1 DEF LinkOf
  <1>5. CASE ~ByWarp(r)
    <2>1. x \in Links(topo) /\ x.tag = tag /\ x.node \in NodeIds(r) /\ x.warp = ByWarp(r)
      BY <1>1, <1>2, <1>3, <1>5 DEF ByWarp
    <2>2. QED
      BY <2>1 DEF LinkOf
  <1>6. QED
    BY <1>4, <1>5

\* An unbalanced region's target is a link of it; a balanced one's is its balancer.
LEMMA TargetOnItsWay ==
    ASSUME TypeInv, NEW r \in ToSet(topo.exits), r.nodes # <<>>, HasPrimary(r),
           NEW to, to = IF ByWarp(r) THEN RegionWarpTarget(r) ELSE RegionTarget(r)
    PROVE  IF to.key = "balancerTag" THEN Balanced(r) /\ to.tag = LbPrefix \o BalancedBy(r)
                                     ELSE LinkOf(r, to.tag)
  <1>1. CASE Balanced(r)
    <2>1. to = Balancer(BalancedBy(r))
      BY <1>1 DEF RegionTarget, RegionWarpTarget, BalancedBy
    <2>2. QED
      BY <1>1, <2>1 DEF Balancer
  <1>2. CASE ~Balanced(r)
    <2>1. PICK n \in ToSet(r.nodes) : FirstPrimary(r) = n.id /\ ~n.backup
      BY Topo, Shapes, FirstPrimaryIs
    <2>2. LinkTag(n) = n.id
      BY <2>1 DEF LinkTag
    <2>3. to = Outbound(IF ByWarp(r) THEN WarpPrefix \o LinkTag(n) ELSE LinkTag(n))
      BY <1>2, <2>1, <2>2 DEF RegionTarget, RegionWarpTarget
    <2>4. to.key # "balancerTag" /\ LinkOf(r, to.tag)
      BY <2>3, OutboundFields, LinkFound
    <2>5. QED
      BY <2>4
  <1>3. QED
    BY <1>1, <1>2

\* The balancer of that tag is the region's own.
LEMMA BalancerIs ==
    ASSUME NEW t \in TopologyRecords, UniqueIds(t), SelectorsApart(t),
           NEW r \in ToSet(t.exits), NEW q \in ToSet(t.exits), NEW x \in {r.id, WarpPrefix \o r.id}, NEW y \in {q.id, WarpPrefix \o q.id},
           LbPrefix \o x = LbPrefix \o y
    PROVE  q = r /\ x = y /\ r.id # WarpPrefix \o r.id
  <1>1. IsSeq(r.id) /\ IsSeq(q.id) /\ IsSeq(LbPrefix) /\ IsSeq(WarpPrefix)
    BY Shapes, TwoIsSeq, ThreeIsSeq DEF LbPrefix, WarpPrefix
  <1>2. IsSeq(WarpPrefix \o r.id) /\ IsSeq(WarpPrefix \o q.id)
    BY <1>1, Concatenation
  <1>3. IsSeq(x) /\ IsSeq(y)
    BY <1>1, <1>2
  <1>4. x = y
    BY <1>1, <1>3, CancelPrefix
  <1>5. r.id \in Ids(t.exits) /\ q.id \in Ids(t.exits)
    BY RegionIds
  <1>6. /\ r.id # WarpPrefix \o q.id /\ q.id # WarpPrefix \o r.id
        /\ r.id # WarpPrefix \o r.id
    <2> DEFINE W == {WarpPrefix \o id : id \in Ids(t.exits)}
    <2>1. WarpPrefix \o q.id \in W /\ WarpPrefix \o r.id \in W
      BY <1>5
    <2>2. Ids(t.exits) \cap (Specials \cup W) = {}
      BY DEF SelectorsApart
    <2> HIDE DEF W
    <2>3. QED
      BY <1>5, <2>1, <2>2
  <1>7. r.id = q.id
    <2>1. CASE x = r.id
      BY <1>4, <1>6, <2>1
    <2>2. CASE x = WarpPrefix \o r.id
      <3>1. WarpPrefix \o r.id = WarpPrefix \o q.id
        BY <1>4, <1>6, <2>2
      <3>2. QED
        BY <1>1, <3>1, CancelPrefix
    <2>3. QED
      BY <2>1, <2>2
  <1>8. QED
    BY <1>4, <1>6, <1>7, DistinctIds

\* An outbound is a link, a special one or a tunnel.
LEMMA OutboundIs ==
    ASSUME NEW tag \in Outbounds
    PROVE  \/ \E l \in Links(topo) : l.tag = tag
           \/ tag \in Specials
           \/ \E p \in ToSet(topo.portals) : tag = PortalTag(p.id)
  <1>1. CASE tag \in {PortalTag(id) : id \in Ids(topo.portals)}
    <2>1. PICK id \in Ids(topo.portals) : tag = PortalTag(id)
      BY <1>1
    <2>2. QED
      BY <2>1, PortalIds
  <1>2. CASE tag \in {l.tag : l \in Links(topo)}
    BY <1>2
  <1>3. QED
    BY <1>1, <1>2 DEF Outbounds

\* What the balancer of a region picks is a link of it.
LEMMA PickedLink ==
    ASSUME TypeInv, Apart(topo), NEW r \in ToSet(topo.exits), r.nodes # <<>>, Balanced(r),
           NEW b \in ToSet(Balancers(topo)), b.tag = LbPrefix \o BalancedBy(r),
           NEW tag, tag = b.fallback \/ (tag \in Outbounds /\ IsPrefix(b.selector, tag))
    PROVE  LinkOf(r, tag)
  <1>1. topo \in TopologyRecords /\ Valid(topo) /\ UniqueIds(topo) /\ ExitRegionsValid(topo)
    BY Topo DEF Valid
  <1>2. PICK q \in ToSet(topo.exits) :
            \/ b = BalancerOf(q.id, FallbackTag(q))
            \/ b = BalancerOf(WarpPrefix \o q.id, WarpPrefix \o FallbackTag(q))
    BY <1>1, BalancerElements
  <1>3. PICK other \in BOOLEAN :
            b = IF other THEN BalancerOf(WarpPrefix \o q.id, WarpPrefix \o FallbackTag(q))
                ELSE BalancerOf(q.id, FallbackTag(q))
    BY <1>2
  <1>4. /\ b.tag = LbPrefix \o (IF other THEN WarpPrefix \o q.id ELSE q.id)
        /\ b.selector = IF other THEN WarpPrefix \o q.id ELSE q.id
        /\ b.fallback = IF other THEN WarpPrefix \o FallbackTag(q) ELSE FallbackTag(q)
    BY <1>3 DEF BalancerOf
  <1>5. q = r /\ (ByWarp(r) <=> other)
    <2> DEFINE x == IF ByWarp(r) THEN WarpPrefix \o r.id ELSE r.id
               y == IF other THEN WarpPrefix \o q.id ELSE q.id
    <2>1. LbPrefix \o x = LbPrefix \o y
      BY <1>4 DEF BalancedBy
    <2>2. SelectorsApart(topo)
      BY DEF Apart
    <2>3. x \in {r.id, WarpPrefix \o r.id} /\ y \in {q.id, WarpPrefix \o q.id}
      OBVIOUS
    <2>4. q = r /\ x = y /\ r.id # WarpPrefix \o r.id
      <3>1. topo \in TopologyRecords /\ UniqueIds(topo)
        BY <1>1
      <3> HIDE DEF x, y
      <3>2. QED
        BY <2>1, <2>2, <2>3, <3>1, BalancerIs
    <2>5. QED
      BY <2>4
  <1>6. CASE tag = b.fallback
    <2>1. HasPrimary(r)
      BY DEF Apart, PrimariesNamed, HasPrimary
    <2>2. r.fallback # NoId => r.fallback \in NodeIds(r)
      BY <1>1 DEF ExitRegionsValid
    <2>3. PICK n \in ToSet(r.nodes) : FallbackTag(r) = LinkTag(n)
      BY <1>1, <2>1, <2>2, Shapes, FallbackIs
    <2>4. tag = IF ByWarp(r) THEN WarpPrefix \o LinkTag(n) ELSE LinkTag(n)
      BY <1>4, <1>5, <1>6, <2>3
    <2>5. QED
      BY <2>4, LinkFound
  <1>7. CASE tag \in Outbounds /\ IsPrefix(b.selector, tag)
    <2>1. b.selector = IF ByWarp(r) THEN WarpPrefix \o r.id ELSE r.id
      BY <1>4, <1>5
    <2>2. /\ \A s \in Specials : ~IsPrefix(r.id, s) /\ ~IsPrefix(WarpPrefix \o r.id, s)
          /\ \A l \in Links(topo) :
                /\ IsPrefix(r.id, l.tag) => l.node \in NodeIds(r) /\ ~l.warp
                /\ IsPrefix(WarpPrefix \o r.id, l.tag) => l.node \in NodeIds(r) /\ l.warp
      BY DEF Apart, SelectorsApart
    <2>3. tag \notin Specials
      BY <1>7, <2>1, <2>2
    <2>4. \A p \in ToSet(topo.portals) : tag # PortalTag(p.id)
      BY <1>1, <1>7, TunnelNotBalanced
    <2>5. PICK l \in Links(topo) : l.tag = tag
      BY <1>7, <2>3, <2>4, OutboundIs
    <2>6. l.node \in NodeIds(r) /\ (l.warp <=> ByWarp(r))
      BY <1>7, <2>1, <2>2, <2>5
    <2>7. l.warp \in BOOLEAN /\ ByWarp(r) \in BOOLEAN
      BY LinkElements DEF ByWarp
    <2>8. l.warp = ByWarp(r)
      BY <2>6, <2>7
    <2>9. QED
      BY <2>5, <2>6, <2>8 DEF LinkOf
  <1>8. QED
    BY <1>6, <1>7

\* Every step keeps Bound.
LEMMA BoundStep ==
    ASSUME \A t \in Topologies : Apart(t)
    PROVE  TypeInv /\ Bound /\ [Next]_vars => Bound'
  <1> SUFFICES ASSUME TypeInv, Bound, [Next]_vars, NEW r \in ToSet(topo'.exits), Wants(r)'
               PROVE  OnItsWay(r)'
    BY DEF Bound
  <1>1. topo \in TopologyRecords /\ Valid(topo) /\ Apart(topo)
    BY Topo DEF TypeInv, TypeOK
  <1>2. IsPos
    BY DEF TypeInv
  <1>3. \A l \in Links(topo) : l.tag \notin Specials
    BY <1>1 DEF Apart, LinksApart, NoSpecialLink
  <1>4. ASSUME NEW hub, NEW c, Connect(hub, c) PROVE OnItsWay(r)'
    BY <1>4 DEF Connect, Idle, OnItsWay
  <1>5. CASE Close
    BY <1>5 DEF Close, Idle, OnItsWay
  <1>6. ASSUME topo' = topo, conn' = conn
        PROVE  /\ r \in ToSet(topo.exits) /\ Wants(r) /\ OnItsWay(r) /\ r.nodes # <<>>
               /\ ByWarp(r)' = ByWarp(r) /\ BalancedBy(r)' = BalancedBy(r)
               /\ \A tag : LinkOf(r, tag) => LinkOf(r, tag)'
    <2>1. r \in ToSet(topo.exits) /\ Wants(r)
      BY <1>6 DEF Wants, ByUser, ForResolver
    <2>2. OnItsWay(r) /\ r.nodes # <<>>
      BY <2>1 DEF Bound, Wants
    <2>3. /\ ByWarp(r)' = ByWarp(r) /\ BalancedBy(r)' = BalancedBy(r)
          /\ \A tag : LinkOf(r, tag) => LinkOf(r, tag)'
      BY <1>6 DEF ByWarp, BalancedBy, LinkOf
    <2>4. QED
      BY <2>1, <2>2, <2>3
  <1>7. CASE UNCHANGED vars
    <2>1. topo' = topo /\ conn' = conn /\ pos' = pos
      BY <1>7 DEF vars
    <2>2. QED
      BY <1>6, <2>1 DEF OnItsWay
  <1>8. CASE HubDecides
    <2>1. topo' = topo /\ conn' = conn
      BY <1>8 DEF HubDecides
    <2>2. PICK to : /\ to = Decision(HubRules(topo, pos.node), HubView)
                    /\ pos' = [at |-> IF to.key = "balancerTag" THEN "balancer" ELSE "outbound",
                               node |-> pos.node, tag |-> to.tag, warp |-> pos.warp]
      BY <1>8, HubStep
    <2>3. r \in ToSet(topo.exits) /\ Wants(r) /\ r.nodes # <<>> /\ SelectorsApart(topo)
      BY <1>1, <1>6, <2>1 DEF Apart
    <2>4. HasPrimary(r)
      BY <1>1, <2>3 DEF Apart, PrimariesNamed, HasPrimary
    <2>5. to = IF ByWarp(r) THEN RegionWarpTarget(r) ELSE RegionTarget(r)
      BY <2>2, <2>3, WantedTarget
    <2>6. IF to.key = "balancerTag" THEN Balanced(r) /\ to.tag = LbPrefix \o BalancedBy(r)
                                    ELSE LinkOf(r, to.tag)
      BY <2>3, <2>4, <2>5, TargetOnItsWay
    <2>7. /\ pos'.at = IF to.key = "balancerTag" THEN "balancer" ELSE "outbound"
          /\ pos'.tag = to.tag
      BY <2>2
    <2>8. QED
      BY <1>6, <2>1, <2>6, <2>7 DEF OnItsWay
  <1>9. CASE EndAtHub
    <2>1. /\ topo' = topo /\ conn' = conn /\ pos.at = "outbound" /\ pos.tag \in Specials
      BY <1>9 DEF EndAtHub
    <2>2. QED
      BY <1>3, <1>6, <2>1 DEF OnItsWay, LinkOf
  <1>10. CASE Drop
    <2>1. /\ topo' = topo /\ conn' = conn /\ pos.at = "outbound"
          /\ pos.tag \notin {l.tag : l \in Links(topo)}
      BY <1>10 DEF Drop
    <2>2. QED
      BY <1>6, <2>1 DEF OnItsWay, LinkOf
  <1>11. ASSUME NEW tag \in Outbounds \cup {b.fallback : b \in ToSet(Balancers(topo))}, Balance(tag)
         PROVE  OnItsWay(r)'
    <2>1. /\ topo' = topo /\ conn' = conn /\ pos.at = "balancer"
          /\ pos'.at = "outbound" /\ pos'.tag = tag
      BY <1>2, <1>11 DEF Balance, IsPos
    <2>2. PICK b \in ToSet(Balancers(topo)) :
              /\ b.tag = pos.tag
              /\ tag = b.fallback \/ (tag \in Outbounds /\ IsPrefix(b.selector, tag))
      BY <1>11 DEF Balance
    <2>3. Balanced(r) /\ pos.tag = LbPrefix \o BalancedBy(r)
      BY <1>6, <2>1 DEF OnItsWay
    <2>4. LinkOf(r, tag)
      BY <1>1, <1>6, <2>1, <2>2, <2>3, PickedLink
    <2>5. QED
      BY <1>6, <2>1, <2>4 DEF OnItsWay
  <1>12. ASSUME NEW link \in Links(topo), Forward(link) PROVE OnItsWay(r)'
    <2>1. /\ topo' = topo /\ conn' = conn /\ pos.at = "outbound" /\ link.tag = pos.tag
          /\ pos'.at = "exit" /\ pos'.node = link.node /\ pos'.warp = link.warp
      BY <1>12 DEF Forward
    <2>2. LinkOf(r, pos.tag)
      BY <1>6, <2>1 DEF OnItsWay
    <2>3. PICK l \in Links(topo) : l.tag = pos.tag /\ l.node \in NodeIds(r) /\ l.warp = ByWarp(r)
      BY <2>2 DEF LinkOf
    <2>4. link = l
      BY <1>1, <2>1, <2>3 DEF Apart, LinksApart
    <2>5. QED
      BY <1>6, <2>1, <2>3, <2>4 DEF OnItsWay
  <1>13. ASSUME NEW ip, ExitDecides(ip) PROVE OnItsWay(r)'
    <2>1. topo' = topo /\ conn' = conn /\ pos.at = "exit"
      BY <1>13 DEF ExitDecides
    <2>2. \E x : pos' = [pos EXCEPT !.at = "end", !.tag = x]
      BY <1>13 DEF ExitDecides
    <2>3. pos'.at = "end" /\ pos'.node = pos.node /\ pos'.warp = pos.warp
      BY <1>2, <2>2 DEF IsPos
    <2>4. QED
      BY <1>6, <2>1, <2>3 DEF OnItsWay
  <1>14. ASSUME NEW ip, NEW p, PortalDecides(p, ip) PROVE OnItsWay(r)'
    <2>1. topo' = topo /\ conn' = conn /\ pos.at = "portal"
      BY <1>14 DEF PortalDecides
    <2>2. QED
      BY <1>6, <2>1 DEF OnItsWay
  <1>15. ASSUME NEW p \in ToSet(topo.portals), Enter(p) PROVE OnItsWay(r)'
    <2>1. topo' = topo /\ conn' = conn /\ pos.at = "outbound" /\ pos.tag = PortalTag(p.id)
      BY <1>15 DEF Enter
    <2>2. PICK l \in Links(topo) : l.tag = PortalTag(p.id)
      BY <1>6, <2>1 DEF OnItsWay, LinkOf
    <2>3. PICK q \in ToSet(topo.exits) : \E n \in ToSet(q.nodes) :
              l.tag = LinkTag(n) \/ l.tag = WarpPrefix \o LinkTag(n)
      BY LinkElements
    <2>4. l.tag \in DerivedTags(topo)
      BY <1>1, <2>3, TagsDerived
    <2>5. QED
      BY <1>1, <2>2, <2>4, PortalTagsKept
  <1>16. QED
    BY <1>4, <1>5, <1>7, <1>8, <1>9, <1>10, <1>11, <1>12, <1>13, <1>14, <1>15 DEF Next

\* Who asks for a region leaves through a node of it, over a warp link when that
\* was asked for, if the topologies keep the tags of their links apart.
THEOREM RegionIsChosen ==
    ASSUME \A t \in Topologies : PrimariesNamed(t) /\ LinksApart(t) /\ SelectorsApart(t)
    PROVE  Spec => []RegionChosen
  <1>1. Init => Bound
    BY DEF Init, Bound, OnItsWay, Idle
  <1>2. TypeInv /\ Bound /\ [Next]_vars => Bound'
    BY BoundStep DEF Apart
  <1>3. Bound => RegionChosen
    BY DEF Bound, Wants, OnItsWay, ByWarp, RegionChosen
  <1>4. QED
    BY <1>1, <1>2, <1>3, TypeInvariant, PTL DEF Spec
==============================================================================
