---------------------------- MODULE RoutingRules ----------------------------
(***************************************************************************)
(* The routing rules, balancers and outbounds HexRift generates for a hub, *)
(* an exit and the machine of a portal, as functions of the topology.      *)
(*                                                                         *)
(* A rule is a function from the fields of a connection it restricts to    *)
(* the values it accepts, and a target: an outbound or a balancer.         *)
(***************************************************************************)
EXTENDS Topology

WarpRoute == 65535    \* WARP_VLESS_ROUTE, the third segment of a warp UUID
DnsPort == 53
PublishTag(id, port) == id \o <<"-publish-", port>>

\* Emails, by local part and domain.  (Mutant: a guest under its user's name.)
UserEmail(t, u) == <<u, t.ns>>
GuestEmailOfUser(t, label, u) == UserEmail(t, u)
GuestEmail(t, label, u) == <<label, u>>
ServerEmail(u) == <<u \o "-server", u>>

Outbound(tag) == [key |-> "outboundTag", tag |-> tag]
Balancer(id) == [key |-> "balancerTag", tag |-> LbPrefix \o id]
Rule(when, to) == [when |-> when, to |-> to]
\* The sequences op(s[1]), op(s[2]), ... one after the other.
Concat(s, op(_)) == FlattenSeq([i \in DOMAIN s |-> op(s[i])])
\* <<x>> if the condition holds, else nothing.
Only(cond, x) == IF cond THEN <<x>> ELSE <<>>
\* The elements of s that pass the test, in order.
Where(s, Test(_)) == Concat(s, LAMBDA x : Only(Test(x), x))

-----------------------------------------------------------------------------
(* Exit regions as a hub sees them.                                        *)

RenderedExits(t) == Where(t.exits, LAMBDA r : r.nodes # <<>>)
Balanced(r) == r.lb /\ Len(r.nodes) > 1

\* The first node that is no backup, or the first one.
FirstPrimary(r) ==
    LET primary == {i \in DOMAIN r.nodes : ~r.nodes[i].backup}
    IN  r.nodes[IF primary # {} THEN Min(primary) ELSE 1].id

IsBackup(r, id) == \E n \in ToSet(r.nodes) : n.id = id /\ n.backup
\* (Mutant: the prefix of a backup's tag is forgotten.)
FallbackUnprefixed(r) == IF r.fallback = NoId THEN FirstPrimary(r) ELSE r.fallback
FallbackTag(r) ==
    IF r.fallback = NoId THEN FirstPrimary(r)
    ELSE IF IsBackup(r, r.fallback) THEN BackupPrefix \o r.fallback
    ELSE r.fallback

RegionTarget(r) == IF Balanced(r) THEN Balancer(r.id) ELSE Outbound(FirstPrimary(r))
RegionWarpTarget(r) ==
    IF Balanced(r) THEN Balancer(WarpPrefix \o r.id)
    ELSE Outbound(WarpPrefix \o FirstPrimary(r))

BalancerOf(id, fallback) ==
    [tag |-> LbPrefix \o id, selector |-> id, fallback |-> fallback]
\* (Mutant: the warp balancer selects by the region's id.)
BalancersUnprefixed(t) ==
    Concat(Where(t.exits, Balanced), LAMBDA r :
        <<BalancerOf(r.id, FallbackTag(r))>>
        \o Only(r.warp # NoRoute, [tag |-> LbPrefix \o WarpPrefix \o r.id, selector |-> r.id,
                                   fallback |-> WarpPrefix \o FallbackTag(r)]))
Balancers(t) ==
    Concat(Where(t.exits, Balanced), LAMBDA r :
        <<BalancerOf(r.id, FallbackTag(r))>>
        \o Only(r.warp # NoRoute,
                BalancerOf(WarpPrefix \o r.id, WarpPrefix \o FallbackTag(r))))

\* One link per exit node, and a warp variant of it in a warp region.
LinkTag(n) == IF n.backup THEN BackupPrefix \o n.id ELSE n.id
\* (Mutant: the link is filed under its tag.)
LinksByTag(t) ==
    UNION {{[tag |-> p \o LinkTag(n), node |-> LinkTag(n), warp |-> p # <<>>] :
                n \in ToSet(r.nodes), p \in {<<>>} \cup (IF r.warp = NoRoute THEN {} ELSE {WarpPrefix})}
           : r \in ToSet(t.exits)}
Links(t) ==
    UNION {{[tag |-> LinkTag(n), node |-> n.id, warp |-> FALSE] : n \in ToSet(r.nodes)}
           \cup {[tag |-> WarpPrefix \o LinkTag(n), node |-> n.id, warp |-> TRUE]
                     : n \in {m \in ToSet(r.nodes) : r.warp # NoRoute}}
           : r \in ToSet(t.exits)}

-----------------------------------------------------------------------------
(* The hub's rules.                                                        *)

\* The ports this hub binds, in portal then declaration order.
Published(t, hub) ==
    Concat(t.portals, LAMBDA p :
        Concat(Where(p.publish, LAMBDA e : e.nodes = Everywhere \/ hub \in e.nodes),
               LAMBDA e : <<[tag |-> PublishTag(p.id, e.port), portal |-> p.id,
                             target |-> e.target, allow |-> e.allow]>>))

PublishRules(t, hub) ==
    Concat(Published(t, hub), LAMBDA pub :
        IF pub.allow = {}
        THEN <<Rule([in |-> {pub.tag}], Outbound(PortalTag(pub.portal)))>>
        ELSE <<Rule([in |-> {pub.tag}, source |-> pub.allow], Outbound(PortalTag(pub.portal))),
               Rule([in |-> {pub.tag}], Outbound(Blocked))>>)

DnsRule(t) == Rule([ip |-> t.dns, port |-> {DnsPort}], Outbound(Direct))

VlessRules(t) ==
    Concat(RenderedExits(t), LAMBDA r : <<Rule([vroute |-> {r.vroute}], RegionTarget(r))>>)
    \o Concat(RenderedExits(t), LAMBDA r :
           Only(r.warp # NoRoute, Rule([vroute |-> {r.warp}], RegionWarpTarget(r))))

\* The user restriction of a route, if it has one: users as emails, proxy
\* users as they are.
RouteUsers(t, route) == {UserEmail(t, u) : u \in route.users} \cup {<<u>> : u \in route.proxyUsers}
Filtered(when, users) ==
    IF users = {} THEN when
    ELSE [f \in DOMAIN when \cup {"user"} |-> IF f = "user" THEN users ELSE when[f]]

DomainRule(t, route, to) ==
    Only(route.domains # {}, Rule(Filtered([domain |-> route.domains], RouteUsers(t, route)), to))
IpRule(t, route, to) ==
    Only(route.ips # {}, Rule(Filtered([ip |-> route.ips], RouteUsers(t, route)), to))
UserRule(t, route, to) ==
    Only(route.domains = {} /\ route.ips = {}, Rule([user |-> RouteUsers(t, route)], to))

\* The rules of the routes to some destinations, in file order.
RoutesTo(t, dests, rules(_, _)) ==
    Concat(t.routes, LAMBDA route : IF route.dest \in dests THEN rules(t, route) ELSE <<>>)
TunnelDests(t) == {route.dest : route \in ToSet(t.routes)} \ {Direct, Blocked}

PortalRoutes(t) ==
    Concat(t.portals, LAMBDA p :
        LET members == {UserEmail(t, u) : u \in p.users}
            to == Outbound(PortalTag(p.id))
        IN  Only(p.domains # {}, Rule([domain |-> p.domains, user |-> members], to))
            \o Only(p.ips # {}, Rule([ip |-> p.ips, user |-> members], to)))

\* A destination of hub_routes or hub_default: a special one before a region,
\* a region before a node of that id; a node by its id, whatever its link's tag.
DestTarget(t, dest) ==
    IF dest \in Ids(t.exits) \ Specials THEN RegionTarget(ExitRegion(t, dest)) ELSE Outbound(dest)

AllRules(t, route) ==
    LET to == DestTarget(t, route.dest)
    IN  DomainRule(t, route, to) \o IpRule(t, route, to) \o UserRule(t, route, to)
\* What a route to `blocked` says of names and users comes first, what it says
\* of networks last.
BlockedFirst(t, route) ==
    DomainRule(t, route, Outbound(Blocked)) \o UserRule(t, route, Outbound(Blocked))
BlockedLast(t, route) == IpRule(t, route, Outbound(Blocked))

\* The routes of hub_routes, regrouped by kind.
GroupedRoutes(t) ==
    RoutesTo(t, {Blocked}, BlockedFirst) \o PortalRoutes(t)
    \o RoutesTo(t, TunnelDests(t), AllRules) \o RoutesTo(t, {Direct}, AllRules)
    \o RoutesTo(t, {Blocked}, BlockedLast)

\* (Mutant: the resolver's rule first, as on the exits.)
DnsRuleFirst(t, hub) ==
    <<DnsRule(t)>> \o PublishRules(t, hub) \o VlessRules(t) \o GroupedRoutes(t)
    \o <<Rule(<<>>, DestTarget(t, t.default))>>
HubRules(t, hub) ==
    PublishRules(t, hub) \o <<DnsRule(t)>> \o VlessRules(t) \o GroupedRoutes(t)
    \o <<Rule(<<>>, DestTarget(t, t.default))>>

-----------------------------------------------------------------------------
(* The exit's and the portal's rules.                                      *)

\* (Mutant: no rule for the hubs' warp identities.)
ExitRulesNoWarp(t, r) ==
    <<DnsRule(t)>>
    \o Concat(r.routes \o t.globals, LAMBDA route :
           Only(route.domains # {}, Rule([domain |-> route.domains], Outbound(route.dest)))
           \o Only(route.ips # {}, Rule([ip |-> route.ips], Outbound(route.dest))))
ExitRules(t, r) ==
    LET names == r.warpDomains \cup t.warpDomains
    IN  <<DnsRule(t)>>
        \o Concat(r.routes \o t.globals, LAMBDA route :
               Only(route.domains # {}, Rule([domain |-> route.domains], Outbound(route.dest)))
               \o Only(route.ips # {}, Rule([ip |-> route.ips], Outbound(route.dest))))
        \o <<Rule([vroute |-> {WarpRoute}], Outbound(Warp))>>
        \o Only(names # {}, Rule([domain |-> names], Outbound(Warp)))

PublishTargetRule(tunnel, e) ==
    Rule(IF e.target.ip # ""
         THEN [in |-> tunnel, port |-> {e.target.port}, ip |-> {e.target.ip}]
         ELSE [in |-> tunnel, port |-> {e.target.port}, domain |-> {e.target.domain}],
         Outbound(Direct))

\* What comes out of the tunnel; without `strict` everything is dialed.
\* (Mutant: the portal's networks are not mirrored.)
PortalRulesNoIps(p) ==
    LET tunnel == {PortalTag(p.id)}
        dial == Outbound(Direct)
    IN  Only(p.domains # {}, Rule([in |-> tunnel, domain |-> p.domains], dial))
        \o Concat(p.publish, LAMBDA e : <<PublishTargetRule(tunnel, e)>>)
        \o <<Rule([in |-> tunnel], Outbound(IF p.strict THEN Blocked ELSE Direct))>>
PortalRules(p) ==
    LET tunnel == {PortalTag(p.id)}
        dial == Outbound(Direct)
    IN  IF ~p.strict THEN <<Rule([in |-> tunnel], dial), Rule(<<>>, dial)>>
        ELSE Only(p.domains # {}, Rule([in |-> tunnel, domain |-> p.domains], dial))
             \o Only(p.ips # {}, Rule([in |-> tunnel, ip |-> p.ips], dial))
             \o Concat(p.publish, LAMBDA e : <<PublishTargetRule(tunnel, e)>>)
             \o <<Rule([in |-> tunnel], Outbound(Blocked)), Rule(<<>>, dial)>>
=============================================================================
