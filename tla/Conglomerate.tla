---------------------------- MODULE Conglomerate ----------------------------
(***************************************************************************)
(* The topology file as far as inbounds and the dials to them read it:     *)
(* the layers of settings and their overlays, and what is checked on load. *)
(* (What routing reads of it is in Topology.)                              *)
(*                                                                         *)
(* Names, ids and domains are sequences of tokens, since they are put      *)
(* together and matched by suffix.  A setting that is not given is Unset;  *)
(* an override is a record of the fields it gives.  A topology is:         *)
(*   ns       global.namespace;  cdn  Unset or exit and hub domains        *)
(*   metrics  global metrics listener: enabled, port                       *)
(*   hub, exit   defaults of the role: reality, tls, xhttp, haproxy,       *)
(*               proxy, xdns, wireguard, hysteria, metrics                 *)
(*   groups   id, short;  users  name, group, access, guests, uuid         *)
(*   portals  id, users, uuid, publish (port, network, nodes)              *)
(*   regions  id, type, cdn, xhttp, nodes, and of an exit region protocol, *)
(*            hysteria, warp, of a hub region reality, tls                 *)
(***************************************************************************)
EXTENDS Identity

SeqConcat(s, Op(_)) == FlattenSeq([i \in DOMAIN s |-> Op(s[i])])
\* The elements of s that pass the test, in order.
Where(s, Test(_)) == SeqConcat(s, LAMBDA x : IF Test(x) THEN <<x>> ELSE <<>>)
Or(a, b) == IF a # Unset THEN a ELSE b

Given(over, f) == IF over # Unset /\ f \in DOMAIN over THEN over[f] ELSE Unset

\* One layer of settings over another; fields the base does not know are ignored.
Overlay(base, over) == [f \in DOMAIN base |-> Or(Given(over, f), base[f])]

Role(t, r) == IF r.type = "exit" THEN t.exit ELSE t.hub
Regions(t, type) == Where(t.regions, LAMBDA r : r.type = type)
Nodes(t, type) == SeqConcat(Regions(t, type), LAMBDA r : r.nodes)
\* Every node of a role together with its region.
Places(t, type) ==
    SeqConcat(Regions(t, type), LAMBDA r : [i \in DOMAIN r.nodes |-> [r |-> r, n |-> r.nodes[i]]])
AllPlaces(t) == ToSet(Places(t, "exit")) \cup ToSet(Places(t, "hub"))

\* What the schema's types say of a file: lists and names are sequences, an item
\* has the fields of its kind, a list of Reality server names is not empty, and
\* names are identifiers, without the "/" and "." that portals are marked by.
Listed(s) == s \in Seq(ToSet(s))
Named(reality) == reality # Unset => reality.names = Unset \/ (Listed(reality.names) /\ reality.names # <<>>)
WellFormed(t) ==
    /\ \A f \in {"ns", "groups", "users", "portals", "regions"} : Listed(t[f])
    /\ \A u \in ToSet(t.users) :
          /\ Listed(u.guests) /\ \A l \in ToSet(u.guests) : Listed(l)
          /\ Listed(u.name) /\ u.name # <<>> /\ u.name[1] \notin {"portal/", "portal."}
          /\ u.uuid # Unset => Listed(u.uuid.path)
    /\ \A p \in ToSet(t.portals) :
          /\ Listed(p.id) /\ (p.uuid # Unset => Listed(p.uuid.path))
          /\ Listed(p.publish) /\ \A e \in ToSet(p.publish) : e.network \subseteq {"tcp", "udp"}
    /\ Named(t.hub.reality)
    /\ t.hub.wireguard # Unset => {"port", "subnet"} \subseteq DOMAIN t.hub.wireguard
    /\ \A r \in ToSet(t.regions) :
          /\ Listed(r.nodes)
          /\ {"id", "type", "cdn", "xhttp", "nodes"} \subseteq DOMAIN r
          /\ (IF r.type = "exit" THEN {"protocol", "hysteria", "warp"} ELSE {"reality", "tls"}) \subseteq DOMAIN r
          /\ IF r.type = "exit" THEN r.warp \in BOOLEAN ELSE Named(r.reality)
          /\ \A n \in ToSet(r.nodes) :
                /\ Listed(n.id)
                /\ Named(n.reality)

-----------------------------------------------------------------------------
(* Settings of a node, from the innermost layer that gives them.           *)

ProxyInbound(t, n) == Or(n.proxy, t.hub.proxy)
Xdns(t, n) == Or(n.xdns, t.hub.xdns)
Haproxy(t, r, n) == Or(n.haproxy, Role(t, r).haproxy)
Reality(t, r, n) ==
    Or(n.reality, IF r.type = "hub" THEN Or(r.reality, t.hub.reality) ELSE Unset)
Metrics(t, r, n) == Overlay(Overlay(t.metrics, Role(t, r).metrics), n.metrics)

WireguardPort(t, n) ==
    LET default == Given(t.hub.wireguard, "port")
    IN  CASE n.wireguard = Unset -> default
          [] Given(n.wireguard, "enabled") = FALSE -> Unset
          [] OTHER -> Or(Given(n.wireguard, "port"), Or(default, 443))

Wireguard(t, n) ==
    IF WireguardPort(t, n) = Unset THEN Unset
    ELSE [Overlay(Or(t.hub.wireguard, [port |-> 443, subnet |-> Unset]), n.wireguard)
             EXCEPT !.port = WireguardPort(t, n)]

\* The region's TLS settings, Unset when it serves Reality.
RegionTls(t, r) ==
    CASE r.reality # Unset -> Unset
      [] r.reality = Unset /\ r.tls = Unset -> t.hub.tls
      [] OTHER -> Overlay(Or(t.hub.tls, [certificate |-> Unset]), r.tls)

\* The default host belongs to the default security: other regions derive their own.
Xhttp(t, r, n) ==
    LET base == Role(t, r).xhttp
        other == r.type = "hub" /\ (RegionTls(t, r) = Unset) # (t.hub.tls = Unset)
        kept == IF other /\ base # Unset THEN [base EXCEPT !.host = Unset] ELSE base
    IN  Overlay(Overlay(Overlay([path |-> Unset, host |-> Unset], kept), r.xhttp), n.xhttp)

LinkProtocol(r) == Or(r.protocol, "vless")

DefaultHysteria == [port |-> 443, obfs |-> FALSE, sni |-> Unset, certificate |-> Unset]
HysteriaOverlay(t, r, n) ==
    LET base == Or(Role(t, r).hysteria, DefaultHysteria)
    IN  IF r.type = "exit" THEN Overlay(Overlay(base, r.hysteria), n.hysteria)
                           ELSE Overlay(base, n.hysteria)

\* Unset: the node has no Hysteria listener.
Hysteria(t, r, n) ==
    CASE r.type = "exit" /\ r.hysteria = Unset /\ n.hysteria = Unset
             /\ LinkProtocol(r) # "hysteria" -> Unset
      [] r.type = "hub" /\ n.hysteria = Unset -> t.hub.hysteria
      [] r.type = "hub" /\ Given(n.hysteria, "enabled") = FALSE -> Unset
      [] OTHER -> HysteriaOverlay(t, r, n)

ServerNames(reality) == Or(reality.names, <<reality.dest>>)
XhttpHost(reality, xhttp) == Or(xhttp.host, reality.dest)

-----------------------------------------------------------------------------
(* What loading the file checks of this.                                   *)

Direct443 == <<443, "tcp">>
Somebody(t, type) == \E u \in ToSet(t.users) : type \in u.access

\* (Mutant: a listener is only counted where the node itself configures it.)
ReservedOfOverrides(t, r, n) ==
    <<Direct443>> \o (IF Given(n.hysteria, "port") # Unset THEN <<<<n.hysteria.port, "udp">>>> ELSE <<>>)
\* The sockets of a node's inbounds, in the order they are claimed.
Reserved(t, r, n) ==
    LET hy == Hysteria(t, r, n)
        hub == r.type = "hub"
        claim(cond, port, net) == IF cond THEN <<<<port, net>>>> ELSE <<>>
    IN  <<Direct443>>
        \o claim(hy # Unset /\ (hub => Somebody(t, "hysteria")), hy.port, "udp")
        \o claim(hub /\ ProxyInbound(t, n), 80, "tcp")
        \o claim(hub /\ Xdns(t, n) # Unset /\ Somebody(t, "xdns"), Xdns(t, n).port, "udp")
        \o claim(hub /\ WireguardPort(t, n) # Unset /\ Somebody(t, "wireguard"),
                 WireguardPort(t, n), "udp")
        \o claim(Metrics(t, r, n).enabled, Metrics(t, r, n).port, "tcp")

\* Access types whose inbound a hub node has.
RenderedAccess(t, r, n) ==
    {IF RegionTls(t, r) # Unset THEN "tls" ELSE "xhttp"}
    \cup {a \in {"cdn", "xdns", "wireguard", "hysteria"} :
            CASE a = "cdn" -> t.cdn # Unset /\ r.cdn # Unset
              [] a = "xdns" -> Xdns(t, n) # Unset
              [] a = "wireguard" -> WireguardPort(t, n) # Unset
              [] a = "hysteria" -> Hysteria(t, r, n) # Unset}

NodeLoads(t, r, n) ==
    /\ (t.cdn # Unset /\ r.cdn # Unset) => Haproxy(t, r, n)
    /\ Given(Hysteria(t, r, n), "certificate") # Unset => Hysteria(t, r, n).sni # Unset
    /\ r.type = "exit" =>
          n.reality # Unset /\ {Given(r.hysteria, "enabled"), Given(n.hysteria, "enabled")} = {Unset}
    /\ (r.type = "hub" /\ RegionTls(t, r) # Unset) =>
          /\ n.reality = Unset
          /\ Hysteria(t, r, n) = Unset
    /\ Xhttp(t, r, n).path # Unset
    /\ IsInjective(Reserved(t, r, n))

\* The ports published on a hub node, in portal then declaration order.
Publishes(t, n) ==
    SeqConcat(t.portals, LAMBDA p : Where(p.publish, LAMBDA e : e.nodes = Unset \/ n.id \in e.nodes))

PublishesLoad(t) ==
    \A pl \in ToSet(Places(t, "hub")) :
        LET pubs == Publishes(t, pl.n)
        IN  /\ IsInjective([i \in DOMAIN pubs |-> pubs[i].port])
            /\ \A e \in ToSet(pubs), net \in {"tcp", "udp"} :
                  net \in e.network => <<e.port, net>> \notin ToSet(Reserved(t, pl.r, pl.n))

MembersLoad(t) ==
    LET rendered == UNION {RenderedAccess(t, pl.r, pl.n) : pl \in ToSet(Places(t, "hub"))}
    IN  \A p \in ToSet(t.portals), name \in UNION {q.users : q \in ToSet(t.portals)} :
            name \in p.users =>
                \E u \in ToSet(t.users) : u.name = name /\ u.access \cap rendered # {}

IdsOf(s) == [i \in DOMAIN s |-> s[i].id]
Loads(t) ==
    /\ (t.hub.reality = Unset) # (t.hub.tls = Unset)
    /\ \A r \in ToSet(Regions(t, "hub")) :
          /\ r.reality = Unset \/ r.tls = Unset
          /\ RegionTls(t, r) # Unset => RegionTls(t, r).certificate # Unset
    /\ IsInjective(IdsOf(t.regions)) /\ IsInjective(IdsOf(Nodes(t, "exit") \o Nodes(t, "hub")))
    /\ \A pl \in AllPlaces(t) : NodeLoads(t, pl.r, pl.n)
    /\ IsInjective(IdsOf(t.groups))
    /\ IsInjective([i \in DOMAIN t.users |-> t.users[i].name])
    /\ \A u \in ToSet(t.users) : u.group \in ToSet(IdsOf(t.groups))
    /\ IsInjective(IdsOf(t.portals))
    /\ t.portals # <<>> => ToSet(Places(t, "hub")) # {}
    /\ MembersLoad(t) /\ PublishesLoad(t)
    /\ NoCollisions(t)
=============================================================================
