------------------------------- MODULE Dials --------------------------------
(***************************************************************************)
(* What the program hands out to connect with: the share URLs and          *)
(* WireGuard configurations of users, the links of hubs to exits and the   *)
(* portals' reverse dials; and which of them an inbound admits, as whom.   *)
(*                                                                         *)
(* k maps every node to its keys.  A request is the command share: user,   *)
(* hub (a node id or Unset), via, and who: "self", "server" or the label   *)
(* of a guest as <<"guest", label>>.                                       *)
(***************************************************************************)
EXTENDS Inbounds

Env(t, pl, k) == [t |-> t, r |-> pl.r, n |-> pl.n, key |-> k[pl.n.id]]
Envs(t, type, k) ==
    LET places == Places(t, type) IN [i \in DOMAIN places |-> Env(t, places[i], k)]

-----------------------------------------------------------------------------
(* The identity a request is for.                                          *)

Self == <<"self">>
Server == <<"server">>
Guest(label) == <<"guest", label>>

ResolveIdentity(t, u, who) ==
    CASE who = Self -> [id |-> UserUuid(t.ns, u), email |-> UserEmail(t.ns, u)]
      [] who = Server -> [id |-> ServerUuid(t.ns, u), email |-> ServerEmail(u)]
      [] OTHER -> [id |-> GuestUuid(t.ns, u, who[2]), email |-> GuestEmail(u, who[2])]
HasIdentity(u, who) ==
    CASE who = Self -> TRUE
      [] who = Server -> "server" \in u.access
      [] OTHER -> who[2] \in ToSet(u.guests)

\* Guests dial with the short id of their user, everybody else with the group's.
DialShortId(t, u, who) ==
    IF who \in {Self, Server}
    THEN GroupShortId(t.ns, CHOOSE g \in ToSet(t.groups) : g.id = u.group)
    ELSE UserShortId(t.ns, u)

\* The hub asked for, or all.
Meant(hub, e) == hub = Unset \/ e.n.id = hub

\* Of the nodes to keep the first of its region with each material.
FirstOfEach(envs, Keep(_), Material(_)) ==
    {envs[i] : i \in {j \in DOMAIN envs :
        /\ Keep(envs[j])
        /\ \A h \in 1..(j - 1) :
              (Keep(envs[h]) /\ envs[h].r.id = envs[j].r.id) => Material(envs[h]) # Material(envs[j])}}

-----------------------------------------------------------------------------
(* Dials.  All VLESS dials go to 443/tcp.                                  *)

\* The dial of a direct inbound: share URLs and portals.
DirectDial(e, id, sid) ==
    LET in == Direct(e)
    IN  [via |-> "direct", to |-> e.n.host, id |-> id, encryption |-> Encryption(e.key),
         flow |-> e.key.enc, security |-> in.security, sni |-> in.names[1], host |-> in.host,
         path |-> in.path, pair |-> in.pair, shortId |-> IF in.security = "tls" THEN Unset ELSE sid]

CdnDial(e, id) ==
    LET in == Cdn(e)
    IN  [via |-> "cdn", to |-> in.domain, id |-> id, encryption |-> Encryption(e.key),
         flow |-> e.key.enc, sni |-> in.domain, host |-> in.host, path |-> in.path]

HysteriaDial(to, port, end, id) ==
    [via |-> "hysteria", to |-> to, port |-> port, id |-> id, sni |-> end.sni, pin |-> end.pin,
     obfs |-> end.obfs]

\* The URLs of share without --wg.
DirectShares(t, u, hub, who, id, sid, envs) ==
    LET tls(e) == RegionTls(t, e.r) # Unset
        wanted(e) ==
            /\ Meant(hub, e)
            /\ IF tls(e) THEN "tls" \in u.access ELSE who = Server \/ "xhttp" \in u.access
        material(e) == IF tls(e) THEN <<e.n.id>> ELSE <<Direct(e), e.key>>
    IN  {DirectDial(e, id, sid) : e \in FirstOfEach(envs, wanted, material)}
\* (Mutant: hubs of a region are told apart by their port alone.)
HysteriaMaterialOfPort(e) == <<HysteriaInbound(e).port>>
HysteriaMaterial(e) ==
    LET in == HysteriaInbound(e) IN <<in.port, in.end.sni, in.end.pin, in.end.obfs>>
HysteriaShares(hub, id, envs) ==
    LET listening(e) == Meant(hub, e) /\ HysteriaInbound(e) # Unset
    IN  {HysteriaDial(e.n.host, HysteriaInbound(e).port, HysteriaInbound(e).end, id) :
            e \in FirstOfEach(envs, listening, HysteriaMaterial)}
CdnShares(t, hub, id, envs) ==
    IF t.cdn = Unset THEN {}
    ELSE LET meant(e) == Meant(hub, e)
             region(e) == <<>>
         IN  {CdnDial(e, id) : e \in {x \in FirstOfEach(envs, meant, region) : Cdn(x) # Unset}}

\* The peers are numbered as in the inbound.
WireguardShares(t, hub, email, envs) ==
    {[via |-> "wireguard", to |-> e.n.host, port |-> Wireguard(t, e.n).port, pair |-> e.key.pair,
      key |-> PeerKey(e.key.pair, Peers(t)[i].id), address |-> Address(Wireguard(t, e.n).subnet, i)] :
        e \in {x \in ToSet(envs) : Meant(hub, x) /\ Wireguard(t, x.n) # Unset},
        i \in {j \in DOMAIN Peers(t) : Peers(t)[j].email = email}}

MayAsk(u, via, who) ==
    CASE via = "direct" -> who = Server \/ u.access \cap {"xhttp", "tls"} # {}
      [] OTHER -> via \in u.access

\* Everything one share command prints; nothing when it fails.
Shares(t, k, u, hub, via, who) ==
    LET identity == ResolveIdentity(t, u, who)
        envs == Envs(t, "hub", k)
    IN  IF ~MayAsk(u, via, who) \/ ~HasIdentity(u, who) THEN {}
        ELSE CASE via = "direct" ->
                    DirectShares(t, u, hub, who, identity.id, DialShortId(t, u, who), envs)
               [] via = "cdn" -> CdnShares(t, hub, identity.id, envs)
               [] via = "hysteria" -> HysteriaShares(hub, identity.id, envs)
               [] via = "wireguard" ->
                    IF \E e \in ToSet(envs) : Meant(hub, e) /\ ~Renders(e) THEN {}
                    ELSE WireguardShares(t, hub, identity.email, envs)

-----------------------------------------------------------------------------
(* Links: from hub h to exit x, over the protocol of the exit's region, to *)
(* the address that the exit's id stands for.                              *)

\* (Mutant: the warp link is an identity of its own.)
LinkIdentityRehashed(ns, h, x, warp) ==
    IF warp THEN Uuid5(NamespaceUuid(ns), <<"warp-">> \o h \o <<"-">> \o x) ELSE HubExitUuid(ns, h, x)
LinkIdentity(ns, h, x, warp) ==
    IF warp THEN WarpUuid(HubExitUuid(ns, h, x)) ELSE HubExitUuid(ns, h, x)
VlessLink(x, id) == [DirectDial(x, id, ExitShortId(x.t.ns, x.n.id)) EXCEPT !.to = x.n.id]
HysteriaLink(x, id) ==
    LET hy == Hysteria(x.t, x.r, x.n)
    IN  HysteriaDial(x.n.id, hy.port, Endpoint(hy, Reality(x.t, x.r, x.n), x.key.pair), id)
Link(h, x, warp) ==
    LET id == LinkIdentity(h.t.ns, h.n.id, x.n.id, warp)
    IN  IF LinkProtocol(x.r) = "hysteria" THEN HysteriaLink(x, id) ELSE VlessLink(x, id)
Links(h, x) == {Link(h, x, FALSE)} \cup (IF x.r.warp THEN {Link(h, x, TRUE)} ELSE {})

PortalDial(e, p) == DirectDial(e, PortalUuid(e.t.ns, p), PortalShortId(e.t.ns, p))

-----------------------------------------------------------------------------
(* External: what Xray admits.  Ids are compared without third segment.    *)

SameId(a, b) == a.path = b.path

Handshake(in, d) ==
    /\ in.kind = (IF d.via = "cdn" THEN "cdn" ELSE "xhttp")
    /\ in.encryption = d.encryption /\ in.host = d.host /\ in.path = d.path
    /\ d.via = "direct" =>
          /\ in.security = d.security
          /\ d.sni \in ToSet(in.names)
          /\ d.security = "reality" => d.pair = in.pair /\ d.shortId \in in.shortIds
\* A pin stands for the certificate it is the hash of; without one the operator's
\* certificate has to be valid for the name dialed.
Verified(in, d) ==
    /\ d.obfs = in.end.obfs
    /\ IF d.pin # Unset THEN d.pin = in.end.certificate
       ELSE in.end.certificate[1] = "operator" /\ d.sni = in.end.sni

\* The clients of node e the dial is let in as; none when it is refused.
Admitted(e, d) ==
    CASE d.via \in {"direct", "cdn"} ->
            LET in == Frontend(e, d.sni)
            IN  IF ~Handshake(in, d) THEN {}
                ELSE {c \in ToSet(in.clients) : SameId(c.id, d.id) /\ c.flow = d.flow}
      [] d.via = "hysteria" ->
            LET in == HysteriaInbound(e)
            IN  IF in = Unset THEN {}
                ELSE IF in.port # d.port \/ ~Verified(in, d) THEN {}
                ELSE {c \in ToSet(in.clients) : SameId(c.id, d.id)}
      [] d.via = "wireguard" ->
            LET in == WireguardInbound(e)
            IN  IF in = Unset THEN {}
                ELSE IF in.port # d.port \/ in.pair # d.pair THEN {}
                ELSE {p \in ToSet(in.peers) : p.key = d.key /\ p.address = d.address}
Emails(e, d) == {c.email : c \in Admitted(e, d)}
=============================================================================
