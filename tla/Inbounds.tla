------------------------------ MODULE Inbounds ------------------------------
(***************************************************************************)
(* The inbounds of a node: which it has, the socket each listens on, who   *)
(* it lets in and what a caller must show.                                 *)
(*                                                                         *)
(* An environment e is what a build resolves for one node: e.t the         *)
(* topology, e.r and e.n the region and the node, e.key its keys (pair,    *)
(* enc: VLESS encryption on).  A client is an email with the id, the flow  *)
(* and, for a portal, the reverse tag that its entry has; an inbound is    *)
(* Unset when the node does not have it.                                   *)
(***************************************************************************)
EXTENDS Conglomerate

NoTag == <<>>
Client(email, id, flow) == [email |-> email, id |-> id, flow |-> flow, reverse |-> NoTag]

\* The VLESS encryption of a node: the pair it is done with, or none.
Encryption(key) == IF key.enc THEN key.pair ELSE Unset

\* The identities of every hub on an exit.
ExitClients(e, flow) ==
    SeqConcat(Nodes(e.t, "hub"), LAMBDA h :
        <<Client(HubExitEmail(e.t.ns, h.id, e.n.id), HubExitUuid(e.t.ns, h.id, e.n.id), flow)>>)

UserClient(t, u, flow) == Client(UserEmail(t.ns, u), UserUuid(t.ns, u), flow)
ServerClients(t, u, flow) ==
    IF "server" \in u.access THEN <<Client(ServerEmail(u), ServerUuid(t.ns, u), flow)>> ELSE <<>>
GuestClients(t, u, flow) ==
    [i \in DOMAIN u.guests |->
        Client(GuestEmail(u, u.guests[i]), GuestUuid(t.ns, u, u.guests[i]), flow)]

\* Users with the access type, their server identities where included, their guests.
AccessClients(t, type, flow, server) ==
    SeqConcat(t.users, LAMBDA u :
        IF type \notin u.access THEN <<>>
        ELSE <<UserClient(t, u, flow)>>
             \o (IF server THEN ServerClients(t, u, flow) ELSE <<>>)
             \o GuestClients(t, u, flow))

\* A hub serving Reality has the server identities whatever else their user may.
VlessClients(t, flow) ==
    SeqConcat(t.users, LAMBDA u :
        LET xhttp == "xhttp" \in u.access
        IN  (IF xhttp THEN <<UserClient(t, u, flow)>> ELSE <<>>)
            \o ServerClients(t, u, flow)
            \o (IF xhttp THEN GuestClients(t, u, flow) ELSE <<>>))
PortalClients(t, flow) ==
    SeqConcat(t.portals, LAMBDA p :
        <<[Client(PortalEmail(t.ns, p), PortalUuid(t.ns, p), flow)
              EXCEPT !.reverse = p.id \o <<"-portal">>]>>)

\* (Mutant: guests dial with their group's short id, so theirs are left out.)
HubShortIdsNoGuests(t) ==
    {GroupShortId(t.ns, g) : g \in ToSet(t.groups)} \cup {PortalShortId(t.ns, p) : p \in ToSet(t.portals)}
HubShortIds(t) ==
    {GroupShortId(t.ns, g) : g \in ToSet(t.groups)}
    \cup {PortalShortId(t.ns, p) : p \in ToSet(t.portals)}
    \cup {UserShortId(t.ns, u) : u \in
             {x \in ToSet(t.users) : x.guests # <<>> /\ x.access \cap {"xhttp", "cdn"} # {}}}

-----------------------------------------------------------------------------
(* The inbounds.                                                           *)

\* Direct: Reality on exits and on hub regions without TLS.
Direct(e) ==
    LET xhttp == Xhttp(e.t, e.r, e.n)
        exit == e.r.type = "exit"
        tls == ~exit /\ RegionTls(e.t, e.r) # Unset
        reality == Reality(e.t, e.r, e.n)
        flow == e.key.enc
    IN  [kind |-> "xhttp", encryption |-> Encryption(e.key), path |-> xhttp.path,
         security |-> IF tls THEN "tls" ELSE "reality",
         host |-> IF tls THEN Or(xhttp.host, e.n.host) ELSE XhttpHost(reality, xhttp),
         names |-> IF tls THEN <<e.n.host>> ELSE ServerNames(reality),
         pair |-> IF tls THEN Unset ELSE e.key.pair,
         shortIds |-> CASE exit -> {ExitShortId(e.t.ns, e.n.id)}
                        [] tls -> {}
                        [] OTHER -> HubShortIds(e.t),
         clients |-> CASE exit -> ExitClients(e, flow)
                       [] tls -> AccessClients(e.t, "tls", flow, TRUE) \o PortalClients(e.t, flow)
                       [] OTHER -> VlessClients(e.t, flow) \o PortalClients(e.t, flow)]

\* Behind the CDN, which ends TLS: the domain decides in HAProxy.
Cdn(e) ==
    IF e.t.cdn = Unset \/ e.r.cdn = Unset THEN Unset
    ELSE LET exit == e.r.type = "exit"
             domain == IF exit THEN e.t.cdn.exit ELSE e.t.cdn.hub
         IN  [kind |-> "cdn", encryption |-> Encryption(e.key), path |-> e.r.cdn, domain |-> domain,
              host |-> IF exit THEN e.n.id \o domain ELSE domain,
              clients |-> IF exit THEN ExitClients(e, e.key.enc)
                          ELSE AccessClients(e.t, "cdn", e.key.enc, TRUE)]

\* Accounts of the mixed inbound: name and password; no server identities.
Proxy(e) ==
    IF e.r.type = "exit" \/ ~ProxyInbound(e.t, e.n) THEN Unset
    ELSE [kind |-> "proxy",
          clients |-> SeqConcat(e.t.users, LAMBDA u :
              IF "proxy" \notin u.access THEN <<>>
              ELSE <<Client(Email(u.name, <<>>), UserUuid(e.t.ns, u), FALSE)>>
                   \o GuestClients(e.t, u, FALSE))]

\* xdns runs without TLS, so there is no flow.
XdnsInbound(e) ==
    LET clients == AccessClients(e.t, "xdns", FALSE, FALSE)
    IN  IF e.r.type = "exit" \/ Xdns(e.t, e.n) = Unset \/ clients = <<>> THEN Unset
        ELSE [kind |-> "xdns", port |-> Xdns(e.t, e.n).port, encryption |-> Encryption(e.key),
              clients |-> clients]

WireguardInbound(e) ==
    LET peers == Peers(e.t)
        wg == Wireguard(e.t, e.n)
    IN  IF e.r.type = "exit" \/ wg = Unset \/ peers = <<>> THEN Unset
        ELSE [kind |-> "wireguard", port |-> wg.port, pair |-> e.key.pair,
              peers |-> [i \in DOMAIN peers |->
                            [email |-> peers[i].email, key |-> PeerKey(e.key.pair, peers[i].id),
                             address |-> Address(wg.subnet, i)]]]

\* (Mutant: certificate and pin do not depend on the node's keys.)
EndpointUnkeyed(hy, reality, pair) ==
    LET sni == Or(hy.sni, ServerNames(reality)[1])
    IN  [sni |-> sni, obfs |-> Unset, pin |-> <<"derived", sni>>, certificate |-> <<"derived", sni>>]
\* The name peers ask for.
EndpointSni(hy, reality) == Or(hy.sni, ServerNames(reality)[1])
\* The certificate derived from the node's pair and that name, as what its pin says.
Derived(hy, reality, pair) == <<"derived", pair, EndpointSni(hy, reality)>>
\* The certificate: the operator's, or the derived one, pinned by the peers.
Endpoint(hy, reality, pair) ==
    LET sni == EndpointSni(hy, reality)
        derived == Derived(hy, reality, pair)
    IN  [sni |-> sni, obfs |-> IF hy.obfs THEN pair ELSE Unset,
         pin |-> IF hy.certificate # Unset THEN hy.certificate.pin ELSE derived,
         certificate |-> IF hy.certificate # Unset THEN <<"operator", hy.certificate.file>> ELSE derived]

\* The Hysteria inbound, which a node without clients for it does not have.
HysteriaClients(e) ==
    IF e.r.type = "exit" THEN ExitClients(e, FALSE) ELSE AccessClients(e.t, "hysteria", FALSE, TRUE)
HysteriaListener(e) ==
    LET hy == Hysteria(e.t, e.r, e.n)
    IN  [kind |-> "hysteria", port |-> hy.port, clients |-> HysteriaClients(e),
         end |-> Endpoint(hy, Reality(e.t, e.r, e.n), e.key.pair)]
HysteriaInbound(e) ==
    IF Hysteria(e.t, e.r, e.n) = Unset \/ HysteriaClients(e) = <<>> THEN Unset ELSE HysteriaListener(e)

Inbounds(e) ==
    Where(<<Direct(e), Cdn(e), Proxy(e), XdnsInbound(e), WireguardInbound(e), HysteriaInbound(e)>>,
          LAMBDA in : in # Unset)

\* A build fails over a WireGuard inbound without subnet, or with too few addresses.
Renders(e) ==
    (e.r.type = "hub" /\ Wireguard(e.t, e.n) # Unset) =>
        LET subnet == Wireguard(e.t, e.n).subnet
        IN  subnet # Unset /\ ~Exhausted(e.t, subnet)

-----------------------------------------------------------------------------
(* Sockets.  Behind HAProxy the VLESS inbounds listen on local sockets;    *)
(* HAProxy binds 443 and hands the CDN's connections over by their SNI.    *)

SocketOf(e, in) ==
    CASE in.kind = "xhttp" -> IF Haproxy(e.t, e.r, e.n) THEN <<0, "xhttp">> ELSE Direct443
      [] in.kind = "cdn" -> <<0, "cdn">>
      [] in.kind = "proxy" -> <<80, "tcp">>
      [] OTHER -> <<in.port, "udp">>

ForwardSockets(e) ==
    IF e.r.type = "exit" THEN <<>>
    ELSE SeqConcat(Publishes(e.t, e.n), LAMBDA p : SetToSeq({<<p.port, net>> : net \in p.network}))

\* Every socket the node's Xray and HAProxy bind, as often as it is bound.
Sockets(e) ==
    LET metrics == Metrics(e.t, e.r, e.n)
    IN  SeqConcat(Inbounds(e), LAMBDA in : <<SocketOf(e, in)>>)
        \o ForwardSockets(e)
        \o (IF Haproxy(e.t, e.r, e.n) THEN <<Direct443>> ELSE <<>>)
        \o (IF metrics.enabled THEN <<<<metrics.port, "tcp">>>> ELSE <<>>)

\* Which inbound a connection to 443/tcp with this SNI reaches.
Frontend(e, sni) ==
    LET cdn == Cdn(e)
        end == IF e.r.type = "exit" THEN sni # cdn.domain /\ IsSuffix(cdn.domain, sni)
               ELSE sni = cdn.domain
    IN  IF Haproxy(e.t, e.r, e.n) /\ cdn # Unset /\ end THEN cdn ELSE Direct(e)
=============================================================================
