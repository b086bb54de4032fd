------------------------------ MODULE MCAccess ------------------------------
(***************************************************************************)
(* Access for TLC: two deployments and the files an edit may turn them     *)
(* into.  What is given out dials hubs only, so it is given out where      *)
(* there are only hubs; what runs between nodes is there with the exit.    *)
(***************************************************************************)
EXTENDS Access

NoOverride == [reality |-> Unset, tls |-> Unset, xhttp |-> Unset]
User(name, group, access, guests) ==
    [name |-> name, group |-> group, access |-> access, guests |-> guests, uuid |-> Unset]
Portal(id) == [id |-> id, users |-> {}, uuid |-> Unset, publish |-> <<>>]
Publishing(id, port) ==
    [Portal(id) EXCEPT !.publish = <<[port |-> port, network |-> {"tcp", "udp"}, nodes |-> Unset]>>]

Hub(id) ==
    [id |-> id, host |-> id \o <<".host">>, haproxy |-> Unset, reality |-> Unset, xhttp |-> Unset,
     hysteria |-> Unset, metrics |-> Unset, proxy |-> Unset, xdns |-> Unset, wireguard |-> Unset]
Exit(id) ==
    [id |-> id, host |-> id \o <<".host">>, haproxy |-> Unset, xhttp |-> Unset, hysteria |-> Unset,
     metrics |-> Unset, reality |-> [dest |-> <<"site">>, names |-> Unset]]
HubRegion(id, nodes) ==
    [id |-> id, type |-> "hub", nodes |-> nodes, cdn |-> Unset, xhttp |-> Unset, reality |-> Unset,
     tls |-> Unset]
ExitRegion(id, nodes) ==
    [id |-> id, type |-> "exit", nodes |-> nodes, cdn |-> Unset, xhttp |-> Unset, protocol |-> Unset,
     hysteria |-> Unset, warp |-> FALSE]

NoMetrics == [enabled |-> FALSE, port |-> 9100]
Role0 == [reality |-> Unset, tls |-> Unset, xhttp |-> [path |-> <<"/x">>, host |-> Unset],
          haproxy |-> FALSE, proxy |-> FALSE, xdns |-> Unset, wireguard |-> Unset,
          hysteria |-> Unset, metrics |-> Unset]

h1 == <<"h1">>
h2 == <<"h2">>
x1 == <<"x1">>
alice == <<"alice">>
bob == <<"bob">>
carol == <<"carol">>
Phone == <<"phone">>
Friends == [id |-> <<"friends">>, short |-> Unset]
All == {"xhttp", "cdn", "hysteria", "wireguard", "tls", "xdns", "proxy"}

\* Reality hubs with everything on, behind HAProxy and a CDN.
Full ==
    [ns |-> <<"ns">>, cdn |-> [exit |-> <<".exits">>, hub |-> <<"cdn">>], metrics |-> NoMetrics,
     hub |-> [Role0 EXCEPT !.reality = [dest |-> <<"site">>, names |-> <<<<"www">>, <<"site">>>>],
                  !.haproxy = TRUE, !.xdns = [port |-> 53], !.hysteria = [DefaultHysteria EXCEPT !.obfs = TRUE],
                  !.wireguard = [port |-> 51820, subnet |-> [net |-> 10, hosts |-> 6]]],
     exit |-> Role0,
     groups |-> <<Friends>>,
     users |-> <<User(alice, Friends.id, All \cup {"server"}, <<Phone>>),
                 User(bob, Friends.id, {"xhttp", "wireguard"}, <<>>)>>,
     portals |-> <<Publishing(<<"lan">>, 8080)>>,
     regions |-> <<[HubRegion(<<"hubs">>, <<Hub(h1), Hub(h2)>>) EXCEPT !.cdn = <<"/cdn">>]>>]

\* One hub serves TLS, the other Reality; the listeners are the operator's business.
Mixed ==
    [Full EXCEPT !.cdn = Unset,
                 !.hub = [@ EXCEPT !.haproxy = FALSE, !.proxy = TRUE, !.hysteria = Unset],
                 !.regions = <<[HubRegion(<<"hubs">>, <<Hub(h1)>>) EXCEPT !.tls = [certificate |-> <<"file">>]],
                               HubRegion(<<"others">>, <<[Hub(h2) EXCEPT !.hysteria =
                                   [certificate |-> [file |-> "own", pin |-> <<"operator", "own">>], sni |-> <<"own">>]]>>)>>]

\* With an exit that is dialed by VLESS, or by Hysteria.
Exits == [ExitRegion(<<"exits">>, <<Exit(x1)>>) EXCEPT !.warp = TRUE]
OverVless(t) == [t EXCEPT !.regions = Append(@, Exits)]
OverHysteria(t) ==
    [t EXCEPT !.regions = Append(@, [Exits EXCEPT !.protocol = "hysteria"]),
              !.exit.hysteria = [DefaultHysteria EXCEPT !.port = 8443]]

Users(t, us) == [t EXCEPT !.users = us]
A == Full.users[1]
B == Full.users[2]
C == User(carol, Friends.id, {"xhttp", "wireguard", "hysteria"}, <<Phone>>)

\* A hub whose Hysteria listener differs, a hub that leaves, another namespace.
OwnSni == [Full EXCEPT !.regions[1].nodes[2].hysteria = [sni |-> <<"own">>]]
OneHub == [Full EXCEPT !.regions[1].nodes = <<Hub(h1)>>]
NewSpace == [Full EXCEPT !.ns = <<"other">>]

MCTopo ==
    [full |-> Full, mixed |-> Mixed, ownSni |-> OwnSni, oneHub |-> OneHub, newSpace |-> NewSpace,
     \* The users in another order, and one more.
     regrouped |-> Users(Full, <<B, A, C>>),
     \* A user leaves, and the freed name is a portal's.
     alicePortal |-> [Full EXCEPT !.users = <<B>>, !.portals = <<Portal(<<"lan">>), Portal(alice)>>],
     \* Renamed, the identity pinned to what it was.
     renamed |-> Users(Full, <<[A EXCEPT !.name = carol, !.uuid = UserUuid(<<"ns">>, A)], B>>),
     \* Not loadable: two listeners on one socket; bob pinned to alice's guest.
     clash |-> [Full EXCEPT !.hub.xdns = [port |-> 443]],
     stolen |-> Users(Full, <<A, [B EXCEPT !.uuid = GuestUuid(<<"ns">>, A, Phone)]>>),
     fullExit |-> OverVless(Full), mixedExit |-> OverHysteria(Mixed), ownSniExit |-> OverVless(OwnSni),
     oneHubExit |-> OverVless(OneHub), newSpaceExit |-> OverVless(NewSpace),
     hysteriaExit |-> OverHysteria(Full)]
MCFirst == {"full", "mixed", "fullExit", "mixedExit"}
\* From one deployment to the other, and from `full` to any other file.
MCWithExit == {"ownSniExit", "oneHubExit", "newSpaceExit", "hysteriaExit"}
MCHubsOnly == {"ownSni", "oneHub", "newSpace", "regrouped", "alicePortal", "renamed", "clash", "stolen"}
MCEdits ==
    {<<"mixed", "full">>, <<"mixedExit", "fullExit">>}
    \cup ({"full"} \X MCHubsOnly) \cup ({"fullExit"} \X MCWithExit)
MCAsked ==
    [x \in DOMAIN MCTopo |-> IF x \in MCHubsOnly \cup {"full", "mixed"} THEN {Unset, h2} ELSE {}]
MCCircleOf == (h1 :> "hubs") @@ (h2 :> "hubs") @@ (x1 :> "x1")

\* bob pinned to alice's identity but for the segment that Xray leaves out.
MCShadowed ==
    [full |-> Full,
     shadowed |-> Users(Full, <<A, [B EXCEPT !.uuid = [UserUuid(<<"ns">>, A) EXCEPT !.seg = 1]]>>)]
MCShadowedFirst == {"full"}
MCShadowedEdits == {<<"full", "shadowed">>}
MCShadowedAsked == [x \in DOMAIN MCShadowed |-> {}]

\* What theorems of AccessProofs ask of the files is so of these.
ASSUME LinksApartHere == LinksApart
ASSUME NamespaceApartHere == NamespaceApart
ASSUME DialsApartHere == DialsApart <=> "shadowed" \notin DOMAIN Topo
=============================================================================
