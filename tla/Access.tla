------------------------------- MODULE Access -------------------------------
(***************************************************************************)
(* Access over time.  The topology is edited, keys are rotated, nodes are  *)
(* built and rolled out one by one, and somebody holds what `share`,       *)
(* `share --wg` or `gen-portal` gave out at some moment: who is let in     *)
(* where, as whom, while the nodes run configurations of different ages?   *)
(*                                                                         *)
(* A snapshot is the topology (its name in Topo) and the generation of     *)
(* every key pair that a command saw.  What happens while a command runs   *)
(* is in KeyStore, TopologyFile and Deployment; here it takes one step.    *)
(***************************************************************************)
EXTENDS Dials, FiniteSets

CONSTANTS Topo,         \* the topology files considered, by name
          First,        \* the names of those that may be deployed at first
          Edits,        \* the edits considered, as pairs of names
          Asked,        \* Asked[x]: with file x, the values of share --hub considered
          CircleOf,     \* CircleOf[n]: whose keys node n shares
          Encrypted,    \* the circles with VLESS encryption on
          MaxEdits,     \* bound: edits of the topology file
          MaxRotations  \* bound: key rotations

VARIABLES topo,   \* the name of the topology in place
          gen,    \* gen[c]: the generation of the key pair of circle c
          built,  \* built[n]: the snapshot node n runs the configuration of, or Unset
          held,   \* what was given out: dials, their owner, from which snapshot
          spent   \* how much of each bound is used

vars == <<topo, gen, built, held, spent>>

-----------------------------------------------------------------------------
Node == DOMAIN CircleOf
Now == [topo |-> topo, gen |-> gen]
Loadable == {x \in DOMAIN Topo : Loads(Topo[x])}

KeysAt(g) == [n \in Node |-> [pair |-> <<CircleOf[n], g[CircleOf[n]]>>, enc |-> CircleOf[n] \in Encrypted]]
Declared(s) == {pl.n.id : pl \in AllPlaces(Topo[s.topo])}
PlaceIn(s, n) == CHOOSE pl \in AllPlaces(Topo[s.topo]) : pl.n.id = n
\* What a build of n from snapshot s has.
EnvAt(s, n) == Env(Topo[s.topo], PlaceIn(s, n), KeysAt(s.gen))

\* Every declared node shares somebody's keys (its own, if nobody else's).
ASSUME NodesAssumption == \A x \in DOMAIN Topo : \A pl \in AllPlaces(Topo[x]) : pl.n.id \in Node
\* A pin that the file gives is of a certificate of the operator's.
ASSUME PinsAssumption ==
    \A x \in DOMAIN Topo : \A pl \in AllPlaces(Topo[x]) :
        LET hy == Hysteria(Topo[x], pl.r, pl.n)
        IN  (hy # Unset /\ hy.certificate # Unset)
                => hy.certificate.pin = Unset \/ hy.certificate.pin[1] = "operator"
ASSUME BoundsAssumption == MaxRotations \in Nat
\* The files have the fields that the schema's types give them.
ASSUME FieldsAssumption == \A x \in DOMAIN Topo : WellFormed(Topo[x])
\* The mark for what is not given is no listener, no settings and no pin.
ASSUME MarkAssumption ==
    \A x \in DOMAIN Topo : \A pl \in AllPlaces(Topo[x]) : \A g \in [Range(CircleOf) -> 0..MaxRotations] :
        LET e == Env(Topo[x], pl, KeysAt(g))
            hy == Hysteria(e.t, e.r, e.n)
        IN  /\ HysteriaOverlay(e.t, e.r, e.n) # Unset
            /\ hy # Unset => HysteriaListener(e) # Unset /\ Derived(hy, Reality(e.t, e.r, e.n), e.key.pair) # Unset
            /\ (e.t.cdn # Unset /\ e.r.cdn # Unset) => Cdn(e) # Unset
            /\ (e.r.type = "hub" /\ e.r.reality = Unset /\ e.r.tls # Unset) => RegionTls(e.t, e.r) # Unset
            /\ (e.r.type = "hub" /\ Wireguard(e.t, e.n) # Unset /\ Peers(e.t) # <<>>) => WireguardInbound(e) # Unset

Snapshots == [topo : Loadable, gen : [Range(CircleOf) -> 0..MaxRotations]]
IsHub(s, n) == PlaceIn(s, n).r.type = "hub"

Init ==
    /\ topo \in First \cap Loadable
    /\ gen = [c \in Range(CircleOf) |-> 0]
    /\ built = [n \in Node |-> IF n \in Declared(Now) THEN Now ELSE Unset]
    /\ held = Unset
    /\ spent = [edits |-> 0, rotations |-> 0]

\* (Mutant: the file is not validated.)
EditUnchecked(x) ==
    /\ spent.edits < MaxEdits
    /\ <<topo, x>> \in Edits
    /\ topo' = x
    /\ spent' = [spent EXCEPT !.edits = @ + 1]
    /\ UNCHANGED <<gen, built, held>>
\* The file changes.  Every command loads it first, so one that fails to load
\* is as if it were not there.
Edit(x) ==
    /\ spent.edits < MaxEdits
    /\ <<topo, x>> \in Edits
    /\ x \in Loadable
    /\ topo' = x
    /\ spent' = [spent EXCEPT !.edits = @ + 1]
    /\ UNCHANGED <<gen, built, held>>

\* gen-keys --force, for a node that is declared.
Rotate(c) ==
    /\ spent.rotations < MaxRotations
    /\ \E n \in Declared(Now) : CircleOf[n] = c
    /\ gen' = [gen EXCEPT ![c] = @ + 1]
    /\ spent' = [spent EXCEPT !.rotations = @ + 1]
    /\ UNCHANGED <<topo, built, held>>

\* build, and the files are taken to the node.
Build(n) ==
    /\ n \in Declared(Now)
    /\ Renders(EnvAt(Now, n))
    /\ built' = [built EXCEPT ![n] = Now]
    /\ UNCHANGED <<topo, gen, held, spent>>

\* share, for one hub or all, self, server or a guest.
Share(u, hub, via, who) ==
    /\ held = Unset
    /\ Shares(Topo[topo], KeysAt(gen), u, hub, via, who) # {}
    /\ held' = [dials |-> Shares(Topo[topo], KeysAt(gen), u, hub, via, who), hub |-> hub,
                via |-> via, owner |-> u, who |-> who, at |-> Now,
                email |-> ResolveIdentity(Topo[topo], u, who).email, reverse |-> NoTag]
    /\ UNCHANGED <<topo, gen, built, spent>>

\* gen-portal: a dial to every hub.
GenPortal(p) ==
    /\ held = Unset
    /\ held' = [dials |-> {PortalDial(e, p) : e \in ToSet(Envs(Topo[topo], "hub", KeysAt(gen)))},
                hub |-> Unset, via |-> "direct", owner |-> p, who |-> <<"portal">>, at |-> Now,
                email |-> PortalEmail(Topo[topo].ns, p), reverse |-> p.id \o <<"-portal">>]
    /\ UNCHANGED <<topo, gen, built, spent>>

Next ==
    \/ \E x \in DOMAIN Topo : Edit(x)
    \/ \E c \in Range(CircleOf) : Rotate(c)
    \/ \E n \in Node : Build(n)
    \/ \E u \in ToSet(Topo[topo].users), hub \in Asked[topo],
          via \in {"direct", "cdn", "hysteria", "wireguard"} :
          \E who \in {Self, Server} \cup {Guest(l) : l \in ToSet(u.guests)} : Share(u, hub, via, who)
    \/ \E p \in ToSet(Topo[topo].portals) : GenPortal(p)

Spec == Init /\ [][Next]_vars

-----------------------------------------------------------------------------
(* Where dials arrive, and what the edits in between left alone.           *)

\* External: DNS for a host name; the CDN forwards the path of a region to its hubs.
Arrives(d, e) ==
    IF d.via = "cdn" THEN e.r.type = "hub" /\ e.r.cdn = d.path ELSE e.n.host = d.to

SameKeys(a, b, n) == a.gen[CircleOf[n]] = b.gen[CircleOf[n]]
\* Node n has the same entry under the same settings.
SamePlace(a, b, n) ==
    /\ n \in Declared(a) \cap Declared(b)
    /\ PlaceIn(a, n).n = PlaceIn(b, n).n
    /\ [PlaceIn(a, n).r EXCEPT !.nodes = <<>>] = [PlaceIn(b, n).r EXCEPT !.nodes = <<>>]
    /\ Topo[a.topo].ns = Topo[b.topo].ns
    /\ Topo[a.topo].cdn = Topo[b.topo].cdn
    /\ Role(Topo[a.topo], PlaceIn(a, n).r) = Role(Topo[b.topo], PlaceIn(b, n).r)

GroupOf(s, u) == {g \in ToSet(Topo[s.topo].groups) : g.id = u.group}
\* The WireGuard users up to u, whose peers come before u's.
UsersUpTo(s, u) ==
    {i \in DOMAIN Topo[s.topo].users : \E j \in DOMAIN Topo[s.topo].users :
        i <= j /\ Topo[s.topo].users[j] = u}
Ahead(s, u) ==
    Where([i \in UsersUpTo(s, u) |-> Topo[s.topo].users[i]], LAMBDA v : "wireguard" \in v.access)
\* The owner of what is held has the same entry, and its group; for WireGuard
\* the users before it have, too.
SameOwner(b) ==
    LET a == held.at
        u == held.owner
    IN  IF held.who = <<"portal">>
        THEN \E p \in ToSet(Topo[b.topo].portals) : p.id = u.id /\ p.uuid = u.uuid
        ELSE /\ u \in ToSet(Topo[b.topo].users)
             /\ GroupOf(a, u) = GroupOf(b, u)
             /\ held.via = "wireguard" => Ahead(a, u) = Ahead(b, u)

\* For every node there is: built from b, it is as it was for what is held.
Current(b, n) == SameKeys(held.at, b, n) /\ SamePlace(held.at, b, n) /\ SameOwner(b)

Pinned(t) == {o.uuid.path : o \in {v \in ToSet(t.users) \cup ToSet(t.portals) : v.uuid # Unset}}

IdOf(d) == IF d.via = "wireguard" THEN d.key.of ELSE d.id

Running == {n \in Node : built[n] # Unset}
RunningHubs == {n \in Running : IsHub(built[n], n)}

\* The exit's Reality name, which its links send as SNI, is none that HAProxy
\* hands to the CDN's inbound.
SniApart(t, r, n) == t.cdn # Unset => ~IsSuffix(t.cdn.exit, ServerNames(Reality(t, r, n))[1])
\* A pin in the file is that of the file's certificate.
PinRight(t, r, n) ==
    LET hy == Hysteria(t, r, n)
    IN  (hy # Unset /\ hy.certificate # Unset) => hy.certificate.pin \in {Unset, <<"operator", hy.certificate.file>>}
\* Nothing in the code checks either; a file without them has links that fail.
LinksApart ==
    \A x \in DOMAIN Topo : \A pl \in AllPlaces(Topo[x]) : pl.r.type = "exit" =>
        SniApart(Topo[x], pl.r, pl.n) /\ PinRight(Topo[x], pl.r, pl.n)

\* The namespace is no username: then a guest's email, which has the username
\* where a user's has the namespace, is never a user's.  The code checks this
\* neither.
NamespaceFree(t) == \A u \in ToSet(t.users) : u.name # t.ns
NamespaceApart == \A x \in DOMAIN Topo : NamespaceFree(Topo[x])

\* Hubs are told apart by what dials go by: the host, the CDN path (behind which
\* hubs share their keys), the SNI, the pin and the part of a UUID that Xray
\* compares.  The code lets a file be otherwise; its dials then end elsewhere.
FirstName(t, r, n) == IF RegionTls(t, r) # Unset THEN n.host ELSE ServerNames(Reality(t, r, n))[1]
HubsApart(t) ==
    LET hubs == ToSet(Places(t, "hub"))
    IN  /\ \A pl \in hubs, ql \in AllPlaces(t) : pl.n.host = ql.n.host => pl = ql
        /\ \A pl, ql \in hubs : (pl.r.cdn # Unset /\ pl.r.cdn = ql.r.cdn) => CircleOf[pl.n.id] = CircleOf[ql.n.id]
        /\ \A pl \in hubs : (t.cdn # Unset => FirstName(t, pl.r, pl.n) # t.cdn.hub) /\ PinRight(t, pl.r, pl.n)
PathsApart(t) == IsInjective([i \in DOMAIN HubIdentities(t) |-> HubIdentities(t)[i].path])
DialsApart == \A x \in Loadable : HubsApart(Topo[x]) /\ PathsApart(Topo[x])

-----------------------------------------------------------------------------
(* Properties.                                                             *)

\* Every variable stays in its type; every node runs, and everything held was
\* given out from, a topology that loads.
TypeOK ==
    /\ Now \in Snapshots
    /\ built \in [Node -> Snapshots \cup {Unset}]
    /\ held # Unset => held.at \in Snapshots /\ held.dials # {}

\* What was given out keeps working across edits that are about others, whatever
\* they are, and across rebuilds: the listener built from the newer file lets
\* it in, as its owner and nobody else (share_url and conf against fragment).
SharesSurvive ==
    held # Unset =>
        \A n \in RunningHubs : Current(built[n], n) =>
            LET e == EnvAt(built[n], n)
            IN  \A d \in held.dials : Arrives(d, e) =>
                    /\ Emails(e, d) = {held.email}
                    /\ held.reverse # NoTag => \A c \in Admitted(e, d) : c.reverse = held.reverse

\* However stale, it never lets its holder in as somebody else: a name that was
\* freed and taken again by a user, guest or portal must not inherit anything,
\* unless one of the files pins the identity on purpose.
NeverSomebodyElse ==
    held # Unset =>
        \A n \in RunningHubs, d \in held.dials :
            LET e == EnvAt(built[n], n)
                pinned == Pinned(e.t) \cup Pinned(Topo[held.at.topo])
            IN  (Arrives(d, e) /\ \A path \in pinned : ~IsPrefix(path, IdOf(d).path))
                    => Emails(e, d) \subseteq {held.email}

\* share without --hub leaves out hubs whose URL would repeat another's of the
\* region: whatever lists its owner is still reached by one of the URLs
\* (_direct_share_urls, _hysteria_share_urls; a CDN URL is for the region).
RegionCovered ==
    (held # Unset /\ held.hub = Unset) =>
        \A n \in RunningHubs : Current(built[n], n) =>
            LET e == EnvAt(built[n], n)
                in == CASE held.via = "direct" -> Direct(e) [] held.via = "cdn" -> Cdn(e)
                        [] held.via = "hysteria" -> HysteriaInbound(e) [] OTHER -> Unset
            IN  (in # Unset /\ \E c \in ToSet(Given(in, "clients")) : c.email = held.email)
                    => \E d \in held.dials : Emails(e, d) = {held.email}

\* A hub and an exit built at different times agree about the link between them
\* as long as the exit's keys and settings are the same and the exit was built
\* with the hub: the exit takes every link for that hub, and sends the warp
\* link, and no other, to warp (vless and hysteria links against inbounds).
LinksAccepted ==
    \A h \in RunningHubs, x \in Running \ RunningHubs :
        LET a == built[h]
            b == built[x]
            seen == EnvAt(a, x)
        IN  (SamePlace(a, b, x) /\ SameKeys(a, b, x) /\ h \in Declared(b) /\ IsHub(b, h)) =>
                /\ \A d \in Links(EnvAt(a, h), seen) :
                        Emails(EnvAt(b, x), d) = {HubExitEmail(seen.t.ns, EnvAt(a, h).n.id, seen.n.id)}
                /\ {d.id.seg = WarpSegment : d \in Links(EnvAt(a, h), seen)}
                        = IF seen.r.warp THEN BOOLEAN ELSE {FALSE}

\* gen-keys --force shuts out what was given out before: once a hub runs with its
\* new pair, no Reality, encrypted, pinned or WireGuard dial of the old one
\* gets in.  (The others carry nothing of the pair.)
RotationRevokes ==
    held # Unset =>
        \A n \in RunningHubs, d \in held.dials :
            LET e == EnvAt(built[n], n)
                carries == CASE d.via = "direct" -> d.pair # Unset \/ d.encryption # Unset
                             [] d.via = "cdn" -> d.encryption # Unset
                             [] d.via = "hysteria" -> d.obfs # Unset \/ (d.pin # Unset /\ d.pin[1] = "derived")
                             [] d.via = "wireguard" -> TRUE
            IN  (Arrives(d, e) /\ ~SameKeys(held.at, built[n], n) /\ carries) => Admitted(e, d) = {}

\* No two listeners of a node, Xray's and HAProxy's together, bind one socket,
\* whatever edit is accepted: what _node_reserved_ports counts is what they open.
SocketsDisjoint ==
    [][\A x \in DOMAIN Topo : (x # topo /\ x = topo') =>
          LET s == [topo |-> x, gen |-> gen]
          IN  \A n \in Declared(s) : IsInjective(Sockets(EnvAt(s, n)))]_vars

\* An inbound never lists two owners under one UUID, one email, one peer key or
\* one address, whatever edit is accepted: what check_identity_collisions goes
\* through is what is listed.
Differ(s, f) == IsInjective([i \in DOMAIN s |-> s[i][f]])
Distinct(in) ==
    IF in.kind = "wireguard" THEN \A f \in {"email", "key", "address"} : Differ(in.peers, f)
                             ELSE \A f \in {"email", "id"} : Differ(in.clients, f)
ClientsDistinct ==
    [][\A x \in DOMAIN Topo : (x # topo /\ x = topo') =>
          LET s == [topo |-> x, gen |-> gen]
          IN  \A n \in Declared(s) : \A in \in ToSet(Inbounds(EnvAt(s, n))) : Distinct(in)]_vars

\* "An override that lands on any other identity is rejected: Xray matches an
\* inbound client by `id` alone" (docs/architecture.md), so no two clients of an
\* inbound answer to one id.
NobodySilenced ==
    \A n \in Running : \A in \in ToSet(Inbounds(EnvAt(built[n], n))) : in.kind # "wireguard" =>
        \A i, j \in DOMAIN in.clients : SameId(in.clients[i].id, in.clients[j].id) => i = j
=============================================================================
