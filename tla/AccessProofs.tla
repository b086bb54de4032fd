---------------------------- MODULE AccessProofs ----------------------------
(***************************************************************************)
(* What is proved of access over time, for all topologies, edits and any   *)
(* number of rotations: every node runs a file that loads; a rotation      *)
(* shuts out whatever was given out with the pair it replaces; exits take  *)
(* the links of older and newer hubs for theirs; nobody is let in as       *)
(* somebody else; clients and sockets of a node stay apart; and what was   *)
(* given out keeps working, at every hub, while what it is made of stays.  *)
(***************************************************************************)
EXTENDS Access, SequenceFacts

\* The type invariant, with what keeps generations within their bound.
TypeInv ==
    /\ topo \in Loadable
    /\ spent \in [edits : Nat, rotations : 0..MaxRotations]
    /\ gen \in [Range(CircleOf) -> 0..spent.rotations]
    /\ built \in [Node -> Snapshots \cup {Unset}]
    /\ held # Unset => held.at \in Snapshots /\ held.dials # {}

\* What the commands see is a snapshot.
LEMMA NowIsSnapshot == TypeInv => Now \in Snapshots
  BY BoundsAssumption DEF TypeInv, Now, Snapshots

\* The type invariant implies the one that is checked.
LEMMA TypeInvType == TypeInv => TypeOK
  BY NowIsSnapshot DEF TypeInv, TypeOK

\* The invariant holds at first (every generation is 0).
LEMMA InitTypeInv == Init => TypeInv
  <1> SUFFICES ASSUME Init PROVE TypeInv
    OBVIOUS
  <1>1. /\ topo \in Loadable
        /\ spent \in [edits : Nat, rotations : 0..MaxRotations]
        /\ gen \in [Range(CircleOf) -> 0..spent.rotations]
        /\ held = Unset
    BY BoundsAssumption DEF Init
  <1>2. Now \in Snapshots
    BY <1>1, BoundsAssumption DEF Now, Snapshots
  <1>3. QED
    BY <1>1, <1>2 DEF Init, TypeInv

\* A file with portals has a hub for their dials.
LEMMA PortalsHaveHubs ==
    ASSUME NEW t, Loads(t), t.portals # <<>>, NEW k
    PROVE  ToSet(Envs(t, "hub", k)) # {}
  <1>1. PICK i \in DOMAIN Places(t, "hub") : TRUE
    BY DEF Loads, ToSet
  <1>2. Env(t, Places(t, "hub")[i], k) \in ToSet(Envs(t, "hub", k))
    BY <1>1 DEF Envs, ToSet
  <1>3. QED
    BY <1>2

\* Every step keeps the type invariant.
LEMMA NextTypeInv == TypeInv /\ [Next]_vars => TypeInv'
  <1> SUFFICES ASSUME TypeInv, [Next]_vars PROVE TypeInv'
    OBVIOUS
  <1>1. ASSUME NEW x \in DOMAIN Topo, Edit(x) PROVE TypeInv'
    BY <1>1 DEF Edit, TypeInv, Snapshots
  <1>2. ASSUME NEW c \in Range(CircleOf), Rotate(c) PROVE TypeInv'
    <2>1. spent' \in [edits : Nat, rotations : 0..MaxRotations] /\ spent'.rotations = spent.rotations + 1
      BY <1>2, BoundsAssumption DEF Rotate, TypeInv
    <2>2. gen' \in [Range(CircleOf) -> 0..spent'.rotations]
      BY <1>2, <2>1, BoundsAssumption DEF Rotate, TypeInv
    <2>3. QED
      BY <1>2, <2>1, <2>2 DEF Rotate, TypeInv
  <1>3. ASSUME NEW n \in Node, Build(n) PROVE TypeInv'
    BY <1>3, NowIsSnapshot DEF Build, TypeInv
  <1>4. ASSUME NEW u, NEW hub, NEW via, NEW who, Share(u, hub, via, who) PROVE TypeInv'
    <2>1. held'.at = Now /\ held'.dials # {}
      BY <1>4 DEF Share
    <2>2. QED
      BY <1>4, <2>1, NowIsSnapshot DEF Share, TypeInv
  <1>5. ASSUME NEW p \in ToSet(Topo[topo].portals), GenPortal(p) PROVE TypeInv'
    <2>1. Loads(Topo[topo]) /\ Topo[topo].portals # <<>>
      BY DEF TypeInv, Loadable, ToSet
    <2>2. ToSet(Envs(Topo[topo], "hub", KeysAt(gen))) # {}
      BY <2>1, PortalsHaveHubs
    <2>3. held'.at = Now /\ held'.dials # {}
      BY <1>5, <2>2 DEF GenPortal
    <2>4. QED
      BY <1>5, <2>3, NowIsSnapshot DEF GenPortal, TypeInv
  <1>6. CASE UNCHANGED vars
    BY <1>6 DEF vars, TypeInv, Snapshots
  <1>7. QED
    BY <1>1, <1>2, <1>3, <1>4, <1>5, <1>6 DEF Next

\* Whatever is edited and rotated, every node runs, and everything held was given
\* out from, a topology that loads; nothing empty is handed out (a file with
\* portals has hubs).
THEOREM TypeCorrect == Spec => []TypeOK
  BY InitTypeInv, NextTypeInv, TypeInvType, PTL DEF Spec

-----------------------------------------------------------------------------
(* Whose keys a dial carries, and whose a listener asks for.               *)

\* A pair of the snapshot with generations g.
PairOf(p, g) == \E c : p = <<c, g[c]>>
\* What is in dial d of a key pair is of that snapshot.
Carries(d, g) ==
    /\ d.via \in {"direct", "cdn", "hysteria", "wireguard"}
    /\ d.via = "direct" =>
          /\ d.pair # Unset => d.security = "reality" /\ PairOf(d.pair, g)
          /\ d.encryption # Unset => PairOf(d.encryption, g)
    /\ d.via = "cdn" => (d.encryption # Unset => PairOf(d.encryption, g))
    /\ d.via = "hysteria" =>
          /\ d.obfs # Unset => PairOf(d.obfs, g)
          /\ (d.pin # Unset /\ d.pin[1] = "derived") =>
                \E p, sni : d.pin = <<"derived", p, sni>> /\ PairOf(p, g)
    /\ d.via = "wireguard" => PairOf(d.pair, g)

\* The environment of a declared node, with the keys of its circle.
Keyed(e, g) ==
    /\ e.n.id \in Node
    /\ e.key = [pair |-> <<CircleOf[e.n.id], g[CircleOf[e.n.id]]>>, enc |-> CircleOf[e.n.id] \in Encrypted]
\* Its Hysteria certificate has no pin that could be taken for a derived one.
Pins(e) ==
    LET hy == Hysteria(e.t, e.r, e.n)
    IN  (hy # Unset /\ hy.certificate # Unset)
            => hy.certificate.pin = Unset \/ hy.certificate.pin[1] = "operator"

\* Environments of hubs have the keys of the snapshot they are made of.
LEMMA EnvsKeyed ==
    ASSUME NEW x \in DOMAIN Topo, NEW g, NEW e \in ToSet(Envs(Topo[x], "hub", KeysAt(g)))
    PROVE  Keyed(e, g) /\ Pins(e)
  <1> DEFINE places == Places(Topo[x], "hub")
  <1>1. PICK i \in DOMAIN places : e = Env(Topo[x], places[i], KeysAt(g))
    BY DEF Envs, ToSet
  <1>2. places[i] \in AllPlaces(Topo[x])
    BY DEF AllPlaces, ToSet
  <1> HIDE DEF places
  <1>3. places[i].n.id \in Node
    BY <1>2, NodesAssumption
  <1>4. e.t = Topo[x] /\ e.r = places[i].r /\ e.n = places[i].n /\ e.key = KeysAt(g)[places[i].n.id]
    BY <1>1 DEF Env
  <1>5. Pins(e)
    BY <1>2, <1>4, PinsAssumption DEF Pins
  <1>6. Keyed(e, g)
    BY <1>3, <1>4 DEF Keyed, KeysAt
  <1>7. QED
    BY <1>5, <1>6

\* And the environment a declared node was built from, with the keys it was built with.
LEMMA EnvAtKeyed ==
    ASSUME NEW s, s.topo \in DOMAIN Topo, NEW n \in Declared(s)
    PROVE  EnvAt(s, n).n.id = n /\ Keyed(EnvAt(s, n), s.gen)
  <1>1. PlaceIn(s, n) \in AllPlaces(Topo[s.topo]) /\ PlaceIn(s, n).n.id = n
    BY DEF PlaceIn, Declared
  <1>2. n \in Node
    BY <1>1, NodesAssumption
  <1>3. EnvAt(s, n).n = PlaceIn(s, n).n /\ EnvAt(s, n).key = KeysAt(s.gen)[n]
    BY <1>1 DEF EnvAt, Env
  <1>4. QED
    BY <1>1, <1>2, <1>3 DEF Keyed, KeysAt

-----------------------------------------------------------------------------
(* Everything given out carries pairs of its snapshot only.                *)

\* The URLs of a direct inbound and the portals' dials.
LEMMA DirectDialCarries ==
    ASSUME NEW e, NEW g, Keyed(e, g), NEW id, NEW sid
    PROVE  Carries(DirectDial(e, id, sid), g)
  <1> DEFINE d == DirectDial(e, id, sid)
  <1>1. d.via = "direct" /\ d.encryption = Encryption(e.key) /\ d.security = Direct(e).security
        /\ d.pair = Direct(e).pair
    BY DEF DirectDial
  <1>2. Direct(e).pair # Unset => Direct(e).security = "reality" /\ Direct(e).pair = e.key.pair
    BY DEF Direct
  <1>3. PairOf(e.key.pair, g)
    BY DEF Keyed, PairOf
  <1>4. Encryption(e.key) # Unset => Encryption(e.key) = e.key.pair
    BY DEF Encryption
  <1> HIDE DEF d
  <1>5. Carries(d, g)
    BY <1>1, <1>2, <1>3, <1>4 DEF Carries
  <1>6. QED
    BY <1>5 DEF d

\* The URLs behind the CDN.
LEMMA CdnDialCarries ==
    ASSUME NEW e, NEW g, Keyed(e, g), NEW id
    PROVE  Carries(CdnDial(e, id), g)
  <1>1. CdnDial(e, id).via = "cdn" /\ CdnDial(e, id).encryption = Encryption(e.key)
    BY DEF CdnDial
  <1>2. Encryption(e.key) # Unset => PairOf(Encryption(e.key), g)
    BY DEF Encryption, Keyed, PairOf
  <1>3. QED
    BY <1>1, <1>2 DEF Carries

\* The Hysteria URLs: obfuscation and derived pin are from the pair.
LEMMA HysteriaDialCarries ==
    ASSUME NEW e, NEW g, Keyed(e, g), Pins(e), HysteriaInbound(e) # Unset, NEW id
    PROVE  Carries(HysteriaDial(e.n.host, HysteriaInbound(e).port, HysteriaInbound(e).end, id), g)
  <1> DEFINE hy == Hysteria(e.t, e.r, e.n)
             end == HysteriaInbound(e).end
             d == HysteriaDial(e.n.host, HysteriaInbound(e).port, end, id)
  <1>1. hy # Unset /\ end = Endpoint(hy, Reality(e.t, e.r, e.n), e.key.pair)
    BY DEF HysteriaInbound, HysteriaListener
  <1>2. PairOf(e.key.pair, g)
    BY DEF Keyed, PairOf
  <1>3. end.obfs # Unset => end.obfs = e.key.pair
    BY <1>1 DEF Endpoint, Derived
  <1>4. hy.certificate # Unset => end.pin = Unset \/ end.pin[1] = "operator"
    BY <1>1 DEF Endpoint, Derived, Pins
  <1>5. hy.certificate = Unset => \E sni : end.pin = <<"derived", e.key.pair, sni>>
    BY <1>1 DEF Endpoint, Derived
  <1>6. d.via = "hysteria" /\ d.obfs = end.obfs /\ d.pin = end.pin
    BY DEF HysteriaDial
  <1> HIDE DEF hy, end, d
  <1>7. d.obfs # Unset => PairOf(d.obfs, g)
    BY <1>2, <1>3, <1>6
  <1>8. (d.pin # Unset /\ d.pin[1] = "derived") =>
           \E p, sni : d.pin = <<"derived", p, sni>> /\ PairOf(p, g)
    BY <1>2, <1>4, <1>5, <1>6
  <1>9. Carries(d, g)
    BY <1>6, <1>7, <1>8 DEF Carries
  <1>10. QED
    BY <1>9 DEF d, end

\* Whatever share prints.
LEMMA SharesCarry ==
    ASSUME NEW x \in DOMAIN Topo, NEW g, NEW u, NEW hub, NEW via, NEW who,
           via \in {"direct", "cdn", "hysteria", "wireguard"},
           NEW d \in Shares(Topo[x], KeysAt(g), u, hub, via, who)
    PROVE  Carries(d, g)
  <1> DEFINE envs == Envs(Topo[x], "hub", KeysAt(g))
             identity == ResolveIdentity(Topo[x], u, who)
             sid == DialShortId(Topo[x], u, who)
  <1>1. \A e \in ToSet(envs) : Keyed(e, g) /\ Pins(e)
    BY EnvsKeyed
  <1> HIDE DEF envs, identity, sid
  <1>2. CASE via = "direct"
    <2>1. d \in DirectShares(Topo[x], u, hub, who, identity.id, sid, envs)
      BY <1>2 DEF Shares, envs, identity, sid
    <2>2. PICK e \in ToSet(envs) : d = DirectDial(e, identity.id, sid)
      BY <2>1 DEF DirectShares, FirstOfEach, ToSet
    <2>3. QED
      BY <1>1, <2>2, DirectDialCarries
  <1>3. CASE via = "cdn"
    <2>1. d \in CdnShares(Topo[x], hub, identity.id, envs)
      BY <1>3 DEF Shares, envs, identity
    <2>2. PICK e \in ToSet(envs) : d = CdnDial(e, identity.id)
      BY <2>1 DEF CdnShares, FirstOfEach, ToSet
    <2>3. QED
      BY <1>1, <2>2, CdnDialCarries
  <1>4. CASE via = "hysteria"
    <2>1. d \in HysteriaShares(hub, identity.id, envs)
      BY <1>4 DEF Shares, envs, identity
    <2>2. PICK e \in ToSet(envs) : /\ HysteriaInbound(e) # Unset
                                   /\ d = HysteriaDial(e.n.host, HysteriaInbound(e).port,
                                                       HysteriaInbound(e).end, identity.id)
      BY <2>1 DEF HysteriaShares, FirstOfEach, ToSet
    <2>3. QED
      BY <1>1, <2>2, HysteriaDialCarries
  <1>5. CASE via = "wireguard"
    <2>1. d \in WireguardShares(Topo[x], hub, identity.email, envs)
      BY <1>5 DEF Shares, envs, identity
    <2>2. PICK e \in ToSet(envs) : d.via = "wireguard" /\ d.pair = e.key.pair
      BY <2>1 DEF WireguardShares
    <2>3. Keyed(e, g)
      BY <1>1
    <2>4. PairOf(e.key.pair, g)
      BY <2>3 DEF Keyed, PairOf
    <2>5. QED
      BY <2>2, <2>4 DEF Carries
  <1>6. QED
    BY <1>2, <1>3, <1>4, <1>5

-----------------------------------------------------------------------------
(* The invariant: who was built, and what is carried.                      *)

KeyInv ==
    /\ topo \in DOMAIN Topo
    /\ \A n \in Node : built[n] # Unset => built[n].topo \in DOMAIN Topo /\ n \in Declared(built[n])
    /\ held # Unset => \A d \in held.dials : Carries(d, held.at.gen)

\* It holds at first, when nothing is held.
LEMMA InitKeyInv == Init => KeyInv
  BY DEF Init, KeyInv, Now, Loadable

\* Every step keeps it: a build takes the snapshot that there is, and what is
\* handed out carries its pairs.
LEMMA NextKeyInv == TypeInv /\ KeyInv /\ [Next]_vars => KeyInv'
  <1> SUFFICES ASSUME TypeInv, KeyInv, [Next]_vars PROVE KeyInv'
    OBVIOUS
  <1>1. ASSUME NEW x \in DOMAIN Topo, Edit(x) PROVE KeyInv'
    BY <1>1 DEF Edit, KeyInv, Declared
  <1>2. ASSUME NEW c \in Range(CircleOf), Rotate(c) PROVE KeyInv'
    BY <1>2 DEF Rotate, KeyInv, Declared
  <1>3. ASSUME NEW n \in Node, Build(n) PROVE KeyInv'
    <2>1. n \in Declared(Now) /\ Now.topo \in DOMAIN Topo
      BY <1>3 DEF Build, KeyInv, Now
    <2>2. \A m \in Node : built'[m] = IF m = n THEN Now ELSE built[m]
      BY <1>3 DEF Build, TypeInv
    <2>3. \A m \in Node : built'[m] # Unset => built'[m].topo \in DOMAIN Topo /\ m \in Declared(built'[m])
      BY <2>1, <2>2 DEF KeyInv
    <2>4. QED
      BY <1>3, <2>3 DEF Build, KeyInv, Declared
  <1>4. ASSUME NEW u, NEW hub, NEW via \in {"direct", "cdn", "hysteria", "wireguard"}, NEW who,
               Share(u, hub, via, who)
        PROVE  KeyInv'
    <2>1. held'.at.gen = gen /\ held'.dials = Shares(Topo[topo], KeysAt(gen), u, hub, via, who)
      BY <1>4 DEF Share, Now
    <2>2. \A d \in held'.dials : Carries(d, held'.at.gen)
      BY <2>1, SharesCarry DEF KeyInv
    <2>3. QED
      BY <1>4, <2>2 DEF Share, KeyInv, Declared
  <1>5. ASSUME NEW p, GenPortal(p) PROVE KeyInv'
    <2> DEFINE envs == Envs(Topo[topo], "hub", KeysAt(gen))
    <2>1. held'.at.gen = gen /\ held'.dials = {PortalDial(e, p) : e \in ToSet(envs)}
      BY <1>5 DEF GenPortal, Now
    <2>2. \A e \in ToSet(envs) : Keyed(e, gen)
      BY EnvsKeyed DEF KeyInv
    <2>3. \A e \in ToSet(envs) : Carries(PortalDial(e, p), gen)
      BY <2>2, DirectDialCarries DEF PortalDial
    <2>4. \A d \in held'.dials : Carries(d, held'.at.gen)
      BY <2>1, <2>3
    <2>5. QED
      BY <1>5, <2>4 DEF GenPortal, KeyInv, Declared
  <1>6. CASE UNCHANGED vars
    BY <1>6 DEF vars, KeyInv, Declared
  <1>7. QED
    BY <1>1, <1>2, <1>3, <1>4, <1>5, <1>6 DEF Next

-----------------------------------------------------------------------------
(* A listener with other keys refuses what carries the old ones.           *)

\* Pairs of one circle differ in their generation, others in the circle.
LEMMA PairsDiffer ==
    ASSUME NEW p, NEW g, NEW h, NEW c, PairOf(p, g), g[c] # h[c]
    PROVE  p # <<c, h[c]>>
  BY DEF PairOf

\* Direct URLs and portals.
LEMMA DirectRefused ==
    ASSUME NEW e, NEW d, NEW g, NEW h, Keyed(e, h), Carries(d, g),
           g[CircleOf[e.n.id]] # h[CircleOf[e.n.id]],
           d.via = "direct", d.pair # Unset \/ d.encryption # Unset
    PROVE  Admitted(e, d) = {}
  <1> DEFINE in == Frontend(e, d.sni)
  <1>1. ASSUME Handshake(in, d) PROVE FALSE
    <2>1. in.kind = "xhttp" /\ in.encryption = d.encryption /\ in.security = d.security
          /\ (d.security = "reality" => d.pair = in.pair)
      BY <1>1 DEF Handshake
    <2>2. in = Direct(e) \/ (in = Cdn(e) /\ Cdn(e) # Unset)
      BY DEF Frontend
    <2>3. Cdn(e) # Unset => Cdn(e).kind = "cdn"
      BY DEF Cdn
    <2>4. in = Direct(e)
      BY <2>1, <2>2, <2>3
    <2>5. in.encryption = Encryption(e.key) /\ in.pair \in {Unset, e.key.pair}
      BY <2>4 DEF Direct
    <2>6. \A p : PairOf(p, g) => p # e.key.pair
      BY PairsDiffer DEF Keyed
    <2>7. CASE d.encryption # Unset
      BY <2>1, <2>5, <2>6, <2>7 DEF Carries, Encryption
    <2>8. CASE d.pair # Unset
      BY <2>1, <2>5, <2>6, <2>8 DEF Carries
    <2>9. QED
      BY <2>7, <2>8
  <1>2. QED
    BY <1>1 DEF Admitted

\* CDN URLs, when VLESS encryption is on.
LEMMA CdnRefused ==
    ASSUME NEW e, NEW d, NEW g, NEW h, Keyed(e, h), Carries(d, g),
           g[CircleOf[e.n.id]] # h[CircleOf[e.n.id]],
           d.via = "cdn", d.encryption # Unset
    PROVE  Admitted(e, d) = {}
  <1> DEFINE in == Frontend(e, d.sni)
  <1>1. ASSUME Handshake(in, d) PROVE FALSE
    <2>1. in.kind = "cdn" /\ in.encryption = d.encryption
      BY <1>1 DEF Handshake
    <2>2. in = Direct(e) \/ (in = Cdn(e) /\ Cdn(e) # Unset)
      BY DEF Frontend
    <2>3. Direct(e).kind = "xhttp" /\ (Cdn(e) # Unset => Cdn(e).encryption = Encryption(e.key))
      BY DEF Direct, Cdn
    <2>4. in.encryption = Encryption(e.key)
      BY <2>1, <2>2, <2>3
    <2>5. \A p : PairOf(p, g) => p # e.key.pair
      BY PairsDiffer DEF Keyed
    <2>6. QED
      BY <2>1, <2>4, <2>5 DEF Carries, Encryption
  <1>2. QED
    BY <1>1 DEF Admitted

\* Hysteria URLs with obfuscation, or with the pin of a derived certificate.
LEMMA HysteriaRefused ==
    ASSUME NEW e, NEW d, NEW g, NEW h, Keyed(e, h), Carries(d, g),
           g[CircleOf[e.n.id]] # h[CircleOf[e.n.id]],
           d.via = "hysteria", d.obfs # Unset \/ (d.pin # Unset /\ d.pin[1] = "derived")
    PROVE  Admitted(e, d) = {}
  <1> DEFINE in == HysteriaInbound(e)
             hy == Hysteria(e.t, e.r, e.n)
  <1>1. ASSUME in # Unset, Verified(in, d) PROVE FALSE
    <2>1. in.end = Endpoint(hy, Reality(e.t, e.r, e.n), e.key.pair)
      BY <1>1 DEF HysteriaInbound, HysteriaListener
    <2>2. in.end.obfs \in {Unset, e.key.pair}
      BY <2>1 DEF Endpoint, Derived
    <2>3. in.end.certificate[1] = "operator" \/ \E sni : in.end.certificate = <<"derived", e.key.pair, sni>>
      BY <2>1 DEF Endpoint, Derived
    <2>4. d.obfs = in.end.obfs /\ (d.pin # Unset => d.pin = in.end.certificate)
      BY <1>1 DEF Verified
    <2>5. \A p : PairOf(p, g) => p # e.key.pair
      BY PairsDiffer DEF Keyed
    <2>6. CASE d.obfs # Unset
      BY <2>2, <2>4, <2>5, <2>6 DEF Carries
    <2>7. CASE d.pin # Unset /\ d.pin[1] = "derived"
      <3>1. PICK p, sni : d.pin = <<"derived", p, sni>> /\ PairOf(p, g)
        BY <2>7 DEF Carries
      <3>2. d.pin = in.end.certificate
        BY <2>4, <2>7
      <3>3. PICK other : in.end.certificate = <<"derived", e.key.pair, other>>
        BY <2>3, <2>7, <3>2
      <3>4. p = e.key.pair
        BY <3>1, <3>2, <3>3
      <3>5. QED
        BY <2>5, <3>1, <3>4
    <2>8. QED
      BY <2>6, <2>7
  <1>2. QED
    BY <1>1 DEF Admitted

\* WireGuard configurations.
LEMMA WireguardRefused ==
    ASSUME NEW e, NEW d, NEW g, NEW h, Keyed(e, h), Carries(d, g),
           g[CircleOf[e.n.id]] # h[CircleOf[e.n.id]],
           d.via = "wireguard"
    PROVE  Admitted(e, d) = {}
  <1>1. WireguardInbound(e) # Unset => WireguardInbound(e).pair = e.key.pair
    BY DEF WireguardInbound
  <1>2. d.pair # e.key.pair
    BY PairsDiffer DEF Keyed, Carries
  <1>3. QED
    BY <1>1, <1>2 DEF Admitted

\* Together: the invariant is enough.
LEMMA KeyInvRevokes == KeyInv => RotationRevokes
  <1> SUFFICES ASSUME KeyInv, held # Unset, NEW n \in RunningHubs, NEW d \in held.dials,
                      ~SameKeys(held.at, built[n], n)
               PROVE  LET carries == CASE d.via = "direct" -> d.pair # Unset \/ d.encryption # Unset
                                       [] d.via = "cdn" -> d.encryption # Unset
                                       [] d.via = "hysteria" -> d.obfs # Unset \/ (d.pin # Unset /\ d.pin[1] = "derived")
                                       [] d.via = "wireguard" -> TRUE
                      IN  carries => Admitted(EnvAt(built[n], n), d) = {}
    BY DEF RotationRevokes
  <1> DEFINE e == EnvAt(built[n], n)
             g == held.at.gen
             h == built[n].gen
  <1>1. built[n].topo \in DOMAIN Topo /\ n \in Declared(built[n])
    BY DEF KeyInv, RunningHubs, Running
  <1>2. e.n.id = n /\ Keyed(e, h)
    BY <1>1, EnvAtKeyed
  <1>3. Carries(d, g)
    BY DEF KeyInv
  <1>4. g[CircleOf[e.n.id]] # h[CircleOf[e.n.id]]
    BY <1>2 DEF SameKeys
  <1> HIDE DEF e, g, h
  <1>5. (d.via = "direct" /\ (d.pair # Unset \/ d.encryption # Unset)) => Admitted(e, d) = {}
    BY <1>2, <1>3, <1>4, DirectRefused
  <1>6. (d.via = "cdn" /\ d.encryption # Unset) => Admitted(e, d) = {}
    BY <1>2, <1>3, <1>4, CdnRefused
  <1>7. (d.via = "hysteria" /\ (d.obfs # Unset \/ (d.pin # Unset /\ d.pin[1] = "derived")))
            => Admitted(e, d) = {}
    BY <1>2, <1>3, <1>4, HysteriaRefused
  <1>8. d.via = "wireguard" => Admitted(e, d) = {}
    BY <1>2, <1>3, <1>4, WireguardRefused
  <1>9. d.via \in {"direct", "cdn", "hysteria", "wireguard"}
    BY <1>3 DEF Carries
  <1>10. QED
    BY <1>5, <1>6, <1>7, <1>8, <1>9 DEF e

\* gen-keys --force shuts out what was given out before, for any topologies and
\* edits in between and any number of rotations: a hub that runs with another
\* pair refuses every Reality, encrypted, obfuscated, pinned or WireGuard dial
\* that carries the earlier one.
THEOREM Revoked == Spec => []RotationRevokes
  BY InitTypeInv, NextTypeInv, InitKeyInv, NextKeyInv, KeyInvRevokes, PTL DEF Spec

-----------------------------------------------------------------------------
(* What a file lists.                                                      *)

\* The regions of a type.
LEMMA RegionElements ==
    ASSUME NEW t, WellFormed(t), NEW type
    PROVE  /\ IsSeq(Regions(t, type))
           /\ ToSet(Regions(t, type)) = {r \in ToSet(t.regions) : r.type = type}
  <1> DEFINE s == t.regions
             f == [i \in DOMAIN s |-> IF s[i].type = type THEN <<s[i]>> ELSE <<>>]
  <1>1. IsSeq(s)
    BY DEF WellFormed, Listed, IsSeq
  <1>2. Regions(t, type) = FlattenSeq(f)
    BY DEF Regions, Where, SeqConcat
  <1>3. DOMAIN s = 1..Len(s)
    BY <1>1, SeqFacts
  <1>4. \A i \in 1..Len(s) : f[i] = IF s[i].type = type THEN <<s[i]>> ELSE <<>>
    BY <1>3
  <1>5. f = [i \in DOMAIN s |-> f[i]]
    BY <1>3
  <1> HIDE DEF f, s
  <1>6. \A i \in 1..Len(s) : IsSeq(f[i]) /\ ToSet(f[i]) = IF s[i].type = type THEN {s[i]} ELSE {}
    BY <1>4, OneIsSeq, EmptyIsSeq
  <1>7. IsMap(f, s)
    BY <1>5, <1>6 DEF IsMap
  <1> DEFINE T == {r \in ToSet(s) : r.type = type}
  <1>8. \A i \in 1..Len(s) : ToSet(f[i]) = IF s[i] \in T THEN {s[i]} ELSE {}
    BY <1>1, <1>6, Elements
  <1>9. T \subseteq ToSet(s)
    OBVIOUS
  <1> HIDE DEF T
  <1>10. IsSeq(FlattenSeq(f)) /\ ToSet(FlattenSeq(f)) = T
    BY <1>1, <1>7, <1>8, <1>9, FilterElements
  <1>11. QED
    BY <1>2, <1>10 DEF T, s

\* The nodes of a role, each with its region.
LEMMA PlaceElements ==
    ASSUME NEW t, WellFormed(t), NEW type
    PROVE  /\ IsSeq(Places(t, type))
           /\ \A pl : pl \in ToSet(Places(t, type)) <=>
                  \E r \in ToSet(t.regions) : r.type = type /\ \E n \in ToSet(r.nodes) : pl = [r |-> r, n |-> n]
  <1> DEFINE s == Regions(t, type)
             Of(r) == [i \in DOMAIN r.nodes |-> [r |-> r, n |-> r.nodes[i]]]
             f == [i \in DOMAIN s |-> Of(s[i])]
  <1>1. IsSeq(s) /\ ToSet(s) = {r \in ToSet(t.regions) : r.type = type}
    BY RegionElements
  <1>2. Places(t, type) = FlattenSeq(f)
    BY DEF Places, SeqConcat
  <1>3. ASSUME NEW r \in ToSet(t.regions)
        PROVE  IsSeq(Of(r)) /\ \A pl : pl \in ToSet(Of(r)) <=> \E n \in ToSet(r.nodes) : pl = [r |-> r, n |-> n]
    <2>1. IsSeq(r.nodes)
      BY DEF WellFormed, Listed, IsSeq
    <2>2. Len(r.nodes) \in Nat /\ DOMAIN r.nodes = 1..Len(r.nodes)
      BY <2>1, SeqFacts
    <2>3. IsSeq(Of(r)) /\ Len(Of(r)) = Len(r.nodes)
      BY <2>2, FunctionIsSeq
    <2>4. ToSet(Of(r)) = {[r |-> r, n |-> r.nodes[i]] : i \in DOMAIN r.nodes}
      BY DEF ToSet
    <2>5. QED
      BY <2>3, <2>4 DEF ToSet
  <1>4. DOMAIN s = 1..Len(s)
    BY <1>1, SeqFacts
  <1>5. \A i \in 1..Len(s) : f[i] = Of(s[i]) /\ s[i] \in ToSet(s)
    BY <1>1, <1>4, Elements
  <1>6. f = [i \in DOMAIN s |-> f[i]]
    OBVIOUS
  <1> HIDE DEF f, s, Of
  <1>7. IsMap(f, s)
    BY <1>1, <1>3, <1>5, <1>6 DEF IsMap
  <1>8. /\ IsSeq(FlattenSeq(f))
        /\ \A pl : pl \in ToSet(FlattenSeq(f)) <=> \E i \in 1..Len(s) : pl \in ToSet(f[i])
    BY <1>1, <1>7, MapElements
  <1>9. \A pl : (\E i \in 1..Len(s) : pl \in ToSet(f[i])) <=> \E r \in ToSet(s) : pl \in ToSet(Of(r))
    <2>1. \A r \in ToSet(s) : \E i \in 1..Len(s) : r = s[i]
      BY <1>1, Elements
    <2>2. QED
      BY <1>5, <2>1
  <1>10. QED
    BY <1>1, <1>2, <1>3, <1>8, <1>9

\* The nodes of a role.
LEMMA NodeElements ==
    ASSUME NEW t, WellFormed(t), NEW type
    PROVE  /\ IsSeq(Nodes(t, type))
           /\ \A n : n \in ToSet(Nodes(t, type)) <=>
                  \E r \in ToSet(t.regions) : r.type = type /\ n \in ToSet(r.nodes)
  <1> DEFINE s == Regions(t, type)
             f == [i \in DOMAIN s |-> s[i].nodes]
  <1>1. IsSeq(s) /\ ToSet(s) = {r \in ToSet(t.regions) : r.type = type}
    BY RegionElements
  <1>2. Nodes(t, type) = FlattenSeq(f)
    BY DEF Nodes, SeqConcat
  <1>3. \A r \in ToSet(t.regions) : IsSeq(r.nodes)
    BY DEF WellFormed, Listed, IsSeq
  <1>4. DOMAIN s = 1..Len(s)
    BY <1>1, SeqFacts
  <1>5. \A i \in 1..Len(s) : f[i] = s[i].nodes /\ s[i] \in ToSet(s)
    BY <1>1, <1>4, Elements
  <1>6. f = [i \in DOMAIN s |-> f[i]]
    OBVIOUS
  <1> HIDE DEF f, s
  <1>7. IsMap(f, s)
    BY <1>1, <1>3, <1>5, <1>6 DEF IsMap
  <1>8. /\ IsSeq(FlattenSeq(f))
        /\ \A n : n \in ToSet(FlattenSeq(f)) <=> \E i \in 1..Len(s) : n \in ToSet(f[i])
    BY <1>1, <1>7, MapElements
  <1>9. \A n : (\E i \in 1..Len(s) : n \in ToSet(f[i])) <=> \E r \in ToSet(s) : n \in ToSet(r.nodes)
    <2>1. \A r \in ToSet(s) : \E i \in 1..Len(s) : r = s[i]
      BY <1>1, Elements
    <2>2. QED
      BY <1>5, <2>1
  <1>10. QED
    BY <1>1, <1>2, <1>8, <1>9

\* Where a node is, and in which of the two lists of places.
LEMMA PlaceFacts ==
    ASSUME NEW t, WellFormed(t), NEW pl \in AllPlaces(t)
    PROVE  /\ pl.r \in ToSet(t.regions) /\ pl.n \in ToSet(pl.r.nodes)
           /\ pl.r.type \in {"exit", "hub"}
           /\ pl.n \in ToSet(Nodes(t, pl.r.type))
  BY PlaceElements, NodeElements DEF AllPlaces

-----------------------------------------------------------------------------
(* One node as two files and two key directories see it.                   *)

\* The same node, under the same settings, with the same keys; what a region
\* lists and everything about other nodes and users may differ.
Agree(e, s) ==
    /\ e.n = s.n /\ e.key = s.key /\ e.t.ns = s.t.ns /\ e.t.cdn = s.t.cdn
    /\ Role(e.t, e.r) = Role(s.t, s.r)
    /\ e.r.type = s.r.type /\ e.r.cdn = s.r.cdn /\ e.r.xhttp = s.r.xhttp
    /\ e.r.type = "exit" =>
          e.r.protocol = s.r.protocol /\ e.r.hysteria = s.r.hysteria /\ e.r.warp = s.r.warp
    /\ e.r.type = "hub" => e.r.reality = s.r.reality /\ e.r.tls = s.r.tls

\* Fields that are not nodes.
LEMMA SameField ==
    ASSUME NEW r, NEW q, [r EXCEPT !.nodes = <<>>] = [q EXCEPT !.nodes = <<>>],
           NEW f \in DOMAIN r, f # "nodes"
    PROVE  r[f] = q[f]
  <1>1. f \in DOMAIN q
    <2>1. DOMAIN [r EXCEPT !.nodes = <<>>] = DOMAIN r /\ DOMAIN [q EXCEPT !.nodes = <<>>] = DOMAIN q
      OBVIOUS
    <2>2. QED
      BY <2>1
  <1>2. [r EXCEPT !.nodes = <<>>][f] = r[f] /\ [q EXCEPT !.nodes = <<>>][f] = q[f]
    BY <1>1
  <1>3. QED
    BY <1>2

\* The environment of a node that is there: its settings and its keys.
LEMMA EnvFields ==
    ASSUME NEW s, s.topo \in DOMAIN Topo, NEW n \in Declared(s)
    PROVE  /\ PlaceIn(s, n) \in AllPlaces(Topo[s.topo]) /\ PlaceIn(s, n).n.id = n
           /\ EnvAt(s, n).t = Topo[s.topo] /\ EnvAt(s, n).r = PlaceIn(s, n).r
           /\ EnvAt(s, n).n = PlaceIn(s, n).n /\ EnvAt(s, n).key = KeysAt(s.gen)[n]
           /\ n \in Node
  <1>1. PlaceIn(s, n) \in AllPlaces(Topo[s.topo]) /\ PlaceIn(s, n).n.id = n
    BY DEF PlaceIn, Declared
  <1>2. QED
    BY <1>1, NodesAssumption DEF EnvAt, Env

\* What SamePlace and SameKeys say of two snapshots is that they agree.
LEMMA PlacesAgree ==
    ASSUME NEW a, a.topo \in DOMAIN Topo, NEW b, b.topo \in DOMAIN Topo, NEW n,
           SamePlace(a, b, n), SameKeys(a, b, n)
    PROVE  Agree(EnvAt(b, n), EnvAt(a, n))
  <1> DEFINE e == EnvAt(b, n)
             s == EnvAt(a, n)
  <1>1. n \in Declared(a) /\ n \in Declared(b)
    BY DEF SamePlace
  <1>2. /\ e.t = Topo[b.topo] /\ e.r = PlaceIn(b, n).r /\ e.n = PlaceIn(b, n).n
        /\ e.key = KeysAt(b.gen)[n] /\ PlaceIn(b, n) \in AllPlaces(e.t)
    BY <1>1, EnvFields
  <1>3. /\ s.t = Topo[a.topo] /\ s.r = PlaceIn(a, n).r /\ s.n = PlaceIn(a, n).n
        /\ s.key = KeysAt(a.gen)[n] /\ n \in Node
    BY <1>1, EnvFields
  <1>4. e.key = s.key
    BY <1>2, <1>3 DEF SameKeys, KeysAt
  <1>5. /\ e.n = s.n /\ e.t.ns = s.t.ns /\ e.t.cdn = s.t.cdn /\ Role(e.t, e.r) = Role(s.t, s.r)
        /\ [e.r EXCEPT !.nodes = <<>>] = [s.r EXCEPT !.nodes = <<>>]
    BY <1>2, <1>3 DEF SamePlace
  <1>6. /\ {"id", "type", "cdn", "xhttp", "nodes"} \subseteq DOMAIN e.r
        /\ (IF e.r.type = "exit" THEN {"protocol", "hysteria", "warp"} ELSE {"reality", "tls"}) \subseteq DOMAIN e.r
    <2>1. WellFormed(e.t)
      BY <1>2, FieldsAssumption
    <2>2. e.r \in ToSet(e.t.regions)
      BY <1>2, <2>1, PlaceFacts
    <2>3. QED
      BY <2>1, <2>2 DEF WellFormed
  <1> HIDE DEF e, s
  <1>7. \A f \in DOMAIN e.r : f # "nodes" => e.r[f] = s.r[f]
    BY <1>5, SameField
  <1>8. e.r.type = s.r.type /\ e.r.cdn = s.r.cdn /\ e.r.xhttp = s.r.xhttp
    BY <1>6, <1>7
  <1>9. e.r.type = "exit" =>
           e.r.protocol = s.r.protocol /\ e.r.hysteria = s.r.hysteria /\ e.r.warp = s.r.warp
    BY <1>6, <1>7
  <1>10. e.r.type = "hub" => e.r.reality = s.r.reality /\ e.r.tls = s.r.tls
    BY <1>6, <1>7
  <1>11. Agree(e, s)
    BY <1>4, <1>5, <1>8, <1>9, <1>10 DEF Agree
  <1>12. QED
    BY <1>11 DEF e, s

\* Two exits that agree have the same settings.
LEMMA SameExitSettings ==
    ASSUME NEW e, NEW s, Agree(e, s), e.r.type = "exit"
    PROVE  /\ Xhttp(e.t, e.r, e.n) = Xhttp(s.t, s.r, s.n)
           /\ Reality(e.t, e.r, e.n) = Reality(s.t, s.r, s.n)
           /\ Hysteria(e.t, e.r, e.n) = Hysteria(s.t, s.r, s.n)
           /\ LinkProtocol(e.r) = LinkProtocol(s.r)
  <1>1. LinkProtocol(e.r) = LinkProtocol(s.r)
    BY DEF Agree, LinkProtocol
  <1>2. Reality(e.t, e.r, e.n) = Reality(s.t, s.r, s.n)
    BY DEF Agree, Reality
  <1>3. Xhttp(e.t, e.r, e.n) = Xhttp(s.t, s.r, s.n)
    <2>1. ASSUME NEW x, x.r.type = "exit", NEW p, p = Role(x.t, x.r).xhttp
          PROVE  Xhttp(x.t, x.r, x.n) = Overlay(Overlay(Overlay([path |-> Unset, host |-> Unset], p), x.r.xhttp), x.n.xhttp)
      BY <2>1 DEF Xhttp
    <2>2. QED
      BY <2>1 DEF Agree
  <1>4. Hysteria(e.t, e.r, e.n) = Hysteria(s.t, s.r, s.n)
    <2>1. HysteriaOverlay(e.t, e.r, e.n) = HysteriaOverlay(s.t, s.r, s.n)
      BY DEF Agree, HysteriaOverlay
    <2>2. QED
      BY <1>1, <2>1 DEF Agree, Hysteria
  <1>5. QED
    BY <1>1, <1>2, <1>3, <1>4

-----------------------------------------------------------------------------
(* Links.                                                                  *)

\* The inbound of an exit and the link to it, from two environments that agree.
LEMMA SameDirect ==
    ASSUME NEW e, NEW s, Agree(e, s), e.r.type = "exit"
    PROVE  /\ Direct(e).kind = "xhttp" /\ Direct(e).security = "reality" /\ Direct(s).security = "reality"
           /\ Direct(e).encryption = Encryption(s.key)
           /\ Direct(e).host = Direct(s).host /\ Direct(e).path = Direct(s).path
           /\ Direct(e).names = ServerNames(Reality(s.t, s.r, s.n)) /\ Direct(s).names = Direct(e).names
           /\ Direct(e).pair = Direct(s).pair
           /\ Direct(e).shortIds = {ExitShortId(s.t.ns, s.n.id)}
           /\ Direct(e).clients = ExitClients(e, s.key.enc)
  <1>1. /\ Xhttp(e.t, e.r, e.n) = Xhttp(s.t, s.r, s.n)
        /\ Reality(e.t, e.r, e.n) = Reality(s.t, s.r, s.n)
    BY SameExitSettings
  <1>2. e.n = s.n /\ e.key = s.key /\ e.t.ns = s.t.ns /\ s.r.type = "exit"
    BY DEF Agree
  <1>3. ASSUME NEW x, x.r.type = "exit", NEW p, p = Xhttp(x.t, x.r, x.n), NEW q, q = Reality(x.t, x.r, x.n)
        PROVE  /\ Direct(x).kind = "xhttp" /\ Direct(x).security = "reality"
               /\ Direct(x).encryption = Encryption(x.key)
               /\ Direct(x).host = XhttpHost(q, p) /\ Direct(x).path = p.path
               /\ Direct(x).names = ServerNames(q) /\ Direct(x).pair = x.key.pair
               /\ Direct(x).shortIds = {ExitShortId(x.t.ns, x.n.id)}
               /\ Direct(x).clients = ExitClients(x, x.key.enc)
    BY <1>3 DEF Direct
  <1>4. QED
    BY <1>1, <1>2, <1>3

\* The mark is none of the things it stands in for the lack of.
Marked(e) ==
    LET hy == Hysteria(e.t, e.r, e.n)
    IN  /\ HysteriaOverlay(e.t, e.r, e.n) # Unset
        /\ hy # Unset => HysteriaListener(e) # Unset /\ Derived(hy, Reality(e.t, e.r, e.n), e.key.pair) # Unset
        /\ (e.t.cdn # Unset /\ e.r.cdn # Unset) => Cdn(e) # Unset
        /\ (e.r.type = "hub" /\ e.r.reality = Unset /\ e.r.tls # Unset) => RegionTls(e.t, e.r) # Unset
        /\ (e.r.type = "hub" /\ Wireguard(e.t, e.n) # Unset /\ Peers(e.t) # <<>>) => WireguardInbound(e) # Unset

\* The clients of S that answer to an id, and the emails of S.
Known(S, id) == {c \in S : SameId(c.id, id)}
EmailsIn(S) == {c.email : c \in S}

\* A link over VLESS is admitted for whatever client it has the id of.
LEMMA VlessLinkTaken ==
    ASSUME NEW e, NEW s, Agree(e, s), e.r.type = "exit", SniApart(e.t, e.r, e.n),
           NEW names, names = ServerNames(Reality(e.t, e.r, e.n)), IsSeq(names), names # <<>>,
           NEW id, NEW d, d = VlessLink(s, id)
    PROVE  /\ d.id = id
           /\ \A c : c \in Admitted(e, d) <=>
                 c \in Known(ToSet(ExitClients(e, s.key.enc)), id) /\ c.flow = s.key.enc
  <1>1. /\ d.via = "direct" /\ d.id = id /\ d.encryption = Encryption(s.key) /\ d.flow = s.key.enc
        /\ d.security = Direct(s).security /\ d.sni = Direct(s).names[1] /\ d.host = Direct(s).host
        /\ d.path = Direct(s).path /\ d.pair = Direct(s).pair
        /\ d.shortId = IF Direct(s).security = "tls" THEN Unset ELSE ExitShortId(s.t.ns, s.n.id)
    BY DEF VlessLink, DirectDial
  <1>2. /\ Direct(e).kind = "xhttp" /\ Direct(e).security = "reality" /\ Direct(s).security = "reality"
        /\ Direct(e).encryption = Encryption(s.key)
        /\ Direct(e).host = Direct(s).host /\ Direct(e).path = Direct(s).path
        /\ Direct(e).names = names /\ Direct(s).names = names
        /\ Direct(e).pair = Direct(s).pair
        /\ Direct(e).shortIds = {ExitShortId(s.t.ns, s.n.id)}
        /\ Direct(e).clients = ExitClients(e, s.key.enc)
    BY SameDirect, SameExitSettings
  <1>3. names[1] \in ToSet(names)
    <2>1. Len(names) \in Nat /\ Len(names) # 0 /\ DOMAIN names = 1..Len(names)
      BY SeqFacts, EmptyIsSeq, SeqEquality
    <2>2. QED
      BY <2>1, Elements
  <1>4. Frontend(e, d.sni) = Direct(e)
    <2>1. e.t.cdn # Unset => ~IsSuffix(e.t.cdn.exit, d.sni)
      BY <1>1, <1>2 DEF SniApart
    <2>2. e.t.cdn = Unset => Cdn(e) = Unset
      BY DEF Cdn
    <2>3. Cdn(e) # Unset => Cdn(e).domain = e.t.cdn.exit
      BY DEF Cdn
    <2>4. QED
      BY <2>1, <2>2, <2>3 DEF Frontend
  <1>5. Handshake(Direct(e), d)
    BY <1>1, <1>2, <1>3 DEF Handshake
  <1>6. Admitted(e, d) = {c \in ToSet(Direct(e).clients) : SameId(c.id, d.id) /\ c.flow = d.flow}
    BY <1>1, <1>4, <1>5 DEF Admitted
  <1>7. QED
    BY <1>1, <1>2, <1>6 DEF Known

\* A dial over Hysteria that shows what the listener's endpoint says is admitted
\* for whatever client it has the id of, at exits and hubs alike.
LEMMA HysteriaTaken ==
    ASSUME NEW e, NEW hy, hy = Hysteria(e.t, e.r, e.n), hy # Unset,
           NEW end, end = Endpoint(hy, Reality(e.t, e.r, e.n), e.key.pair),
           PinRight(e.t, e.r, e.n), Marked(e), HysteriaClients(e) # <<>>,
           NEW d, d.via = "hysteria", d.port = hy.port, d.sni = end.sni, d.pin = end.pin, d.obfs = end.obfs
    PROVE  Admitted(e, d) = Known(ToSet(HysteriaClients(e)), d.id)
  <1> DEFINE derived == Derived(hy, Reality(e.t, e.r, e.n), e.key.pair)
  <1>1. HysteriaListener(e) # Unset /\ derived # Unset
    BY DEF Marked
  <1>2. HysteriaInbound(e) = HysteriaListener(e)
    BY <1>1 DEF HysteriaInbound
  <1>3. /\ HysteriaInbound(e).port = hy.port /\ HysteriaInbound(e).end = end
        /\ HysteriaInbound(e).clients = HysteriaClients(e)
    BY <1>2 DEF HysteriaListener
  <1>4. IF d.pin # Unset THEN d.pin = end.certificate ELSE end.certificate[1] = "operator"
    <2>1. CASE hy.certificate = Unset
      <3>1. end.pin = derived /\ end.certificate = derived
        BY <2>1 DEF Endpoint
      <3>2. QED
        BY <1>1, <3>1
    <2>2. CASE hy.certificate # Unset
      <3>1. end.pin = hy.certificate.pin /\ end.certificate = <<"operator", hy.certificate.file>>
        BY <2>2 DEF Endpoint
      <3>2. hy.certificate.pin \in {Unset, <<"operator", hy.certificate.file>>}
        BY <2>2 DEF PinRight
      <3>3. end.certificate[1] = "operator"
        BY <3>1
      <3>4. QED
        BY <3>1, <3>2, <3>3
    <2>3. QED
      BY <2>1, <2>2
  <1>5. Verified(HysteriaInbound(e), d)
    BY <1>3, <1>4 DEF Verified
  <1>6. HysteriaInbound(e) # Unset
    BY <1>1, <1>2
  <1>7. QED
    BY <1>3, <1>5, <1>6 DEF Admitted, Known

\* So is a link over Hysteria.
LEMMA HysteriaLinkTaken ==
    ASSUME NEW e, NEW s, Agree(e, s), e.r.type = "exit", LinkProtocol(e.r) = "hysteria",
           PinRight(e.t, e.r, e.n), Marked(e), ExitClients(e, FALSE) # <<>>,
           NEW id
    PROVE  /\ HysteriaLink(s, id).id = id
           /\ \A c : c \in Admitted(e, HysteriaLink(s, id)) <=> c \in Known(ToSet(ExitClients(e, FALSE)), id)
  <1> DEFINE hy == Hysteria(e.t, e.r, e.n)
             end == Endpoint(hy, Reality(e.t, e.r, e.n), e.key.pair)
             d == HysteriaLink(s, id)
  <1>1. hy = HysteriaOverlay(e.t, e.r, e.n)
    BY DEF Hysteria
  <1>2. hy # Unset
    BY <1>1 DEF Marked
  <1>3. HysteriaClients(e) = ExitClients(e, FALSE)
    BY DEF HysteriaClients
  <1>4. hy = Hysteria(s.t, s.r, s.n) /\ Reality(e.t, e.r, e.n) = Reality(s.t, s.r, s.n) /\ e.key = s.key
    BY SameExitSettings DEF Agree
  <1>5. d = HysteriaDial(s.n.id, hy.port, end, id)
    BY <1>4 DEF HysteriaLink
  <1>6. /\ d.via = "hysteria" /\ d.id = id /\ d.port = hy.port /\ d.sni = end.sni /\ d.pin = end.pin
        /\ d.obfs = end.obfs
    BY <1>5 DEF HysteriaDial
  <1> HIDE DEF d, hy, end
  <1>7. Admitted(e, d) = Known(ToSet(HysteriaClients(e)), d.id)
    BY <1>2, <1>3, <1>6, HysteriaTaken DEF hy, end
  <1>8. QED
    BY <1>3, <1>6, <1>7 DEF d

\* The clients of an exit are the hubs there are, each as itself.
LEMMA ExitClientsAre ==
    ASSUME NEW e, WellFormed(e.t), NEW flow
    PROVE  /\ IsSeq(ExitClients(e, flow))
           /\ \A c : c \in ToSet(ExitClients(e, flow)) <=>
                 \E h \in ToSet(Nodes(e.t, "hub")) :
                    c = Client(HubExitEmail(e.t.ns, h.id, e.n.id), HubExitUuid(e.t.ns, h.id, e.n.id), flow)
  <1> DEFINE s == Nodes(e.t, "hub")
             Of(h) == Client(HubExitEmail(e.t.ns, h.id, e.n.id), HubExitUuid(e.t.ns, h.id, e.n.id), flow)
             f == [i \in DOMAIN s |-> <<Of(s[i])>>]
  <1>1. IsSeq(s)
    BY NodeElements
  <1>2. ExitClients(e, flow) = FlattenSeq(f)
    BY DEF ExitClients, SeqConcat
  <1>3. DOMAIN s = 1..Len(s)
    BY <1>1, SeqFacts
  <1>4. \A i \in 1..Len(s) : f[i] = <<Of(s[i])>>
    BY <1>3
  <1>5. f = [i \in DOMAIN s |-> f[i]]
    OBVIOUS
  <1> HIDE DEF f, s, Of
  <1>6. \A i \in 1..Len(s) : IsSeq(f[i]) /\ ToSet(f[i]) = {Of(s[i])}
    BY <1>4, OneIsSeq
  <1>7. IsMap(f, s)
    BY <1>5, <1>6 DEF IsMap
  <1>8. /\ IsSeq(FlattenSeq(f))
        /\ \A c : c \in ToSet(FlattenSeq(f)) <=> \E i \in 1..Len(s) : c \in ToSet(f[i])
    BY <1>1, <1>7, MapElements
  <1>9. \A c : (\E i \in 1..Len(s) : c \in ToSet(f[i])) <=> \E h \in ToSet(s) : c = Of(h)
    <2>1. \A h \in ToSet(s) : \E i \in 1..Len(s) : h = s[i]
      BY <1>1, Elements
    <2>2. \A i \in 1..Len(s) : s[i] \in ToSet(s)
      BY <1>1, Elements
    <2>3. QED
      BY <1>6, <2>1, <2>2
  <1>10. IsSeq(ExitClients(e, flow)) /\ \A c : c \in ToSet(ExitClients(e, flow)) <=> \E h \in ToSet(s) : c = Of(h)
    BY <1>2, <1>8, <1>9
  <1>11. QED
    BY <1>10 DEF s, Of

\* Hubs with one id, as Xray compares ids, have one email: both are made of the
\* hub's id and the exit's.
LEMMA OneIdOneEmail ==
    ASSUME NEW ns, NEW h, NEW g, NEW x, SameId(HubExitUuid(ns, h, x), HubExitUuid(ns, g, x))
    PROVE  HubExitEmail(ns, h, x) = HubExitEmail(ns, g, x)
  <1> DEFINE base == NamespaceUuid(ns)
             Of(k) == [name |-> k \o <<"-">> \o x, on |-> base.seg]
  <1>1. \A k : HubExitUuid(ns, k, x).path = Append(base.path, Of(k))
    BY DEF HubExitUuid, Uuid5
  <1>2. base.path = <<[name |-> ns, on |-> 0]>>
    BY DEF NamespaceUuid, Uuid5
  <1>3. Append(base.path, Of(h)) = Append(base.path, Of(g))
    BY <1>1 DEF SameId
  <1>4. \A p, a, b : Append(<<p>>, a) = Append(<<p>>, b) => a = b
    <2>1. ASSUME NEW p, NEW a PROVE Append(<<p>>, a)[2] = a
      <3>1. <<p>> \in Seq({p, a}) /\ a \in {p, a} /\ Len(<<p>>) = 1
        OBVIOUS
      <3>2. QED
        BY <3>1, AppendProperties
    <2>2. QED
      BY <2>1
  <1>5. Of(h) = Of(g)
    BY <1>2, <1>3, <1>4
  <1>6. h \o <<"-">> \o x = g \o <<"-">> \o x
    BY <1>5
  <1>7. QED
    BY <1>6 DEF HubExitEmail, Email

\* So whoever comes with the identity of a hub that an exit has, plain or marked
\* for warp, is taken for this hub.
LEMMA TakenForTheHub ==
    ASSUME NEW e, WellFormed(e.t), NEW flow, NEW n \in ToSet(Nodes(e.t, "hub")),
           NEW id, SameId(HubExitUuid(e.t.ns, n.id, e.n.id), id),
           NEW S, S = Known(ToSet(ExitClients(e, flow)), id)
    PROVE  /\ EmailsIn(S) = {HubExitEmail(e.t.ns, n.id, e.n.id)}
           /\ \A c \in S : c.flow = flow
  <1> DEFINE Of(h) == Client(HubExitEmail(e.t.ns, h.id, e.n.id), HubExitUuid(e.t.ns, h.id, e.n.id), flow)
  <1>1. \A c : c \in ToSet(ExitClients(e, flow)) <=> \E h \in ToSet(Nodes(e.t, "hub")) : c = Of(h)
    BY ExitClientsAre
  <1>2. \A h : /\ Of(h).email = HubExitEmail(e.t.ns, h.id, e.n.id) /\ Of(h).flow = flow
               /\ Of(h).id = HubExitUuid(e.t.ns, h.id, e.n.id)
    BY DEF Client
  <1> HIDE DEF Of
  <1>3. Of(n) \in S
    BY <1>1, <1>2 DEF Known
  <1>4. ASSUME NEW c \in S PROVE c.email = HubExitEmail(e.t.ns, n.id, e.n.id) /\ c.flow = flow
    <2>1. PICK h \in ToSet(Nodes(e.t, "hub")) : c = Of(h)
      BY <1>1 DEF Known
    <2>2. SameId(HubExitUuid(e.t.ns, h.id, e.n.id), HubExitUuid(e.t.ns, n.id, e.n.id))
      BY <1>2, <2>1 DEF SameId, Known
    <2>3. QED
      BY <1>2, <2>1, <2>2, OneIdOneEmail
  <1>5. QED
    BY <1>2, <1>3, <1>4 DEF EmailsIn

\* The identity of a link is the hub's, and the third segment says whether it is
\* the one for warp.
LEMMA LinkIdentities ==
    ASSUME NEW ns, NEW h, NEW x, NEW warp \in BOOLEAN
    PROVE  /\ SameId(HubExitUuid(ns, h, x), LinkIdentity(ns, h, x, warp))
           /\ LinkIdentity(ns, h, x, warp).seg = WarpSegment <=> warp
  <1>1. HubExitUuid(ns, h, x).seg = HashSegment
    BY DEF HubExitUuid, Uuid5
  <1>2. HashSegment # WarpSegment
    BY HashSegmentAssumption DEF WarpSegment
  <1>3. \A u : /\ u \in [path : {u.path}, seg : {u.seg}] =>
                    WarpUuid(u).path = u.path /\ WarpUuid(u).seg = WarpSegment
    BY DEF WarpUuid
  <1>4. HubExitUuid(ns, h, x) \in [path : {HubExitUuid(ns, h, x).path}, seg : {HubExitUuid(ns, h, x).seg}]
    BY DEF HubExitUuid, Uuid5
  <1>5. QED
    BY <1>1, <1>2, <1>3, <1>4 DEF SameId, LinkIdentity

\* A Reality inbound has names.
LEMMA NamesListed ==
    ASSUME NEW q, q # Unset, Named(q)
    PROVE  IsSeq(ServerNames(q)) /\ ServerNames(q) # <<>>
  <1>1. \A d : IsSeq(<<d>>) /\ <<d>> # <<>>
    BY OneIsSeq
  <1>2. QED
    BY <1>1 DEF ServerNames, Or, IsSeq, Named, Listed

\* What is known of the environment of an exit that some node runs.
LEMMA ExitFacts ==
    ASSUME NEW b \in Snapshots, NEW x \in Declared(b), ~IsHub(b, x), NEW e, e = EnvAt(b, x)
    PROVE  /\ WellFormed(e.t) /\ e.r.type = "exit" /\ e.r.warp \in BOOLEAN /\ Marked(e)
           /\ LinksApart => SniApart(e.t, e.r, e.n) /\ PinRight(e.t, e.r, e.n)
           /\ IsSeq(ServerNames(Reality(e.t, e.r, e.n))) /\ ServerNames(Reality(e.t, e.r, e.n)) # <<>>
  <1> DEFINE pl == PlaceIn(b, x)
             t == Topo[b.topo]
  <1>1. /\ b.topo \in DOMAIN Topo /\ Loads(t) /\ WellFormed(t)
        /\ b.gen \in [Range(CircleOf) -> 0..MaxRotations]
    BY FieldsAssumption DEF Snapshots, Loadable
  <1>2. /\ pl \in AllPlaces(t) /\ e.t = t /\ e.r = pl.r /\ e.n = pl.n
    BY <1>1, EnvFields
  <1>3. e = Env(t, pl, KeysAt(b.gen))
    BY DEF EnvAt
  <1>4. Marked(e)
    BY <1>1, <1>2, <1>3, MarkAssumption DEF Marked
  <1> HIDE DEF pl, t
  <1>5. pl.r \in ToSet(t.regions) /\ pl.n \in ToSet(pl.r.nodes) /\ pl.r.type \in {"exit", "hub"}
    BY <1>1, <1>2, PlaceFacts
  <1>6. e.r.type = "exit"
    BY <1>2, <1>5 DEF IsHub, pl
  <1>7. pl.r.warp \in BOOLEAN /\ Named(pl.n.reality)
    BY <1>1, <1>2, <1>5, <1>6 DEF WellFormed
  <1>8. LinksApart => SniApart(e.t, e.r, e.n) /\ PinRight(e.t, e.r, e.n)
    BY <1>1, <1>2, <1>6 DEF LinksApart, t
  <1>9. pl.n.reality # Unset
    <2>1. NodeLoads(t, pl.r, pl.n)
      BY <1>1, <1>2 DEF Loads
    <2>2. QED
      BY <1>2, <1>6, <2>1 DEF NodeLoads
  <1>10. Reality(e.t, e.r, e.n) = pl.n.reality
    BY <1>2, <1>6, <1>9 DEF Reality, Or
  <1>11. IsSeq(ServerNames(Reality(e.t, e.r, e.n))) /\ ServerNames(Reality(e.t, e.r, e.n)) # <<>>
    BY <1>7, <1>9, <1>10, NamesListed
  <1>12. QED
    BY <1>1, <1>2, <1>4, <1>6, <1>7, <1>8, <1>11

\* As who a dial is let in depends on the clients that answer to it alone.
LEMMA EmailsAre ==
    ASSUME NEW e, NEW d PROVE Emails(e, d) = EmailsIn(Admitted(e, d))
  BY DEF Emails, EmailsIn

\* Whatever list those are found in.
LEMMA SameMembersSameEmails ==
    ASSUME NEW S, NEW T, \A c : c \in S <=> c \in T PROVE EmailsIn(S) = EmailsIn(T)
  BY DEF EmailsIn

\* A link to an exit, made from an older or a newer file, is taken for its hub.
LEMMA LinkTaken ==
    ASSUME LinksApart, NEW a \in Snapshots, NEW b \in Snapshots, NEW x \in Declared(b), ~IsHub(b, x),
           SamePlace(a, b, x), SameKeys(a, b, x),
           NEW n \in ToSet(Nodes(Topo[b.topo], "hub")), NEW warp \in BOOLEAN,
           NEW e, e = EnvAt(b, x), NEW s, s = EnvAt(a, x),
           NEW h, h.n.id = n.id, h.t.ns = s.t.ns
    PROVE  /\ Emails(e, Link(h, s, warp)) = {HubExitEmail(s.t.ns, n.id, s.n.id)}
           /\ Link(h, s, warp).id.seg = WarpSegment <=> warp
  <1> DEFINE id == LinkIdentity(h.t.ns, h.n.id, s.n.id, warp)
             d == Link(h, s, warp)
  <1>1. a.topo \in DOMAIN Topo /\ b.topo \in DOMAIN Topo
    BY DEF Snapshots, Loadable
  <1>2. Agree(e, s)
    BY <1>1, PlacesAgree
  <1>3. /\ WellFormed(e.t) /\ e.r.type = "exit" /\ Marked(e)
        /\ SniApart(e.t, e.r, e.n) /\ PinRight(e.t, e.r, e.n)
        /\ IsSeq(ServerNames(Reality(e.t, e.r, e.n))) /\ ServerNames(Reality(e.t, e.r, e.n)) # <<>>
    BY ExitFacts
  <1>4. e.t = Topo[b.topo] /\ e.t.ns = s.t.ns /\ e.n = s.n /\ LinkProtocol(e.r) = LinkProtocol(s.r)
    <2>1. e.t = Topo[b.topo]
      BY <1>1, EnvFields
    <2>2. e.t.ns = s.t.ns /\ e.n = s.n
      BY <1>2 DEF Agree
    <2>3. LinkProtocol(e.r) = LinkProtocol(s.r)
      BY <1>2, <1>3, SameExitSettings
    <2>4. QED
      BY <2>1, <2>2, <2>3
  <1>5. SameId(HubExitUuid(e.t.ns, n.id, e.n.id), id) /\ (id.seg = WarpSegment <=> warp)
    BY <1>4, LinkIdentities
  <1> HIDE DEF id, d
  <1>6. ASSUME NEW flow, NEW S, S = Known(ToSet(ExitClients(e, flow)), id)
        PROVE  /\ EmailsIn(S) = {HubExitEmail(e.t.ns, n.id, e.n.id)}
               /\ \A c \in S : c.flow = flow
    <2>1. n \in ToSet(Nodes(e.t, "hub")) /\ WellFormed(e.t)
      BY <1>3, <1>4
    <2>2. QED
      BY <1>5, <1>6, <2>1, TakenForTheHub
  <1>7. ASSUME LinkProtocol(s.r) = "hysteria"
        PROVE  Emails(e, d) = {HubExitEmail(s.t.ns, n.id, s.n.id)} /\ (d.id.seg = WarpSegment <=> warp)
    <2>1. d = HysteriaLink(s, id)
      BY <1>7 DEF Link, id, d
    <2>2. ExitClients(e, FALSE) # <<>>
      <3>1. \E c : c \in ToSet(ExitClients(e, FALSE))
        <4>1. n \in ToSet(Nodes(e.t, "hub")) /\ WellFormed(e.t)
          BY <1>3, <1>4
        <4>2. QED
          BY <4>1, ExitClientsAre
      <3>2. QED
        BY <3>1, EmptyIsSeq
    <2>3. LinkProtocol(e.r) = "hysteria"
      BY <1>4, <1>7
    <2>4. e.r.type = "exit" /\ PinRight(e.t, e.r, e.n) /\ Marked(e)
      BY <1>3
    <2>5. /\ d.id = id
          /\ \A c : c \in Admitted(e, d) <=> c \in Known(ToSet(ExitClients(e, FALSE)), id)
      BY ONLY <1>2, <2>1, <2>2, <2>3, <2>4, HysteriaLinkTaken
    <2>6. EmailsIn(Admitted(e, d)) = EmailsIn(Known(ToSet(ExitClients(e, FALSE)), id))
      BY <2>5, SameMembersSameEmails
    <2>7. Emails(e, d) = {HubExitEmail(e.t.ns, n.id, e.n.id)}
      BY <1>6, <2>6, EmailsAre
    <2>8. QED
      BY <1>4, <1>5, <2>5, <2>7
  <1>8. ASSUME LinkProtocol(s.r) # "hysteria"
        PROVE  Emails(e, d) = {HubExitEmail(s.t.ns, n.id, s.n.id)} /\ (d.id.seg = WarpSegment <=> warp)
    <2>1. d = VlessLink(s, id)
      BY <1>8 DEF Link, id, d
    <2>2. /\ d.id = id
          /\ \A c : c \in Admitted(e, d) <=>
               c \in Known(ToSet(ExitClients(e, s.key.enc)), id) /\ c.flow = s.key.enc
      BY <1>2, <1>3, <2>1, VlessLinkTaken
    <2>3. \A c : c \in Admitted(e, d) <=> c \in Known(ToSet(ExitClients(e, s.key.enc)), id)
      BY <1>6, <2>2
    <2>4. EmailsIn(Admitted(e, d)) = EmailsIn(Known(ToSet(ExitClients(e, s.key.enc)), id))
      BY <2>3, SameMembersSameEmails
    <2>5. Emails(e, d) = {HubExitEmail(e.t.ns, n.id, e.n.id)}
      BY <1>6, <2>4, EmailsAre
    <2>6. QED
      BY <1>4, <1>5, <2>2, <2>5
  <1>9. Emails(e, d) = {HubExitEmail(s.t.ns, n.id, s.n.id)} /\ (d.id.seg = WarpSegment <=> warp)
    BY <1>7, <1>8
  <1>10. QED
    BY <1>9 DEF d

\* The nodes that run are in the file they run, hubs with the hubs.
LEMMA HubEntry ==
    ASSUME NEW b \in Snapshots, NEW h \in Declared(b), IsHub(b, h)
    PROVE  \E n \in ToSet(Nodes(Topo[b.topo], "hub")) : n.id = h
  <1>1. b.topo \in DOMAIN Topo /\ WellFormed(Topo[b.topo])
    BY FieldsAssumption DEF Snapshots, Loadable
  <1>2. PlaceIn(b, h) \in AllPlaces(Topo[b.topo]) /\ PlaceIn(b, h).n.id = h
    BY <1>1, EnvFields
  <1>3. PlaceIn(b, h).n \in ToSet(Nodes(Topo[b.topo], "hub"))
    BY <1>1, <1>2, PlaceFacts DEF IsHub
  <1>4. QED
    BY <1>2, <1>3

\* One link has no mark; with warp there is another, which has it.
Marks(L) == {d.id.seg = WarpSegment : d \in L}

\* Both marks with warp, and only the lack of one without.
LEMMA MarksOfLinks ==
    ASSUME NEW L, NEW f, NEW g, NEW warp \in BOOLEAN, L = (IF warp THEN {f, g} ELSE {f}),
           f.id.seg # WarpSegment, g.id.seg = WarpSegment
    PROVE  Marks(L) = IF warp THEN BOOLEAN ELSE {FALSE}
  <1>1. ASSUME NEW d PROVE Marks({d}) = {d.id.seg = WarpSegment}
    BY DEF Marks
  <1>2. ASSUME NEW d, NEW k PROVE Marks({d, k}) = {d.id.seg = WarpSegment, k.id.seg = WarpSegment}
    BY DEF Marks
  <1>3. (f.id.seg = WarpSegment) = FALSE /\ (g.id.seg = WarpSegment) = TRUE
    OBVIOUS
  <1>4. CASE warp
    <2>1. L = {f, g}
      BY <1>4
    <2>2. Marks({f, g}) = {f.id.seg = WarpSegment, g.id.seg = WarpSegment}
      BY <1>2
    <2>3. {f.id.seg = WarpSegment, g.id.seg = WarpSegment} = {FALSE, TRUE}
      BY <1>3, Zenon
    <2>4. {FALSE, TRUE} = BOOLEAN
      OBVIOUS
    <2>5. QED
      BY <1>4, <2>1, <2>2, <2>3, <2>4, Zenon
  <1>5. CASE ~warp
    <2>1. L = {f}
      BY <1>5
    <2>2. Marks({f}) = {f.id.seg = WarpSegment}
      BY <1>1
    <2>3. {f.id.seg = WarpSegment} = {FALSE}
      BY <1>3, Zenon
    <2>4. QED
      BY <1>5, <2>1, <2>2, <2>3, Zenon
  <1>6. QED
    BY <1>4, <1>5

\* The links of a hub that runs, each with its mark.
LEMMA LinksTakenNow == LinksApart /\ TypeInv /\ KeyInv => LinksAccepted
  <1> SUFFICES ASSUME LinksApart, TypeInv, KeyInv, NEW k \in RunningHubs, NEW x \in Running \ RunningHubs,
                      SamePlace(built[k], built[x], x), SameKeys(built[k], built[x], x),
                      k \in Declared(built[x]), IsHub(built[x], k)
               PROVE  LET h == EnvAt(built[k], k)
                          s == EnvAt(built[k], x)
                      IN  /\ \A d \in Links(h, s) :
                                Emails(EnvAt(built[x], x), d) = {HubExitEmail(s.t.ns, h.n.id, s.n.id)}
                          /\ Marks(Links(h, s)) = IF s.r.warp THEN BOOLEAN ELSE {FALSE}
    BY DEF LinksAccepted, Marks
  <1> DEFINE a == built[k]
             b == built[x]
             h == EnvAt(a, k)
             s == EnvAt(a, x)
             e == EnvAt(b, x)
  <1>1. a \in Snapshots /\ b \in Snapshots
    BY DEF TypeInv, RunningHubs, Running
  <1>2. k \in Declared(a) /\ x \in Declared(b) /\ x \in Declared(a) /\ ~IsHub(b, x)
    BY DEF KeyInv, RunningHubs, Running, SamePlace
  <1>3. h = EnvAt(a, k) /\ s = EnvAt(a, x) /\ e = EnvAt(b, x)
    OBVIOUS
  <1>4. SamePlace(a, b, x) /\ SameKeys(a, b, x) /\ k \in Declared(b) /\ IsHub(b, k)
    OBVIOUS
  <1> HIDE DEF a, b, h, s, e
  <1>5. a.topo \in DOMAIN Topo /\ b.topo \in DOMAIN Topo
    BY <1>1 DEF Snapshots, Loadable
  <1>6. h.n.id = k /\ h.t = Topo[a.topo] /\ s.t = Topo[a.topo]
    BY <1>2, <1>3, <1>5, EnvFields
  <1>7. PICK n \in ToSet(Nodes(Topo[b.topo], "hub")) : n.id = k
    BY <1>1, <1>4, HubEntry
  <1>8. h.n.id = n.id /\ h.t.ns = s.t.ns
    BY <1>6, <1>7
  <1>9. ASSUME NEW warp \in BOOLEAN
        PROVE  /\ Emails(e, Link(h, s, warp)) = {HubExitEmail(s.t.ns, n.id, s.n.id)}
               /\ Link(h, s, warp).id.seg = WarpSegment <=> warp
    BY ONLY LinksApart, <1>1, <1>2, <1>3, <1>4, <1>7, <1>8, <1>9, LinkTaken
  <1>10. s.r.warp \in BOOLEAN
    <2>1. Agree(e, s)
      BY <1>3, <1>4, <1>5, PlacesAgree
    <2>2. e.r.type = "exit" /\ e.r.warp \in BOOLEAN
      BY <1>1, <1>2, <1>3, ExitFacts
    <2>3. QED
      BY <2>1, <2>2 DEF Agree
  <1> DEFINE f == Link(h, s, FALSE)
             g == Link(h, s, TRUE)
             L == Links(h, s)
  <1>11. L = IF s.r.warp THEN {f, g} ELSE {f}
    BY DEF Links
  <1>12. /\ Emails(e, f) = {HubExitEmail(s.t.ns, h.n.id, s.n.id)}
         /\ Emails(e, g) = {HubExitEmail(s.t.ns, h.n.id, s.n.id)}
         /\ f.id.seg # WarpSegment /\ g.id.seg = WarpSegment
    BY <1>8, <1>9
  <1> HIDE DEF f, g, L
  <1>13. \A d \in L : Emails(e, d) = {HubExitEmail(s.t.ns, h.n.id, s.n.id)}
    BY <1>11, <1>12
  <1>14. Marks(L) = IF s.r.warp THEN BOOLEAN ELSE {FALSE}
    BY <1>10, <1>11, <1>12, MarksOfLinks
  <1>15. QED
    BY <1>13, <1>14 DEF L, a, b, h, s, e

\* Whatever was edited and rotated in between, and whenever each was built: the
\* exit takes the links of every hub it knows for that hub, as long as its own
\* entry, settings and keys are what the hub saw, and the warp link alone has
\* the mark of warp.  (LinksApart: the Reality names stay clear of the CDN's,
\* and a pin in the file is right.)
THEOREM LinksTaken == ASSUME LinksApart PROVE Spec => []LinksAccepted
  BY InitTypeInv, NextTypeInv, InitKeyInv, NextKeyInv, LinksTakenNow, PTL DEF Spec

-----------------------------------------------------------------------------
(* Who is in a list of clients.                                            *)

ServerClient(t, u, flow) == Client(ServerEmail(u), ServerUuid(t.ns, u), flow)
GuestClient(t, u, l, flow) == Client(GuestEmail(u, l), GuestUuid(t.ns, u, l), flow)
PortalClient(t, p, flow) ==
    [Client(PortalEmail(t.ns, p), PortalUuid(t.ns, p), flow) EXCEPT !.reverse = p.id \o <<"-portal">>]

\* What the schema says of a user and of a portal.
LEMMA UserFacts ==
    ASSUME NEW t, WellFormed(t), NEW u \in ToSet(t.users)
    PROVE  /\ IsSeq(u.guests) /\ IsSeq(u.name) /\ u.name # <<>> /\ u.name[1] \notin {"portal/", "portal."}
           /\ \A l \in ToSet(u.guests) : IsSeq(l)
           /\ u.uuid # Unset => IsSeq(u.uuid.path)
  BY DEF WellFormed, Listed, IsSeq

\* A portal's id and a pinned uuid's path are sequences.
LEMMA PortalFacts ==
    ASSUME NEW t, WellFormed(t), NEW p \in ToSet(t.portals)
    PROVE  IsSeq(p.id) /\ (p.uuid # Unset => IsSeq(p.uuid.path))
  BY DEF WellFormed, Listed, IsSeq

\* The guests and the server identity of a user.
LEMMA GuestClientsAre ==
    ASSUME NEW t, NEW u, IsSeq(u.guests), NEW flow
    PROVE  /\ IsSeq(GuestClients(t, u, flow))
           /\ \A c : c \in ToSet(GuestClients(t, u, flow)) <=> \E l \in ToSet(u.guests) : c = GuestClient(t, u, l, flow)
  <1> DEFINE s == GuestClients(t, u, flow)
  <1>1. DOMAIN u.guests = 1..Len(u.guests) /\ Len(u.guests) \in Nat
    BY SeqFacts
  <1>2. s = [i \in 1..Len(u.guests) |-> GuestClient(t, u, u.guests[i], flow)]
    BY <1>1 DEF GuestClients, GuestClient
  <1>3. s = [i \in 1..Len(u.guests) |-> s[i]]
    BY <1>2
  <1>4. IsSeq(s) /\ Len(s) = Len(u.guests)
    <2> HIDE DEF s
    <2>1. QED
      BY <1>1, <1>3, FunctionIsSeq
  <1>5. \A i \in 1..Len(u.guests) : s[i] = GuestClient(t, u, u.guests[i], flow)
    BY <1>2
  <1> HIDE DEF s
  <1>6. \A c : c \in ToSet(s) <=> \E l \in ToSet(u.guests) : c = GuestClient(t, u, l, flow)
    <2>1. ASSUME NEW c \in ToSet(s) PROVE \E l \in ToSet(u.guests) : c = GuestClient(t, u, l, flow)
      BY <1>4, <1>5, Elements
    <2>2. ASSUME NEW l \in ToSet(u.guests) PROVE GuestClient(t, u, l, flow) \in ToSet(s)
      <3>1. PICK i \in 1..Len(u.guests) : l = u.guests[i]
        BY Elements
      <3>2. s[i] \in ToSet(s)
        BY <1>4, Elements
      <3>3. QED
        BY <1>5, <3>1, <3>2
    <2>3. QED
      BY <2>1, <2>2
  <1>7. QED
    BY <1>4, <1>6 DEF s

\* _guest_clients: one client for every guest, in their order.
LEMMA GuestList ==
    ASSUME NEW t, NEW u, IsSeq(u.guests), NEW flow
    PROVE  /\ IsSeq(GuestClients(t, u, flow)) /\ Len(GuestClients(t, u, flow)) = Len(u.guests)
           /\ \A i \in 1..Len(GuestClients(t, u, flow)) :
                  GuestClients(t, u, flow)[i].id = GuestUuid(t.ns, u, u.guests[i])
  <1> DEFINE s == GuestClients(t, u, flow)
  <1>1. DOMAIN u.guests = 1..Len(u.guests) /\ Len(u.guests) \in Nat
    BY SeqFacts
  <1>2. s = [i \in 1..Len(u.guests) |-> GuestClient(t, u, u.guests[i], flow)]
    BY <1>1 DEF GuestClients, GuestClient
  <1>3. s = [i \in 1..Len(u.guests) |-> s[i]]
    BY <1>2
  <1>4. \A i \in 1..Len(u.guests) : s[i].id = GuestUuid(t.ns, u, u.guests[i])
    BY <1>2 DEF GuestClient, Client
  <1> HIDE DEF s
  <1>5. IsSeq(s) /\ Len(s) = Len(u.guests)
    BY <1>1, <1>3, FunctionIsSeq
  <1>6. QED
    BY <1>4, <1>5 DEF s

\* _server_clients: the server's client, for users with that access.
LEMMA ServerClientsAre ==
    ASSUME NEW t, NEW u, NEW flow
    PROVE  /\ IsSeq(ServerClients(t, u, flow))
           /\ \A c : c \in ToSet(ServerClients(t, u, flow)) <=> "server" \in u.access /\ c = ServerClient(t, u, flow)
  BY EmptyIsSeq, OneIsSeq DEF ServerClients, ServerClient

\* What is made of the users, one after the other.
LEMMA OfTheUsers ==
    ASSUME NEW s, IsSeq(s), NEW f, f = [i \in DOMAIN s |-> f[i]], \A i \in DOMAIN s : IsSeq(f[i])
    PROVE  IsMap(f, s) /\ IsSeq(FlattenSeq(f))
           /\ \A x : x \in ToSet(FlattenSeq(f)) <=> \E i \in DOMAIN s : x \in ToSet(f[i])
  <1>1. DOMAIN s = 1..Len(s)
    BY SeqFacts
  <1>2. IsMap(f, s)
    BY <1>1 DEF IsMap
  <1>3. QED
    BY <1>1, <1>2, MapElements

\* Three lists in a row.
LEMMA InARow ==
    ASSUME NEW a, NEW b, NEW g, IsSeq(a), IsSeq(b), IsSeq(g)
    PROVE  IsSeq(a \o b \o g) /\ \A x : x \in ToSet(a \o b \o g) <=> x \in ToSet(a) \/ x \in ToSet(b) \/ x \in ToSet(g)
  <1>1. IsSeq(a \o b) /\ ToSet(a \o b) = ToSet(a) \cup ToSet(b)
    BY Concatenation
  <1>2. IsSeq((a \o b) \o g) /\ ToSet((a \o b) \o g) = ToSet(a \o b) \cup ToSet(g)
    BY <1>1, Concatenation
  <1>3. QED
    BY <1>1, <1>2

\* A user's part of each of the lists.
AccessPart(t, u, type, flow, server) ==
    IF type \notin u.access THEN <<>>
    ELSE <<UserClient(t, u, flow)>>
         \o (IF server THEN ServerClients(t, u, flow) ELSE <<>>)
         \o GuestClients(t, u, flow)
VlessPart(t, u, flow) ==
    (IF "xhttp" \in u.access THEN <<UserClient(t, u, flow)>> ELSE <<>>)
    \o ServerClients(t, u, flow)
    \o (IF "xhttp" \in u.access THEN GuestClients(t, u, flow) ELSE <<>>)

\* c is one of the clients that user u has there.
InAccess(t, u, type, flow, server, c) ==
    /\ type \in u.access
    /\ \/ c = UserClient(t, u, flow)
       \/ server /\ "server" \in u.access /\ c = ServerClient(t, u, flow)
       \/ \E l \in ToSet(u.guests) : c = GuestClient(t, u, l, flow)
InVless(t, u, flow, c) ==
    \/ "xhttp" \in u.access /\ c = UserClient(t, u, flow)
    \/ "server" \in u.access /\ c = ServerClient(t, u, flow)
    \/ "xhttp" \in u.access /\ \E l \in ToSet(u.guests) : c = GuestClient(t, u, l, flow)

\* The clients of one user in a list by access type: exactly the ones above.
LEMMA AccessPartIs ==
    ASSUME NEW t, NEW u, IsSeq(u.guests), NEW type, NEW flow, NEW server \in BOOLEAN
    PROVE  /\ IsSeq(AccessPart(t, u, type, flow, server))
           /\ \A c : c \in ToSet(AccessPart(t, u, type, flow, server)) <=> InAccess(t, u, type, flow, server, c)
  <1> DEFINE a == <<UserClient(t, u, flow)>>
             b == IF server THEN ServerClients(t, u, flow) ELSE <<>>
             g == GuestClients(t, u, flow)
  <1>1. IsSeq(a) /\ ToSet(a) = {UserClient(t, u, flow)}
    BY OneIsSeq
  <1>2. IsSeq(b) /\ \A c : c \in ToSet(b) <=> server /\ "server" \in u.access /\ c = ServerClient(t, u, flow)
    BY EmptyIsSeq, ServerClientsAre
  <1>3. IsSeq(g) /\ \A c : c \in ToSet(g) <=> \E l \in ToSet(u.guests) : c = GuestClient(t, u, l, flow)
    BY GuestClientsAre
  <1>4. AccessPart(t, u, type, flow, server) = IF type \notin u.access THEN <<>> ELSE a \o b \o g
    BY DEF AccessPart
  <1> HIDE DEF a, b, g
  <1>5. IsSeq(a \o b \o g) /\ \A x : x \in ToSet(a \o b \o g) <=> x \in ToSet(a) \/ x \in ToSet(b) \/ x \in ToSet(g)
    BY <1>1, <1>2, <1>3, InARow
  <1>6. QED
    BY <1>1, <1>2, <1>3, <1>4, <1>5, EmptyIsSeq DEF InAccess

\* The same for the VLESS inbound.
LEMMA VlessPartIs ==
    ASSUME NEW t, NEW u, IsSeq(u.guests), NEW flow
    PROVE  /\ IsSeq(VlessPart(t, u, flow))
           /\ \A c : c \in ToSet(VlessPart(t, u, flow)) <=> InVless(t, u, flow, c)
  <1> DEFINE a == IF "xhttp" \in u.access THEN <<UserClient(t, u, flow)>> ELSE <<>>
             b == ServerClients(t, u, flow)
             g == IF "xhttp" \in u.access THEN GuestClients(t, u, flow) ELSE <<>>
  <1>1. IsSeq(a) /\ \A c : c \in ToSet(a) <=> "xhttp" \in u.access /\ c = UserClient(t, u, flow)
    BY OneIsSeq, EmptyIsSeq
  <1>2. IsSeq(b) /\ \A c : c \in ToSet(b) <=> "server" \in u.access /\ c = ServerClient(t, u, flow)
    BY ServerClientsAre
  <1>3. IsSeq(g) /\ \A c : c \in ToSet(g) <=>
            "xhttp" \in u.access /\ \E l \in ToSet(u.guests) : c = GuestClient(t, u, l, flow)
    BY GuestClientsAre, EmptyIsSeq
  <1>4. VlessPart(t, u, flow) = a \o b \o g
    BY DEF VlessPart
  <1> HIDE DEF a, b, g
  <1>5. IsSeq(a \o b \o g) /\ \A x : x \in ToSet(a \o b \o g) <=> x \in ToSet(a) \/ x \in ToSet(b) \/ x \in ToSet(g)
    BY <1>1, <1>2, <1>3, InARow
  <1>6. QED
    BY <1>1, <1>2, <1>3, <1>4, <1>5 DEF InVless

\* A list by access type has exactly the clients of the users.
LEMMA AccessClientsAre ==
    ASSUME NEW t, WellFormed(t), NEW type, NEW flow, NEW server \in BOOLEAN
    PROVE  /\ IsSeq(AccessClients(t, type, flow, server))
           /\ \A c : c \in ToSet(AccessClients(t, type, flow, server)) <=>
                 \E u \in ToSet(t.users) : InAccess(t, u, type, flow, server, c)
  <1> DEFINE s == t.users
             f == [i \in DOMAIN s |-> AccessPart(t, s[i], type, flow, server)]
  <1>1. IsSeq(s) /\ DOMAIN s = 1..Len(s)
    BY SeqFacts DEF WellFormed, Listed, IsSeq
  <1>2. AccessClients(t, type, flow, server) = FlattenSeq(f)
    BY DEF AccessClients, SeqConcat, AccessPart
  <1>3. \A i \in DOMAIN s : f[i] = AccessPart(t, s[i], type, flow, server) /\ s[i] \in ToSet(s)
    BY DEF ToSet
  <1>4. f = [i \in DOMAIN s |-> f[i]]
    OBVIOUS
  <1>5. \A u \in ToSet(s) : \E i \in DOMAIN s : u = s[i]
    BY DEF ToSet
  <1>6. \A u \in ToSet(s) : /\ IsSeq(AccessPart(t, u, type, flow, server))
                            /\ \A c : c \in ToSet(AccessPart(t, u, type, flow, server)) <=>
                                  InAccess(t, u, type, flow, server, c)
    BY UserFacts, AccessPartIs
  <1> HIDE DEF f, s
  <1>7. IsSeq(FlattenSeq(f)) /\ \A x : x \in ToSet(FlattenSeq(f)) <=> \E i \in DOMAIN s : x \in ToSet(f[i])
    BY <1>1, <1>3, <1>4, <1>6, OfTheUsers
  <1>8. QED
    BY <1>2, <1>3, <1>5, <1>6, <1>7 DEF s

\* And so has the VLESS inbound's.
LEMMA VlessClientsAre ==
    ASSUME NEW t, WellFormed(t), NEW flow
    PROVE  /\ IsSeq(VlessClients(t, flow))
           /\ \A c : c \in ToSet(VlessClients(t, flow)) <=> \E u \in ToSet(t.users) : InVless(t, u, flow, c)
  <1> DEFINE s == t.users
             f == [i \in DOMAIN s |-> VlessPart(t, s[i], flow)]
  <1>1. IsSeq(s) /\ DOMAIN s = 1..Len(s)
    BY SeqFacts DEF WellFormed, Listed, IsSeq
  <1>2. VlessClients(t, flow) = FlattenSeq(f)
    BY DEF VlessClients, SeqConcat, VlessPart
  <1>3. \A i \in DOMAIN s : f[i] = VlessPart(t, s[i], flow) /\ s[i] \in ToSet(s)
    BY DEF ToSet
  <1>4. f = [i \in DOMAIN s |-> f[i]]
    OBVIOUS
  <1>5. \A u \in ToSet(s) : \E i \in DOMAIN s : u = s[i]
    BY DEF ToSet
  <1>6. \A u \in ToSet(s) : /\ IsSeq(VlessPart(t, u, flow))
                            /\ \A c : c \in ToSet(VlessPart(t, u, flow)) <=> InVless(t, u, flow, c)
    BY UserFacts, VlessPartIs
  <1> HIDE DEF f, s
  <1>7. IsSeq(FlattenSeq(f)) /\ \A x : x \in ToSet(FlattenSeq(f)) <=> \E i \in DOMAIN s : x \in ToSet(f[i])
    BY <1>1, <1>3, <1>4, <1>6, OfTheUsers
  <1>8. QED
    BY <1>2, <1>3, <1>5, <1>6, <1>7 DEF s

\* One client for every portal, and no other.
LEMMA PortalClientsAre ==
    ASSUME NEW t, WellFormed(t), NEW flow
    PROVE  /\ IsSeq(PortalClients(t, flow))
           /\ \A c : c \in ToSet(PortalClients(t, flow)) <=> \E p \in ToSet(t.portals) : c = PortalClient(t, p, flow)
  <1> DEFINE s == t.portals
             f == [i \in DOMAIN s |-> <<PortalClient(t, s[i], flow)>>]
  <1>1. IsSeq(s) /\ DOMAIN s = 1..Len(s)
    BY SeqFacts DEF WellFormed, Listed, IsSeq
  <1>2. PortalClients(t, flow) = FlattenSeq(f)
    BY DEF PortalClients, SeqConcat, PortalClient
  <1>3. \A i \in DOMAIN s : f[i] = <<PortalClient(t, s[i], flow)>> /\ s[i] \in ToSet(s)
    BY DEF ToSet
  <1>4. f = [i \in DOMAIN s |-> f[i]]
    OBVIOUS
  <1>5. \A p \in ToSet(s) : \E i \in DOMAIN s : p = s[i]
    BY DEF ToSet
  <1>6. \A i \in DOMAIN s : IsSeq(f[i]) /\ ToSet(f[i]) = {PortalClient(t, s[i], flow)}
    BY <1>3, OneIsSeq
  <1> HIDE DEF f, s
  <1>7. IsSeq(FlattenSeq(f)) /\ \A x : x \in ToSet(FlattenSeq(f)) <=> \E i \in DOMAIN s : x \in ToSet(f[i])
    BY <1>1, <1>4, <1>6, OfTheUsers
  <1>8. QED
    BY <1>2, <1>3, <1>5, <1>6, <1>7 DEF s

\* The same for the WireGuard peers.
Peer(email, id) == [email |-> email, id |-> id]
InPeers(t, u, x) ==
    /\ "wireguard" \in u.access
    /\ \/ x = Peer(UserEmail(t.ns, u), UserUuid(t.ns, u))
       \/ "server" \in u.access /\ x = Peer(ServerEmail(u), ServerUuid(t.ns, u))
       \/ \E l \in ToSet(u.guests) : x = Peer(GuestEmail(u, l), GuestUuid(t.ns, u, l))

\* The peers of one user: its own, the server's and its guests'.
LEMMA PeersOfAre ==
    ASSUME NEW t, NEW u, IsSeq(u.guests)
    PROVE  /\ IsSeq(PeersOf(t.ns, u))
           /\ \A x : x \in ToSet(PeersOf(t.ns, u)) <=> InPeers(t, u, x)
  <1> DEFINE a == <<Peer(UserEmail(t.ns, u), UserUuid(t.ns, u))>>
             b == IF "server" \in u.access THEN <<Peer(ServerEmail(u), ServerUuid(t.ns, u))>> ELSE <<>>
             g == [i \in DOMAIN u.guests |-> Peer(GuestEmail(u, u.guests[i]), GuestUuid(t.ns, u, u.guests[i]))]
  <1>1. IsSeq(a) /\ ToSet(a) = {Peer(UserEmail(t.ns, u), UserUuid(t.ns, u))}
    BY OneIsSeq
  <1>2. IsSeq(b) /\ \A x : x \in ToSet(b) <=> "server" \in u.access /\ x = Peer(ServerEmail(u), ServerUuid(t.ns, u))
    BY EmptyIsSeq, OneIsSeq
  <1>3. IsSeq(g) /\ \A x : x \in ToSet(g) <=>
            \E l \in ToSet(u.guests) : x = Peer(GuestEmail(u, l), GuestUuid(t.ns, u, l))
    <2>1. DOMAIN u.guests = 1..Len(u.guests) /\ Len(u.guests) \in Nat
      BY SeqFacts
    <2>2. \A i \in DOMAIN u.guests : g[i] = Peer(GuestEmail(u, u.guests[i]), GuestUuid(t.ns, u, u.guests[i]))
      OBVIOUS
    <2>3. g = [i \in 1..Len(u.guests) |-> g[i]]
      BY <2>1
    <2>4. DOMAIN g = DOMAIN u.guests
      OBVIOUS
    <2> HIDE DEF g
    <2>5. IsSeq(g)
      BY <2>1, <2>3, FunctionIsSeq
    <2>6. \A x : x \in ToSet(g) <=> \E i \in DOMAIN u.guests : x = g[i]
      BY <2>4 DEF ToSet
    <2>7. \A l : l \in ToSet(u.guests) <=> \E i \in DOMAIN u.guests : l = u.guests[i]
      BY DEF ToSet
    <2>8. QED
      BY <2>2, <2>5, <2>6, <2>7
  <1>4. PeersOf(t.ns, u) = IF "wireguard" \notin u.access THEN <<>> ELSE a \o b \o g
    BY DEF PeersOf, Peer
  <1> HIDE DEF a, b, g
  <1>5. IsSeq(a \o b \o g) /\ \A x : x \in ToSet(a \o b \o g) <=> x \in ToSet(a) \/ x \in ToSet(b) \/ x \in ToSet(g)
    BY <1>1, <1>2, <1>3, InARow
  <1>6. QED
    BY <1>1, <1>2, <1>3, <1>4, <1>5, EmptyIsSeq DEF InPeers

\* _wireguard_inbound lists exactly the peers of the users.
LEMMA PeersAre ==
    ASSUME NEW t, WellFormed(t)
    PROVE  /\ IsSeq(Peers(t))
           /\ \A x : x \in ToSet(Peers(t)) <=> \E u \in ToSet(t.users) : InPeers(t, u, x)
  <1> DEFINE s == t.users
             f == [i \in DOMAIN s |-> PeersOf(t.ns, s[i])]
  <1>1. IsSeq(s) /\ DOMAIN s = 1..Len(s)
    BY SeqFacts DEF WellFormed, Listed, IsSeq
  <1>2. Peers(t) = FlattenSeq(f)
    BY DEF Peers
  <1>3. \A i \in DOMAIN s : f[i] = PeersOf(t.ns, s[i]) /\ s[i] \in ToSet(s)
    BY DEF ToSet
  <1>4. f = [i \in DOMAIN s |-> f[i]]
    OBVIOUS
  <1>5. \A u \in ToSet(s) : \E i \in DOMAIN s : u = s[i]
    BY DEF ToSet
  <1>6. \A u \in ToSet(s) : IsSeq(PeersOf(t.ns, u)) /\ \A x : x \in ToSet(PeersOf(t.ns, u)) <=> InPeers(t, u, x)
    BY UserFacts, PeersOfAre
  <1> HIDE DEF f, s
  <1>7. IsSeq(FlattenSeq(f)) /\ \A x : x \in ToSet(FlattenSeq(f)) <=> \E i \in DOMAIN s : x \in ToSet(f[i])
    BY <1>1, <1>3, <1>4, <1>6, OfTheUsers
  <1>8. QED
    BY <1>2, <1>3, <1>5, <1>6, <1>7 DEF s

-----------------------------------------------------------------------------
(* Who owns an identity.                                                   *)

OwnedBy(t, u, m, id) ==
    \/ m = UserEmail(t.ns, u) /\ id = UserUuid(t.ns, u)
    \/ m = ServerEmail(u) /\ id = ServerUuid(t.ns, u)
    \/ \E l \in ToSet(u.guests) : m = GuestEmail(u, l) /\ id = GuestUuid(t.ns, u, l)
Owned(t, m, id) ==
    \/ \E u \in ToSet(t.users) : OwnedBy(t, u, m, id)
    \/ \E p \in ToSet(t.portals) : m = PortalEmail(t.ns, p) /\ id = PortalUuid(t.ns, p)

\* The fields of a client.
LEMMA ClientFields ==
    /\ \A m, id, flow : LET c == Client(m, id, flow) IN c.email = m /\ c.id = id /\ c.flow = flow /\ c.reverse = NoTag
    /\ \A t, p, flow : LET c == PortalClient(t, p, flow)
                       IN  /\ c.email = PortalEmail(t.ns, p) /\ c.id = PortalUuid(t.ns, p)
                           /\ c.flow = flow /\ c.reverse = p.id \o <<"-portal">>
  <1>1. \A m, id, flow : LET c == Client(m, id, flow) IN c.email = m /\ c.id = id /\ c.flow = flow /\ c.reverse = NoTag
    BY DEF Client
  <1>2. \A m, id, flow, tag :
            LET c == [Client(m, id, flow) EXCEPT !.reverse = tag]
            IN  c.email = m /\ c.id = id /\ c.flow = flow /\ c.reverse = tag
    BY DEF Client
  <1>3. QED
    BY <1>1, <1>2 DEF PortalClient

\* Whoever a hub lets in is somebody of its file.
LEMMA ListedIsOwned ==
    ASSUME NEW t, WellFormed(t), NEW flow
    PROVE  /\ \A type, c : \A server \in BOOLEAN :
                  c \in ToSet(AccessClients(t, type, flow, server)) => Owned(t, c.email, c.id)
           /\ \A c : c \in ToSet(VlessClients(t, flow)) => Owned(t, c.email, c.id)
           /\ \A c : c \in ToSet(PortalClients(t, flow)) => Owned(t, c.email, c.id)
           /\ \A x : x \in ToSet(Peers(t)) => Owned(t, x.email, x.id)
  <1>1. ASSUME NEW u \in ToSet(t.users), NEW c,
               c = UserClient(t, u, flow) \/ c = ServerClient(t, u, flow)
               \/ \E l \in ToSet(u.guests) : c = GuestClient(t, u, l, flow)
        PROVE  Owned(t, c.email, c.id)
    BY <1>1, ClientFields DEF Owned, OwnedBy, UserClient, ServerClient, GuestClient
  <1>2. \A type, c : \A server \in BOOLEAN :
            c \in ToSet(AccessClients(t, type, flow, server)) => Owned(t, c.email, c.id)
    BY <1>1, AccessClientsAre DEF InAccess
  <1>3. \A c : c \in ToSet(VlessClients(t, flow)) => Owned(t, c.email, c.id)
    BY <1>1, VlessClientsAre DEF InVless
  <1>4. \A c : c \in ToSet(PortalClients(t, flow)) => Owned(t, c.email, c.id)
    BY PortalClientsAre, ClientFields DEF Owned
  <1>5. ASSUME NEW u \in ToSet(t.users), NEW x, InPeers(t, u, x) PROVE Owned(t, x.email, x.id)
    BY <1>5 DEF Owned, OwnedBy, InPeers, Peer
  <1>6. \A x : x \in ToSet(Peers(t)) => Owned(t, x.email, x.id)
    BY <1>5, PeersAre
  <1>7. QED
    BY <1>2, <1>3, <1>4, <1>6

-----------------------------------------------------------------------------
(* An identity that is not pinned tells its owner.                         *)

PortalName(p) == <<"portal/">> \o p.id
Two(ns, a) == <<[name |-> ns, on |-> 0], [name |-> a, on |-> HashSegment]>>
Three(ns, a, b) == <<[name |-> ns, on |-> 0], [name |-> a, on |-> HashSegment], [name |-> b, on |-> HashSegment]>>
\* No identity that the file pins is the start of the path.
Unpinned(t, path) == \A p \in Pinned(t) : ~IsPrefix(p, path)

\* A sequence is a prefix of itself and of what is appended to.
LEMMA PrefixOfAppend ==
    ASSUME NEW s, IsSeq(s)
    PROVE  IsPrefix(s, s) /\ \A x : IsPrefix(s, Append(s, x))
  <1>1. Len(s) \in Nat /\ s \in Seq(ToSet(s)) /\ SubSeq(s, 1, Len(s)) = s
    BY SeqFacts DEF IsSeq
  <1>2. ASSUME NEW x PROVE IsPrefix(s, Append(s, x))
    <2> DEFINE S == ToSet(s) \cup {x}
               a == Append(s, x)
    <2>1. s \in Seq(S) /\ x \in S
      BY SeqFacts
    <2>2. a \in Seq(S) /\ Len(a) = Len(s) + 1 /\ \A i \in 1..Len(s) : a[i] = s[i]
      BY <2>1, <1>1, AppendProperties
    <2> HIDE DEF a, S
    <2>3. IsSeq(a)
      BY <2>2, SeqFromSet
    <2>4. /\ Len(s) <= Len(a) /\ IsSeq(SubSeq(a, 1, Len(s))) /\ Len(SubSeq(a, 1, Len(s))) = Len(s)
          /\ \A i \in 1..Len(s) : SubSeq(a, 1, Len(s))[i] = a[i]
      BY <1>1, <2>2, <2>3, SubSeqFacts
    <2>5. SubSeq(a, 1, Len(s)) = s
      BY <2>2, <2>4, SeqEquality
    <2>6. QED
      BY <1>1, <2>2, <2>4, <2>5 DEF IsPrefix, a
  <1>3. QED
    BY <1>1, <1>2 DEF IsPrefix

\* Append on tuples of up to two elements.
LEMMA AppendTuples ==
    /\ \A a : Append(<<>>, a) = <<a>>
    /\ \A a, b : Append(<<a>>, b) = <<a, b>>
    /\ \A a, b, c : Append(<<a, b>>, c) = <<a, b, c>>
  <1>1. ASSUME NEW s, IsSeq(s), NEW x, NEW r, IsSeq(r), Len(r) = Len(s) + 1, \A i \in 1..Len(s) : r[i] = s[i], r[Len(s) + 1] = x
        PROVE  Append(s, x) = r
    <2> DEFINE S == ToSet(s) \cup {x}
               a == Append(s, x)
    <2>1. s \in Seq(S) /\ x \in S /\ Len(s) \in Nat
      BY <1>1, SeqFacts
    <2>2. a \in Seq(S) /\ Len(a) = Len(s) + 1 /\ (\A i \in 1..Len(s) : a[i] = s[i]) /\ a[Len(s) + 1] = x
      BY <2>1, AppendProperties
    <2> HIDE DEF a, S
    <2>3. IsSeq(a) /\ Len(a) = Len(r)
      BY <1>1, <2>2, SeqFromSet
    <2>4. \A i \in 1..Len(a) : a[i] = r[i]
      BY <1>1, <2>1, <2>2
    <2>5. a = r
      BY <1>1, <2>3, <2>4, SeqEquality
    <2>6. QED
      BY <2>5 DEF a
  <1>2. ASSUME NEW a PROVE Append(<<>>, a) = <<a>>
    <2>1. IsSeq(<<>>) /\ Len(<<>>) = 0 /\ IsSeq(<<a>>) /\ Len(<<a>>) = 1 /\ <<a>>[1] = a
      BY EmptyIsSeq, OneIsSeq
    <2>2. QED
      BY <1>1, <2>1
  <1>3. ASSUME NEW a, NEW b PROVE Append(<<a>>, b) = <<a, b>>
    <2> DEFINE s == <<a>>
               r == <<a, b>>
    <2>1. IsSeq(s) /\ Len(s) = 1 /\ s[1] = a /\ IsSeq(r) /\ Len(r) = 2 /\ r[1] = a /\ r[2] = b
      BY OneIsSeq, TwoIsSeq
    <2> HIDE DEF s, r
    <2>2. Len(r) = Len(s) + 1 /\ (\A i \in 1..Len(s) : r[i] = s[i]) /\ r[Len(s) + 1] = b
      BY <2>1
    <2>3. Append(s, b) = r
      BY <1>1, <2>1, <2>2
    <2>4. QED
      BY <2>3 DEF s, r
  <1>4. ASSUME NEW a, NEW b, NEW c PROVE Append(<<a, b>>, c) = <<a, b, c>>
    <2> DEFINE s == <<a, b>>
               r == <<a, b, c>>
    <2>1. /\ IsSeq(s) /\ Len(s) = 2 /\ s[1] = a /\ s[2] = b
          /\ IsSeq(r) /\ Len(r) = 3 /\ r[1] = a /\ r[2] = b /\ r[3] = c
      BY TwoIsSeq, ThreeIsSeq
    <2> HIDE DEF s, r
    <2>2. Len(r) = Len(s) + 1 /\ (\A i \in 1..Len(s) : r[i] = s[i]) /\ r[Len(s) + 1] = c
      BY <2>1
    <2>3. Append(s, c) = r
      BY <1>1, <2>1, <2>2
    <2>4. QED
      BY <2>3 DEF s, r
  <1>5. QED
    BY <1>2, <1>3, <1>4

\* The paths of derived identities.
LEMMA DerivedPaths ==
    /\ \A base, name : /\ Uuid5(base, name).path = Append(base.path, [name |-> name, on |-> base.seg])
                       /\ Uuid5(base, name).seg = HashSegment
    /\ \A ns, a : LET id == Uuid5(NamespaceUuid(ns), a) IN id.path = Two(ns, a) /\ id.seg = HashSegment
    /\ \A base, ns, a, b : (base.path = Two(ns, a) /\ base.seg = HashSegment)
                               => Uuid5(base, b).path = Three(ns, a, b)
  <1>1. \A base, name : /\ Uuid5(base, name).path = Append(base.path, [name |-> name, on |-> base.seg])
                        /\ Uuid5(base, name).seg = HashSegment
    BY DEF Uuid5
  <1>2. \A ns : NamespaceUuid(ns).path = <<[name |-> ns, on |-> 0]>> /\ NamespaceUuid(ns).seg = HashSegment
    <2>1. ASSUME NEW ns, NEW base, base = [path |-> <<>>, seg |-> 0]
          PROVE  Uuid5(base, ns).path = <<[name |-> ns, on |-> 0]>> /\ Uuid5(base, ns).seg = HashSegment
      BY <1>1, <2>1, AppendTuples
    <2>2. QED
      BY <2>1 DEF NamespaceUuid
  <1>3. \A ns, a : LET id == Uuid5(NamespaceUuid(ns), a) IN id.path = Two(ns, a) /\ id.seg = HashSegment
    BY <1>1, <1>2, AppendTuples DEF Two
  <1>4. \A base, ns, a, b : (base.path = Two(ns, a) /\ base.seg = HashSegment)
                               => Uuid5(base, b).path = Three(ns, a, b)
    <2>1. ASSUME NEW base, NEW ns, NEW a, NEW b, base.path = Two(ns, a), base.seg = HashSegment,
                 NEW n, n = [name |-> ns, on |-> 0], NEW p, p = [name |-> a, on |-> HashSegment],
                 NEW q, q = [name |-> b, on |-> HashSegment]
          PROVE  Uuid5(base, b).path = Three(ns, a, b)
      <3>1. Uuid5(base, b).path = Append(<<n, p>>, q)
        BY <1>1, <2>1 DEF Two
      <3>2. Append(<<n, p>>, q) = <<n, p, q>>
        BY AppendTuples
      <3>3. QED
        BY <2>1, <3>1, <3>2 DEF Three
    <2>2. QED
      BY <2>1
  <1>5. QED
    BY <1>1, <1>3, <1>4

\* The path of a user's identity, and of those under it.
LEMMA PathsOfUser ==
    ASSUME NEW t, WellFormed(t), NEW u \in ToSet(t.users), NEW name,
           NEW path \in {UserUuid(t.ns, u).path, Uuid5(UserUuid(t.ns, u), name).path}, Unpinned(t, path)
    PROVE  /\ UserUuid(t.ns, u).path = Two(t.ns, u.name)
           /\ Uuid5(UserUuid(t.ns, u), name).path = Three(t.ns, u.name, name)
  <1>1. u.uuid = Unset
    <2> SUFFICES ASSUME u.uuid # Unset PROVE FALSE
      OBVIOUS
    <2>1. UserUuid(t.ns, u) = u.uuid /\ IsSeq(u.uuid.path)
      BY UserFacts DEF UserUuid
    <2>2. u.uuid.path \in Pinned(t)
      BY DEF Pinned
    <2>3. \E x : Uuid5(u.uuid, name).path = Append(u.uuid.path, x)
      BY DerivedPaths
    <2>4. IsPrefix(u.uuid.path, path)
      BY <2>1, <2>3, PrefixOfAppend
    <2>5. QED
      BY <2>2, <2>4 DEF Unpinned
  <1>2. UserUuid(t.ns, u) = Uuid5(NamespaceUuid(t.ns), u.name)
    BY <1>1 DEF UserUuid
  <1>3. /\ Uuid5(NamespaceUuid(t.ns), u.name).path = Two(t.ns, u.name)
        /\ Uuid5(NamespaceUuid(t.ns), u.name).seg = HashSegment
    BY DerivedPaths
  <1>4. QED
    BY <1>2, <1>3, DerivedPaths

\* A portal's identity that is not pinned is derived from the namespace and its id.
LEMMA PathOfPortal ==
    ASSUME NEW t, WellFormed(t), NEW p \in ToSet(t.portals), Unpinned(t, PortalUuid(t.ns, p).path)
    PROVE  PortalUuid(t.ns, p).path = Two(t.ns, PortalName(p))
  <1>1. p.uuid = Unset
    <2> SUFFICES ASSUME p.uuid # Unset PROVE FALSE
      OBVIOUS
    <2>1. PortalUuid(t.ns, p) = p.uuid /\ IsSeq(p.uuid.path)
      BY PortalFacts DEF PortalUuid
    <2>2. p.uuid.path \in Pinned(t)
      BY DEF Pinned
    <2>3. QED
      BY <2>1, <2>2, PrefixOfAppend DEF Unpinned
  <1>2. PortalUuid(t.ns, p) = Uuid5(NamespaceUuid(t.ns), PortalName(p))
    BY <1>1 DEF PortalUuid, PortalName
  <1>3. QED
    BY <1>2, DerivedPaths

\* What is read off a path.
LEMMA PathsTell ==
    /\ \A ns, a, k, c : Two(ns, a) = Two(k, c) => ns = k /\ a = c
    /\ \A ns, a, b, k, c, d : Three(ns, a, b) = Three(k, c, d) => ns = k /\ a = c /\ b = d
    /\ \A ns, a, k, c, d : Two(ns, a) # Three(k, c, d)
  <1>1. \A ns, a : Two(ns, a)[1].name = ns /\ Two(ns, a)[2].name = a /\ Len(Two(ns, a)) = 2
    BY DEF Two
  <1>2. \A ns, a, b : /\ Three(ns, a, b)[1].name = ns /\ Three(ns, a, b)[2].name = a
                      /\ Three(ns, a, b)[3].name = b /\ Len(Three(ns, a, b)) = 3
    BY DEF Three
  <1>3. QED
    BY <1>1, <1>2

\* What an owner's identity that is not pinned looks like.
Looks(t, m, path) ==
    \/ \E u \in ToSet(t.users) :
         \/ m = UserEmail(t.ns, u) /\ path = Two(t.ns, u.name)
         \/ \E l : m = Email(l, u.name) /\ path = Three(t.ns, u.name, l)
    \/ \E p \in ToSet(t.portals) : m = PortalEmail(t.ns, p) /\ path = Two(t.ns, PortalName(p))

\* An identity that no pin starts has the path that goes with its email.
LEMMA OwnedLooks ==
    ASSUME NEW t, WellFormed(t), NEW m, NEW id, Owned(t, m, id), Unpinned(t, id.path)
    PROVE  Looks(t, m, id.path)
  <1>1. ASSUME NEW u \in ToSet(t.users), m = UserEmail(t.ns, u), id = UserUuid(t.ns, u) PROVE Looks(t, m, id.path)
    BY <1>1, PathsOfUser DEF Looks
  <1>2. ASSUME NEW u \in ToSet(t.users), NEW l, m = Email(l, u.name), id = Uuid5(UserUuid(t.ns, u), l)
        PROVE  Looks(t, m, id.path)
    <2>1. id.path = Three(t.ns, u.name, l)
      BY <1>2, PathsOfUser
    <2>2. QED
      BY <1>2, <2>1 DEF Looks
  <1>3. ASSUME NEW p \in ToSet(t.portals), m = PortalEmail(t.ns, p), id = PortalUuid(t.ns, p)
        PROVE  Looks(t, m, id.path)
    BY <1>3, PathOfPortal DEF Looks
  <1>4. QED
    BY <1>1, <1>2, <1>3 DEF Owned, OwnedBy, ServerEmail, ServerUuid, GuestEmail, GuestUuid

\* One path, one owner, in any two files.
LEMMA OnePathOneOwner ==
    ASSUME NEW t, WellFormed(t), NEW s, WellFormed(s), NEW m, NEW k, NEW path,
           Looks(t, m, path), Looks(s, k, path)
    PROVE  m = k
  <1>1. ASSUME NEW a, WellFormed(a), NEW b, WellFormed(b), NEW u \in ToSet(a.users), NEW p \in ToSet(b.portals)
        PROVE  Two(a.ns, u.name) # Two(b.ns, PortalName(p))
    <2>1. u.name[1] # "portal/"
      BY <1>1, UserFacts
    <2>2. IsSeq(p.id) /\ IsSeq(<<"portal/">>) /\ Len(<<"portal/">>) = 1 /\ <<"portal/">>[1] = "portal/"
      BY <1>1, PortalFacts, OneIsSeq
    <2>3. PortalName(p)[1] = "portal/"
      BY <2>2, Concatenation DEF PortalName
    <2>4. QED
      BY <2>1, <2>3, PathsTell
  <1>2. ASSUME NEW p \in ToSet(t.portals), NEW q \in ToSet(s.portals),
               Two(t.ns, PortalName(p)) = Two(s.ns, PortalName(q))
        PROVE  PortalEmail(t.ns, p) = PortalEmail(s.ns, q)
    <2>1. t.ns = s.ns /\ PortalName(p) = PortalName(q)
      BY <1>2, PathsTell
    <2>2. p.id = q.id
      <3>1. IsSeq(p.id) /\ IsSeq(q.id) /\ IsSeq(<<"portal/">>)
        BY PortalFacts, OneIsSeq
      <3>2. QED
        BY <2>1, <3>1, CancelPrefix DEF PortalName
    <2>3. QED
      BY <2>1, <2>2 DEF PortalEmail
  <1>3. ASSUME NEW u \in ToSet(t.users), NEW v \in ToSet(s.users), Two(t.ns, u.name) = Two(s.ns, v.name)
        PROVE  UserEmail(t.ns, u) = UserEmail(s.ns, v)
    BY <1>3, PathsTell DEF UserEmail
  <1>4. QED
    BY <1>1, <1>2, <1>3, PathsTell DEF Looks

-----------------------------------------------------------------------------
(* Nobody comes in as somebody else.                                       *)

\* Whom a hub admits is in its file, under the identity that was shown.
LEMMA AdmittedOwned ==
    ASSUME NEW e, WellFormed(e.t), e.r.type # "exit", NEW d, NEW c \in Admitted(e, d),
           d.via \in {"direct", "cdn", "hysteria", "wireguard"}
    PROVE  \E id : Owned(e.t, c.email, id) /\ id.path = IdOf(d).path
  <1>1. \A x : (x \in ToSet(Direct(e).clients) \/ (Cdn(e) # Unset /\ x \in ToSet(Cdn(e).clients)))
                  => Owned(e.t, x.email, x.id)
    <2>1. Direct(e).clients \in {AccessClients(e.t, "tls", e.key.enc, TRUE) \o PortalClients(e.t, e.key.enc),
                                 VlessClients(e.t, e.key.enc) \o PortalClients(e.t, e.key.enc)}
      BY DEF Direct
    <2>2. Cdn(e) # Unset => Cdn(e).clients = AccessClients(e.t, "cdn", e.key.enc, TRUE)
      BY DEF Cdn
    <2>3. /\ ToSet(AccessClients(e.t, "tls", e.key.enc, TRUE) \o PortalClients(e.t, e.key.enc))
                = ToSet(AccessClients(e.t, "tls", e.key.enc, TRUE)) \cup ToSet(PortalClients(e.t, e.key.enc))
          /\ ToSet(VlessClients(e.t, e.key.enc) \o PortalClients(e.t, e.key.enc))
                = ToSet(VlessClients(e.t, e.key.enc)) \cup ToSet(PortalClients(e.t, e.key.enc))
      BY AccessClientsAre, VlessClientsAre, PortalClientsAre, Concatenation
    <2>4. QED
      BY <2>1, <2>2, <2>3, ListedIsOwned
  <1>2. CASE d.via \in {"direct", "cdn"}
    <2>1. c \in ToSet(Frontend(e, d.sni).clients) /\ SameId(c.id, d.id)
      BY <1>2 DEF Admitted
    <2>2. Frontend(e, d.sni) = Direct(e) \/ (Cdn(e) # Unset /\ Frontend(e, d.sni) = Cdn(e))
      BY DEF Frontend
    <2>3. Owned(e.t, c.email, c.id)
      BY <1>1, <2>1, <2>2
    <2>4. IdOf(d) = d.id
      BY <1>2 DEF IdOf
    <2>5. QED
      BY <2>1, <2>3, <2>4 DEF SameId
  <1>3. CASE d.via = "hysteria"
    <2>1. HysteriaInbound(e) # Unset /\ c \in ToSet(HysteriaInbound(e).clients) /\ SameId(c.id, d.id)
      BY <1>3 DEF Admitted
    <2>2. HysteriaInbound(e).clients = AccessClients(e.t, "hysteria", FALSE, TRUE)
      BY <2>1 DEF HysteriaInbound, HysteriaListener, HysteriaClients
    <2>3. Owned(e.t, c.email, c.id) /\ IdOf(d) = d.id
      BY <1>3, <2>1, <2>2, ListedIsOwned DEF IdOf
    <2>4. QED
      BY <2>1, <2>3 DEF SameId
  <1>4. CASE d.via = "wireguard"
    <2> DEFINE in == WireguardInbound(e)
               peers == Peers(e.t)
    <2>1. in # Unset /\ c \in ToSet(in.peers) /\ c.key = d.key
      BY <1>4 DEF Admitted
    <2>2. in.peers = [i \in DOMAIN peers |->
                            [email |-> peers[i].email, key |-> PeerKey(e.key.pair, peers[i].id),
                             address |-> Address(Wireguard(e.t, e.n).subnet, i)]]
      BY <2>1 DEF WireguardInbound
    <2>3. PICK i \in DOMAIN peers : c = [email |-> peers[i].email, key |-> PeerKey(e.key.pair, peers[i].id),
                                         address |-> Address(Wireguard(e.t, e.n).subnet, i)]
      BY <2>1, <2>2 DEF ToSet
    <2>4. peers[i] \in ToSet(peers)
      BY DEF ToSet
    <2>5. Owned(e.t, peers[i].email, peers[i].id)
      BY <2>4, ListedIsOwned
    <2>6. IdOf(d) = peers[i].id
      BY <1>4, <2>1, <2>3 DEF IdOf, PeerKey
    <2>7. QED
      BY <2>3, <2>5, <2>6
  <1>5. QED
    BY <1>2, <1>3, <1>4

\* The configuration for peer i of hub e.
WireguardDial(t, e, i) ==
    [via |-> "wireguard", to |-> e.n.host, port |-> Wireguard(t, e.n).port, pair |-> e.key.pair,
     key |-> PeerKey(e.key.pair, Peers(t)[i].id), address |-> Address(Wireguard(t, e.n).subnet, i)]

\* What is given out shows an identity of the one it is for.
LEMMA SharesOwned ==
    ASSUME NEW t, WellFormed(t), NEW k, NEW u \in ToSet(t.users), NEW hub, NEW who,
           NEW via \in {"direct", "cdn", "hysteria", "wireguard"}, NEW d \in Shares(t, k, u, hub, via, who)
    PROVE  Owned(t, ResolveIdentity(t, u, who).email, IdOf(d))
  <1> DEFINE envs == Envs(t, "hub", k)
             identity == ResolveIdentity(t, u, who)
             sid == DialShortId(t, u, who)
  <1>1. HasIdentity(u, who)
    BY DEF Shares
  <1>2. Owned(t, identity.email, identity.id)
    BY <1>1 DEF ResolveIdentity, HasIdentity, Owned, OwnedBy
  <1> HIDE DEF envs, identity, sid
  <1>3. CASE via = "direct"
    <2>1. d \in DirectShares(t, u, hub, who, identity.id, sid, envs)
      BY <1>3 DEF Shares, envs, identity, sid
    <2>2. PICK e : d = DirectDial(e, identity.id, sid)
      BY <2>1 DEF DirectShares
    <2>3. IdOf(d) = identity.id
      BY <2>2 DEF DirectDial, IdOf
    <2>4. QED
      BY <1>2, <2>3 DEF identity
  <1>4. CASE via = "cdn"
    <2>1. d \in CdnShares(t, hub, identity.id, envs)
      BY <1>4 DEF Shares, envs, identity
    <2>2. PICK e : d = CdnDial(e, identity.id)
      BY <2>1 DEF CdnShares
    <2>3. IdOf(d) = identity.id
      BY <2>2 DEF CdnDial, IdOf
    <2>4. QED
      BY <1>2, <2>3 DEF identity
  <1>5. CASE via = "hysteria"
    <2>1. d \in HysteriaShares(hub, identity.id, envs)
      BY <1>5 DEF Shares, envs, identity
    <2>2. PICK e : d = HysteriaDial(e.n.host, HysteriaInbound(e).port, HysteriaInbound(e).end, identity.id)
      BY <2>1 DEF HysteriaShares
    <2>3. IdOf(d) = identity.id
      BY <2>2 DEF HysteriaDial, IdOf
    <2>4. QED
      BY <1>2, <2>3 DEF identity
  <1>6. CASE via = "wireguard"
    <2>1. d \in WireguardShares(t, hub, identity.email, envs)
      BY <1>6 DEF Shares, envs, identity
    <2> DEFINE peers == Peers(t)
               W == {x \in ToSet(envs) : Meant(hub, x) /\ Wireguard(t, x.n) # Unset}
               I == {j \in DOMAIN peers : peers[j].email = identity.email}
               Of(e, i) == WireguardDial(t, e, i)
    <2>2. d \in {Of(e, i) : e \in W, i \in I}
      BY <2>1 DEF WireguardShares, WireguardDial
    <2>3. \A i \in I : i \in DOMAIN peers /\ peers[i].email = identity.email
      OBVIOUS
    <2>4. \A e, i : Of(e, i).via = "wireguard" /\ Of(e, i).key.of = peers[i].id
      BY DEF WireguardDial, PeerKey
    <2> HIDE DEF W, I, Of
    <2>5. PICK e \in W, i \in I : d = Of(e, i)
      BY <2>2
    <2>6. IdOf(d) = peers[i].id
      BY <2>4, <2>5 DEF IdOf
    <2>7. peers[i] \in ToSet(peers)
      BY <2>3 DEF ToSet
    <2>8. Owned(t, peers[i].email, peers[i].id)
      BY <2>7, ListedIsOwned
    <2>9. QED
      BY <2>3, <2>6, <2>8 DEF identity
  <1>7. QED
    BY <1>3, <1>4, <1>5, <1>6

\* The invariant: what is held shows an identity of the one it was given to.
HeldInv == held # Unset => \A d \in held.dials : Owned(Topo[held.at.topo], held.email, IdOf(d))

\* Nothing is held at first.
LEMMA InitHeldInv == Init => HeldInv
  BY DEF Init, HeldInv

\* share, share --wg and gen-portal give out what is its owner's.
LEMMA NextHeldInv == TypeInv /\ HeldInv /\ [Next]_vars => HeldInv'
  <1> SUFFICES ASSUME TypeInv, HeldInv, [Next]_vars PROVE HeldInv'
    OBVIOUS
  <1>1. topo \in DOMAIN Topo /\ WellFormed(Topo[topo])
    BY FieldsAssumption DEF TypeInv, Loadable
  <1>2. CASE UNCHANGED held
    BY <1>2 DEF HeldInv
  <1>3. ASSUME NEW u \in ToSet(Topo[topo].users), NEW hub,
               NEW via \in {"direct", "cdn", "hysteria", "wireguard"}, NEW who, Share(u, hub, via, who)
        PROVE  HeldInv'
    <2>1. /\ held'.at.topo = topo /\ held'.dials = Shares(Topo[topo], KeysAt(gen), u, hub, via, who)
          /\ held'.email = ResolveIdentity(Topo[topo], u, who).email
      BY <1>3 DEF Share, Now
    <2>2. \A d \in held'.dials : Owned(Topo[held'.at.topo], held'.email, IdOf(d))
      BY <1>1, <2>1, SharesOwned
    <2>3. QED
      BY <2>2 DEF HeldInv
  <1>4. ASSUME NEW p \in ToSet(Topo[topo].portals), GenPortal(p) PROVE HeldInv'
    <2> DEFINE t == Topo[topo]
               envs == Envs(t, "hub", KeysAt(gen))
    <2>1. held'.at.topo = topo /\ held'.dials = {PortalDial(e, p) : e \in ToSet(envs)}
          /\ held'.email = PortalEmail(t.ns, p)
      BY <1>4 DEF GenPortal, Now
    <2>2. ASSUME NEW e \in ToSet(envs) PROVE Owned(t, PortalEmail(t.ns, p), IdOf(PortalDial(e, p)))
      <3>1. e.t = t
        BY DEF Envs, Env, ToSet
      <3>2. IdOf(PortalDial(e, p)) = PortalUuid(t.ns, p)
        BY <3>1 DEF PortalDial, DirectDial, IdOf
      <3>3. QED
        BY <3>2 DEF Owned
    <2>3. \A d \in held'.dials : Owned(Topo[held'.at.topo], held'.email, IdOf(d))
      BY <2>1, <2>2
    <2>4. QED
      BY <2>3 DEF HeldInv
  <1>5. ASSUME NEW x, Edit(x) PROVE HeldInv'
    BY <1>2, <1>5 DEF Edit
  <1>6. ASSUME NEW c, Rotate(c) PROVE HeldInv'
    BY <1>2, <1>6 DEF Rotate
  <1>7. ASSUME NEW n, Build(n) PROVE HeldInv'
    BY <1>2, <1>7 DEF Build
  <1>8. CASE UNCHANGED vars
    BY <1>2, <1>8 DEF vars
  <1>9. QED
    BY <1>3, <1>4, <1>5, <1>6, <1>7, <1>8 DEF Next

\* A file that a node was built from, and the one that the held things are from.
LEMMA HubsOfFiles ==
    ASSUME NEW b \in Snapshots, NEW n \in Declared(b), IsHub(b, n)
    PROVE  /\ b.topo \in DOMAIN Topo /\ Loads(Topo[b.topo]) /\ WellFormed(Topo[b.topo])
           /\ EnvAt(b, n).t = Topo[b.topo] /\ EnvAt(b, n).r.type = "hub"
  BY FieldsAssumption, EnvFields DEF Snapshots, Loadable, IsHub

\* The invariants imply that nobody is let in as somebody else: the path of an
\* identity that neither file pins tells whose it is.
LEMMA AsThemselves == TypeInv /\ KeyInv /\ HeldInv => NeverSomebodyElse
  <1> SUFFICES ASSUME TypeInv, KeyInv, HeldInv, held # Unset, NEW n \in RunningHubs, NEW d \in held.dials,
                      NEW e, e = EnvAt(built[n], n), NEW s, s = Topo[held.at.topo],
                      \A path \in Pinned(e.t) \cup Pinned(s) : ~IsPrefix(path, IdOf(d).path),
                      NEW m \in Emails(e, d)
               PROVE  m = held.email
    BY DEF NeverSomebodyElse
  <1>1. built[n] \in Snapshots /\ n \in Declared(built[n]) /\ IsHub(built[n], n)
    BY DEF TypeInv, KeyInv, RunningHubs, Running
  <1>2. WellFormed(e.t) /\ e.r.type = "hub"
    BY <1>1, HubsOfFiles
  <1>3. WellFormed(s)
    BY FieldsAssumption DEF TypeInv, Snapshots, Loadable
  <1>4. d.via \in {"direct", "cdn", "hysteria", "wireguard"}
    BY DEF KeyInv, Carries
  <1>5. PICK c \in Admitted(e, d) : m = c.email
    BY DEF Emails
  <1>6. PICK id : Owned(e.t, m, id) /\ id.path = IdOf(d).path
    BY <1>2, <1>4, <1>5, AdmittedOwned
  <1>7. Owned(s, held.email, IdOf(d))
    BY DEF HeldInv
  <1>8. Unpinned(e.t, id.path) /\ Unpinned(s, IdOf(d).path)
    BY <1>6 DEF Unpinned
  <1>9. Looks(e.t, m, id.path) /\ Looks(s, held.email, IdOf(d).path)
    BY <1>2, <1>3, <1>6, <1>7, <1>8, OwnedLooks
  <1>10. QED
    BY <1>2, <1>3, <1>6, <1>9, OnePathOneOwner

\* However stale it is, and whatever was renamed, freed and taken again in any
\* number of edits, nothing that was given out lets its holder in as somebody
\* else, unless one of the two files pins the identity it shows (derivation
\* from namespace and names, docs/architecture.md).
THEOREM SameOwnerForever == Spec => []NeverSomebodyElse
  BY InitTypeInv, NextTypeInv, InitKeyInv, NextKeyInv, InitHeldInv, NextHeldInv, AsThemselves, PTL DEF Spec

-----------------------------------------------------------------------------
(* No two identities of a file that loads are one.                         *)

IdSet(t, u) ==
    {UserUuid(t.ns, u), ServerUuid(t.ns, u)} \cup {GuestUuid(t.ns, u, l) : l \in ToSet(u.guests)}

\* What the check for collisions goes through.
LEMMA IdentitiesAre ==
    ASSUME NEW t, NEW u, IsSeq(u.guests)
    PROVE  /\ IsSeq(IdentitiesOf(t.ns, u))
           /\ \A x : x \in ToSet(IdentitiesOf(t.ns, u)) <=> x \in IdSet(t, u)
           /\ \A R : Free(IdentitiesOf(t.ns, u), R) =>
                /\ <<UserUuid(t.ns, u), ServerUuid(t.ns, u)>> \notin R
                /\ \A l \in ToSet(u.guests) : /\ <<UserUuid(t.ns, u), GuestUuid(t.ns, u, l)>> \notin R
                                              /\ <<ServerUuid(t.ns, u), GuestUuid(t.ns, u, l)>> \notin R
                /\ \A i, j \in 1..Len(u.guests) : i # j =>
                      <<GuestUuid(t.ns, u, u.guests[i]), GuestUuid(t.ns, u, u.guests[j])>> \notin R
  <1> DEFINE a == UserUuid(t.ns, u)
             b == ServerUuid(t.ns, u)
             p == <<a, b>>
             Of(l) == GuestUuid(t.ns, u, l)
             g == [i \in DOMAIN u.guests |-> Of(u.guests[i])]
  <1>1. DOMAIN u.guests = 1..Len(u.guests) /\ Len(u.guests) \in Nat
    BY SeqFacts
  <1>2. \A i \in 1..Len(u.guests) : g[i] = Of(u.guests[i])
    BY <1>1
  <1>3. g = [i \in 1..Len(u.guests) |-> g[i]] /\ DOMAIN g = DOMAIN u.guests
    BY <1>1
  <1>4. IdentitiesOf(t.ns, u) = p \o g
    BY DEF IdentitiesOf
  <1>5. \A x : x \in IdSet(t, u) <=> x = a \/ x = b \/ \E l \in ToSet(u.guests) : x = Of(l)
    BY DEF IdSet
  <1>6. IsSeq(p) /\ ToSet(p) = {a, b} /\ Len(p) = 2 /\ p[1] = a /\ p[2] = b
    BY TwoIsSeq
  <1> HIDE DEF a, b, p, g, Of
  <1>7. IsSeq(g) /\ Len(g) = Len(u.guests)
    BY <1>1, <1>3, FunctionIsSeq
  <1>8. \A x : x \in ToSet(g) <=> \E l \in ToSet(u.guests) : x = Of(l)
    <2>1. \A x : x \in ToSet(g) <=> \E i \in 1..Len(u.guests) : x = g[i]
      BY <1>7, Elements
    <2>2. \A l : l \in ToSet(u.guests) <=> \E i \in 1..Len(u.guests) : l = u.guests[i]
      BY Elements
    <2>3. QED
      BY <1>2, <2>1, <2>2
  <1>9. IsSeq(p \o g) /\ ToSet(p \o g) = ToSet(p) \cup ToSet(g)
    BY <1>6, <1>7, Concatenation
  <1>10. ASSUME NEW R, Free(p \o g, R)
         PROVE  /\ <<a, b>> \notin R
                /\ \A l \in ToSet(u.guests) : <<a, Of(l)>> \notin R /\ <<b, Of(l)>> \notin R
                /\ \A i, j \in 1..Len(u.guests) : i # j => <<Of(u.guests[i]), Of(u.guests[j])>> \notin R
    <2>1. Free(p, R) /\ Free(g, R) /\ Clear(p, g, R)
      BY <1>6, <1>7, <1>10, FreeConcat
    <2>2. <<a, b>> \notin R
      BY <1>6, <2>1 DEF Free
    <2>3. \A l \in ToSet(u.guests) : <<a, Of(l)>> \notin R /\ <<b, Of(l)>> \notin R
      BY <1>6, <1>8, <2>1 DEF Clear
    <2>4. \A i, j \in 1..Len(u.guests) : i # j => <<Of(u.guests[i]), Of(u.guests[j])>> \notin R
      BY <1>2, <1>7, <2>1 DEF Free
    <2>5. QED
      BY <2>2, <2>3, <2>4
  <1>11. QED
    BY <1>4, <1>5, <1>6, <1>8, <1>9, <1>10 DEF a, b, Of

\* The identities of one user differ.
OwnIdsApart(t, u) ==
    /\ UserUuid(t.ns, u) # ServerUuid(t.ns, u)
    /\ \A l \in ToSet(u.guests) : /\ UserUuid(t.ns, u) # GuestUuid(t.ns, u, l)
                                  /\ ServerUuid(t.ns, u) # GuestUuid(t.ns, u, l)
    /\ \A i, j \in 1..Len(u.guests) : i # j => GuestUuid(t.ns, u, u.guests[i]) # GuestUuid(t.ns, u, u.guests[j])
\* And those of different owners.
IdsApart(t) ==
    /\ \A u \in ToSet(t.users) : OwnIdsApart(t, u)
    /\ \A i, j \in 1..Len(t.users) : i < j =>
          \A x \in IdSet(t, t.users[i]), y \in IdSet(t, t.users[j]) : x # y
    /\ \A i, j \in 1..Len(t.portals) : i # j => PortalUuid(t.ns, t.portals[i]) # PortalUuid(t.ns, t.portals[j])
    /\ \A u \in ToSet(t.users), p \in ToSet(t.portals) : \A x \in IdSet(t, u) : x # PortalUuid(t.ns, p)

\* check_identity_collisions keeps all of them apart.
LEMMA NoCollisionsApart ==
    ASSUME NEW t, WellFormed(t), NoCollisions(t)
    PROVE  IdsApart(t)
  <1> DEFINE us == t.users
             f == [i \in DOMAIN us |-> IdentitiesOf(t.ns, us[i])]
             q == [i \in DOMAIN t.portals |-> PortalUuid(t.ns, t.portals[i])]
  <1>1. /\ IsSeq(us) /\ DOMAIN us = 1..Len(us) /\ Len(us) \in Nat
        /\ IsSeq(t.portals) /\ DOMAIN t.portals = 1..Len(t.portals) /\ Len(t.portals) \in Nat
    BY SeqFacts DEF WellFormed, Listed, IsSeq
  <1>2. HubIdentities(t) = FlattenSeq(f) \o q
    BY DEF HubIdentities
  <1>3. /\ \A i \in 1..Len(us) : f[i] = IdentitiesOf(t.ns, us[i]) /\ us[i] \in ToSet(us)
        /\ f = [i \in 1..Len(us) |-> f[i]]
        /\ f = [i \in DOMAIN us |-> f[i]]
    BY <1>1 DEF ToSet
  <1>4. /\ \A i \in 1..Len(t.portals) : q[i] = PortalUuid(t.ns, t.portals[i])
        /\ q = [i \in 1..Len(t.portals) |-> q[i]]
    BY <1>1
  <1>5. \A u \in ToSet(us) : \E i \in 1..Len(us) : u = us[i]
    BY <1>1, Elements
  <1> HIDE DEF f, q
  <1>6. \A u \in ToSet(us) : IsSeq(u.guests)
    BY UserFacts
  <1> HIDE DEF us
  <1>7. IsSeq(q) /\ Len(q) = Len(t.portals)
    BY <1>1, <1>4, FunctionIsSeq
  <1>8. IsSeq(f) /\ Len(f) = Len(us) /\ \A i \in 1..Len(us) : IsSeq(f[i])
    <2>1. IsSeq(f) /\ Len(f) = Len(us)
      BY <1>1, <1>3, FunctionIsSeq
    <2>2. \A u \in ToSet(us) : IsSeq(IdentitiesOf(t.ns, u))
      BY <1>6, IdentitiesAre
    <2>3. QED
      BY <1>3, <2>1, <2>2
  <1>9. IsSeq(FlattenSeq(f)) /\ \A x : x \in ToSet(FlattenSeq(f)) <=> \E i \in 1..Len(us) : x \in ToSet(f[i])
    BY <1>1, <1>3, <1>8, MapElements DEF IsMap
  <1> DEFINE all == FlattenSeq(f) \o q
             R == Same(ToSet(all))
  <1>10. IsSeq(all) /\ ToSet(all) = ToSet(FlattenSeq(f)) \cup ToSet(q)
    BY <1>7, <1>9, Concatenation
  <1>11. Free(all, R)
    <2>1. IsInjective(all)
      BY <1>2 DEF NoCollisions
    <2> HIDE DEF all
    <2>2. QED
      BY <1>10, <2>1, InjectiveIsFree
  <1>12. \A x \in ToSet(all) : <<x, x>> \in R
    BY DEF Same
  <1>13. Free(FlattenSeq(f), R) /\ Free(q, R) /\ Clear(FlattenSeq(f), q, R)
    <2> HIDE DEF R
    <2>1. QED
      BY <1>7, <1>9, <1>11, FreeConcat
  <1> HIDE DEF all, R
  <1>14. /\ \A i \in 1..Len(us) : Free(f[i], R)
         /\ \A i, j \in 1..Len(us) : i < j => Clear(f[i], f[j], R)
    BY <1>8, <1>13, FreeFlatten
  <1>15. \A i \in 1..Len(us) : \A x : x \in ToSet(f[i]) <=> x \in IdSet(t, us[i])
    BY <1>3, <1>6, IdentitiesAre
  <1>16. \A i \in 1..Len(us) : \A x \in IdSet(t, us[i]) : <<x, x>> \in R
    BY <1>9, <1>10, <1>12, <1>15
  <1>17. ASSUME NEW u \in ToSet(us) PROVE OwnIdsApart(t, u)
    <2>1. PICK i \in 1..Len(us) : u = us[i]
      BY <1>5
    <2>2. Free(IdentitiesOf(t.ns, u), R) /\ IsSeq(u.guests) /\ \A x \in IdSet(t, u) : <<x, x>> \in R
      BY <1>3, <1>6, <1>14, <1>16, <2>1
    <2>3. UserUuid(t.ns, u) \in IdSet(t, u) /\ ServerUuid(t.ns, u) \in IdSet(t, u)
          /\ \A l \in ToSet(u.guests) : GuestUuid(t.ns, u, l) \in IdSet(t, u)
      BY DEF IdSet
    <2>4. \A k \in 1..Len(u.guests) : u.guests[k] \in ToSet(u.guests)
      BY <2>2, Elements
    <2>5. QED
      BY <2>2, <2>3, <2>4, IdentitiesAre DEF OwnIdsApart
  <1>18. ASSUME NEW i \in 1..Len(us), NEW j \in 1..Len(us), i < j, NEW x \in IdSet(t, us[i]), NEW y \in IdSet(t, us[j])
         PROVE  x # y
    BY <1>14, <1>15, <1>16, <1>18 DEF Clear
  <1>19. \A i \in 1..Len(t.portals) : q[i] \in ToSet(q) /\ q[i] \in ToSet(all)
    BY <1>7, <1>10, Elements
  <1>20. ASSUME NEW i \in 1..Len(t.portals), NEW j \in 1..Len(t.portals), i # j
         PROVE  PortalUuid(t.ns, t.portals[i]) # PortalUuid(t.ns, t.portals[j])
    BY <1>4, <1>7, <1>12, <1>13, <1>19, <1>20 DEF Free
  <1>21. ASSUME NEW u \in ToSet(us), NEW p \in ToSet(t.portals), NEW x \in IdSet(t, u)
         PROVE  x # PortalUuid(t.ns, p)
    <2>1. PICK i \in 1..Len(us) : u = us[i]
      BY <1>5
    <2>2. x \in ToSet(FlattenSeq(f)) /\ <<x, x>> \in R
      BY <1>9, <1>15, <1>16, <2>1
    <2>3. PICK j \in 1..Len(t.portals) : p = t.portals[j]
      BY <1>1, Elements
    <2>4. PortalUuid(t.ns, p) \in ToSet(q)
      BY <1>4, <1>19, <2>3
    <2>5. QED
      BY <1>13, <2>2, <2>4 DEF Clear
  <1>22. QED
    BY <1>17, <1>18, <1>20, <1>21 DEF IdsApart, us

-----------------------------------------------------------------------------
(* So no list repeats one, whoever of a user is in it.                     *)

\* Three lists without repetitions that have nothing in common.
LEMMA FreeInARow ==
    ASSUME NEW R, NEW a, NEW b, NEW g, IsSeq(a), IsSeq(b), IsSeq(g), Free(a, R), Free(b, R), Free(g, R),
           Clear(a, b, R), Clear(a, g, R), Clear(b, g, R)
    PROVE  Free(a \o b \o g, R)
  <1>1. IsSeq(a \o b) /\ ToSet(a \o b) = ToSet(a) \cup ToSet(b) /\ Free(a \o b, R)
    BY Concatenation, FreeConcat
  <1>2. Clear(a \o b, g, R)
    BY <1>1 DEF Clear
  <1>3. QED
    BY <1>1, <1>2, FreeConcat

\* What user u has in a list: itself, its server identity and its guests, each
\* of the three or not.
Part(a, b, g) == a \o b \o g
IsPart(t, u, a, b, g) ==
    /\ IsSeq(a) /\ IsSeq(b) /\ IsSeq(g)
    /\ Len(a) <= 1 /\ Len(b) <= 1
    /\ \A c \in ToSet(a) : c.id = UserUuid(t.ns, u)
    /\ \A c \in ToSet(b) : c.id = ServerUuid(t.ns, u)
    /\ g = <<>> \/ (Len(g) = Len(u.guests) /\ \A i \in 1..Len(g) : g[i].id = GuestUuid(t.ns, u, u.guests[i]))

\* Such a part of a list repeats no identity, and all of them are the user's.
LEMMA PartFree ==
    ASSUME NEW t, NEW u, IsSeq(u.guests), OwnIdsApart(t, u), NEW a, NEW b, NEW g, IsPart(t, u, a, b, g),
           NEW S, ToSet(Part(a, b, g)) \subseteq S
    PROVE  /\ IsSeq(Part(a, b, g)) /\ Free(Part(a, b, g), Alike(S, "id"))
           /\ \A c \in ToSet(Part(a, b, g)) : c.id \in IdSet(t, u)
  <1> DEFINE R == Alike(S, "id")
  <1>1. /\ IsSeq(a \o b \o g)
        /\ \A x : x \in ToSet(a \o b \o g) <=> x \in ToSet(a) \/ x \in ToSet(b) \/ x \in ToSet(g)
    BY InARow DEF IsPart
  <1>2. \A x \in S, y \in S : <<x, y>> \in R <=> x.id = y.id
    BY AlikePairs
  <1> HIDE DEF R
  <1>3. ToSet(a) \subseteq S /\ ToSet(b) \subseteq S /\ ToSet(g) \subseteq S
    BY <1>1 DEF Part
  <1>4. \A c \in ToSet(g) : \E i \in 1..Len(u.guests) : c = g[i] /\ c.id = GuestUuid(t.ns, u, u.guests[i])
    BY Elements, EmptyIsSeq DEF IsPart
  <1>5. \A i \in 1..Len(u.guests) : u.guests[i] \in ToSet(u.guests)
    BY Elements
  <1>6. Free(a, R) /\ Free(b, R)
    <2>1. ASSUME NEW s, IsSeq(s), Len(s) <= 1 PROVE Free(s, R)
      <3>1. \A i, j \in 1..Len(s) : i = j
        BY <2>1, SeqFacts
      <3>2. QED
        BY <3>1 DEF Free
    <2>2. QED
      BY <2>1 DEF IsPart
  <1>7. Free(g, R)
    <2>1. CASE g = <<>>
      BY <2>1, FreeOne
    <2>2. CASE g # <<>>
      <3>1. Len(g) = Len(u.guests) /\ \A i \in 1..Len(g) : g[i].id = GuestUuid(t.ns, u, u.guests[i]) /\ g[i] \in S
        BY <1>3, <2>2, Elements DEF IsPart
      <3>2. \A i, j \in 1..Len(g) : i # j => g[i].id # g[j].id
        BY <3>1 DEF OwnIdsApart
      <3>3. QED
        BY <1>2, <3>1, <3>2 DEF Free
    <2>3. QED
      BY <2>1, <2>2
  <1>8. Clear(a, b, R) /\ Clear(a, g, R) /\ Clear(b, g, R)
    <2>1. \A x \in ToSet(a), y \in ToSet(b) : x.id # y.id
      BY DEF IsPart, OwnIdsApart
    <2>2. \A x \in ToSet(a), y \in ToSet(g) : x.id # y.id
      BY <1>4, <1>5 DEF IsPart, OwnIdsApart
    <2>3. \A x \in ToSet(b), y \in ToSet(g) : x.id # y.id
      BY <1>4, <1>5 DEF IsPart, OwnIdsApart
    <2>4. QED
      BY <1>2, <1>3, <2>1, <2>2, <2>3 DEF Clear
  <1>9. Free(a \o b \o g, R)
    BY <1>6, <1>7, <1>8, FreeInARow DEF IsPart
  <1>10. \A c \in ToSet(a \o b \o g) : c.id \in IdSet(t, u)
    BY <1>1, <1>4, <1>5 DEF IsPart, IdSet
  <1>11. QED
    BY <1>1, <1>9, <1>10 DEF Part, R

\* One part per user, one after the other.
LEMMA PartsFree ==
    ASSUME NEW t, WellFormed(t), IdsApart(t), NEW f, f = [i \in DOMAIN t.users |-> f[i]],
           \A i \in 1..Len(t.users) : \E a, b, g : IsPart(t, t.users[i], a, b, g) /\ f[i] \in {<<>>, Part(a, b, g)},
           NEW S, ToSet(FlattenSeq(f)) \subseteq S
    PROVE  /\ IsSeq(FlattenSeq(f)) /\ Free(FlattenSeq(f), Alike(S, "id"))
           /\ \A c \in ToSet(FlattenSeq(f)) : \E u \in ToSet(t.users) : c.id \in IdSet(t, u)
  <1> DEFINE us == t.users
             R == Alike(S, "id")
  <1>1. IsSeq(us) /\ DOMAIN us = 1..Len(us) /\ Len(us) \in Nat
    BY SeqFacts DEF WellFormed, Listed, IsSeq
  <1>2. \A i \in 1..Len(us) : us[i] \in ToSet(us) /\ IsSeq(us[i].guests) /\ OwnIdsApart(t, us[i])
    BY <1>1, UserFacts, Elements DEF IdsApart
  <1>3. \A i \in 1..Len(us) : IsSeq(f[i])
    <2>1. ASSUME NEW i \in 1..Len(us) PROVE IsSeq(f[i])
      <3>1. PICK a, b, g : IsPart(t, us[i], a, b, g) /\ f[i] \in {<<>>, Part(a, b, g)}
        OBVIOUS
      <3>2. IsSeq(Part(a, b, g))
        BY <3>1, InARow DEF IsPart, Part
      <3>3. QED
        BY <3>1, <3>2, EmptyIsSeq
    <2>2. QED
      BY <2>1
  <1>4. IsMap(f, us) /\ IsSeq(f) /\ Len(f) = Len(us)
    BY <1>1, <1>3, FunctionIsSeq DEF IsMap
  <1> HIDE DEF us
  <1>5. IsSeq(FlattenSeq(f)) /\ \A x : x \in ToSet(FlattenSeq(f)) <=> \E i \in 1..Len(us) : x \in ToSet(f[i])
    BY <1>1, <1>4, MapElements
  <1>6. \A i \in 1..Len(us) : ToSet(f[i]) \subseteq S
    BY <1>5
  <1>7. \A i \in 1..Len(us) : Free(f[i], R) /\ \A c \in ToSet(f[i]) : c.id \in IdSet(t, us[i])
    <2>1. ASSUME NEW i \in 1..Len(us) PROVE Free(f[i], R) /\ \A c \in ToSet(f[i]) : c.id \in IdSet(t, us[i])
      <3>1. PICK a, b, g : IsPart(t, us[i], a, b, g) /\ f[i] \in {<<>>, Part(a, b, g)}
        BY DEF us
      <3>2. CASE f[i] = Part(a, b, g)
        BY <1>2, <1>6, <3>1, <3>2, PartFree
      <3>3. CASE f[i] = <<>>
        BY <3>3, FreeOne, EmptyIsSeq
      <3>4. QED
        BY <3>1, <3>2, <3>3
    <2>2. QED
      BY <2>1
  <1>8. ASSUME NEW i \in 1..Len(us), NEW j \in 1..Len(us), i < j PROVE Clear(f[i], f[j], R)
    <2>1. \A x \in ToSet(f[i]), y \in ToSet(f[j]) : x.id # y.id
      BY <1>7, <1>8 DEF IdsApart, us
    <2>2. \A x \in S, y \in S : <<x, y>> \in R <=> x.id = y.id
      BY AlikePairs
    <2> HIDE DEF R
    <2>3. QED
      BY <1>6, <2>1, <2>2 DEF Clear
  <1>9. Free(FlattenSeq(f), R)
    <2> HIDE DEF R
    <2>1. QED
      BY <1>3, <1>4, <1>7, <1>8, FreeFlatten
  <1>10. QED
    BY <1>2, <1>5, <1>7, <1>9 DEF us

\* The parts of the lists are such parts.
LEMMA AccessPartParts ==
    ASSUME NEW t, NEW u, IsSeq(u.guests), NEW type, NEW flow, NEW server \in BOOLEAN
    PROVE  \E a, b, g : IsPart(t, u, a, b, g) /\ AccessPart(t, u, type, flow, server) \in {<<>>, Part(a, b, g)}
  <1> DEFINE a == <<UserClient(t, u, flow)>>
             b == IF server THEN ServerClients(t, u, flow) ELSE <<>>
             g == GuestClients(t, u, flow)
  <1>1. IsSeq(a) /\ Len(a) = 1 /\ \A c \in ToSet(a) : c.id = UserUuid(t.ns, u)
    BY OneIsSeq, ClientFields DEF UserClient
  <1>2. IsSeq(b) /\ Len(b) <= 1 /\ \A c \in ToSet(b) : c.id = ServerUuid(t.ns, u)
    BY OneIsSeq, EmptyIsSeq, ClientFields DEF ServerClients
  <1>3. IsSeq(g) /\ Len(g) = Len(u.guests) /\ \A i \in 1..Len(g) : g[i].id = GuestUuid(t.ns, u, u.guests[i])
    BY GuestList
  <1>4. AccessPart(t, u, type, flow, server) \in {<<>>, a \o b \o g}
    BY DEF AccessPart
  <1> HIDE DEF a, b, g
  <1>5. IsPart(t, u, a, b, g)
    BY <1>1, <1>2, <1>3 DEF IsPart
  <1>6. QED
    BY <1>4, <1>5 DEF Part

\* What one user has in the VLESS inbound is such a part,
LEMMA VlessPartParts ==
    ASSUME NEW t, NEW u, IsSeq(u.guests), NEW flow
    PROVE  \E a, b, g : IsPart(t, u, a, b, g) /\ VlessPart(t, u, flow) \in {<<>>, Part(a, b, g)}
  <1> DEFINE a == IF "xhttp" \in u.access THEN <<UserClient(t, u, flow)>> ELSE <<>>
             b == ServerClients(t, u, flow)
             g == IF "xhttp" \in u.access THEN GuestClients(t, u, flow) ELSE <<>>
  <1>1. IsSeq(a) /\ Len(a) <= 1 /\ \A c \in ToSet(a) : c.id = UserUuid(t.ns, u)
    BY OneIsSeq, EmptyIsSeq, ClientFields DEF UserClient
  <1>2. IsSeq(b) /\ Len(b) <= 1 /\ \A c \in ToSet(b) : c.id = ServerUuid(t.ns, u)
    BY OneIsSeq, EmptyIsSeq, ClientFields DEF ServerClients
  <1>3. IsSeq(g) /\ (g = <<>> \/ (Len(g) = Len(u.guests) /\ \A i \in 1..Len(g) : g[i].id = GuestUuid(t.ns, u, u.guests[i])))
    BY GuestList, EmptyIsSeq
  <1>4. VlessPart(t, u, flow) = a \o b \o g
    BY DEF VlessPart
  <1> HIDE DEF a, b, g
  <1>5. IsPart(t, u, a, b, g)
    BY <1>1, <1>2, <1>3 DEF IsPart
  <1>6. QED
    BY <1>4, <1>5 DEF Part

\* The accounts of the mixed inbound: a user's is without the namespace.
ProxyPart(t, u) ==
    IF "proxy" \notin u.access THEN <<>>
    ELSE <<Client(Email(u.name, <<>>), UserUuid(t.ns, u), FALSE)>> \o GuestClients(t, u, FALSE)

\* and what it has in the mixed inbound,
LEMMA ProxyPartParts ==
    ASSUME NEW t, NEW u, IsSeq(u.guests)
    PROVE  \E a, b, g : IsPart(t, u, a, b, g) /\ ProxyPart(t, u) \in {<<>>, Part(a, b, g)}
  <1> DEFINE a == <<Client(Email(u.name, <<>>), UserUuid(t.ns, u), FALSE)>>
             b == <<>>
             g == GuestClients(t, u, FALSE)
  <1>1. IsSeq(a) /\ Len(a) = 1 /\ \A c \in ToSet(a) : c.id = UserUuid(t.ns, u)
    <2> DEFINE x == Client(Email(u.name, <<>>), UserUuid(t.ns, u), FALSE)
    <2>1. x.id = UserUuid(t.ns, u)
      BY DEF Client
    <2>2. a = <<x>>
      OBVIOUS
    <2> HIDE DEF x, a
    <2>3. QED
      BY <2>1, <2>2, OneIsSeq
  <1>2. IsSeq(b) /\ Len(b) = 0 /\ ToSet(b) = {}
    BY EmptyIsSeq
  <1>3. IsSeq(g) /\ Len(g) = Len(u.guests) /\ \A i \in 1..Len(g) : g[i].id = GuestUuid(t.ns, u, u.guests[i])
    BY GuestList
  <1>4. ProxyPart(t, u) \in {<<>>, a \o g}
    BY DEF ProxyPart
  <1>5. a \o b = a
    BY <1>1, EmptyIsSeq, ConcatEmpty
  <1> HIDE DEF a, b, g
  <1>6. IsPart(t, u, a, b, g)
    BY <1>1, <1>2, <1>3 DEF IsPart
  <1>7. QED
    BY <1>4, <1>5, <1>6 DEF Part

\* and the peers it has.
LEMMA PeersOfParts ==
    ASSUME NEW t, NEW u, IsSeq(u.guests)
    PROVE  \E a, b, g : IsPart(t, u, a, b, g) /\ PeersOf(t.ns, u) \in {<<>>, Part(a, b, g)}
  <1> DEFINE a == <<Peer(UserEmail(t.ns, u), UserUuid(t.ns, u))>>
             b == IF "server" \in u.access THEN <<Peer(ServerEmail(u), ServerUuid(t.ns, u))>> ELSE <<>>
             g == [i \in DOMAIN u.guests |-> Peer(GuestEmail(u, u.guests[i]), GuestUuid(t.ns, u, u.guests[i]))]
  <1>0. \A m, id : Peer(m, id).id = id
    BY DEF Peer
  <1>1. IsSeq(a) /\ Len(a) = 1 /\ \A c \in ToSet(a) : c.id = UserUuid(t.ns, u)
    BY <1>0, OneIsSeq
  <1>2. IsSeq(b) /\ Len(b) <= 1 /\ \A c \in ToSet(b) : c.id = ServerUuid(t.ns, u)
    BY <1>0, OneIsSeq, EmptyIsSeq
  <1>3. IsSeq(g) /\ Len(g) = Len(u.guests) /\ \A i \in 1..Len(g) : g[i].id = GuestUuid(t.ns, u, u.guests[i])
    <2>1. DOMAIN u.guests = 1..Len(u.guests) /\ Len(u.guests) \in Nat
      BY SeqFacts
    <2>2. \A i \in 1..Len(u.guests) : g[i].id = GuestUuid(t.ns, u, u.guests[i])
      BY <1>0, <2>1
    <2>3. g = [i \in 1..Len(u.guests) |-> g[i]]
      BY <2>1
    <2> HIDE DEF g
    <2>4. QED
      BY <2>1, <2>2, <2>3, FunctionIsSeq
  <1>4. PeersOf(t.ns, u) \in {<<>>, a \o b \o g}
    BY DEF PeersOf, Peer
  <1> HIDE DEF a, b, g
  <1>5. IsPart(t, u, a, b, g)
    BY <1>1, <1>2, <1>3 DEF IsPart
  <1>6. QED
    BY <1>4, <1>5 DEF Part

\* The emails of users, alone or with the namespace, server identities, guests
\* and portals.
EmailOf(t, m, id) ==
    \/ \E u \in ToSet(t.users) :
         \/ m \in {UserEmail(t.ns, u), Email(u.name, <<>>)} /\ id = UserUuid(t.ns, u)
         \/ \E l : m = Email(l, u.name) /\ id = Uuid5(UserUuid(t.ns, u), l)
    \/ \E p \in ToSet(t.portals) : m = PortalEmail(t.ns, p) /\ id = PortalUuid(t.ns, p)

\* An owner's email goes with its identity.
LEMMA OwnedIsEmail ==
    ASSUME NEW t, NEW m, NEW id, Owned(t, m, id) PROVE EmailOf(t, m, id)
  BY DEF Owned, OwnedBy, EmailOf, ServerEmail, ServerUuid, GuestEmail, GuestUuid

\* Elements at different places have different names or ids.
LEMMA ByName ==
    ASSUME NEW t, WellFormed(t), Loads(t)
    PROVE  /\ \A u, v \in ToSet(t.users) : u.name = v.name => u = v
           /\ \A p, q \in ToSet(t.portals) : p.id = q.id => p = q
  <1>1. IsInjective([i \in DOMAIN t.users |-> t.users[i].name]) /\ IsInjective([i \in DOMAIN t.portals |-> t.portals[i].id])
    BY DEF Loads, IdsOf
  <1>2. /\ \A i, j \in DOMAIN t.users : t.users[i].name = t.users[j].name => i = j
        /\ \A i, j \in DOMAIN t.portals : t.portals[i].id = t.portals[j].id => i = j
    BY <1>1 DEF IsInjective
  <1>3. QED
    BY <1>2 DEF ToSet

\* Where the namespace is nobody's username, an email tells the identity.
LEMMA EmailTells ==
    ASSUME NEW t, WellFormed(t), Loads(t), NamespaceFree(t), NEW m, NEW a, NEW b, EmailOf(t, m, a), EmailOf(t, m, b)
    PROVE  a = b
  <1>1. \A x, y, z, w : Email(x, y) = Email(z, w) <=> x = z /\ y = w
    BY DEF Email
  <1>2. \A u \in ToSet(t.users) : u.name # t.ns /\ u.name # <<>> /\ IsSeq(u.name) /\ u.name[1] # "portal."
    BY UserFacts DEF NamespaceFree
  <1> DEFINE dot == <<"portal.">> \o t.ns
  <1>3. IsSeq(dot) /\ Len(dot) = Len(t.ns) + 1 /\ dot[1] = "portal." /\ Len(t.ns) \in Nat
    <2> DEFINE o == <<"portal.">>
               k == t.ns
    <2>1. IsSeq(o) /\ Len(o) = 1 /\ o[1] = "portal."
      BY OneIsSeq
    <2>2. IsSeq(k) /\ Len(k) \in Nat
      BY SeqFacts DEF WellFormed, Listed, IsSeq
    <2> HIDE DEF o, k
    <2>3. IsSeq(o \o k) /\ Len(o \o k) = Len(o) + Len(k) /\ (\A i \in 1..Len(o) : (o \o k)[i] = o[i])
      BY <2>1, <2>2, Concatenation
    <2>4. (o \o k)[1] = "portal." /\ Len(o \o k) = Len(k) + 1
      BY <2>1, <2>2, <2>3
    <2>5. QED
      BY <2>2, <2>3, <2>4 DEF o, k
  <1>4. dot # t.ns /\ dot # <<>> /\ \A u \in ToSet(t.users) : dot # u.name
    BY <1>2, <1>3, EmptyIsSeq
  <1>5. /\ \A u : UserEmail(t.ns, u) = Email(u.name, t.ns)
        /\ \A p : PortalEmail(t.ns, p) = Email(p.id, dot)
    BY DEF UserEmail, PortalEmail
  <1> HIDE DEF dot
  <1>6. CASE \E p \in ToSet(t.portals) : m = PortalEmail(t.ns, p)
    <2>1. PICK p \in ToSet(t.portals) : m = Email(p.id, dot)
      BY <1>5, <1>6
    <2>2. \A c : EmailOf(t, m, c) => c = PortalUuid(t.ns, p)
      BY <1>1, <1>2, <1>4, <1>5, <2>1, ByName DEF EmailOf
    <2>3. QED
      BY <2>2
  <1>7. CASE \E u \in ToSet(t.users) : m \in {UserEmail(t.ns, u), Email(u.name, <<>>)}
    <2>1. PICK u \in ToSet(t.users) : m \in {Email(u.name, t.ns), Email(u.name, <<>>)}
      BY <1>5, <1>7
    <2>2. \A c : EmailOf(t, m, c) => c = UserUuid(t.ns, u)
      BY <1>1, <1>2, <1>4, <1>5, <2>1, ByName DEF EmailOf
    <2>3. QED
      BY <2>2
  <1>8. CASE \E u \in ToSet(t.users) : \E l : m = Email(l, u.name)
    <2>1. PICK u \in ToSet(t.users) : \E l : m = Email(l, u.name)
      BY <1>8
    <2>2. PICK l : m = Email(l, u.name)
      BY <2>1
    <2>3. \A c : EmailOf(t, m, c) => c = Uuid5(UserUuid(t.ns, u), l)
      BY <1>1, <1>2, <1>4, <1>5, <2>2, ByName DEF EmailOf
    <2>4. QED
      BY <2>3
  <1>9. QED
    BY <1>6, <1>7, <1>8 DEF EmailOf

\* So a list in which every identity is there once has every email once.
LEMMA EmailsOnce ==
    ASSUME NEW t, WellFormed(t), Loads(t), NamespaceFree(t), NEW s, IsSeq(s), Free(s, Alike(ToSet(s), "id")),
           \A c \in ToSet(s) : EmailOf(t, c.email, c.id)
    PROVE  Differ(s, "id") /\ Differ(s, "email")
  <1> DEFINE R == Alike(ToSet(s), "id")
             Q == Alike(ToSet(s), "email")
  <1>1. \A i \in 1..Len(s) : s[i] \in ToSet(s)
    BY Elements
  <1>2. \A x \in ToSet(s), y \in ToSet(s) : <<x, y>> \in Q => <<x, y>> \in R
    <2>1. ASSUME NEW x \in ToSet(s), NEW y \in ToSet(s), x.email = y.email PROVE x.id = y.id
      BY <2>1, EmailTells
    <2>2. \A x \in ToSet(s), y \in ToSet(s) : <<x, y>> \in Q <=> x.email = y.email
      BY AlikePairs
    <2>3. \A x \in ToSet(s), y \in ToSet(s) : <<x, y>> \in R <=> x.id = y.id
      BY AlikePairs
    <2> HIDE DEF Q, R
    <2>4. QED
      BY <2>1, <2>2, <2>3
  <1>3. Free(s, Q)
    BY <1>1, <1>2 DEF Free
  <1>4. QED
    BY <1>3, FieldsAreFree DEF Differ

-----------------------------------------------------------------------------
(* The lists of a hub.                                                     *)

\* A list of identities of users, each there once.
ByUsers(t, s) ==
    /\ IsSeq(s) /\ Differ(s, "id")
    /\ \A c \in ToSet(s) : EmailOf(t, c.email, c.id) /\ \E u \in ToSet(t.users) : c.id \in IdSet(t, u)

\* One part per user, one after the other, is such a list.
LEMMA PartsByUsers ==
    ASSUME NEW t, WellFormed(t), IdsApart(t), NEW f, f = [i \in DOMAIN t.users |-> f[i]],
           \A i \in 1..Len(t.users) : \E a, b, g : IsPart(t, t.users[i], a, b, g) /\ f[i] \in {<<>>, Part(a, b, g)},
           \A c \in ToSet(FlattenSeq(f)) : EmailOf(t, c.email, c.id)
    PROVE  ByUsers(t, FlattenSeq(f))
  <1> DEFINE s == FlattenSeq(f)
             S == ToSet(s)
  <1>1. IsSeq(s) /\ Free(s, Alike(S, "id")) /\ \A c \in S : \E u \in ToSet(t.users) : c.id \in IdSet(t, u)
    BY PartsFree
  <1>2. \A c \in S : EmailOf(t, c.email, c.id)
    OBVIOUS
  <1> HIDE DEF s
  <1>3. Differ(s, "id")
    BY <1>1, FieldsAreFree DEF Differ
  <1>4. QED
    BY <1>1, <1>2, <1>3 DEF ByUsers, s

\* The lists of an access type, of hubs that serve Reality, of the mixed inbound
\* and of the WireGuard peers are.
LEMMA AccessByUsers ==
    ASSUME NEW t, WellFormed(t), IdsApart(t), NEW type, NEW flow, NEW server \in BOOLEAN
    PROVE  ByUsers(t, AccessClients(t, type, flow, server))
  <1> DEFINE f == [i \in DOMAIN t.users |-> AccessPart(t, t.users[i], type, flow, server)]
  <1>1. IsSeq(t.users) /\ DOMAIN t.users = 1..Len(t.users) /\ \A i \in 1..Len(t.users) : t.users[i] \in ToSet(t.users)
    BY SeqFacts, Elements DEF WellFormed, Listed, IsSeq
  <1>2. AccessClients(t, type, flow, server) = FlattenSeq(f)
    BY DEF AccessClients, SeqConcat, AccessPart
  <1>3. \A c \in ToSet(AccessClients(t, type, flow, server)) : EmailOf(t, c.email, c.id)
    BY ListedIsOwned, OwnedIsEmail
  <1>4. \A i \in 1..Len(t.users) : f[i] = AccessPart(t, t.users[i], type, flow, server)
    BY <1>1
  <1>5. f = [i \in DOMAIN t.users |-> f[i]]
    OBVIOUS
  <1> HIDE DEF f
  <1>6. \A i \in 1..Len(t.users) : \E a, b, g : IsPart(t, t.users[i], a, b, g) /\ f[i] \in {<<>>, Part(a, b, g)}
    BY <1>1, <1>4, UserFacts, AccessPartParts
  <1>7. QED
    BY <1>2, <1>3, <1>5, <1>6, PartsByUsers

\* The VLESS inbound's list is of users, with no identity twice.
LEMMA VlessByUsers ==
    ASSUME NEW t, WellFormed(t), IdsApart(t), NEW flow
    PROVE  ByUsers(t, VlessClients(t, flow))
  <1> DEFINE f == [i \in DOMAIN t.users |-> VlessPart(t, t.users[i], flow)]
  <1>1. IsSeq(t.users) /\ DOMAIN t.users = 1..Len(t.users) /\ \A i \in 1..Len(t.users) : t.users[i] \in ToSet(t.users)
    BY SeqFacts, Elements DEF WellFormed, Listed, IsSeq
  <1>2. VlessClients(t, flow) = FlattenSeq(f)
    BY DEF VlessClients, SeqConcat, VlessPart
  <1>3. \A c \in ToSet(VlessClients(t, flow)) : EmailOf(t, c.email, c.id)
    BY ListedIsOwned, OwnedIsEmail
  <1>4. \A i \in 1..Len(t.users) : f[i] = VlessPart(t, t.users[i], flow)
    BY <1>1
  <1>5. f = [i \in DOMAIN t.users |-> f[i]]
    OBVIOUS
  <1> HIDE DEF f
  <1>6. \A i \in 1..Len(t.users) : \E a, b, g : IsPart(t, t.users[i], a, b, g) /\ f[i] \in {<<>>, Part(a, b, g)}
    BY <1>1, <1>4, UserFacts, VlessPartParts
  <1>7. QED
    BY <1>2, <1>3, <1>5, <1>6, PartsByUsers

\* And so are the WireGuard peers.
LEMMA PeersByUsers ==
    ASSUME NEW t, WellFormed(t), IdsApart(t)
    PROVE  ByUsers(t, Peers(t))
  <1> DEFINE f == [i \in DOMAIN t.users |-> PeersOf(t.ns, t.users[i])]
  <1>1. IsSeq(t.users) /\ DOMAIN t.users = 1..Len(t.users) /\ \A i \in 1..Len(t.users) : t.users[i] \in ToSet(t.users)
    BY SeqFacts, Elements DEF WellFormed, Listed, IsSeq
  <1>2. Peers(t) = FlattenSeq(f)
    BY DEF Peers
  <1>3. \A c \in ToSet(Peers(t)) : EmailOf(t, c.email, c.id)
    BY ListedIsOwned, OwnedIsEmail
  <1>4. \A i \in 1..Len(t.users) : f[i] = PeersOf(t.ns, t.users[i])
    BY <1>1
  <1>5. f = [i \in DOMAIN t.users |-> f[i]]
    OBVIOUS
  <1> HIDE DEF f
  <1>6. \A i \in 1..Len(t.users) : \E a, b, g : IsPart(t, t.users[i], a, b, g) /\ f[i] \in {<<>>, Part(a, b, g)}
    <2>1. \A u \in ToSet(t.users) : \E a, b, g : IsPart(t, u, a, b, g) /\ PeersOf(t.ns, u) \in {<<>>, Part(a, b, g)}
      BY UserFacts, PeersOfParts
    <2>2. QED
      BY <1>1, <1>4, <2>1
  <1>7. QED
    BY <1>2, <1>3, <1>5, <1>6, PartsByUsers

ProxyClients(t) == FlattenSeq([i \in DOMAIN t.users |-> ProxyPart(t, t.users[i])])

\* And so are the proxy's clients.
LEMMA ProxyByUsers ==
    ASSUME NEW t, WellFormed(t), IdsApart(t)
    PROVE  ByUsers(t, ProxyClients(t))
  <1> DEFINE s == t.users
             f == [i \in DOMAIN s |-> ProxyPart(t, s[i])]
  <1>1. IsSeq(s) /\ DOMAIN s = 1..Len(s) /\ \A i \in 1..Len(s) : s[i] \in ToSet(s)
    BY SeqFacts, Elements DEF WellFormed, Listed, IsSeq
  <1>2. ProxyClients(t) = FlattenSeq(f)
    BY DEF ProxyClients
  <1>3. \A i \in 1..Len(s) : f[i] = ProxyPart(t, s[i])
    BY <1>1
  <1>4. f = [i \in DOMAIN s |-> f[i]]
    OBVIOUS
  <1>5. ASSUME NEW u \in ToSet(s)
        PROVE  /\ IsSeq(ProxyPart(t, u))
               /\ \A c \in ToSet(ProxyPart(t, u)) : EmailOf(t, c.email, c.id)
    <2>0. PICK off : off = FALSE
      OBVIOUS
    <2> DEFINE own == Client(Email(u.name, <<>>), UserUuid(t.ns, u), off)
               o == <<own>>
               g == GuestClients(t, u, off)
    <2>1. IsSeq(u.guests)
      BY <1>5, UserFacts DEF s
    <2>2. IsSeq(g) /\ \A c \in ToSet(g) : \E l \in ToSet(u.guests) : c = GuestClient(t, u, l, off)
      BY <2>1, GuestClientsAre
    <2>3. \A c \in ToSet(g) : EmailOf(t, c.email, c.id)
      BY <1>5, <2>2, ClientFields DEF EmailOf, GuestClient, GuestEmail, GuestUuid, s
    <2>4. own.email = Email(u.name, <<>>) /\ own.id = UserUuid(t.ns, u)
      BY ClientFields
    <2>5. EmailOf(t, own.email, own.id)
      BY <1>5, <2>4 DEF EmailOf, s
    <2>6. ProxyPart(t, u) \in {<<>>, o \o g}
      BY <2>0 DEF ProxyPart
    <2> HIDE DEF own, g
    <2>7. IsSeq(o) /\ ToSet(o) = {own}
      BY OneIsSeq
    <2> HIDE DEF o
    <2>8. IsSeq(o \o g) /\ ToSet(o \o g) = ToSet(o) \cup ToSet(g)
      BY <2>2, <2>7, Concatenation
    <2>9. QED
      BY <2>3, <2>5, <2>6, <2>7, <2>8, EmptyIsSeq
  <1>6. \A i \in 1..Len(t.users) : \E a, b, g : IsPart(t, t.users[i], a, b, g) /\ f[i] \in {<<>>, Part(a, b, g)}
    <2> HIDE DEF f
    <2>1. QED
      BY <1>1, <1>3, UserFacts, ProxyPartParts DEF s
  <1> HIDE DEF f, s
  <1>7. \A x : x \in ToSet(FlattenSeq(f)) <=> \E i \in DOMAIN s : x \in ToSet(f[i])
    BY <1>1, <1>3, <1>4, <1>5, OfTheUsers
  <1>8. \A c \in ToSet(FlattenSeq(f)) : EmailOf(t, c.email, c.id)
    BY <1>1, <1>3, <1>5, <1>7
  <1>9. QED
    BY <1>2, <1>4, <1>6, <1>8, PartsByUsers DEF s

\* The list of the portals, in their order.
LEMMA PortalList ==
    ASSUME NEW t, WellFormed(t), NEW flow
    PROVE  /\ IsSeq(PortalClients(t, flow)) /\ Len(PortalClients(t, flow)) = Len(t.portals)
           /\ \A i \in 1..Len(t.portals) : PortalClients(t, flow)[i] = PortalClient(t, t.portals[i], flow)
  <1> DEFINE s == t.portals
             q == [i \in DOMAIN s |-> PortalClient(t, s[i], flow)]
             f == [i \in DOMAIN s |-> <<PortalClient(t, s[i], flow)>>]
  <1>1. IsSeq(s) /\ DOMAIN s = 1..Len(s) /\ Len(s) \in Nat
    BY SeqFacts DEF WellFormed, Listed, IsSeq
  <1>2. PortalClients(t, flow) = FlattenSeq(f)
    BY DEF PortalClients, SeqConcat, PortalClient
  <1>3. q = [i \in 1..Len(s) |-> q[i]] /\ \A i \in 1..Len(s) : q[i] = PortalClient(t, s[i], flow)
    BY <1>1
  <1>4. f = [i \in 1..Len(s) |-> f[i]] /\ \A i \in 1..Len(s) : f[i] = <<PortalClient(t, s[i], flow)>>
    BY <1>1
  <1> HIDE DEF f, s, q
  <1>5. IsSeq(q) /\ Len(q) = Len(s)
    BY <1>1, <1>3, FunctionIsSeq
  <1>6. DOMAIN q = 1..Len(s)
    BY <1>5, SeqFacts
  <1>7. \A i \in 1..Len(q) : f[i] = <<q[i]>>
    BY <1>3, <1>4, <1>5
  <1>8. IsMap(f, q)
    BY <1>4, <1>5, <1>6, <1>7, OneIsSeq DEF IsMap
  <1>9. FlattenSeq(f) = q
    BY <1>5, <1>7, <1>8, FilterAll
  <1>10. QED
    BY <1>2, <1>3, <1>5, <1>9 DEF s

\* Lists of users' identities, without and with the portals after them.
LEMMA AloneDiffer ==
    ASSUME NEW t, WellFormed(t), Loads(t), NamespaceFree(t), NEW s, ByUsers(t, s)
    PROVE  Differ(s, "id") /\ Differ(s, "email")
  <1>1. IsSeq(s) /\ \A c \in ToSet(s) : EmailOf(t, c.email, c.id)
    BY DEF ByUsers
  <1>2. Free(s, Alike(ToSet(s), "id"))
    BY <1>1, FieldsAreFree DEF ByUsers, Differ
  <1>3. QED
    BY <1>1, <1>2, EmailsOnce

\* With the portals' clients behind it, no such list repeats an id or an email.
LEMMA WithPortalsDiffer ==
    ASSUME NEW t, WellFormed(t), Loads(t), IdsApart(t), NamespaceFree(t), NEW s, ByUsers(t, s), NEW flow
    PROVE  Differ(s \o PortalClients(t, flow), "id") /\ Differ(s \o PortalClients(t, flow), "email")
  <1> DEFINE q == PortalClients(t, flow)
             all == s \o q
             R == Alike(ToSet(all), "id")
  <1>1. IsSeq(s) /\ \A c \in ToSet(s) : EmailOf(t, c.email, c.id) /\ \E u \in ToSet(t.users) : c.id \in IdSet(t, u)
    BY DEF ByUsers
  <1>2. /\ IsSeq(q) /\ Len(q) = Len(t.portals) /\ \A i \in 1..Len(q) : q[i].id = PortalUuid(t.ns, t.portals[i])
        /\ \A c \in ToSet(q) : EmailOf(t, c.email, c.id) /\ \E p \in ToSet(t.portals) : c.id = PortalUuid(t.ns, p)
    <2>1. IsSeq(q) /\ Len(q) = Len(t.portals) /\ \A i \in 1..Len(q) : q[i].id = PortalUuid(t.ns, t.portals[i])
      BY PortalList, ClientFields
    <2>2. \A c \in ToSet(q) : EmailOf(t, c.email, c.id)
      BY ListedIsOwned, OwnedIsEmail
    <2>3. \A c \in ToSet(q) : \E p \in ToSet(t.portals) : c.id = PortalUuid(t.ns, p)
      BY PortalClientsAre, ClientFields
    <2>4. QED
      BY <2>1, <2>2, <2>3
  <1> HIDE DEF q
  <1>3. IsSeq(all) /\ ToSet(all) = ToSet(s) \cup ToSet(q)
    BY <1>1, <1>2, Concatenation
  <1>4. \A x \in ToSet(all), y \in ToSet(all) : <<x, y>> \in R <=> x.id = y.id
    BY AlikePairs
  <1>5. Free(s, R)
    <2> HIDE DEF all
    <2>1. QED
      BY <1>1, <1>3, FieldsAreFree DEF ByUsers, Differ
  <1> HIDE DEF R
  <1>6. Free(q, R)
    <2>1. \A i, j \in 1..Len(q) : i # j => q[i].id # q[j].id
      BY <1>2 DEF IdsApart
    <2>2. \A i \in 1..Len(q) : q[i] \in ToSet(all)
      BY <1>2, <1>3, Elements
    <2>3. QED
      BY <1>4, <2>1, <2>2 DEF Free
  <1>7. Clear(s, q, R)
    <2>1. \A x \in ToSet(s), y \in ToSet(q) : x.id # y.id
      BY <1>1, <1>2 DEF IdsApart
    <2>2. QED
      BY <1>3, <1>4, <2>1 DEF Clear
  <1>8. Free(all, R)
    BY <1>1, <1>2, <1>5, <1>6, <1>7, FreeConcat
  <1>9. \A c \in ToSet(all) : EmailOf(t, c.email, c.id)
    BY <1>1, <1>2, <1>3
  <1> HIDE DEF all
  <1>10. QED
    BY <1>3, <1>8, <1>9, EmailsOnce DEF R, all, q

-----------------------------------------------------------------------------
(* The lists of an exit.                                                   *)

\* Node ids are sequences.
LEMMA NodeIds ==
    ASSUME NEW t, WellFormed(t)
    PROVE  /\ \A n \in ToSet(Nodes(t, "hub")) : IsSeq(n.id)
           /\ \A pl \in AllPlaces(t) : IsSeq(pl.n.id)
  <1>1. \A r \in ToSet(t.regions) : \A n \in ToSet(r.nodes) : IsSeq(n.id)
    BY DEF WellFormed, Listed, IsSeq
  <1>2. QED
    BY <1>1, NodeElements, PlaceFacts

\* No two hubs of a file that loads have one id.
LEMMA HubIdsDiffer ==
    ASSUME NEW t, WellFormed(t), Loads(t)
    PROVE  \A i, j \in 1..Len(Nodes(t, "hub")) : Nodes(t, "hub")[i].id = Nodes(t, "hub")[j].id => i = j
  <1> DEFINE x == Nodes(t, "exit")
             h == Nodes(t, "hub")
             all == x \o h
             ids == IdsOf(all)
  <1>1. IsSeq(x) /\ IsSeq(h)
    BY NodeElements
  <1>2. IsInjective(ids)
    BY DEF Loads
  <1>3. ids = [i \in DOMAIN all |-> all[i].id]
    BY DEF IdsOf
  <1> HIDE DEF x, h, ids
  <1>4. IsSeq(all) /\ Len(all) = Len(x) + Len(h) /\ \A i \in 1..Len(h) : all[Len(x) + i] = h[i]
    BY <1>1, Concatenation
  <1>5. Len(x) \in Nat /\ Len(h) \in Nat /\ DOMAIN all = 1..Len(all)
    BY <1>1, <1>4, SeqFacts
  <1> HIDE DEF all
  <1>6. DOMAIN ids = 1..Len(all) /\ \A i \in 1..Len(h) : ids[Len(x) + i] = h[i].id /\ Len(x) + i \in 1..Len(all)
    BY <1>3, <1>4, <1>5
  <1>7. ASSUME NEW i \in 1..Len(h), NEW j \in 1..Len(h), h[i].id = h[j].id PROVE i = j
    <2>1. ids[Len(x) + i] = ids[Len(x) + j] /\ Len(x) + i \in DOMAIN ids /\ Len(x) + j \in DOMAIN ids
      BY <1>6, <1>7
    <2>2. Len(x) + i = Len(x) + j
      BY <1>2, <2>1 DEF IsInjective
    <2>3. QED
      BY <1>5, <2>2
  <1>8. QED
    BY <1>7 DEF h

\* The email of a hub's link tells the hub.
LEMMA EmailTellsHub ==
    ASSUME NEW ns, NEW h, NEW g, NEW x, IsSeq(h), IsSeq(g), IsSeq(x), HubExitEmail(ns, h, x) = HubExitEmail(ns, g, x)
    PROVE  h = g
  <1> DEFINE dash == <<"-">>
             a == h \o dash
             b == g \o dash
  <1>1. IsSeq(dash)
    BY OneIsSeq
  <1>2. a \o x = b \o x
    BY DEF HubExitEmail, Email
  <1> HIDE DEF dash
  <1>3. IsSeq(a) /\ IsSeq(b)
    BY <1>1, Concatenation
  <1>4. (h \o dash = g \o dash) => h = g
    BY <1>1, CancelSuffix
  <1> HIDE DEF a, b
  <1>5. a = b
    BY <1>2, <1>3, CancelSuffix
  <1>6. QED
    BY <1>4, <1>5 DEF a, b

\* So an exit has every hub once, by email and by id.
LEMMA ExitDiffer ==
    ASSUME NEW e, WellFormed(e.t), Loads(e.t), IsSeq(e.n.id), NEW flow
    PROVE  Differ(ExitClients(e, flow), "id") /\ Differ(ExitClients(e, flow), "email")
  <1> DEFINE s == Nodes(e.t, "hub")
             Of(h) == Client(HubExitEmail(e.t.ns, h.id, e.n.id), HubExitUuid(e.t.ns, h.id, e.n.id), flow)
             q == [i \in DOMAIN s |-> Of(s[i])]
             f == [i \in DOMAIN s |-> <<Of(s[i])>>]
  <1>1. IsSeq(s) /\ DOMAIN s = 1..Len(s) /\ Len(s) \in Nat /\ \A i \in 1..Len(s) : IsSeq(s[i].id)
    BY NodeElements, NodeIds, SeqFacts, Elements
  <1>2. ExitClients(e, flow) = FlattenSeq(f)
    BY DEF ExitClients, SeqConcat
  <1>3. \A h : Of(h).email = HubExitEmail(e.t.ns, h.id, e.n.id) /\ Of(h).id = HubExitUuid(e.t.ns, h.id, e.n.id)
    BY DEF Client
  <1>4. \A i, j \in 1..Len(s) : s[i].id = s[j].id => i = j
    BY HubIdsDiffer
  <1> HIDE DEF Of, s
  <1>5. q = [i \in 1..Len(s) |-> q[i]] /\ \A i \in 1..Len(s) : q[i] = Of(s[i])
    BY <1>1
  <1>6. f = [i \in 1..Len(s) |-> f[i]] /\ \A i \in 1..Len(s) : f[i] = <<Of(s[i])>>
    BY <1>1
  <1> HIDE DEF f, q
  <1>7. IsSeq(q) /\ Len(q) = Len(s) /\ DOMAIN q = 1..Len(s)
    BY <1>1, <1>5, FunctionIsSeq, SeqFacts
  <1>8. \A i \in 1..Len(q) : f[i] = <<q[i]>>
    BY <1>5, <1>6, <1>7
  <1>9. IsMap(f, q)
    BY <1>6, <1>7, <1>8, OneIsSeq DEF IsMap
  <1>10. ExitClients(e, flow) = q
    BY <1>2, <1>7, <1>8, <1>9, FilterAll
  <1>11. \A i, j \in 1..Len(s) : HubExitEmail(e.t.ns, s[i].id, e.n.id) = HubExitEmail(e.t.ns, s[j].id, e.n.id) => i = j
    BY <1>1, <1>4, EmailTellsHub
  <1>12. \A i, j \in 1..Len(s) : HubExitUuid(e.t.ns, s[i].id, e.n.id) = HubExitUuid(e.t.ns, s[j].id, e.n.id) => i = j
    BY <1>11, OneIdOneEmail DEF SameId
  <1>13. Differ(q, "email")
    <2> DEFINE g == [i \in DOMAIN q |-> q[i]["email"]]
    <2>1. DOMAIN g = 1..Len(s) /\ \A i \in 1..Len(s) : g[i] = HubExitEmail(e.t.ns, s[i].id, e.n.id)
      BY <1>3, <1>5, <1>7
    <2> HIDE DEF g
    <2>2. IsInjective(g)
      BY <1>11, <2>1 DEF IsInjective
    <2>3. QED
      BY <2>2 DEF g, Differ
  <1>14. Differ(q, "id")
    <2> DEFINE g == [i \in DOMAIN q |-> q[i]["id"]]
    <2>1. DOMAIN g = 1..Len(s) /\ \A i \in 1..Len(s) : g[i] = HubExitUuid(e.t.ns, s[i].id, e.n.id)
      BY <1>3, <1>5, <1>7
    <2> HIDE DEF g
    <2>2. IsInjective(g)
      BY <1>12, <2>1 DEF IsInjective
    <2>3. QED
      BY <2>2 DEF g, Differ
  <1>15. QED
    BY <1>10, <1>13, <1>14

-----------------------------------------------------------------------------
(* The inbounds.                                                           *)

\* Those of the six that the node has.
LEMMA InboundsAre ==
    ASSUME NEW e
    PROVE  \A in : in \in ToSet(Inbounds(e)) <=>
              in # Unset /\ in \in {Direct(e), Cdn(e), Proxy(e), XdnsInbound(e), WireguardInbound(e), HysteriaInbound(e)}
  <1> DEFINE s == <<Direct(e), Cdn(e), Proxy(e), XdnsInbound(e), WireguardInbound(e), HysteriaInbound(e)>>
             f == [i \in DOMAIN s |-> IF s[i] # Unset THEN <<s[i]>> ELSE <<>>]
             S == {Direct(e), Cdn(e), Proxy(e), XdnsInbound(e), WireguardInbound(e), HysteriaInbound(e)}
  <1>1. IsSeq(s) /\ ToSet(s) = S
    BY SixIsSeq
  <1>2. Inbounds(e) = FlattenSeq(f)
    BY DEF Inbounds, Where, SeqConcat
  <1>3. \A i \in DOMAIN s : f[i] = IF s[i] # Unset THEN <<s[i]>> ELSE <<>>
    OBVIOUS
  <1>4. f = [i \in DOMAIN s |-> f[i]]
    OBVIOUS
  <1>5. \A x : x \in ToSet(s) <=> \E i \in DOMAIN s : x = s[i]
    BY DEF ToSet
  <1> HIDE DEF s, f, S
  <1>6. \A i \in DOMAIN s : IsSeq(f[i]) /\ ToSet(f[i]) = IF s[i] # Unset THEN {s[i]} ELSE {}
    BY <1>3, OneIsSeq, EmptyIsSeq
  <1>7. \A x : x \in ToSet(FlattenSeq(f)) <=> \E i \in DOMAIN s : x \in ToSet(f[i])
    BY <1>1, <1>4, <1>6, OfTheUsers
  <1>8. \A x : x \in ToSet(FlattenSeq(f)) <=> x # Unset /\ x \in S
    <2>1. ASSUME NEW x, NEW i \in DOMAIN s, x \in ToSet(f[i]) PROVE x # Unset /\ x \in S
      BY <1>1, <1>5, <1>6, <2>1
    <2>2. ASSUME NEW x \in S, x # Unset PROVE \E i \in DOMAIN s : x \in ToSet(f[i])
      <3>1. PICK i \in DOMAIN s : x = s[i]
        BY <1>1, <1>5
      <3>2. ToSet(f[i]) = {x}
        BY <1>6, <2>2, <3>1
      <3>3. QED
        BY <3>2
    <2>3. QED
      BY <1>7, <2>1, <2>2
  <1>9. QED
    BY <1>2, <1>8 DEF S

\* The peers of the WireGuard inbound: the key is the identity's, the address
\* the place's.
LEMMA PeersDiffer ==
    ASSUME NEW p, IsSeq(p), Differ(p, "id"), Differ(p, "email"), NEW pair, NEW subnet, NEW q,
           q = [i \in DOMAIN p |-> [email |-> p[i].email, key |-> PeerKey(pair, p[i].id), address |-> Address(subnet, i)]]
    PROVE  Differ(q, "email") /\ Differ(q, "key") /\ Differ(q, "address")
  <1>1. DOMAIN p = 1..Len(p) /\ Len(p) \in Nat
    BY SeqFacts
  <1>2. /\ \A i, j \in 1..Len(p) : p[i].id = p[j].id => i = j
        /\ \A i, j \in 1..Len(p) : p[i].email = p[j].email => i = j
    BY <1>1 DEF Differ, IsInjective
  <1>3. DOMAIN q = 1..Len(p) /\ \A i \in 1..Len(p) : /\ q[i].email = p[i].email /\ q[i].key = PeerKey(pair, p[i].id)
                                                   /\ q[i].address = Address(subnet, i)
    BY <1>1
  <1>4. \A a, b : PeerKey(pair, a) = PeerKey(pair, b) => a = b
    BY DEF PeerKey
  <1>5. \A i, j \in 1..Len(p) : Address(subnet, i) = Address(subnet, j) => i = j
    BY <1>1 DEF Address
  <1>6. Differ(q, "email")
    BY <1>2, <1>3 DEF Differ, IsInjective
  <1>7. Differ(q, "key")
    BY <1>2, <1>3, <1>4 DEF Differ, IsInjective
  <1>8. Differ(q, "address")
    BY <1>3, <1>5 DEF Differ, IsInjective
  <1>9. QED
    BY <1>6, <1>7, <1>8

\* Each inbound of a node lists its clients once.
LEMMA InboundDistinct ==
    ASSUME NEW e, WellFormed(e.t), Loads(e.t), NamespaceFree(e.t), IsSeq(e.n.id), NEW in \in ToSet(Inbounds(e))
    PROVE  Distinct(in)
  <1>1. IdsApart(e.t)
    BY NoCollisionsApart DEF Loads
  <1>2. ASSUME NEW s, NEW i, i.kind # "wireguard", i.clients = s, Differ(s, "id"), Differ(s, "email") PROVE Distinct(i)
    BY <1>2 DEF Distinct
  <1>3. \A flow : Differ(ExitClients(e, flow), "id") /\ Differ(ExitClients(e, flow), "email")
    BY ExitDiffer
  <1>4. \A type, flow : \A server \in BOOLEAN : LET s == AccessClients(e.t, type, flow, server)
                                                IN  /\ Differ(s, "id") /\ Differ(s, "email")
                                                    /\ Differ(s \o PortalClients(e.t, flow), "id")
                                                    /\ Differ(s \o PortalClients(e.t, flow), "email")
    BY <1>1, AccessByUsers, AloneDiffer, WithPortalsDiffer
  <1>5. \A flow : LET s == VlessClients(e.t, flow)
                  IN  /\ Differ(s \o PortalClients(e.t, flow), "id") /\ Differ(s \o PortalClients(e.t, flow), "email")
    BY <1>1, VlessByUsers, WithPortalsDiffer
  <1>6. CASE in = Direct(e)
    <2> DEFINE flow == e.key.enc
    <2>1. in.kind # "wireguard"
          /\ in.clients \in {ExitClients(e, flow), AccessClients(e.t, "tls", flow, TRUE) \o PortalClients(e.t, flow),
                             VlessClients(e.t, flow) \o PortalClients(e.t, flow)}
      BY <1>6 DEF Direct
    <2> HIDE DEF flow
    <2>2. QED
      BY <1>2, <1>3, <1>4, <1>5, <2>1
  <1>7. CASE in = Cdn(e) /\ in # Unset
    <2>1. in.kind # "wireguard" /\ in.clients \in {ExitClients(e, e.key.enc), AccessClients(e.t, "cdn", e.key.enc, TRUE)}
      BY <1>7 DEF Cdn
    <2>2. QED
      BY <1>2, <1>3, <1>4, <2>1
  <1>8. CASE in = Proxy(e) /\ in # Unset
    <2>1. in.kind # "wireguard" /\ in.clients = ProxyClients(e.t)
      BY <1>8 DEF Proxy, ProxyClients, ProxyPart, SeqConcat
    <2>2. QED
      BY <1>1, <1>2, <2>1, ProxyByUsers, AloneDiffer
  <1>9. CASE in = XdnsInbound(e) /\ in # Unset
    <2>1. in.kind # "wireguard" /\ in.clients = AccessClients(e.t, "xdns", FALSE, FALSE)
      BY <1>9 DEF XdnsInbound
    <2>2. QED
      BY <1>2, <1>4, <2>1
  <1>10. CASE in = WireguardInbound(e) /\ in # Unset
    <2> DEFINE p == Peers(e.t)
               subnet == Wireguard(e.t, e.n).subnet
    <2>1. in.kind = "wireguard"
          /\ in.peers = [i \in DOMAIN p |-> [email |-> p[i].email, key |-> PeerKey(e.key.pair, p[i].id), address |-> Address(subnet, i)]]
      BY <1>10 DEF WireguardInbound
    <2>2. IsSeq(p) /\ Differ(p, "id") /\ Differ(p, "email")
      BY <1>1, PeersByUsers, AloneDiffer DEF ByUsers
    <2> HIDE DEF p, subnet
    <2>3. Differ(in.peers, "email") /\ Differ(in.peers, "key") /\ Differ(in.peers, "address")
      BY <2>1, <2>2, PeersDiffer
    <2>4. QED
      BY <2>1, <2>3 DEF Distinct
  <1>11. CASE in = HysteriaInbound(e) /\ in # Unset
    <2>1. in.kind # "wireguard" /\ in.clients \in {ExitClients(e, FALSE), AccessClients(e.t, "hysteria", FALSE, TRUE)}
      BY <1>11 DEF HysteriaInbound, HysteriaListener, HysteriaClients
    <2>2. QED
      BY <1>2, <1>3, <1>4, <2>1
  <1>12. QED
    BY <1>6, <1>7, <1>8, <1>9, <1>10, <1>11, InboundsAre

\* What the listed inbounds are of: a file that loads, on a node it declares.
LEMMA EditedEnv ==
    ASSUME NEW x \in Loadable, NEW g, NEW s, s = [topo |-> x, gen |-> g], NEW n \in Declared(s), NEW e, e = EnvAt(s, n)
    PROVE  /\ e.t = Topo[x] /\ WellFormed(e.t) /\ Loads(e.t) /\ IsSeq(e.n.id) /\ x \in DOMAIN Topo
           /\ \E pl \in AllPlaces(e.t) : e.r = pl.r /\ e.n = pl.n
  <1>1. s.topo = x /\ x \in DOMAIN Topo /\ Loads(Topo[x]) /\ WellFormed(Topo[x])
    BY FieldsAssumption DEF Loadable
  <1>2. PlaceIn(s, n) \in AllPlaces(Topo[x]) /\ e.t = Topo[x] /\ e.r = PlaceIn(s, n).r /\ e.n = PlaceIn(s, n).n
    BY <1>1, EnvFields
  <1>3. QED
    BY <1>1, <1>2, NodeIds

\* No edit changes the file to one that does not load.
LEMMA EditsLoad == [Next]_vars => topo' = topo \/ topo' \in Loadable
  BY DEF Next, vars, Edit, Rotate, Build, Share, GenPortal

\* If no file has a namespace equal to a username, an inbound of any node lists
\* every client once, by email and by id, and every peer by email, key and
\* address, whatever edit of the file is accepted: the check for collisions and
\* the unique names and ids are enough (check_identity_collisions against the
\* clients of fragment).
THEOREM EveryClientOnce == ASSUME NamespaceApart PROVE Spec => ClientsDistinct
  <1>1. ASSUME [Next]_vars, NEW x \in DOMAIN Topo, x # topo, x = topo',
               NEW s, s = [topo |-> x, gen |-> gen], NEW n \in Declared(s), NEW in \in ToSet(Inbounds(EnvAt(s, n)))
        PROVE  Distinct(in)
    <2>1. x \in Loadable
      BY <1>1, EditsLoad
    <2> DEFINE e == EnvAt(s, n)
    <2>2. e.t = Topo[x] /\ WellFormed(e.t) /\ Loads(e.t) /\ IsSeq(e.n.id)
      BY <1>1, <2>1, EditedEnv
    <2>3. NamespaceFree(e.t)
      BY <2>2 DEF NamespaceApart
    <2>4. in \in ToSet(Inbounds(e))
      BY <1>1
    <2> HIDE DEF e
    <2>5. QED
      BY <2>2, <2>3, <2>4, InboundDistinct
  <1>2. [Next]_vars =>
            [\A x \in DOMAIN Topo : (x # topo /\ x = topo') =>
                LET s == [topo |-> x, gen |-> gen]
                IN  \A n \in Declared(s) : \A in \in ToSet(Inbounds(EnvAt(s, n))) : Distinct(in)]_vars
    BY <1>1
  <1>3. QED
    BY <1>2, PTL DEF Spec, ClientsDistinct

\* A sequence that is not empty has an element.
LEMMA SomeElement ==
    ASSUME NEW s, IsSeq(s), s # <<>>
    PROVE  \E c : c \in ToSet(s)
  <1>1. Len(s) \in Nat /\ \A i \in 1..Len(s) : s[i] \in ToSet(s)
    BY SeqFacts, Elements
  <1>2. CASE Len(s) = 0
    BY <1>2, EmptyIsSeq, SeqEquality
  <1>3. CASE Len(s) # 0
    BY <1>1, <1>3
  <1>4. QED
    BY <1>2, <1>3

\* The port of a node's WireGuard settings.
LEMMA WireguardPorts ==
    ASSUME NEW t, WellFormed(t), NEW n, Wireguard(t, n) # Unset
    PROVE  WireguardPort(t, n) # Unset /\ Wireguard(t, n).port = WireguardPort(t, n)
  <1> DEFINE b == Or(t.hub.wireguard, [port |-> 443, subnet |-> Unset])
             o == Overlay(b, n.wireguard)
             p == WireguardPort(t, n)
  <1>1. p # Unset /\ Wireguard(t, n) = [o EXCEPT !.port = p]
    BY DEF Wireguard
  <1>2. "port" \in DOMAIN b
    BY DEF WellFormed, Or
  <1> HIDE DEF b, p
  <1>3. "port" \in DOMAIN o
    BY <1>2 DEF Overlay
  <1> HIDE DEF o
  <1>4. [o EXCEPT !.port = p].port = p
    BY <1>3
  <1>5. QED
    BY <1>1, <1>4 DEF p

-----------------------------------------------------------------------------
(* The sockets that the check of a node counts.                            *)

ClaimHysteria(t, r, n) ==
    IF Hysteria(t, r, n) # Unset /\ (r.type = "hub" => Somebody(t, "hysteria"))
    THEN <<<<Hysteria(t, r, n).port, "udp">>>> ELSE <<>>
ClaimProxy(t, r, n) == IF r.type = "hub" /\ ProxyInbound(t, n) THEN <<<<80, "tcp">>>> ELSE <<>>
ClaimXdns(t, r, n) ==
    IF r.type = "hub" /\ Xdns(t, n) # Unset /\ Somebody(t, "xdns") THEN <<<<Xdns(t, n).port, "udp">>>> ELSE <<>>
ClaimWireguard(t, r, n) ==
    IF r.type = "hub" /\ WireguardPort(t, n) # Unset /\ Somebody(t, "wireguard")
    THEN <<<<WireguardPort(t, n), "udp">>>> ELSE <<>>
ClaimMetrics(t, r, n) ==
    IF Metrics(t, r, n).enabled THEN <<<<Metrics(t, r, n).port, "tcp">>>> ELSE <<>>

\* When the check passes they differ.
LEMMA ReservedApart ==
    ASSUME NEW t, NEW r, NEW n, IsInjective(Reserved(t, r, n))
    PROVE  LET H == ToSet(ClaimHysteria(t, r, n))
               P == ToSet(ClaimProxy(t, r, n))
               X == ToSet(ClaimXdns(t, r, n))
               W == ToSet(ClaimWireguard(t, r, n))
               M == ToSet(ClaimMetrics(t, r, n))
           IN  /\ Direct443 \notin M
               /\ \A x \in H, y \in X \cup W : x # y
               /\ \A x \in P, y \in M : x # y
               /\ \A x \in X, y \in W : x # y
               /\ {Direct443} \cup H \cup P \cup X \cup W \cup M \subseteq ToSet(Reserved(t, r, n))
  <1> DEFINE d == <<Direct443>>
             h == ClaimHysteria(t, r, n)
             p == ClaimProxy(t, r, n)
             x == ClaimXdns(t, r, n)
             w == ClaimWireguard(t, r, n)
             m == ClaimMetrics(t, r, n)
  <1>1. Reserved(t, r, n) = d \o h \o p \o x \o w \o m
    BY DEF Reserved, ClaimHysteria, ClaimProxy, ClaimXdns, ClaimWireguard, ClaimMetrics
  <1>2. IsSeq(d) /\ ToSet(d) = {Direct443}
    BY OneIsSeq
  <1>3. IsSeq(h) /\ IsSeq(p) /\ IsSeq(x) /\ IsSeq(w) /\ IsSeq(m)
    BY OneIsSeq, EmptyIsSeq DEF ClaimHysteria, ClaimProxy, ClaimXdns, ClaimWireguard, ClaimMetrics
  <1> HIDE DEF d, h, p, x, w, m
  <1>4. IsInjective(d \o h \o p \o x \o w \o m)
    BY <1>1
  <1>5. /\ \A a \in ToSet(d), b \in ToSet(m) : a # b
        /\ \A a \in ToSet(h), b \in ToSet(x) \cup ToSet(w) : a # b
        /\ \A a \in ToSet(p), b \in ToSet(m) : a # b
        /\ \A a \in ToSet(x), b \in ToSet(w) : a # b
        /\ ToSet(Reserved(t, r, n)) = ToSet(d) \cup ToSet(h) \cup ToSet(p) \cup ToSet(x) \cup ToSet(w) \cup ToSet(m)
    BY <1>1, <1>2, <1>3, <1>4, SixInARow
  <1>6. QED
    BY <1>2, <1>5 DEF h, p, x, w, m

\* What the inbounds listen on is counted, unless it is local.
LEMMA SocketsAre ==
    ASSUME NEW e, WellFormed(e.t), e.r.type \in {"exit", "hub"}
    PROVE  /\ SocketOf(e, Direct(e)) = IF Haproxy(e.t, e.r, e.n) THEN <<0, "xhttp">> ELSE Direct443
           /\ Cdn(e) # Unset => SocketOf(e, Cdn(e)) = <<0, "cdn">>
           /\ Proxy(e) # Unset => SocketOf(e, Proxy(e)) = <<80, "tcp">> /\ <<80, "tcp">> \in ToSet(ClaimProxy(e.t, e.r, e.n))
           /\ XdnsInbound(e) # Unset => SocketOf(e, XdnsInbound(e)) \in ToSet(ClaimXdns(e.t, e.r, e.n))
           /\ WireguardInbound(e) # Unset => SocketOf(e, WireguardInbound(e)) \in ToSet(ClaimWireguard(e.t, e.r, e.n))
           /\ HysteriaInbound(e) # Unset => SocketOf(e, HysteriaInbound(e)) \in ToSet(ClaimHysteria(e.t, e.r, e.n))
  <1>1. \A x : x \in ToSet(<<x>>)
    BY OneIsSeq
  <1>2. SocketOf(e, Direct(e)) = IF Haproxy(e.t, e.r, e.n) THEN <<0, "xhttp">> ELSE Direct443
    <2>1. Direct(e).kind = "xhttp"
      BY DEF Direct
    <2>2. QED
      BY <2>1 DEF SocketOf
  <1>3. ASSUME Cdn(e) # Unset PROVE SocketOf(e, Cdn(e)) = <<0, "cdn">>
    BY <1>3 DEF SocketOf, Cdn
  <1>4. ASSUME Proxy(e) # Unset
        PROVE  SocketOf(e, Proxy(e)) = <<80, "tcp">> /\ <<80, "tcp">> \in ToSet(ClaimProxy(e.t, e.r, e.n))
    BY <1>1, <1>4 DEF SocketOf, Proxy, ClaimProxy
  <1>5. \A type, flow : \A server \in BOOLEAN : AccessClients(e.t, type, flow, server) # <<>> => Somebody(e.t, type)
    <2>1. ASSUME NEW type, NEW flow, NEW server \in BOOLEAN, AccessClients(e.t, type, flow, server) # <<>>
          PROVE  Somebody(e.t, type)
      <3> DEFINE s == AccessClients(e.t, type, flow, server)
      <3>1. IsSeq(s) /\ s # <<>> /\ \A c \in ToSet(s) : \E u \in ToSet(e.t.users) : type \in u.access
        BY <2>1, AccessClientsAre DEF InAccess
      <3> HIDE DEF s
      <3>2. \E c : c \in ToSet(s)
        BY <3>1, SomeElement
      <3>3. QED
        BY <3>1, <3>2 DEF Somebody
    <2>2. QED
      BY <2>1
  <1>6. Peers(e.t) # <<>> => Somebody(e.t, "wireguard")
    <2> DEFINE s == Peers(e.t)
    <2>1. IsSeq(s) /\ \A c \in ToSet(s) : \E u \in ToSet(e.t.users) : "wireguard" \in u.access
      BY PeersAre DEF InPeers
    <2> HIDE DEF s
    <2>2. s # <<>> => \E c : c \in ToSet(s)
      BY <2>1, SomeElement
    <2>3. QED
      BY <2>1, <2>2 DEF Somebody, s
  <1>7. ASSUME XdnsInbound(e) # Unset PROVE SocketOf(e, XdnsInbound(e)) \in ToSet(ClaimXdns(e.t, e.r, e.n))
    <2>1. e.r.type = "hub" /\ Xdns(e.t, e.n) # Unset /\ AccessClients(e.t, "xdns", FALSE, FALSE) # <<>>
          /\ XdnsInbound(e).kind = "xdns" /\ XdnsInbound(e).port = Xdns(e.t, e.n).port
      BY <1>7 DEF XdnsInbound
    <2>2. SocketOf(e, XdnsInbound(e)) = <<Xdns(e.t, e.n).port, "udp">>
      BY <2>1 DEF SocketOf
    <2>3. Somebody(e.t, "xdns")
      BY <1>5, <2>1
    <2>4. QED
      BY <1>1, <2>1, <2>2, <2>3 DEF ClaimXdns
  <1>8. ASSUME WireguardInbound(e) # Unset
        PROVE  SocketOf(e, WireguardInbound(e)) \in ToSet(ClaimWireguard(e.t, e.r, e.n))
    <2>1. e.r.type = "hub" /\ Wireguard(e.t, e.n) # Unset /\ Peers(e.t) # <<>>
          /\ WireguardInbound(e).kind = "wireguard" /\ WireguardInbound(e).port = Wireguard(e.t, e.n).port
      BY <1>8 DEF WireguardInbound
    <2>2. WireguardPort(e.t, e.n) # Unset /\ Wireguard(e.t, e.n).port = WireguardPort(e.t, e.n)
      BY <2>1, WireguardPorts
    <2>3. SocketOf(e, WireguardInbound(e)) = <<WireguardPort(e.t, e.n), "udp">>
      BY <2>1, <2>2 DEF SocketOf
    <2>4. QED
      BY <1>1, <1>6, <2>1, <2>2, <2>3 DEF ClaimWireguard
  <1>9. ASSUME HysteriaInbound(e) # Unset PROVE SocketOf(e, HysteriaInbound(e)) \in ToSet(ClaimHysteria(e.t, e.r, e.n))
    <2>1. Hysteria(e.t, e.r, e.n) # Unset /\ HysteriaClients(e) # <<>> /\ HysteriaInbound(e) = HysteriaListener(e)
      BY <1>9 DEF HysteriaInbound
    <2>2. HysteriaListener(e).kind = "hysteria" /\ HysteriaListener(e).port = Hysteria(e.t, e.r, e.n).port
      BY DEF HysteriaListener
    <2>3. SocketOf(e, HysteriaInbound(e)) = <<Hysteria(e.t, e.r, e.n).port, "udp">>
      BY <2>1, <2>2 DEF SocketOf
    <2>4. e.r.type = "hub" => Somebody(e.t, "hysteria")
      BY <1>5, <2>1 DEF HysteriaClients
    <2>5. QED
      BY <1>1, <2>1, <2>3, <2>4 DEF ClaimHysteria
  <1>10. QED
    BY <1>2, <1>3, <1>4, <1>7, <1>8, <1>9

\* The nets that claims are for.
LEMMA ClaimNets ==
    ASSUME NEW t, NEW r, NEW n
    PROVE  /\ \A x \in ToSet(ClaimHysteria(t, r, n)) \cup ToSet(ClaimXdns(t, r, n)) \cup ToSet(ClaimWireguard(t, r, n)) : x[2] = "udp"
           /\ \A x \in ToSet(ClaimMetrics(t, r, n)) : x[2] = "tcp"
  <1>1. ToSet(<<>>) = {} /\ \A x : ToSet(<<x>>) = {x}
    BY OneIsSeq, EmptyIsSeq
  <1>2. \A x \in ToSet(ClaimHysteria(t, r, n)) : x[2] = "udp"
    BY <1>1 DEF ClaimHysteria
  <1>3. \A x \in ToSet(ClaimXdns(t, r, n)) : x[2] = "udp"
    BY <1>1 DEF ClaimXdns
  <1>4. \A x \in ToSet(ClaimWireguard(t, r, n)) : x[2] = "udp"
    BY <1>1 DEF ClaimWireguard
  <1>5. \A x \in ToSet(ClaimMetrics(t, r, n)) : x[2] = "tcp"
    BY <1>1 DEF ClaimMetrics
  <1>6. QED
    BY <1>2, <1>3, <1>4, <1>5

\* Two inbounds of a node never have one socket.
LEMMA InboundSocketsDiffer ==
    ASSUME NEW e, WellFormed(e.t), e.r.type \in {"exit", "hub"}, IsInjective(Reserved(e.t, e.r, e.n)),
           NEW s, s = <<Direct(e), Cdn(e), Proxy(e), XdnsInbound(e), WireguardInbound(e), HysteriaInbound(e)>>,
           NEW i \in 1..6, NEW j \in 1..6, i < j, s[i] # Unset, s[j] # Unset
    PROVE  SocketOf(e, s[i]) # SocketOf(e, s[j])
  <1> DEFINE H == ToSet(ClaimHysteria(e.t, e.r, e.n))
             X == ToSet(ClaimXdns(e.t, e.r, e.n))
             W == ToSet(ClaimWireguard(e.t, e.r, e.n))
             so(k) == SocketOf(e, s[k])
  <1>1. s[1] = Direct(e) /\ s[2] = Cdn(e) /\ s[3] = Proxy(e) /\ s[4] = XdnsInbound(e) /\ s[5] = WireguardInbound(e)
        /\ s[6] = HysteriaInbound(e)
    BY SixIsSeq
  <1>2. /\ \A x \in H, y \in X \cup W : x # y
        /\ \A x \in X, y \in W : x # y
    BY ReservedApart
  <1>3. \A x \in H \cup X \cup W : x[2] = "udp"
    BY ClaimNets
  <1>4. /\ so(1) = <<443, "tcp">> \/ so(1) = <<0, "xhttp">>
        /\ s[2] # Unset => so(2) = <<0, "cdn">>
        /\ s[3] # Unset => so(3) = <<80, "tcp">>
        /\ s[4] # Unset => so(4) \in X
        /\ s[5] # Unset => so(5) \in W
        /\ s[6] # Unset => so(6) \in H
    BY <1>1, SocketsAre DEF Direct443
  <1> HIDE DEF H, X, W, so
  <1>5. /\ so(1)[2] \in {"tcp", "xhttp"} /\ so(1) # <<80, "tcp">>
        /\ s[2] # Unset => so(2)[2] = "cdn"
        /\ s[3] # Unset => so(3)[2] = "tcp" /\ so(3) = <<80, "tcp">>
        /\ s[4] # Unset => so(4)[2] = "udp"
        /\ s[5] # Unset => so(5)[2] = "udp"
        /\ s[6] # Unset => so(6)[2] = "udp"
    BY <1>3, <1>4
  <1>6. CASE i = 1
    <2>1. j = 2 \/ j = 3 \/ j = 4 \/ j = 5 \/ j = 6
      BY <1>6
    <2>2. QED
      BY <1>5, <1>6, <2>1 DEF so
  <1>7. CASE i = 2
    <2>1. j = 3 \/ j = 4 \/ j = 5 \/ j = 6
      BY <1>7
    <2>2. QED
      BY <1>5, <1>7, <2>1 DEF so
  <1>8. CASE i = 3
    <2>1. j = 4 \/ j = 5 \/ j = 6
      BY <1>8
    <2>2. QED
      BY <1>5, <1>8, <2>1 DEF so
  <1>9. CASE i = 4 \/ i = 5
    <2>1. (i = 4 /\ j = 5) \/ (i = 4 /\ j = 6) \/ (i = 5 /\ j = 6)
      BY <1>9
    <2>2. QED
      BY <1>2, <1>4, <2>1 DEF so
  <1>10. QED
    BY <1>6, <1>7, <1>8, <1>9

\* Of the list of inbounds, pairs with one socket.
OneSocket(e, S) == {p \in S \X S : SocketOf(e, p[1]) = SocketOf(e, p[2])}

\* No two inbounds of a node have one socket.
LEMMA InboundsFree ==
    ASSUME NEW e, WellFormed(e.t), e.r.type \in {"exit", "hub"}, IsInjective(Reserved(e.t, e.r, e.n))
    PROVE  IsSeq(Inbounds(e)) /\ Free(Inbounds(e), OneSocket(e, ToSet(Inbounds(e))))
  <1> DEFINE s == <<Direct(e), Cdn(e), Proxy(e), XdnsInbound(e), WireguardInbound(e), HysteriaInbound(e)>>
             f == [i \in DOMAIN s |-> IF s[i] # Unset THEN <<s[i]>> ELSE <<>>]
             S == ToSet(Inbounds(e))
             R == OneSocket(e, S)
  <1>1. IsSeq(s) /\ Len(s) = 6 /\ DOMAIN s = 1..6
    BY SixIsSeq, SeqFacts
  <1>2. Inbounds(e) = FlattenSeq(f)
    BY DEF Inbounds, Where, SeqConcat
  <1>3. \A i \in 1..6 : f[i] = IF s[i] # Unset THEN <<s[i]>> ELSE <<>>
    BY <1>1
  <1>4. f = [i \in 1..6 |-> f[i]] /\ f = [i \in DOMAIN s |-> f[i]]
    BY <1>1
  <1>5. \A i, j \in 1..6 : (i < j /\ s[i] # Unset /\ s[j] # Unset) => SocketOf(e, s[i]) # SocketOf(e, s[j])
    BY InboundSocketsDiffer
  <1>6. \A x \in S, y \in S : <<x, y>> \in R <=> SocketOf(e, x) = SocketOf(e, y)
    BY DEF OneSocket
  <1> HIDE DEF s, f, R
  <1>7. \A i \in 1..6 : IsSeq(f[i]) /\ Free(f[i], R) /\ ToSet(f[i]) = IF s[i] # Unset THEN {s[i]} ELSE {}
    <2>1. ASSUME NEW i \in 1..6, s[i] # Unset PROVE IsSeq(f[i]) /\ Free(f[i], R) /\ ToSet(f[i]) = {s[i]}
      <3>1. f[i] = <<s[i]>>
        BY <1>3, <2>1
      <3>2. QED
        BY <3>1, OneIsSeq, FreeOne
    <2>2. ASSUME NEW i \in 1..6, s[i] = Unset PROVE IsSeq(f[i]) /\ Free(f[i], R) /\ ToSet(f[i]) = {}
      <3>1. f[i] = <<>>
        BY <1>3, <2>2
      <3>2. QED
        BY <3>1, EmptyIsSeq, FreeOne
    <2>3. QED
      BY <2>1, <2>2
  <1>8. IsSeq(f) /\ Len(f) = 6
    BY <1>4, FunctionIsSeq
  <1>9. IsSeq(FlattenSeq(f)) /\ \A x : x \in ToSet(FlattenSeq(f)) <=> \E i \in DOMAIN s : x \in ToSet(f[i])
    BY <1>1, <1>4, <1>7, OfTheUsers
  <1>10. \A i \in 1..6 : ToSet(f[i]) \subseteq S
    BY <1>1, <1>2, <1>9
  <1>11. \A i, j \in 1..6 : i < j => Clear(f[i], f[j], R)
    <2> HIDE DEF S
    <2>1. ASSUME NEW i \in 1..6, NEW j \in 1..6, i < j, NEW x \in ToSet(f[i]), NEW y \in ToSet(f[j])
          PROVE  <<x, y>> \notin R /\ <<y, x>> \notin R
      <3>1. s[i] # Unset /\ x = s[i] /\ s[j] # Unset /\ y = s[j]
        BY <1>7, <2>1
      <3>2. SocketOf(e, x) # SocketOf(e, y) /\ x \in S /\ y \in S
        BY <1>5, <1>10, <2>1, <3>1
      <3>3. QED
        BY <1>6, <3>2
    <2>2. QED
      BY <2>1 DEF Clear
  <1>12. Free(FlattenSeq(f), R)
    BY <1>7, <1>8, <1>11, FreeFlatten
  <1>13. QED
    BY <1>2, <1>9, <1>12 DEF R

\* The ports published on a node: the nets of each are tcp, udp or both.
Kept(n, p) == Where(p.publish, LAMBDA x : x.nodes = Unset \/ n.id \in x.nodes)

\* They are among the portal's.
LEMMA KeptAre ==
    ASSUME NEW n, NEW p, IsSeq(p.publish)
    PROVE  IsSeq(Kept(n, p)) /\ \A x \in ToSet(Kept(n, p)) : x \in ToSet(p.publish)
  <1> DEFINE s == p.publish
             f == [i \in DOMAIN s |-> IF s[i].nodes = Unset \/ n.id \in s[i].nodes THEN <<s[i]>> ELSE <<>>]
  <1>1. IsSeq(s) /\ \A i \in DOMAIN s : s[i] \in ToSet(s)
    BY DEF ToSet
  <1>2. Kept(n, p) = FlattenSeq(f)
    BY DEF Kept, Where, SeqConcat
  <1>3. f = [i \in DOMAIN s |-> f[i]] /\ \A i \in DOMAIN s : f[i] \in {<<s[i]>>, <<>>}
    OBVIOUS
  <1> HIDE DEF f, s
  <1>4. \A i \in DOMAIN s : IsSeq(f[i]) /\ \A x \in ToSet(f[i]) : x = s[i]
    BY <1>3, OneIsSeq, EmptyIsSeq
  <1>5. IsSeq(FlattenSeq(f)) /\ \A x : x \in ToSet(FlattenSeq(f)) <=> \E i \in DOMAIN s : x \in ToSet(f[i])
    BY <1>1, <1>3, <1>4, OfTheUsers
  <1>6. QED
    BY <1>1, <1>2, <1>4, <1>5 DEF s

\* The ports published on a node are of tcp, udp or both.
LEMMA PublishesAre ==
    ASSUME NEW t, WellFormed(t), NEW n
    PROVE  IsSeq(Publishes(t, n)) /\ \A x \in ToSet(Publishes(t, n)) : x.network \subseteq {"tcp", "udp"}
  <1> DEFINE s == t.portals
             f == [i \in DOMAIN s |-> Kept(n, s[i])]
  <1>1. IsSeq(s) /\ \A i \in DOMAIN s : s[i] \in ToSet(s)
    BY DEF WellFormed, Listed, IsSeq, ToSet
  <1>2. Publishes(t, n) = FlattenSeq(f)
    BY DEF Publishes, Kept, SeqConcat
  <1>3. f = [i \in DOMAIN s |-> f[i]] /\ \A i \in DOMAIN s : f[i] = Kept(n, s[i])
    OBVIOUS
  <1>4. \A p \in ToSet(s) : IsSeq(p.publish) /\ \A x \in ToSet(p.publish) : x.network \subseteq {"tcp", "udp"}
    BY DEF WellFormed, Listed, IsSeq
  <1> HIDE DEF f, s
  <1>5. \A i \in DOMAIN s : IsSeq(f[i]) /\ \A x \in ToSet(f[i]) : x.network \subseteq {"tcp", "udp"}
    BY <1>1, <1>3, <1>4, KeptAre
  <1>6. IsSeq(FlattenSeq(f)) /\ \A x : x \in ToSet(FlattenSeq(f)) <=> \E i \in DOMAIN s : x \in ToSet(f[i])
    BY <1>1, <1>3, <1>5, OfTheUsers
  <1>7. QED
    BY <1>2, <1>5, <1>6

\* The sockets of one of them.
ForwardsOf(x) == SetToSeq({<<x.port, net>> : net \in x.network})

\* Each is of the port and one of the nets, and is there once.
LEMMA ForwardsOfAre ==
    ASSUME NEW x, x.network \subseteq {"tcp", "udp"}
    PROVE  /\ IsSeq(ForwardsOf(x)) /\ IsInjective(ForwardsOf(x))
           /\ \A a \in ToSet(ForwardsOf(x)) : a[1] = x.port /\ a[2] \in x.network /\ a = <<x.port, a[2]>>
  <1> DEFINE S == {<<x.port, net>> : net \in x.network}
  <1>1. IsFiniteSet({<<x.port, "tcp">>, <<x.port, "udp">>})
    <2> DEFINE a == <<x.port, "tcp">>
               b == <<x.port, "udp">>
    <2> HIDE DEF a, b
    <2>1. IsFiniteSet({a})
      BY FS_Singleton
    <2>2. {a, b} = {a} \cup {b}
      OBVIOUS
    <2>3. IsFiniteSet({a, b})
      BY <2>1, <2>2, FS_AddElement
    <2>4. QED
      BY <2>3 DEF a, b
  <1>2. S \subseteq {<<x.port, "tcp">>, <<x.port, "udp">>}
    OBVIOUS
  <1>3. \A a \in S : a[1] = x.port /\ a[2] \in x.network /\ a = <<x.port, a[2]>>
    OBVIOUS
  <1>4. ForwardsOf(x) = SetToSeq(S)
    BY DEF ForwardsOf
  <1> HIDE DEF S
  <1>5. IsFiniteSet(S)
    BY <1>1, <1>2, FS_Subset
  <1>6. QED
    BY <1>3, <1>4, <1>5, SetListed

\* Ports that differ have sockets that differ.
LEMMA ForwardsFree ==
    ASSUME NEW s, IsSeq(s), IsInjective([i \in DOMAIN s |-> s[i].port]), \A x \in ToSet(s) : x.network \subseteq {"tcp", "udp"},
           NEW f, f = [i \in DOMAIN s |-> ForwardsOf(s[i])]
    PROVE  /\ IsSeq(FlattenSeq(f)) /\ IsInjective(FlattenSeq(f))
           /\ \A a \in ToSet(FlattenSeq(f)) : \E x \in ToSet(s) : a[2] \in x.network /\ a = <<x.port, a[2]>>
  <1> DEFINE S == ToSet(FlattenSeq(f))
             R == Same(S)
  <1>1. DOMAIN s = 1..Len(s) /\ Len(s) \in Nat /\ \A i \in 1..Len(s) : s[i] \in ToSet(s)
    BY SeqFacts, Elements
  <1>2. \A i, j \in 1..Len(s) : s[i].port = s[j].port => i = j
    BY <1>1 DEF IsInjective
  <1>3. f = [i \in DOMAIN s |-> f[i]] /\ f = [i \in 1..Len(s) |-> f[i]] /\ \A i \in 1..Len(s) : f[i] = ForwardsOf(s[i])
    BY <1>1
  <1>4. \A i \in 1..Len(s) : /\ IsSeq(f[i]) /\ IsInjective(f[i])
                             /\ \A a \in ToSet(f[i]) : a[1] = s[i].port /\ a[2] \in s[i].network /\ a = <<s[i].port, a[2]>>
    BY <1>1, <1>3, ForwardsOfAre
  <1>5. IsSeq(f) /\ Len(f) = Len(s)
    BY <1>1, <1>3, FunctionIsSeq
  <1>6. IsSeq(FlattenSeq(f)) /\ \A x : x \in S <=> \E i \in DOMAIN s : x \in ToSet(f[i])
    BY <1>1, <1>3, <1>4, OfTheUsers
  <1>7. \A i \in 1..Len(s) : ToSet(f[i]) \subseteq S
    BY <1>1, <1>6
  <1> HIDE DEF S
  <1>8. \A i \in 1..Len(s) : Free(f[i], R)
    BY <1>4, <1>7, InjectiveIsFree
  <1>9. \A i, j \in 1..Len(s) : i < j => Clear(f[i], f[j], R)
    <2>1. ASSUME NEW i \in 1..Len(s), NEW j \in 1..Len(s), i < j PROVE Clear(f[i], f[j], R)
      <3>1. \A x \in ToSet(f[i]), y \in ToSet(f[j]) : x # y
        BY <1>2, <1>4, <2>1
      <3>2. QED
        BY <3>1, ClearOfSame
    <2>2. QED
      BY <2>1
  <1>10. Free(FlattenSeq(f), R)
    <2> HIDE DEF R
    <2>1. QED
      BY <1>4, <1>5, <1>8, <1>9, FreeFlatten
  <1>11. IsInjective(FlattenSeq(f))
    BY <1>6, <1>10, InjectiveIsFree DEF S
  <1>12. \A a \in S : \E x \in ToSet(s) : a[2] \in x.network /\ a = <<x.port, a[2]>>
    BY <1>1, <1>4, <1>6
  <1>13. QED
    BY <1>6, <1>11, <1>12 DEF S

\* The sockets of the inbounds: no two are one, and all but the local ones are
\* counted.
InboundSockets(e) == SeqConcat(Inbounds(e), LAMBDA in : <<SocketOf(e, in)>>)

\* No two are one, none of tcp and udp goes uncounted, and behind HAProxy none is 443.
LEMMA InboundSocketsAre ==
    ASSUME NEW e, WellFormed(e.t), e.r.type \in {"exit", "hub"}, IsInjective(Reserved(e.t, e.r, e.n))
    PROVE  /\ IsSeq(InboundSockets(e)) /\ IsInjective(InboundSockets(e))
           /\ \A x \in ToSet(InboundSockets(e)) :
                 /\ x[2] \in {"tcp", "udp"} => x \in ToSet(Reserved(e.t, e.r, e.n))
                 /\ x # Direct443 \/ ~Haproxy(e.t, e.r, e.n)
                 /\ x \notin ToSet(ClaimMetrics(e.t, e.r, e.n))
  <1> DEFINE v == Inbounds(e)
             So(in) == SocketOf(e, in)
             q == [i \in DOMAIN v |-> So(v[i])]
             f == [i \in DOMAIN v |-> <<So(v[i])>>]
             S == ToSet(v)
             R == OneSocket(e, S)
  <1>1. IsSeq(v) /\ Free(v, R)
    BY InboundsFree
  <1>2. InboundSockets(e) = FlattenSeq(f)
    BY DEF InboundSockets, SeqConcat
  <1>3. \A x \in S, y \in S : <<x, y>> \in R <=> So(x) = So(y)
    BY DEF OneSocket
  <1>4. \A in \in S :
           /\ So(in)[2] \in {"tcp", "udp"} => So(in) \in ToSet(Reserved(e.t, e.r, e.n))
           /\ So(in) # Direct443 \/ ~Haproxy(e.t, e.r, e.n)
           /\ So(in) \notin ToSet(ClaimMetrics(e.t, e.r, e.n))
    <2> DEFINE H == ToSet(ClaimHysteria(e.t, e.r, e.n))
               P == ToSet(ClaimProxy(e.t, e.r, e.n))
               X == ToSet(ClaimXdns(e.t, e.r, e.n))
               W == ToSet(ClaimWireguard(e.t, e.r, e.n))
               M == ToSet(ClaimMetrics(e.t, e.r, e.n))
               V == ToSet(Reserved(e.t, e.r, e.n))
    <2>1. Direct443 \notin M /\ (\A x \in P, y \in M : x # y) /\ {Direct443} \cup H \cup P \cup X \cup W \cup M \subseteq V
      BY ReservedApart
    <2>2. (\A x \in H \cup X \cup W : x[2] = "udp") /\ \A x \in M : x[2] = "tcp"
      BY ClaimNets
    <2>3. ASSUME NEW in \in S
          PROVE  \/ So(in) = Direct443 /\ ~Haproxy(e.t, e.r, e.n)
                 \/ So(in) = <<0, "xhttp">> \/ So(in) = <<0, "cdn">>
                 \/ So(in) = <<80, "tcp">> /\ <<80, "tcp">> \in P
                 \/ So(in) \in X \cup W \cup H
      BY SocketsAre, InboundsAre
    <2>4. Direct443[2] = "tcp" /\ Direct443[1] = 443
      BY DEF Direct443
    <2>5. \A a, b, c, d : <<a, b>> = <<c, d>> => a = c /\ b = d
      OBVIOUS
    <2> HIDE DEF H, P, X, W, M, V, So, S
    <2>6. ASSUME NEW in \in S
          PROVE  /\ So(in)[2] \in {"tcp", "udp"} => So(in) \in V
                 /\ So(in) # Direct443 \/ ~Haproxy(e.t, e.r, e.n)
                 /\ So(in) \notin M
      <3>1. CASE So(in) = Direct443 /\ ~Haproxy(e.t, e.r, e.n)
        BY <2>1, <3>1
      <3>2. CASE So(in) = <<0, "xhttp">> \/ So(in) = <<0, "cdn">>
        BY <2>2, <2>4, <3>2
      <3>3. CASE So(in) = <<80, "tcp">> /\ <<80, "tcp">> \in P
        <4>1. So(in)[1] = 80 /\ So(in) \in P
          BY <3>3
        <4>2. QED
          BY <2>1, <2>4, <4>1
      <3>4. CASE So(in) \in X \cup W \cup H
        BY <2>1, <2>2, <2>4, <3>4
      <3>5. QED
        BY <2>3, <3>1, <3>2, <3>3, <3>4
    <2>7. QED
      BY <2>6 DEF M, V
  <1> HIDE DEF v, So, R
  <1>5. DOMAIN v = 1..Len(v) /\ Len(v) \in Nat /\ \A i \in 1..Len(v) : v[i] \in S
    BY <1>1, SeqFacts, Elements
  <1>6. q = [i \in 1..Len(v) |-> q[i]] /\ \A i \in 1..Len(v) : q[i] = So(v[i])
    BY <1>5
  <1>7. f = [i \in 1..Len(v) |-> f[i]] /\ \A i \in 1..Len(v) : f[i] = <<So(v[i])>>
    BY <1>5
  <1> HIDE DEF f, q
  <1>8. IsSeq(q) /\ Len(q) = Len(v) /\ DOMAIN q = 1..Len(v)
    BY <1>5, <1>6, FunctionIsSeq, SeqFacts
  <1>9. \A i \in 1..Len(q) : f[i] = <<q[i]>>
    BY <1>6, <1>7, <1>8
  <1>10. IsMap(f, q)
    BY <1>7, <1>8, <1>9, OneIsSeq DEF IsMap
  <1>11. InboundSockets(e) = q
    BY <1>2, <1>8, <1>9, <1>10, FilterAll
  <1>12. IsInjective(q)
    <2>1. \A i, j \in 1..Len(v) : So(v[i]) = So(v[j]) => i = j
      BY <1>1, <1>3, <1>5 DEF Free
    <2>2. QED
      BY <1>6, <1>8, <2>1 DEF IsInjective
  <1>13. \A x \in ToSet(q) : \E in \in S : x = So(in)
    BY <1>5, <1>6, <1>8, Elements
  <1>14. QED
    BY <1>4, <1>8, <1>11, <1>12, <1>13 DEF So

\* The sockets of a node differ when its inbounds' are counted and what is
\* published on it has been compared with them.
LEMMA SocketsDiffer ==
    ASSUME NEW e, WellFormed(e.t), Loads(e.t), NEW pl \in AllPlaces(e.t), e.r = pl.r, e.n = pl.n
    PROVE  IsInjective(Sockets(e))
  <1> DEFINE a == InboundSockets(e)
             pubs == Publishes(e.t, e.n)
             g == [i \in DOMAIN pubs |-> ForwardsOf(pubs[i])]
             b == ForwardSockets(e)
             c == IF Haproxy(e.t, e.r, e.n) THEN <<Direct443>> ELSE <<>>
             d == ClaimMetrics(e.t, e.r, e.n)
             V == ToSet(Reserved(e.t, e.r, e.n))
  <1>1. Sockets(e) = a \o b \o c \o d
    BY DEF Sockets, InboundSockets, ClaimMetrics
  <1>2. NodeLoads(e.t, e.r, e.n) /\ e.r.type \in {"exit", "hub"}
    BY PlaceFacts DEF Loads
  <1>3. IsInjective(Reserved(e.t, e.r, e.n))
    BY <1>2 DEF NodeLoads
  <1>4. /\ IsSeq(a) /\ IsInjective(a)
        /\ \A x \in ToSet(a) : /\ x[2] \in {"tcp", "udp"} => x \in V
                               /\ x # Direct443 \/ ~Haproxy(e.t, e.r, e.n)
                               /\ x \notin ToSet(d)
    BY <1>2, <1>3, InboundSocketsAre
  <1>5. Direct443 \notin ToSet(d) /\ Direct443 \in V /\ ToSet(d) \subseteq V
    BY <1>3, ReservedApart
  <1>6. IsSeq(b) /\ IsInjective(b) /\ \A x \in ToSet(b) : x[2] \in {"tcp", "udp"} /\ x \notin V
    <2>1. CASE e.r.type = "exit"
      <3>1. b = <<>>
        BY <2>1 DEF ForwardSockets
      <3>2. IsInjective(<<>>)
        BY DEF IsInjective
      <3> HIDE DEF b
      <3>3. QED
        BY <3>1, <3>2, EmptyIsSeq
    <2>2. CASE e.r.type # "exit"
      <3>1. b = FlattenSeq(g)
        BY <2>2 DEF ForwardSockets, SeqConcat, ForwardsOf
      <3>2. IsSeq(pubs) /\ \A x \in ToSet(pubs) : x.network \subseteq {"tcp", "udp"}
        BY PublishesAre
      <3>3. pl \in ToSet(Places(e.t, "hub"))
        <4>1. pl \in ToSet(Places(e.t, "exit")) => pl.r.type = "exit"
          BY PlaceElements
        <4>2. QED
          BY <2>2, <4>1 DEF AllPlaces
      <3>4. /\ IsInjective([i \in DOMAIN pubs |-> pubs[i].port])
            /\ \A x \in ToSet(pubs), net \in {"tcp", "udp"} : net \in x.network => <<x.port, net>> \notin V
        BY <3>3 DEF Loads, PublishesLoad
      <3> HIDE DEF pubs, b, V
      <3>5. /\ IsSeq(b) /\ IsInjective(b)
            /\ \A y \in ToSet(b) : \E x \in ToSet(pubs) : y[2] \in x.network /\ y = <<x.port, y[2]>>
        BY <3>1, <3>2, <3>4, ForwardsFree
      <3>6. ASSUME NEW y \in ToSet(b) PROVE y[2] \in {"tcp", "udp"} /\ y \notin V
        <4>1. PICK x \in ToSet(pubs) : y[2] \in x.network /\ y = <<x.port, y[2]>>
          BY <3>5
        <4>2. y[2] \in {"tcp", "udp"}
          BY <3>2, <4>1
        <4>3. <<x.port, y[2]>> \notin V
          BY <3>4, <4>1, <4>2
        <4>4. QED
          BY <4>1, <4>2, <4>3
      <3>7. QED
        BY <3>5, <3>6
    <2>3. QED
      BY <2>1, <2>2
  <1>7. /\ IsSeq(c) /\ IsInjective(c) /\ IsSeq(d) /\ IsInjective(d)
        /\ \A x \in ToSet(c) : x = Direct443 /\ Haproxy(e.t, e.r, e.n)
    <2>1. IsInjective(<<>>) /\ \A x : IsInjective(<<x>>)
      BY DEF IsInjective
    <2>2. IsSeq(c) /\ IsInjective(c)
      BY <2>1, OneIsSeq, EmptyIsSeq
    <2>3. IsSeq(d) /\ IsInjective(d)
      BY <2>1, OneIsSeq, EmptyIsSeq DEF ClaimMetrics
    <2>4. \A x \in ToSet(c) : x = Direct443 /\ Haproxy(e.t, e.r, e.n)
      BY OneIsSeq, EmptyIsSeq
    <2>5. QED
      BY <2>2, <2>3, <2>4
  <1> HIDE DEF a, b, c, d, V
  <1>8. \A x \in ToSet(a), y \in ToSet(b) \cup ToSet(c) \cup ToSet(d) : x # y
    BY <1>4, <1>6, <1>7
  <1>9. \A x \in ToSet(b), y \in ToSet(c) \cup ToSet(d) : x # y
    BY <1>5, <1>6, <1>7
  <1>10. \A x \in ToSet(c), y \in ToSet(d) : x # y
    BY <1>5, <1>7
  <1>11. QED
    BY <1>1, <1>4, <1>6, <1>7, <1>8, <1>9, <1>10, FourInARow

\* No edit that is accepted makes two listeners of a node, Xray's and HAProxy's
\* together, bind one socket, whatever ports the file gives them
\* (_node_reserved_ports against what fragment and haproxy.cfg bind).
THEOREM EverySocketOnce == Spec => SocketsDisjoint
  <1>1. ASSUME [Next]_vars, NEW x \in DOMAIN Topo, x # topo, x = topo',
               NEW s, s = [topo |-> x, gen |-> gen], NEW n \in Declared(s)
        PROVE  IsInjective(Sockets(EnvAt(s, n)))
    <2> DEFINE e == EnvAt(s, n)
    <2>1. x \in Loadable
      BY <1>1, EditsLoad
    <2>2. /\ WellFormed(e.t) /\ Loads(e.t)
          /\ \E pl \in AllPlaces(e.t) : e.r = pl.r /\ e.n = pl.n
      BY <1>1, <2>1, EditedEnv
    <2> HIDE DEF e
    <2>3. IsInjective(Sockets(e))
      BY <2>2, SocketsDiffer
    <2>4. QED
      BY <2>3 DEF e
  <1>2. [Next]_vars =>
            [\A x \in DOMAIN Topo : (x # topo /\ x = topo') =>
                LET s == [topo |-> x, gen |-> gen]
                IN  \A n \in Declared(s) : IsInjective(Sockets(EnvAt(s, n)))]_vars
    BY <1>1
  <1>3. QED
    BY <1>2, PTL DEF Spec, SocketsDisjoint

-----------------------------------------------------------------------------
(* What was given out keeps working.                                       *)

\* Two environments of a hub that agree have the same settings.
LEMMA SameHubSettings ==
    ASSUME NEW e, NEW s, Agree(e, s), e.r.type = "hub"
    PROVE  /\ RegionTls(e.t, e.r) = RegionTls(s.t, s.r)
           /\ Xhttp(e.t, e.r, e.n) = Xhttp(s.t, s.r, s.n)
           /\ Reality(e.t, e.r, e.n) = Reality(s.t, s.r, s.n)
           /\ Hysteria(e.t, e.r, e.n) = Hysteria(s.t, s.r, s.n)
           /\ Wireguard(e.t, e.n) = Wireguard(s.t, s.n)
           /\ Haproxy(e.t, e.r, e.n) = Haproxy(s.t, s.r, s.n)
  <1>1. /\ s.r.type = "hub" /\ e.t.hub = s.t.hub /\ e.n = s.n /\ e.r.xhttp = s.r.xhttp
        /\ e.r.reality = s.r.reality /\ e.r.tls = s.r.tls
    BY DEF Agree, Role
  <1>2. RegionTls(e.t, e.r) = RegionTls(s.t, s.r)
    BY <1>1 DEF RegionTls
  <1>3. Reality(e.t, e.r, e.n) = Reality(s.t, s.r, s.n)
    BY <1>1 DEF Reality
  <1>4. Wireguard(e.t, e.n) = Wireguard(s.t, s.n)
    BY <1>1 DEF Wireguard, WireguardPort
  <1>5. Haproxy(e.t, e.r, e.n) = Haproxy(s.t, s.r, s.n)
    BY <1>1 DEF Haproxy, Role
  <1>6. Hysteria(e.t, e.r, e.n) = Hysteria(s.t, s.r, s.n)
    BY <1>1 DEF Hysteria, HysteriaOverlay, Role
  <1>7. Xhttp(e.t, e.r, e.n) = Xhttp(s.t, s.r, s.n)
    BY <1>1, <1>2 DEF Xhttp, Role
  <1>8. QED
    BY <1>2, <1>3, <1>4, <1>5, <1>6, <1>7

\* The clients of a hub's direct inbound.
HubClients(e) ==
    (IF RegionTls(e.t, e.r) # Unset THEN AccessClients(e.t, "tls", e.key.enc, TRUE)
                                    ELSE VlessClients(e.t, e.key.enc))
    \o PortalClients(e.t, e.key.enc)

\* The direct inbound of a hub.
LEMMA HubDirect ==
    ASSUME NEW e, e.r.type = "hub"
    PROVE  /\ Direct(e).kind = "xhttp" /\ Direct(e).encryption = Encryption(e.key)
           /\ Direct(e).path = Xhttp(e.t, e.r, e.n).path
           /\ Direct(e).names[1] = FirstName(e.t, e.r, e.n)
           /\ Direct(e).clients = HubClients(e)
           /\ RegionTls(e.t, e.r) # Unset =>
                 /\ Direct(e).security = "tls" /\ Direct(e).pair = Unset
                 /\ Direct(e).host = Or(Xhttp(e.t, e.r, e.n).host, e.n.host) /\ Direct(e).names = <<e.n.host>>
           /\ RegionTls(e.t, e.r) = Unset =>
                 /\ Direct(e).security = "reality" /\ Direct(e).pair = e.key.pair
                 /\ Direct(e).host = XhttpHost(Reality(e.t, e.r, e.n), Xhttp(e.t, e.r, e.n))
                 /\ Direct(e).names = ServerNames(Reality(e.t, e.r, e.n))
                 /\ Direct(e).shortIds = HubShortIds(e.t)
  <1> DEFINE in == Direct(e)
             x == Xhttp(e.t, e.r, e.n)
             q == Reality(e.t, e.r, e.n)
             a == AccessClients(e.t, "tls", e.key.enc, TRUE) \o PortalClients(e.t, e.key.enc)
             b == VlessClients(e.t, e.key.enc) \o PortalClients(e.t, e.key.enc)
  <1>1. in.kind = "xhttp" /\ in.encryption = Encryption(e.key) /\ in.path = x.path
    BY DEF Direct
  <1>2. CASE RegionTls(e.t, e.r) # Unset
    <2>1. /\ in.security = "tls" /\ in.pair = Unset /\ in.host = Or(x.host, e.n.host)
          /\ in.names = <<e.n.host>> /\ in.clients = a
      BY <1>2 DEF Direct
    <2>2. FirstName(e.t, e.r, e.n) = e.n.host /\ HubClients(e) = a
      BY <1>2 DEF FirstName, HubClients
    <2> HIDE DEF in, x, q, a, b
    <2>3. QED
      BY <1>1, <1>2, <2>1, <2>2 DEF in, x, q
  <1>3. CASE RegionTls(e.t, e.r) = Unset
    <2>1. /\ in.security = "reality" /\ in.pair = e.key.pair /\ in.host = XhttpHost(q, x)
          /\ in.names = ServerNames(q) /\ in.clients = b /\ in.shortIds = HubShortIds(e.t)
      BY <1>3 DEF Direct
    <2>2. FirstName(e.t, e.r, e.n) = ServerNames(q)[1] /\ HubClients(e) = b
      BY <1>3 DEF FirstName, HubClients
    <2> HIDE DEF in, x, q, a, b
    <2>3. QED
      BY <1>1, <1>3, <2>1, <2>2 DEF in, x, q
  <1>4. QED
    BY <1>2, <1>3

\* Dial d differs from x at most in the host it is for.
Twin(d, x) == \A f \in DOMAIN x \ {"to"} : f \in DOMAIN d /\ d[f] = x[f]

\* Whom the direct inbound of e lets in with the dial of an environment that
\* agrees: whoever has the id.
LEMMA DirectTaken ==
    ASSUME NEW e, NEW s, Agree(e, s), e.r.type = "hub",
           e.t.cdn # Unset => FirstName(e.t, e.r, e.n) # e.t.cdn.hub,
           Direct(e).names[1] \in ToSet(Direct(e).names),
           NEW id, NEW sid, RegionTls(e.t, e.r) = Unset => sid \in HubShortIds(e.t),
           NEW d, Twin(d, DirectDial(s, id, sid))
    PROVE  \A c : c \in Admitted(e, d) <=> c \in Known(ToSet(HubClients(e)), id) /\ c.flow = e.key.enc
  <1>1. s.r.type = "hub" /\ e.key = s.key /\ e.n = s.n
    BY DEF Agree
  <1>2. /\ d.via = "direct" /\ d.id = id /\ d.encryption = Encryption(s.key) /\ d.flow = s.key.enc
        /\ d.security = Direct(s).security /\ d.sni = Direct(s).names[1] /\ d.host = Direct(s).host
        /\ d.path = Direct(s).path /\ d.pair = Direct(s).pair
        /\ d.shortId = IF Direct(s).security = "tls" THEN Unset ELSE sid
    BY DEF DirectDial, Twin
  <1>3. /\ RegionTls(e.t, e.r) = RegionTls(s.t, s.r)
        /\ Xhttp(e.t, e.r, e.n) = Xhttp(s.t, s.r, s.n)
        /\ Reality(e.t, e.r, e.n) = Reality(s.t, s.r, s.n)
    BY SameHubSettings
  <1>4. /\ Direct(e).security = Direct(s).security /\ Direct(e).names = Direct(s).names /\ Direct(e).host = Direct(s).host
        /\ Direct(e).path = Direct(s).path /\ Direct(e).pair = Direct(s).pair
        /\ Direct(e).kind = "xhttp" /\ Direct(e).encryption = Encryption(e.key)
    <2>1. CASE RegionTls(e.t, e.r) # Unset
      BY <1>1, <1>3, <2>1, HubDirect
    <2>2. CASE RegionTls(e.t, e.r) = Unset
      BY <1>1, <1>3, <2>2, HubDirect
    <2>3. QED
      BY <2>1, <2>2
  <1>5. d.sni = FirstName(e.t, e.r, e.n)
    BY <1>2, <1>4, HubDirect
  <1>6. Frontend(e, d.sni) = Direct(e)
    <2>1. e.t.cdn = Unset => Cdn(e) = Unset
      BY DEF Cdn
    <2>2. Cdn(e) # Unset => Cdn(e).domain = e.t.cdn.hub
      BY DEF Cdn
    <2>3. QED
      BY <1>5, <2>1, <2>2 DEF Frontend
  <1>7. d.security = "reality" => d.shortId \in Direct(e).shortIds
    BY <1>2, <1>4, HubDirect
  <1>8. Handshake(Direct(e), d)
    BY <1>1, <1>2, <1>4, <1>7 DEF Handshake
  <1>9. Admitted(e, d) = {c \in ToSet(Direct(e).clients) : SameId(c.id, d.id) /\ c.flow = d.flow}
    BY <1>2, <1>6, <1>8 DEF Admitted
  <1>10. QED
    BY <1>1, <1>2, <1>9, HubDirect DEF Known

\* Whom the inbound behind the CDN lets in.
LEMMA CdnTaken ==
    ASSUME NEW e, e.r.type = "hub", Cdn(e) # Unset, Haproxy(e.t, e.r, e.n),
           NEW d, d.via = "cdn", d.sni = e.t.cdn.hub, d.host = e.t.cdn.hub, d.path = e.r.cdn,
           d.encryption = Encryption(e.key), d.flow = e.key.enc
    PROVE  \A c : c \in Admitted(e, d) <=>
              c \in Known(ToSet(AccessClients(e.t, "cdn", e.key.enc, TRUE)), d.id) /\ c.flow = e.key.enc
  <1>1. /\ Cdn(e).kind = "cdn" /\ Cdn(e).encryption = Encryption(e.key) /\ Cdn(e).path = e.r.cdn
        /\ Cdn(e).domain = e.t.cdn.hub /\ Cdn(e).host = e.t.cdn.hub
        /\ Cdn(e).clients = AccessClients(e.t, "cdn", e.key.enc, TRUE)
    BY DEF Cdn
  <1>2. Frontend(e, d.sni) = Cdn(e)
    BY <1>1 DEF Frontend
  <1>3. Handshake(Cdn(e), d)
    BY <1>1 DEF Handshake
  <1>4. Admitted(e, d) = {c \in ToSet(Cdn(e).clients) : SameId(c.id, d.id) /\ c.flow = d.flow}
    BY <1>2, <1>3 DEF Admitted
  <1>5. QED
    BY <1>1, <1>4 DEF Known

\* As whom share can be asked for, and the identities then given out.
Holders(u) == {Self, Server} \cup {Guest(l) : l \in ToSet(u.guests)}
IdFor(t, u, who) == ResolveIdentity(t, u, who).id
EmailFor(t, u, who) == ResolveIdentity(t, u, who).email
Mine(t, u, who, flow) == Client(EmailFor(t, u, who), IdFor(t, u, who), flow)

\* The three ways to ask are three.
LEMMA WhoDiffer == Self # Server /\ \A l : Guest(l) # Self /\ Guest(l) # Server /\ \A k : Guest(l) = Guest(k) => l = k
  <1>1. \A a, b, c : <<a, b>> # <<c>>
    OBVIOUS
  <1>2. QED
    BY <1>1 DEF Self, Server, Guest

\* What they get.
LEMMA IdentityFor ==
    ASSUME NEW t, NEW u
    PROVE  /\ IdFor(t, u, Self) = UserUuid(t.ns, u) /\ EmailFor(t, u, Self) = UserEmail(t.ns, u) /\ HasIdentity(u, Self)
           /\ IdFor(t, u, Server) = ServerUuid(t.ns, u) /\ EmailFor(t, u, Server) = ServerEmail(u)
           /\ HasIdentity(u, Server) <=> "server" \in u.access
           /\ \A l : /\ IdFor(t, u, Guest(l)) = GuestUuid(t.ns, u, l) /\ EmailFor(t, u, Guest(l)) = GuestEmail(u, l)
                     /\ HasIdentity(u, Guest(l)) <=> l \in ToSet(u.guests)
  <1>1. \A l : Guest(l)[2] = l
    BY DEF Guest
  <1>2. /\ ResolveIdentity(t, u, Self) = [id |-> UserUuid(t.ns, u), email |-> UserEmail(t.ns, u)]
        /\ ResolveIdentity(t, u, Server) = [id |-> ServerUuid(t.ns, u), email |-> ServerEmail(u)]
        /\ \A l : ResolveIdentity(t, u, Guest(l)) = [id |-> GuestUuid(t.ns, u, l), email |-> GuestEmail(u, l)]
    BY <1>1, WhoDiffer DEF ResolveIdentity
  <1>3. /\ HasIdentity(u, Self) /\ (HasIdentity(u, Server) <=> "server" \in u.access)
        /\ \A l : HasIdentity(u, Guest(l)) <=> l \in ToSet(u.guests)
    BY <1>1, WhoDiffer DEF HasIdentity
  <1>4. QED
    BY <1>2, <1>3 DEF IdFor, EmailFor

\* An identity tells its user, and as whom the user asked.
LEMMA IdTellsWho ==
    ASSUME NEW t, WellFormed(t), IdsApart(t), NEW u \in ToSet(t.users), NEW v \in ToSet(t.users),
           NEW who \in Holders(u), NEW how \in Holders(v), IdFor(t, u, who) = IdFor(t, v, how)
    PROVE  u = v /\ who = how
  <1>1. \A w \in ToSet(t.users) : \A x \in Holders(w) : IdFor(t, w, x) \in IdSet(t, w)
    BY IdentityFor DEF Holders, IdSet
  <1>2. u = v
    <2>0. IsSeq(t.users)
      BY DEF WellFormed, Listed, IsSeq
    <2>1. PICK i \in 1..Len(t.users), j \in 1..Len(t.users) : u = t.users[i] /\ v = t.users[j]
      BY <2>0, Elements
    <2>2. Len(t.users) \in Nat
      BY <2>0, SeqFacts
    <2>3. ~(i < j) /\ ~(j < i)
      BY <1>1, <2>1 DEF IdsApart
    <2>4. QED
      BY <2>1, <2>2, <2>3
  <1>3. OwnIdsApart(t, u) /\ IsSeq(u.guests)
    BY UserFacts DEF IdsApart
  <1>4. ASSUME NEW l \in ToSet(u.guests), NEW k \in ToSet(u.guests), GuestUuid(t.ns, u, l) = GuestUuid(t.ns, u, k)
        PROVE  l = k
    <2>1. PICK i \in 1..Len(u.guests), j \in 1..Len(u.guests) : l = u.guests[i] /\ k = u.guests[j]
      BY <1>3, Elements
    <2>2. QED
      BY <1>3, <1>4, <2>1 DEF OwnIdsApart
  <1>5. /\ UserUuid(t.ns, u) # ServerUuid(t.ns, u)
        /\ \A l \in ToSet(u.guests) : UserUuid(t.ns, u) # GuestUuid(t.ns, u, l) /\ ServerUuid(t.ns, u) # GuestUuid(t.ns, u, l)
    BY <1>3 DEF OwnIdsApart
  <1>6. /\ \A x \in Holders(u) : x = Self \/ x = Server \/ \E l \in ToSet(u.guests) : x = Guest(l)
        /\ IdFor(t, u, Self) = UserUuid(t.ns, u) /\ IdFor(t, u, Server) = ServerUuid(t.ns, u)
        /\ \A l : IdFor(t, u, Guest(l)) = GuestUuid(t.ns, u, l)
    BY IdentityFor DEF Holders
  <1>7. who \in Holders(u) /\ how \in Holders(u) /\ IdFor(t, u, who) = IdFor(t, u, how)
    BY <1>2
  <1>8. ASSUME NEW l \in ToSet(u.guests), who = Guest(l) PROVE who = how
    BY <1>4, <1>5, <1>6, <1>7, <1>8
  <1>9. ASSUME who \in {Self, Server} PROVE who = how
    BY <1>5, <1>6, <1>7, <1>9
  <1>10. QED
    BY <1>2, <1>6, <1>7, <1>8, <1>9

\* Every identity of a file.
AllIds(t) == (UNION {IdSet(t, u) : u \in ToSet(t.users)}) \cup {PortalUuid(t.ns, p) : p \in ToSet(t.portals)}

\* All of them are among those that are compared on load, so where no two have one path, the path tells the identity.
LEMMA PathTellsId ==
    ASSUME NEW t, WellFormed(t), PathsApart(t)
    PROVE  \A x, y \in AllIds(t) : x.path = y.path => x = y
  <1> DEFINE f == [i \in DOMAIN t.users |-> IdentitiesOf(t.ns, t.users[i])]
             q == [i \in DOMAIN t.portals |-> PortalUuid(t.ns, t.portals[i])]
             all == HubIdentities(t)
  <1>1. /\ IsSeq(t.users) /\ DOMAIN t.users = 1..Len(t.users) /\ Len(t.users) \in Nat
        /\ IsSeq(t.portals) /\ DOMAIN t.portals = 1..Len(t.portals) /\ Len(t.portals) \in Nat
    BY SeqFacts DEF WellFormed, Listed, IsSeq
  <1>2. all = FlattenSeq(f) \o q
    BY DEF HubIdentities
  <1>3. f = [i \in DOMAIN t.users |-> f[i]] /\ \A i \in 1..Len(t.users) : f[i] = IdentitiesOf(t.ns, t.users[i])
    BY <1>1
  <1>4. q = [i \in 1..Len(t.portals) |-> q[i]] /\ \A i \in 1..Len(t.portals) : q[i] = PortalUuid(t.ns, t.portals[i])
    BY <1>1
  <1> HIDE DEF f, q
  <1>5. \A u \in ToSet(t.users) : IsSeq(IdentitiesOf(t.ns, u)) /\ \A x : x \in ToSet(IdentitiesOf(t.ns, u)) <=> x \in IdSet(t, u)
    <2>1. ASSUME NEW u \in ToSet(t.users) PROVE IsSeq(u.guests)
      BY <2>1, UserFacts
    <2>2. QED
      BY <2>1, IdentitiesAre
  <1>6. \A i \in 1..Len(t.users) : t.users[i] \in ToSet(t.users)
    BY <1>1, Elements
  <1>7. IsSeq(FlattenSeq(f)) /\ \A x : x \in ToSet(FlattenSeq(f)) <=> \E i \in 1..Len(t.users) : x \in ToSet(f[i])
    <2>1. \A i \in DOMAIN t.users : IsSeq(f[i])
      BY <1>1, <1>3, <1>5, <1>6
    <2>2. QED
      BY <1>1, <1>3, <2>1, OfTheUsers
  <1>8. IsSeq(q) /\ Len(q) = Len(t.portals)
    BY <1>1, <1>4, FunctionIsSeq
  <1>9. IsSeq(all) /\ ToSet(all) = ToSet(FlattenSeq(f)) \cup ToSet(q)
    BY <1>2, <1>7, <1>8, Concatenation
  <1>10. ASSUME NEW u \in ToSet(t.users), NEW x \in IdSet(t, u) PROVE x \in ToSet(all)
    <2>1. PICK i \in 1..Len(t.users) : u = t.users[i]
      BY <1>1, Elements
    <2>2. x \in ToSet(f[i])
      BY <1>3, <1>5, <2>1
    <2>3. QED
      BY <1>7, <1>9, <2>2
  <1>11. ASSUME NEW p \in ToSet(t.portals) PROVE PortalUuid(t.ns, p) \in ToSet(all)
    <2>1. PICK i \in 1..Len(t.portals) : p = t.portals[i]
      BY <1>1, Elements
    <2>2. q[i] \in ToSet(q)
      BY <1>8, Elements
    <2>3. QED
      BY <1>4, <1>9, <2>1, <2>2
  <1>12. ASSUME NEW x \in ToSet(all), NEW y \in ToSet(all), x.path = y.path PROVE x = y
    <2>1. PICK i \in 1..Len(all), j \in 1..Len(all) : x = all[i] /\ y = all[j]
      BY <1>9, Elements
    <2>2. DOMAIN all = 1..Len(all)
      BY <1>9, SeqFacts
    <2> DEFINE g == [k \in DOMAIN all |-> all[k].path]
    <2>3. IsInjective(g)
      BY DEF PathsApart
    <2>4. DOMAIN g = DOMAIN all /\ g[i] = g[j]
      BY <1>12, <2>1, <2>2
    <2> HIDE DEF g
    <2>5. i = j
      BY <2>2, <2>3, <2>4 DEF IsInjective
    <2>6. QED
      BY <2>1, <2>5
  <1> HIDE DEF all
  <1>13. \A x \in AllIds(t) : x \in ToSet(all)
    BY <1>10, <1>11 DEF AllIds
  <1>14. QED
    BY <1>12, <1>13

\* The clients of S are users' and portals'.
Theirs(t, S, flow) ==
    \A c \in S : \/ \E v \in ToSet(t.users) : \E how \in Holders(v) : c = Mine(t, v, how, flow)
                 \/ \E p \in ToSet(t.portals) : c = PortalClient(t, p, flow)

\* Then only one's own entry answers to one's id.
LEMMA OnlyOneself ==
    ASSUME NEW t, WellFormed(t), Loads(t), PathsApart(t), NEW flow, NEW S, Theirs(t, S, flow)
    PROVE  /\ \A u \in ToSet(t.users) : \A who \in Holders(u) :
                  \A c \in Known(S, IdFor(t, u, who)) : c = Mine(t, u, who, flow)
           /\ \A p \in ToSet(t.portals) :
                  \A c \in Known(S, PortalUuid(t.ns, p)) : c = PortalClient(t, p, flow)
  <1>1. IdsApart(t)
    BY NoCollisionsApart DEF Loads
  <1>2. /\ \A w \in ToSet(t.users) : \A x \in Holders(w) : IdFor(t, w, x) \in IdSet(t, w) /\ IdFor(t, w, x) \in AllIds(t)
        /\ \A p \in ToSet(t.portals) : PortalUuid(t.ns, p) \in AllIds(t)
    <2>1. ASSUME NEW w \in ToSet(t.users), NEW x \in Holders(w) PROVE IdFor(t, w, x) \in IdSet(t, w)
      BY IdentityFor DEF Holders, IdSet
    <2>2. QED
      BY <2>1 DEF AllIds
  <1>3. \A x, y \in AllIds(t) : x.path = y.path => x = y
    BY PathTellsId
  <1>4. /\ \A v, how : Mine(t, v, how, flow).id = IdFor(t, v, how)
        /\ \A p : PortalClient(t, p, flow).id = PortalUuid(t.ns, p)
    BY ClientFields DEF Mine
  <1>5. \A u \in ToSet(t.users), p \in ToSet(t.portals) : \A x \in IdSet(t, u) : x # PortalUuid(t.ns, p)
    BY <1>1 DEF IdsApart
  <1>6. ASSUME NEW u \in ToSet(t.users), NEW who \in Holders(u), NEW c \in Known(S, IdFor(t, u, who))
        PROVE  c = Mine(t, u, who, flow)
    <2>1. c \in S /\ c.id.path = IdFor(t, u, who).path
      BY <1>6 DEF Known, SameId
    <2>2. ASSUME NEW v \in ToSet(t.users), NEW how \in Holders(v), c = Mine(t, v, how, flow)
          PROVE  c = Mine(t, u, who, flow)
      <3>1. IdFor(t, v, how) = IdFor(t, u, who)
        BY <1>2, <1>3, <1>4, <2>1, <2>2
      <3>2. QED
        BY <1>1, <2>2, <3>1, IdTellsWho
    <2>3. ASSUME NEW p \in ToSet(t.portals), c = PortalClient(t, p, flow) PROVE FALSE
      BY <1>2, <1>3, <1>4, <1>5, <2>1, <2>3
    <2>4. QED
      BY <2>1, <2>2, <2>3 DEF Theirs
  <1>7. ASSUME NEW p \in ToSet(t.portals), NEW c \in Known(S, PortalUuid(t.ns, p))
        PROVE  c = PortalClient(t, p, flow)
    <2>1. c \in S /\ c.id.path = PortalUuid(t.ns, p).path
      BY <1>7 DEF Known, SameId
    <2>2. ASSUME NEW v \in ToSet(t.users), NEW how \in Holders(v), c = Mine(t, v, how, flow) PROVE FALSE
      BY <1>2, <1>3, <1>4, <1>5, <2>1, <2>2
    <2>3. ASSUME NEW q \in ToSet(t.portals), c = PortalClient(t, q, flow) PROVE c = PortalClient(t, p, flow)
      <3>1. PortalUuid(t.ns, q) = PortalUuid(t.ns, p)
        BY <1>2, <1>3, <1>4, <2>1, <2>3
      <3> IsSeq(t.portals)
        BY DEF WellFormed, Listed, IsSeq
      <3>2. PICK i \in 1..Len(t.portals), j \in 1..Len(t.portals) : p = t.portals[i] /\ q = t.portals[j]
        BY Elements
      <3>3. i = j
        BY <1>1, <3>1, <3>2 DEF IdsApart
      <3>4. QED
        BY <2>3, <3>2, <3>3
    <2>4. QED
      BY <2>1, <2>2, <2>3 DEF Theirs
  <1>8. QED
    BY <1>6, <1>7

\* c is the entry of u's identity who.
Entry(t, u, who, flow, c) == HasIdentity(u, who) /\ c = Mine(t, u, who, flow)

\* The fields of an entry.
LEMMA EntryFields ==
    \A t, u, who, flow : LET c == Mine(t, u, who, flow)
                         IN  c.email = EmailFor(t, u, who) /\ c.id = IdFor(t, u, who) /\ c.flow = flow /\ c.reverse = NoTag
  BY ClientFields DEF Mine

\* The entries, as whom one can ask.
LEMMA EntriesAre ==
    ASSUME NEW t, NEW u, NEW flow
    PROVE  /\ Mine(t, u, Self, flow) = UserClient(t, u, flow)
           /\ Mine(t, u, Server, flow) = ServerClient(t, u, flow)
           /\ \A l : Mine(t, u, Guest(l), flow) = GuestClient(t, u, l, flow)
  BY IdentityFor DEF Mine, UserClient, ServerClient, GuestClient

\* Three ways to hold an identity.
LEMMA HoldersAre ==
    ASSUME NEW u
    PROVE  /\ Self \in Holders(u) /\ Server \in Holders(u) /\ \A l \in ToSet(u.guests) : Guest(l) \in Holders(u)
           /\ \A who \in Holders(u) : who = Self \/ who = Server \/ \E l \in ToSet(u.guests) : who = Guest(l)
  BY DEF Holders

\* Who is in the part of a user.
LEMMA AccessEntry ==
    ASSUME NEW t, NEW u, NEW type, NEW flow, NEW c
    PROVE  InAccess(t, u, type, flow, TRUE, c) <=> type \in u.access /\ \E who \in Holders(u) : Entry(t, u, who, flow, c)
  <1>1. CASE c = UserClient(t, u, flow)
    BY <1>1, EntriesAre, IdentityFor, HoldersAre DEF Entry, InAccess
  <1>2. CASE "server" \in u.access /\ c = ServerClient(t, u, flow)
    BY <1>2, EntriesAre, IdentityFor, HoldersAre DEF Entry, InAccess
  <1>3. ASSUME NEW l \in ToSet(u.guests), c = GuestClient(t, u, l, flow)
        PROVE  InAccess(t, u, type, flow, TRUE, c) <=> type \in u.access /\ \E who \in Holders(u) : Entry(t, u, who, flow, c)
    BY <1>3, EntriesAre, IdentityFor, HoldersAre DEF Entry, InAccess
  <1>4. ASSUME NEW who \in Holders(u), Entry(t, u, who, flow, c)
        PROVE  \/ c = UserClient(t, u, flow)
               \/ "server" \in u.access /\ c = ServerClient(t, u, flow)
               \/ \E l \in ToSet(u.guests) : c = GuestClient(t, u, l, flow)
    <2>1. CASE who = Self
      BY <1>4, <2>1, EntriesAre DEF Entry
    <2>2. CASE who = Server
      BY <1>4, <2>2, EntriesAre, IdentityFor DEF Entry
    <2>3. ASSUME NEW l \in ToSet(u.guests), who = Guest(l) PROVE c = GuestClient(t, u, l, flow)
      BY <1>4, <2>3, EntriesAre DEF Entry
    <2>4. QED
      BY <2>1, <2>2, <2>3, HoldersAre
  <1>5. QED
    BY <1>1, <1>2, <1>3, <1>4 DEF InAccess

\* Who is in the part of a user at a hub with Reality.
LEMMA VlessEntry ==
    ASSUME NEW t, NEW u, NEW flow, NEW c
    PROVE  InVless(t, u, flow, c) <=>
              \E who \in Holders(u) : (who = Server \/ "xhttp" \in u.access) /\ Entry(t, u, who, flow, c)
  <1>1. ASSUME "xhttp" \in u.access, c = UserClient(t, u, flow)
        PROVE  \E who \in Holders(u) : (who = Server \/ "xhttp" \in u.access) /\ Entry(t, u, who, flow, c)
    BY <1>1, EntriesAre, IdentityFor, HoldersAre DEF Entry
  <1>2. ASSUME "server" \in u.access, c = ServerClient(t, u, flow)
        PROVE  \E who \in Holders(u) : (who = Server \/ "xhttp" \in u.access) /\ Entry(t, u, who, flow, c)
    BY <1>2, EntriesAre, IdentityFor, HoldersAre DEF Entry
  <1>3. ASSUME "xhttp" \in u.access, NEW l \in ToSet(u.guests), c = GuestClient(t, u, l, flow)
        PROVE  \E who \in Holders(u) : (who = Server \/ "xhttp" \in u.access) /\ Entry(t, u, who, flow, c)
    BY <1>3, EntriesAre, IdentityFor, HoldersAre DEF Entry
  <1>4. ASSUME NEW who \in Holders(u), who = Server \/ "xhttp" \in u.access, Entry(t, u, who, flow, c)
        PROVE  InVless(t, u, flow, c)
    <2>1. CASE who = Self
      BY <1>4, <2>1, EntriesAre, WhoDiffer DEF Entry, InVless
    <2>2. CASE who = Server
      BY <1>4, <2>2, EntriesAre, IdentityFor DEF Entry, InVless
    <2>3. ASSUME NEW l \in ToSet(u.guests), who = Guest(l) PROVE InVless(t, u, flow, c)
      BY <1>4, <2>3, EntriesAre, WhoDiffer DEF Entry, InVless
    <2>4. QED
      BY <2>1, <2>2, <2>3, HoldersAre
  <1>5. QED
    BY <1>1, <1>2, <1>3, <1>4 DEF InVless

\* Who is in a list by access type.
LEMMA AccessEntries ==
    ASSUME NEW t, WellFormed(t), NEW type, NEW flow
    PROVE  \A c : c \in ToSet(AccessClients(t, type, flow, TRUE)) <=>
              \E u \in ToSet(t.users) : type \in u.access /\ \E who \in Holders(u) : Entry(t, u, who, flow, c)
  <1>1. \A c : c \in ToSet(AccessClients(t, type, flow, TRUE)) <=>
           \E u \in ToSet(t.users) : InAccess(t, u, type, flow, TRUE, c)
    BY AccessClientsAre
  <1>2. QED
    BY <1>1, AccessEntry

\* Whether the direct inbound of a hub lists u's identity who.
Lists(t, r, u, who) == IF RegionTls(t, r) # Unset THEN "tls" \in u.access ELSE who = Server \/ "xhttp" \in u.access

\* Who is in the list of a hub's direct inbound.
LEMMA HubEntries ==
    ASSUME NEW e, WellFormed(e.t), NEW flow, flow = e.key.enc
    PROVE  \A c : c \in ToSet(HubClients(e)) <=>
              \/ \E u \in ToSet(e.t.users) : \E who \in Holders(u) : Lists(e.t, e.r, u, who) /\ Entry(e.t, u, who, flow, c)
              \/ \E p \in ToSet(e.t.portals) : c = PortalClient(e.t, p, flow)
  <1> DEFINE a == AccessClients(e.t, "tls", flow, TRUE)
             v == VlessClients(e.t, flow)
             q == PortalClients(e.t, flow)
  <1>1. HubClients(e) = (IF RegionTls(e.t, e.r) # Unset THEN a ELSE v) \o q
    BY DEF HubClients
  <1>2. /\ IsSeq(a)
        /\ \A c : c \in ToSet(a) <=>
              \E u \in ToSet(e.t.users) : "tls" \in u.access /\ \E who \in Holders(u) : Entry(e.t, u, who, flow, c)
    BY AccessEntries, AccessClientsAre
  <1>3. /\ IsSeq(v)
        /\ \A c : c \in ToSet(v) <=> \E u \in ToSet(e.t.users) : InVless(e.t, u, flow, c)
    BY VlessClientsAre
  <1>4. IsSeq(q) /\ \A c : c \in ToSet(q) <=> \E p \in ToSet(e.t.portals) : c = PortalClient(e.t, p, flow)
    BY PortalClientsAre
  <1> HIDE DEF a, v, q
  <1>5. CASE RegionTls(e.t, e.r) # Unset
    <2>1. HubClients(e) = a \o q
      BY <1>1, <1>5
    <2>2. ToSet(HubClients(e)) = ToSet(a) \cup ToSet(q)
      BY <1>2, <1>4, <2>1, Concatenation
    <2>3. \A c : c \in ToSet(a) <=>
             \E u \in ToSet(e.t.users) : \E who \in Holders(u) : Lists(e.t, e.r, u, who) /\ Entry(e.t, u, who, flow, c)
      BY <1>2, <1>5 DEF Lists
    <2>4. QED
      BY <1>4, <2>2, <2>3
  <1>6. CASE RegionTls(e.t, e.r) = Unset
    <2>1. HubClients(e) = v \o q
      BY <1>1, <1>6
    <2>2. ToSet(HubClients(e)) = ToSet(v) \cup ToSet(q)
      BY <1>3, <1>4, <2>1, Concatenation
    <2>3. \A c : c \in ToSet(v) <=>
             \E u \in ToSet(e.t.users) : \E who \in Holders(u) : Lists(e.t, e.r, u, who) /\ Entry(e.t, u, who, flow, c)
      BY <1>3, <1>6, VlessEntry DEF Lists
    <2>4. QED
      BY <1>4, <2>2, <2>3
  <1>7. QED
    BY <1>5, <1>6

\* Those lists have users' identities and portals' only.
LEMMA ListsAreTheirs ==
    ASSUME NEW t, WellFormed(t), NEW flow
    PROVE  /\ \A type : Theirs(t, ToSet(AccessClients(t, type, flow, TRUE)), flow)
           /\ \A e : (e.t = t /\ e.key.enc = flow) => Theirs(t, ToSet(HubClients(e)), flow)
  <1>1. ASSUME NEW type PROVE Theirs(t, ToSet(AccessClients(t, type, flow, TRUE)), flow)
    <2>1. \A c : c \in ToSet(AccessClients(t, type, flow, TRUE)) =>
             \E u \in ToSet(t.users) : \E who \in Holders(u) : Entry(t, u, who, flow, c)
      BY AccessEntries
    <2>2. QED
      BY <2>1 DEF Theirs, Entry
  <1>2. ASSUME NEW e, e.t = t, e.key.enc = flow PROVE Theirs(t, ToSet(HubClients(e)), flow)
    <2> DEFINE k == e.key.enc
    <2>1. k = flow /\ WellFormed(e.t)
      BY <1>2
    <2>2. \A c : c \in ToSet(HubClients(e)) =>
             \/ \E u \in ToSet(e.t.users) : \E who \in Holders(u) : Entry(e.t, u, who, k, c)
             \/ \E p \in ToSet(e.t.portals) : c = PortalClient(e.t, p, k)
      BY <2>1, HubEntries
    <2> HIDE DEF k
    <2>3. QED
      BY <1>2, <2>1, <2>2 DEF Theirs, Entry
  <1>3. QED
    BY <1>1, <1>2

\* Whoever is in a list that is users' and portals' is let in alone.
LEMMA LetInAlone ==
    ASSUME NEW t, WellFormed(t), Loads(t), PathsApart(t), NEW flow, NEW S, Theirs(t, S, flow),
           NEW id, NEW c \in S, c.id = id, c.flow = flow,
           \/ \E u \in ToSet(t.users) : \E who \in Holders(u) : id = IdFor(t, u, who)
           \/ \E p \in ToSet(t.portals) : id = PortalUuid(t.ns, p)
    PROVE  \A x : x \in Known(S, id) <=> x = c
  <1>1. c \in Known(S, id)
    BY DEF Known, SameId
  <1>2. CASE \E u \in ToSet(t.users) : \E who \in Holders(u) : id = IdFor(t, u, who)
    <2>1. PICK u \in ToSet(t.users) : \E who \in Holders(u) : id = IdFor(t, u, who)
      BY <1>2
    <2>2. PICK who \in Holders(u) : id = IdFor(t, u, who)
      BY <2>1
    <2>3. \A x \in Known(S, id) : x = Mine(t, u, who, flow)
      BY <2>2, OnlyOneself
    <2>4. QED
      BY <1>1, <2>3
  <1>3. CASE \E p \in ToSet(t.portals) : id = PortalUuid(t.ns, p)
    <2>1. PICK p \in ToSet(t.portals) : id = PortalUuid(t.ns, p)
      BY <1>3
    <2>2. \A x \in Known(S, id) : x = PortalClient(t, p, flow)
      BY <2>1, OnlyOneself
    <2>3. QED
      BY <1>1, <2>2
  <1>4. QED
    BY <1>2, <1>3

\* What is known of a hub: it is as the file says, and DialsApart holds of it.
HubOf(e, t, g) ==
    /\ e.t = t /\ WellFormed(t) /\ Loads(t)
    /\ e.r.type = "hub" /\ e.key = KeysAt(g)[e.n.id] /\ Marked(e)
    /\ [r |-> e.r, n |-> e.n] \in ToSet(Places(t, "hub"))
    /\ e = [t |-> e.t, r |-> e.r, n |-> e.n, key |-> e.key]

\* The hubs of a file are such.
LEMMA HubsOf ==
    ASSUME NEW x \in Loadable, NEW g \in [Range(CircleOf) -> 0..MaxRotations], NEW t, t = Topo[x]
    PROVE  \A e : e \in ToSet(Envs(t, "hub", KeysAt(g))) <=>
              \E pl \in ToSet(Places(t, "hub")) : e = Env(t, pl, KeysAt(g)) /\ HubOf(e, t, g)
  <1>1. x \in DOMAIN Topo /\ Loads(t) /\ WellFormed(t)
    BY FieldsAssumption DEF Loadable
  <1> DEFINE s == Places(t, "hub")
  <1>2. IsSeq(s) /\ \A pl : pl \in ToSet(s) => pl = [r |-> pl.r, n |-> pl.n] /\ pl.r.type = "hub"
    BY <1>1, PlaceElements
  <1>3. \A e : e \in ToSet(Envs(t, "hub", KeysAt(g))) <=> \E pl \in ToSet(s) : e = Env(t, pl, KeysAt(g))
    BY DEF Envs, ToSet
  <1>4. ToSet(s) \subseteq AllPlaces(t)
    BY DEF AllPlaces
  <1>5. ASSUME NEW pl \in ToSet(s) PROVE HubOf(Env(t, pl, KeysAt(g)), t, g)
    <2> DEFINE e == Env(t, pl, KeysAt(g))
    <2>1. e.t = t /\ e.r = pl.r /\ e.n = pl.n /\ e.key = KeysAt(g)[e.n.id] /\ e = [t |-> e.t, r |-> e.r, n |-> e.n, key |-> e.key]
      BY DEF Env
    <2>2. Marked(e)
      <3>1. pl \in AllPlaces(Topo[x])
        BY <1>4
      <3>2. e = Env(Topo[x], pl, KeysAt(g))
        OBVIOUS
      <3> HIDE DEF e
      <3>3. QED
        BY <1>1, <3>1, <3>2, MarkAssumption DEF Marked
    <2> HIDE DEF e
    <2>3. [r |-> e.r, n |-> e.n] = pl /\ e.r.type = "hub"
      BY <1>2, <2>1
    <2>4. HubOf(e, t, g)
      BY <1>1, <2>1, <2>2, <2>3 DEF HubOf, s
    <2>5. QED
      BY <2>4 DEF e
  <1>6. QED
    BY <1>3, <1>5 DEF s

\* So is one that runs.
LEMMA HubRuns ==
    ASSUME NEW b \in Snapshots, NEW n \in Declared(b), IsHub(b, n), NEW t, t = Topo[b.topo], NEW e, e = EnvAt(b, n)
    PROVE  e.n.id = n /\ HubOf(e, t, b.gen) /\ e \in ToSet(Envs(t, "hub", KeysAt(b.gen)))
  <1> DEFINE pl == PlaceIn(b, n)
  <1>1. b.topo \in Loadable /\ b.topo \in DOMAIN Topo /\ b.gen \in [Range(CircleOf) -> 0..MaxRotations] /\ WellFormed(t)
    BY FieldsAssumption DEF Snapshots, Loadable
  <1>2. pl \in AllPlaces(t) /\ pl.n.id = n /\ pl.r.type = "hub" /\ e.n = pl.n
    BY <1>1, EnvFields DEF IsHub
  <1>3. e = Env(t, pl, KeysAt(b.gen))
    BY DEF EnvAt
  <1> HIDE DEF pl
  <1>4. pl \in ToSet(Places(t, "hub"))
    BY <1>1, <1>2, PlaceElements DEF AllPlaces
  <1>5. e \in ToSet(Envs(t, "hub", KeysAt(b.gen)))
    BY <1>3, <1>4 DEF Envs, ToSet
  <1>6. HubOf(e, t, b.gen)
    BY <1>1, <1>5, HubsOf
  <1>7. QED
    BY <1>2, <1>5, <1>6

\* What DialsApart, and loading, say of a hub.
LEMMA HubSays ==
    ASSUME NEW e, NEW t, NEW g, HubOf(e, t, g), HubsApart(t)
    PROVE  /\ e.t.cdn # Unset => FirstName(e.t, e.r, e.n) # e.t.cdn.hub
           /\ PinRight(e.t, e.r, e.n)
           /\ (e.t.cdn # Unset /\ e.r.cdn # Unset) => Haproxy(e.t, e.r, e.n) /\ Cdn(e) # Unset
           /\ Direct(e).names[1] \in ToSet(Direct(e).names)
  <1> DEFINE pl == [r |-> e.r, n |-> e.n]
  <1>1. pl.r = e.r /\ pl.n = e.n /\ pl \in ToSet(Places(t, "hub")) /\ pl \in AllPlaces(t)
    BY DEF HubOf, AllPlaces
  <1> HIDE DEF pl
  <1>2. e.t = t /\ WellFormed(t) /\ Loads(t) /\ e.r.type = "hub" /\ Marked(e)
    BY DEF HubOf
  <1>3. NodeLoads(t, e.r, e.n)
    BY <1>1, <1>2 DEF Loads
  <1>4. e.r \in ToSet(t.regions) /\ e.n \in ToSet(e.r.nodes)
    BY <1>1, <1>2, PlaceFacts
  <1>5. Named(t.hub.reality) /\ Named(e.r.reality) /\ Named(e.n.reality)
    BY <1>2, <1>4 DEF WellFormed
  <1>6. RegionTls(t, e.r) = Unset => Reality(t, e.r, e.n) # Unset
    BY <1>2 DEF Loads, Marked, RegionTls, Reality, Or
  <1>7. Reality(t, e.r, e.n) # Unset => Named(Reality(t, e.r, e.n))
    BY <1>2, <1>5 DEF Reality, Or
  <1>8. Direct(e).names[1] \in ToSet(Direct(e).names)
    <2>1. CASE RegionTls(t, e.r) # Unset
      <3>1. Direct(e).names = <<e.n.host>>
        BY <1>2, <2>1, HubDirect
      <3>2. \A h : <<h>>[1] = h /\ ToSet(<<h>>) = {h}
        BY OneIsSeq
      <3>3. QED
        BY <3>1, <3>2
    <2>2. CASE RegionTls(t, e.r) = Unset
      <3> DEFINE s == ServerNames(Reality(t, e.r, e.n))
      <3>1. Direct(e).names = s
        BY <1>2, <2>2, HubDirect
      <3>2. IsSeq(s) /\ s # <<>>
        BY <1>6, <1>7, <2>2, NamesListed
      <3> HIDE DEF s
      <3>3. Len(s) \in Nat /\ Len(s) # 0
        BY <3>2 DEF IsSeq
      <3>4. s[1] \in ToSet(s)
        BY <3>2, <3>3, Elements
      <3>5. QED
        BY <3>1, <3>4
    <2>3. QED
      BY <2>1, <2>2
  <1>9. (e.t.cdn # Unset => FirstName(e.t, e.r, e.n) # e.t.cdn.hub) /\ PinRight(e.t, e.r, e.n)
    BY <1>1, <1>2 DEF HubsApart
  <1>10. (e.t.cdn # Unset /\ e.r.cdn # Unset) => Haproxy(e.t, e.r, e.n) /\ Cdn(e) # Unset
    BY <1>2, <1>3 DEF NodeLoads, Marked
  <1>11. QED
    BY <1>8, <1>9, <1>10

\* Hubs of one host are one, and so are those of one region with one id.
LEMMA OneHub ==
    ASSUME NEW t, NEW g, NEW e, NEW s, HubOf(e, t, g), HubOf(s, t, g), HubsApart(t)
    PROVE  /\ e.n.host = s.n.host => e = s
           /\ (e.r.id = s.r.id /\ e.n.id = s.n.id) => e = s
           /\ e.r.id = s.r.id => e.r = s.r
           /\ (e.r.cdn # Unset /\ e.r.cdn = s.r.cdn) => CircleOf[e.n.id] = CircleOf[s.n.id]
  <1> DEFINE p == [r |-> e.r, n |-> e.n]
             q == [r |-> s.r, n |-> s.n]
  <1>1. /\ p.r = e.r /\ p.n = e.n /\ p \in ToSet(Places(t, "hub")) /\ p \in AllPlaces(t)
        /\ q.r = s.r /\ q.n = s.n /\ q \in ToSet(Places(t, "hub")) /\ q \in AllPlaces(t)
    BY DEF HubOf, AllPlaces
  <1> HIDE DEF p, q
  <1>2. /\ e.t = t /\ s.t = t /\ WellFormed(t) /\ Loads(t)
        /\ e.key = KeysAt(g)[e.n.id] /\ s.key = KeysAt(g)[s.n.id]
        /\ e = [t |-> e.t, r |-> e.r, n |-> e.n, key |-> e.key]
        /\ s = [t |-> s.t, r |-> s.r, n |-> s.n, key |-> s.key]
        /\ e.r.type = "hub" /\ s.r.type = "hub"
    BY DEF HubOf
  <1>3. (e.r = s.r /\ e.n = s.n) => e = s
    BY <1>2
  <1>4. e.n.host = s.n.host => e = s
    <2>1. e.n.host = s.n.host => p = q
      BY <1>1 DEF HubsApart
    <2>2. QED
      BY <1>1, <1>3, <2>1
  <1>5. e.r.id = s.r.id => e.r = s.r
    <2>0. IsSeq(t.regions)
      BY <1>2 DEF WellFormed, Listed, IsSeq
    <2>1. e.r \in ToSet(t.regions) /\ s.r \in ToSet(t.regions)
      BY <1>1, <1>2, PlaceFacts
    <2>2. PICK i \in 1..Len(t.regions), j \in 1..Len(t.regions) : e.r = t.regions[i] /\ s.r = t.regions[j]
      BY <2>0, <2>1, Elements
    <2>3. DOMAIN t.regions = 1..Len(t.regions)
      BY <2>0, SeqFacts
    <2> DEFINE f == IdsOf(t.regions)
    <2>4. IsInjective(f)
      BY <1>2 DEF Loads
    <2>5. DOMAIN f = 1..Len(t.regions) /\ f[i] = e.r.id /\ f[j] = s.r.id
      BY <2>2, <2>3 DEF IdsOf
    <2> HIDE DEF f
    <2>6. QED
      BY <2>2, <2>4, <2>5 DEF IsInjective
  <1>6. e.n.id = s.n.id => e.n = s.n
    <2> DEFINE h == Nodes(t, "hub")
    <2>1. e.n \in ToSet(h) /\ s.n \in ToSet(h) /\ IsSeq(h)
      <3>1. p.n \in ToSet(Nodes(t, p.r.type)) /\ q.n \in ToSet(Nodes(t, q.r.type))
        BY <1>1, <1>2, PlaceFacts
      <3>2. QED
        BY <1>1, <1>2, <3>1, NodeElements
    <2>2. PICK i \in 1..Len(h), j \in 1..Len(h) : e.n = h[i] /\ s.n = h[j]
      BY <2>1, Elements
    <2>3. h[i].id = h[j].id => i = j
      BY <1>2, <2>2, HubIdsDiffer
    <2>4. QED
      BY <2>2, <2>3
  <1>7. (e.r.cdn # Unset /\ e.r.cdn = s.r.cdn) => CircleOf[e.n.id] = CircleOf[s.n.id]
    BY <1>1 DEF HubsApart
  <1>8. QED
    BY <1>3, <1>4, <1>5, <1>6, <1>7

\* User u of file s has the same entry and group in file t, with one namespace.
Stays(u, s, t) ==
    /\ u \in ToSet(s.users) /\ u \in ToSet(t.users) /\ s.ns = t.ns
    /\ {g \in ToSet(s.groups) : g.id = u.group} = {g \in ToSet(t.groups) : g.id = u.group}

\* So do its identities.
LEMMA StaysIdentity ==
    ASSUME NEW s, NEW t, s.ns = t.ns, NEW u, NEW who \in Holders(u)
    PROVE  IdFor(s, u, who) = IdFor(t, u, who) /\ EmailFor(s, u, who) = EmailFor(t, u, who)
  <1>1. CASE who = Self
    BY <1>1, IdentityFor DEF UserUuid, UserEmail
  <1>2. CASE who = Server
    BY <1>2, IdentityFor DEF ServerUuid, UserUuid, ServerEmail
  <1>3. ASSUME NEW l \in ToSet(u.guests), who = Guest(l)
        PROVE  IdFor(s, u, who) = IdFor(t, u, who) /\ EmailFor(s, u, who) = EmailFor(t, u, who)
    BY <1>3, IdentityFor DEF GuestUuid, UserUuid, GuestEmail
  <1>4. QED
    BY <1>1, <1>2, <1>3, HoldersAre

\* The hub that has the user takes the short id.
LEMMA ShortIdTaken ==
    ASSUME NEW s, NEW t, Loads(s), WellFormed(s), NEW u, Stays(u, s, t), NEW who \in Holders(u),
           NEW r, RegionTls(t, r) = Unset, Lists(t, r, u, who), WellFormed(t)
    PROVE  DialShortId(s, u, who) \in HubShortIds(t)
  <1>1. CASE who \in {Self, Server}
    <2> DEFINE g == CHOOSE g \in ToSet(s.groups) : g.id = u.group
    <2>0. IsSeq(s.groups)
      BY DEF WellFormed, Listed, IsSeq
    <2>1. \E h \in ToSet(s.groups) : h.id = u.group
      <3>1. u.group \in ToSet(IdsOf(s.groups))
        BY DEF Loads, Stays
      <3>2. PICK i \in DOMAIN s.groups : s.groups[i].id = u.group
        BY <3>1 DEF IdsOf, ToSet
      <3>3. s.groups[i] \in ToSet(s.groups)
        BY DEF ToSet
      <3>4. QED
        BY <3>2, <3>3
    <2>2. g \in ToSet(s.groups) /\ g.id = u.group
      BY <2>1
    <2>3. DialShortId(s, u, who) = GroupShortId(s.ns, g)
      BY <1>1 DEF DialShortId
    <2> HIDE DEF g
    <2>4. g \in ToSet(t.groups)
      BY <2>2 DEF Stays
    <2>5. GroupShortId(s.ns, g) = GroupShortId(t.ns, g)
      BY DEF Stays
    <2>6. QED
      BY <2>3, <2>4, <2>5 DEF HubShortIds
  <1>2. ASSUME NEW l \in ToSet(u.guests), who = Guest(l) PROVE DialShortId(s, u, who) \in HubShortIds(t)
    <2>1. who \notin {Self, Server}
      BY <1>2, WhoDiffer
    <2>2. DialShortId(s, u, who) = UserShortId(t.ns, u)
      BY <2>1 DEF DialShortId, Stays
    <2>3. "xhttp" \in u.access
      BY <2>1 DEF Lists
    <2>4. u.guests # <<>> /\ u \in ToSet(t.users)
      BY EmptyIsSeq DEF Stays
    <2>5. u.access \cap {"xhttp", "cdn"} # {}
      BY <2>3
    <2>6. QED
      BY <2>2, <2>4, <2>5 DEF HubShortIds
  <1>3. QED
    BY <1>1, <1>2, HoldersAre

\* A direct URL of a hub that lists its owner lets the owner in, and only it.
LEMMA DirectShareTaken ==
    ASSUME NEW e, NEW s, NEW t, NEW o, NEW g, NEW h, HubOf(e, t, g), HubOf(s, o, h), Agree(e, s),
           HubsApart(t), PathsApart(t),
           NEW u, Stays(u, o, t), NEW who \in Holders(u), HasIdentity(u, who), Lists(t, e.r, u, who),
           NEW d, Twin(d, DirectDial(s, IdFor(o, u, who), DialShortId(o, u, who)))
    PROVE  \A c : c \in Admitted(e, d) <=> c = Mine(t, u, who, e.key.enc)
  <1> DEFINE id == IdFor(o, u, who)
             sid == DialShortId(o, u, who)
             S == ToSet(HubClients(e))
             m == Mine(t, u, who, e.key.enc)
  <1>0. e.t = t /\ s.t = o /\ e.r.type = "hub" /\ WellFormed(t) /\ Loads(t) /\ WellFormed(o) /\ Loads(o)
    BY DEF HubOf
  <1>1. id = IdFor(t, u, who)
    BY StaysIdentity DEF Stays
  <1>2. RegionTls(t, e.r) = Unset => sid \in HubShortIds(t)
    BY <1>0, ShortIdTaken
  <1>3. /\ e.t.cdn # Unset => FirstName(e.t, e.r, e.n) # e.t.cdn.hub
        /\ Direct(e).names[1] \in ToSet(Direct(e).names)
    BY HubSays
  <1>4. Twin(d, DirectDial(s, id, sid))
    OBVIOUS
  <1>5. PICK k : k = e.key.enc
    OBVIOUS
  <1>6. m = Mine(t, u, who, k)
    BY <1>5
  <1>7. m.id = id /\ m.flow = k
    BY <1>1, <1>6, EntryFields
  <1>8. m \in S
    <2>1. Entry(t, u, who, k, m)
      BY <1>6 DEF Entry
    <2>2. u \in ToSet(t.users)
      BY DEF Stays
    <2>3. QED
      BY <1>0, <1>5, <2>1, <2>2, HubEntries
  <1>9. Theirs(t, S, k)
    BY <1>0, <1>5, ListsAreTheirs
  <1>10. \E v \in ToSet(t.users) : \E how \in Holders(v) : id = IdFor(t, v, how)
    BY <1>1 DEF Stays
  <1> HIDE DEF id, sid, S, m
  <1>11. \A x : x \in Known(S, id) <=> x = m
    BY <1>0, <1>7, <1>8, <1>9, <1>10, LetInAlone
  <1>12. \A c : c \in Admitted(e, d) <=> c \in Known(ToSet(HubClients(e)), id) /\ c.flow = e.key.enc
    BY <1>0, <1>2, <1>3, <1>4, DirectTaken
  <1>13. \A c : c \in Admitted(e, d) <=> c \in Known(S, id) /\ c.flow = k
    BY <1>5, <1>12 DEF S
  <1>14. \A c : c \in Admitted(e, d) <=> c = m
    BY <1>7, <1>11, <1>13
  <1>15. QED
    BY <1>14 DEF m

\* So does a portal's dial, as long as the portal keeps its id and its UUID.
LEMMA PortalTaken ==
    ASSUME NEW e, NEW s, NEW t, NEW o, NEW g, NEW h, HubOf(e, t, g), HubOf(s, o, h), Agree(e, s),
           HubsApart(t), PathsApart(t),
           NEW p, NEW q \in ToSet(t.portals), q.id = p.id, q.uuid = p.uuid,
           NEW d, Twin(d, PortalDial(s, p))
    PROVE  \A c : c \in Admitted(e, d) <=> c = PortalClient(t, q, e.key.enc)
  <1> DEFINE id == PortalUuid(o.ns, p)
             sid == PortalShortId(o.ns, p)
             S == ToSet(HubClients(e))
             m == PortalClient(t, q, e.key.enc)
  <1>0. e.t = t /\ s.t = o /\ e.r.type = "hub" /\ WellFormed(t) /\ Loads(t) /\ t.ns = o.ns
    BY DEF HubOf, Agree
  <1>1. id = PortalUuid(t.ns, q) /\ sid = PortalShortId(t.ns, q)
    BY <1>0 DEF PortalUuid, PortalShortId
  <1>2. sid \in HubShortIds(t)
    BY <1>1 DEF HubShortIds
  <1>3. /\ e.t.cdn # Unset => FirstName(e.t, e.r, e.n) # e.t.cdn.hub
        /\ Direct(e).names[1] \in ToSet(Direct(e).names)
    BY HubSays
  <1>4. Twin(d, DirectDial(s, id, sid))
    BY <1>0 DEF PortalDial
  <1>5. PICK k : k = e.key.enc
    OBVIOUS
  <1>6. m = PortalClient(t, q, k)
    BY <1>5
  <1>7. m.id = id /\ m.flow = k
    BY <1>1, <1>6, ClientFields
  <1>8. m \in S
    BY <1>0, <1>5, <1>6, HubEntries
  <1>9. Theirs(t, S, k)
    BY <1>0, <1>5, ListsAreTheirs
  <1>10. \E v \in ToSet(t.portals) : id = PortalUuid(t.ns, v)
    BY <1>1
  <1> HIDE DEF id, sid, S, m
  <1>11. \A x : x \in Known(S, id) <=> x = m
    BY <1>0, <1>7, <1>8, <1>9, <1>10, LetInAlone
  <1>12. \A c : c \in Admitted(e, d) <=> c \in Known(ToSet(HubClients(e)), id) /\ c.flow = e.key.enc
    BY <1>0, <1>2, <1>3, <1>4, DirectTaken
  <1>13. \A c : c \in Admitted(e, d) <=> c \in Known(S, id) /\ c.flow = k
    BY <1>5, <1>12 DEF S
  <1>14. \A c : c \in Admitted(e, d) <=> c = m
    BY <1>7, <1>11, <1>13
  <1>15. QED
    BY <1>14 DEF m

\* A URL for the CDN arrives at hubs with the keys of the one it was made for.
LEMMA CdnShareTaken ==
    ASSUME NEW e, NEW s, NEW t, NEW o, NEW g, NEW h, HubOf(e, t, g), HubOf(s, o, h),
           HubsApart(t), PathsApart(t), t.cdn = o.cdn, e.key = s.key, s.r.cdn = e.r.cdn, Cdn(s) # Unset,
           NEW u, Stays(u, o, t), NEW who \in Holders(u), HasIdentity(u, who), "cdn" \in u.access,
           NEW d, d = CdnDial(s, IdFor(o, u, who))
    PROVE  \A c : c \in Admitted(e, d) <=> c = Mine(t, u, who, e.key.enc)
  <1> DEFINE id == IdFor(o, u, who)
             S == ToSet(AccessClients(t, "cdn", e.key.enc, TRUE))
             m == Mine(t, u, who, e.key.enc)
  <1>0. e.t = t /\ s.t = o /\ e.r.type = "hub" /\ s.r.type = "hub" /\ WellFormed(t) /\ Loads(t)
    BY DEF HubOf
  <1>1. id = IdFor(t, u, who)
    BY StaysIdentity DEF Stays
  <1>2. s.t.cdn # Unset /\ s.r.cdn # Unset
    BY DEF Cdn
  <1>3. Haproxy(e.t, e.r, e.n) /\ Cdn(e) # Unset
    BY <1>0, <1>2, HubSays
  <1>4. Cdn(s).domain = t.cdn.hub /\ Cdn(s).host = t.cdn.hub /\ Cdn(s).path = e.r.cdn
    BY <1>0, <1>2 DEF Cdn
  <1>5. /\ d.via = "cdn" /\ d.sni = e.t.cdn.hub /\ d.host = e.t.cdn.hub /\ d.path = e.r.cdn
        /\ d.encryption = Encryption(e.key) /\ d.flow = e.key.enc /\ d.id = id
    BY <1>0, <1>4 DEF CdnDial
  <1>6. PICK k : k = e.key.enc
    OBVIOUS
  <1>7. m = Mine(t, u, who, k) /\ S = ToSet(AccessClients(t, "cdn", k, TRUE))
    BY <1>6
  <1>8. m.id = id /\ m.flow = k
    BY <1>1, <1>7, EntryFields
  <1>9. m \in S
    <2>1. Entry(t, u, who, k, m)
      BY <1>7 DEF Entry
    <2>2. u \in ToSet(t.users)
      BY DEF Stays
    <2>3. QED
      BY <1>0, <1>7, <2>1, <2>2, AccessEntries
  <1>10. Theirs(t, S, k)
    BY <1>0, <1>7, ListsAreTheirs
  <1>11. \E v \in ToSet(t.users) : \E how \in Holders(v) : id = IdFor(t, v, how)
    BY <1>1 DEF Stays
  <1> HIDE DEF id, S, m
  <1>12. \A x : x \in Known(S, id) <=> x = m
    BY <1>0, <1>8, <1>9, <1>10, <1>11, LetInAlone
  <1>13. \A c : c \in Admitted(e, d) <=>
            c \in Known(ToSet(AccessClients(e.t, "cdn", e.key.enc, TRUE)), d.id) /\ c.flow = e.key.enc
    BY <1>0, <1>3, <1>5, CdnTaken
  <1>14. \A c : c \in Admitted(e, d) <=> c \in Known(S, id) /\ c.flow = k
    BY <1>0, <1>5, <1>6, <1>13 DEF S
  <1>15. \A c : c \in Admitted(e, d) <=> c = m
    BY <1>8, <1>12, <1>14
  <1>16. QED
    BY <1>15 DEF m

\* Dial d shows what the Hysteria inbound asks for, and an identity.
Presents(d, in, id) ==
    /\ d.via = "hysteria" /\ d.id = id
    /\ d.port = in.port /\ d.sni = in.end.sni /\ d.pin = in.end.pin /\ d.obfs = in.end.obfs

\* A Hysteria URL of a hub with the same settings.
LEMMA HysteriaShareTaken ==
    ASSUME NEW e, NEW s, NEW t, NEW o, NEW g, NEW h, HubOf(e, t, g), HubOf(s, o, h), Agree(e, s),
           HubsApart(t), PathsApart(t),
           NEW u, Stays(u, o, t), NEW who \in Holders(u), HasIdentity(u, who), "hysteria" \in u.access,
           HysteriaInbound(s) # Unset,
           NEW d, Presents(d, HysteriaInbound(s), IdFor(o, u, who))
    PROVE  \E x : x.email = EmailFor(t, u, who) /\ \A c : c \in Admitted(e, d) <=> c = x
  <1>1. PICK flow : flow = FALSE
    OBVIOUS
  <1> DEFINE in == HysteriaInbound(s)
             id == IdFor(o, u, who)
             S == ToSet(HysteriaClients(e))
             m == Mine(t, u, who, flow)
             hy == Hysteria(e.t, e.r, e.n)
             end == Endpoint(hy, Reality(e.t, e.r, e.n), e.key.pair)
  <1>0. e.t = t /\ s.t = o /\ e.r.type = "hub" /\ s.r.type = "hub" /\ WellFormed(t) /\ Loads(t) /\ Marked(e) /\ e.key = s.key
    BY DEF HubOf, Agree
  <1>2. id = IdFor(t, u, who)
    BY StaysIdentity DEF Stays
  <1>3. hy = Hysteria(s.t, s.r, s.n) /\ Reality(e.t, e.r, e.n) = Reality(s.t, s.r, s.n)
    BY <1>0, SameHubSettings
  <1>4. in = HysteriaListener(s) /\ hy # Unset
    BY <1>3 DEF HysteriaInbound
  <1>5. in.port = hy.port /\ in.end = end
    BY <1>0, <1>3, <1>4 DEF HysteriaListener
  <1>6. HysteriaClients(e) = AccessClients(t, "hysteria", flow, TRUE)
    BY <1>0, <1>1 DEF HysteriaClients
  <1>7. m.id = id /\ m.flow = flow /\ m.email = EmailFor(t, u, who)
    <2>1. Mine(t, u, who, flow).id = IdFor(t, u, who) /\ Mine(t, u, who, flow).flow = flow
        /\ Mine(t, u, who, flow).email = EmailFor(t, u, who)
      BY EntryFields
    <2>2. m = Mine(t, u, who, flow)
      OBVIOUS
    <2> HIDE DEF m
    <2>3. QED
      BY <1>2, <2>1, <2>2
  <1>8. m \in S
    <2>1. Entry(t, u, who, flow, m)
      BY DEF Entry
    <2>2. u \in ToSet(t.users)
      BY DEF Stays
    <2>3. QED
      BY <1>0, <1>6, <2>1, <2>2, AccessEntries
  <1>9. Theirs(t, S, flow)
    BY <1>0, <1>6, ListsAreTheirs
  <1>10. \E v \in ToSet(t.users) : \E how \in Holders(v) : id = IdFor(t, v, how)
    BY <1>2 DEF Stays
  <1>11. HysteriaClients(e) # <<>>
    BY <1>8, EmptyIsSeq
  <1>12. PinRight(e.t, e.r, e.n)
    BY HubSays
  <1> HIDE DEF in, id, S, m, hy, end
  <1>13. \A x : x \in Known(S, id) <=> x = m
    BY <1>0, <1>7, <1>8, <1>9, <1>10, LetInAlone
  <1>14. Admitted(e, d) = Known(ToSet(HysteriaClients(e)), d.id)
    BY <1>0, <1>4, <1>5, <1>11, <1>12, HysteriaTaken DEF hy, end, Presents, in
  <1>15. \A c : c \in Admitted(e, d) <=> c = m
    BY <1>13, <1>14 DEF S, id, Presents
  <1>16. QED
    BY <1>7, <1>15

\* What the lists of users make of the peers up to a user.
PeersFrom(ns, q) == FlattenSeq([i \in DOMAIN q |-> PeersOf(ns, q[i])])
WireguardUsers(q) == Where(q, LAMBDA v : "wireguard" \in v.access)

\* Peers are numbered through the users who may use WireGuard: others have none.
LEMMA PeersOfWireguard ==
    ASSUME NEW ns, NEW s, IsSeq(s), \A v \in ToSet(s) : IsSeq(v.guests)
    PROVE  \A k \in 0..Len(s) :
              PeersFrom(ns, UpToPlace(s, k)) = PeersFrom(ns, WireguardUsers(UpToPlace(s, k)))
  <1> DEFINE w == [i \in DOMAIN s |-> IF "wireguard" \in s[i].access THEN <<s[i]>> ELSE <<>>]
             p == [i \in DOMAIN s |-> PeersOf(ns, s[i])]
             n == Len(s)
  <1>1. n \in Nat /\ DOMAIN s = 1..n /\ \A i \in 1..n : s[i] \in ToSet(s)
    BY SeqFacts, Elements
  <1>2. /\ IsSeq(w) /\ Len(w) = n /\ IsSeq(p) /\ Len(p) = n
        /\ \A i \in 1..n : w[i] = (IF "wireguard" \in s[i].access THEN <<s[i]>> ELSE <<>>) /\ p[i] = PeersOf(ns, s[i])
    <2>1. w = [i \in 1..n |-> w[i]] /\ p = [i \in 1..n |-> p[i]]
      BY <1>1
    <2>2. \A i \in 1..n : w[i] = (IF "wireguard" \in s[i].access THEN <<s[i]>> ELSE <<>>) /\ p[i] = PeersOf(ns, s[i])
      BY <1>1
    <2> HIDE DEF w, p
    <2>3. QED
      BY <1>1, <2>1, <2>2, FunctionIsSeq
  <1>3. \A i \in 1..n : IsSeq(w[i]) /\ IsSeq(p[i])
    <2>1. ASSUME NEW i \in 1..n PROVE IsSeq(PeersOf(ns, s[i]))
      <3> DEFINE t == [ns |-> ns]
      <3>1. IsSeq(s[i].guests) /\ t.ns = ns
        BY <1>1
      <3> HIDE DEF t
      <3>2. IsSeq(PeersOf(t.ns, s[i]))
        BY <3>1, PeersOfAre
      <3>3. QED
        BY <3>1, <3>2
    <2>2. IsSeq(<<>>) /\ \A x : IsSeq(<<x>>)
      BY EmptyIsSeq, OneIsSeq
    <2> HIDE DEF w, p
    <2>3. QED
      BY <1>2, <2>1, <2>2
  <1>4. ASSUME NEW k \in 0..n
        PROVE  /\ PeersFrom(ns, UpToPlace(s, k)) = FlattenSeq(UpToPlace(p, k))
               /\ WireguardUsers(UpToPlace(s, k)) = FlattenSeq(UpToPlace(w, k))
    <2> DEFINE b == UpToPlace(s, k)
    <2>1. DOMAIN b = 1..k /\ \A i \in 1..k : b[i] = s[i] /\ i \in DOMAIN s
      BY <1>1 DEF UpToPlace
    <2> HIDE DEF b
    <2>2. [i \in DOMAIN b |-> PeersOf(ns, b[i])] = UpToPlace(p, k)
      BY <2>1 DEF UpToPlace
    <2>3. [i \in DOMAIN b |-> IF "wireguard" \in b[i].access THEN <<b[i]>> ELSE <<>>] = UpToPlace(w, k)
      BY <2>1 DEF UpToPlace
    <2>4. WireguardUsers(b) = FlattenSeq([i \in DOMAIN b |-> IF "wireguard" \in b[i].access THEN <<b[i]>> ELSE <<>>])
      BY DEF WireguardUsers, Where, SeqConcat
    <2>5. PeersFrom(ns, b) = FlattenSeq(UpToPlace(p, k)) /\ WireguardUsers(b) = FlattenSeq(UpToPlace(w, k))
      BY <2>2, <2>3, <2>4 DEF PeersFrom
    <2>6. QED
      BY <2>5 DEF b
  <1> HIDE DEF w, p
  <1> DEFINE P(k) == FlattenSeq(UpToPlace(p, k))
             Q(k) == FlattenSeq(UpToPlace(w, k))
  <1>5. /\ P(0) = <<>> /\ \A k \in 0..(n - 1) : P(k + 1) = P(k) \o p[k + 1]
        /\ Q(0) = <<>> /\ \A k \in 0..(n - 1) : Q(k + 1) = Q(k) \o w[k + 1]
        /\ \A k \in 0..n : IsSeq(P(k)) /\ IsSeq(Q(k))
    <2>1. /\ IsSeq(p) /\ IsSeq(w) /\ \A i \in 1..Len(p) : IsSeq(p[i])
          /\ \A i \in 1..Len(w) : IsSeq(w[i])
      BY <1>2, <1>3
    <2>2. P(0) = <<>> /\ (\A k \in 0..(n - 1) : P(k + 1) = P(k) \o p[k + 1]) /\ \A k \in 0..n : IsSeq(P(k))
      BY <1>2, <2>1, FlattenBegins
    <2>3. Q(0) = <<>> /\ (\A k \in 0..(n - 1) : Q(k + 1) = Q(k) \o w[k + 1]) /\ \A k \in 0..n : IsSeq(Q(k))
      BY <1>2, <2>1, FlattenBegins
    <2>4. QED
      BY <2>2, <2>3
  <1> HIDE DEF P, Q
  <1>6. ASSUME NEW q, IsSeq(q), NEW u, IsSeq(PeersOf(ns, u)) PROVE PeersFrom(ns, q \o <<u>>) = PeersFrom(ns, q) \o PeersOf(ns, u)
    <2> DEFINE r == q \o <<u>>
               f == [i \in DOMAIN r |-> PeersOf(ns, r[i])]
               g == [i \in DOMAIN q |-> PeersOf(ns, q[i])]
               x == PeersOf(ns, u)
               h == g \o <<x>>
               m == Len(q)
    <2>1. /\ IsSeq(r) /\ Len(r) = m + 1 /\ m \in Nat /\ r[m + 1] = u /\ \A i \in 1..m : r[i] = q[i]
          /\ DOMAIN q = 1..m /\ DOMAIN r = 1..(m + 1)
      <3>1. /\ IsSeq(r) /\ Len(r) = m + 1 /\ m \in Nat /\ r[m + 1] = u /\ \A i \in 1..m : r[i] = q[i]
        BY <1>6, OneBehind
      <3> HIDE DEF r, m
      <3>2. DOMAIN r = 1..Len(r)
        BY <3>1, SeqFacts
      <3>3. DOMAIN q = 1..m
        BY <1>6, SeqFacts DEF m
      <3>4. QED
        BY <3>1, <3>2, <3>3
    <2> HIDE DEF r
    <2>2. /\ f = [i \in 1..(m + 1) |-> f[i]] /\ \A i \in 1..(m + 1) : f[i] = PeersOf(ns, r[i])
          /\ g = [i \in 1..m |-> g[i]] /\ \A i \in 1..m : g[i] = PeersOf(ns, q[i])
      BY <2>1
    <2> HIDE DEF f, g
    <2>3. IsSeq(f) /\ Len(f) = m + 1 /\ IsSeq(g) /\ Len(g) = m
      BY <2>1, <2>2, FunctionIsSeq
    <2>4. IsSeq(h) /\ Len(h) = m + 1 /\ h[m + 1] = x /\ \A i \in 1..m : h[i] = g[i]
      <3> HIDE DEF x
      <3>0. IsSeq(g)
        BY <2>3
      <3>1. IsSeq(h) /\ Len(h) = Len(g) + 1 /\ h[Len(g) + 1] = x /\ \A i \in 1..Len(g) : h[i] = g[i]
        BY ONLY <3>0, OneBehind
      <3> HIDE DEF h
      <3>2. QED
        BY <2>3, <3>1
    <2>5. \A i \in 1..(m + 1) : f[i] = h[i]
      <3> HIDE DEF h
      <3>1. \A i \in 1..m : f[i] = h[i]
        BY <2>1, <2>2, <2>4
      <3>2. f[m + 1] = h[m + 1]
        BY <2>1, <2>2, <2>4 DEF x
      <3>3. QED
        BY <2>1, <3>1, <3>2
    <2>6. f = h
      <3> HIDE DEF h
      <3>1. QED
        BY <2>3, <2>4, <2>5, SeqEquality
    <2>7. IsSeq(x)
      BY <1>6
    <2>8. FlattenSeq(h) = FlattenSeq(g) \o x
      BY <2>3, <2>7, FlattenAppended
    <2>9. PeersFrom(ns, r) = FlattenSeq(f) /\ PeersFrom(ns, q) = FlattenSeq(g)
      BY DEF PeersFrom, f, g
    <2>10. QED
      BY <2>6, <2>8, <2>9 DEF r
  <1> DEFINE T == {k \in Nat : k \in 0..n => P(k) = PeersFrom(ns, Q(k))}
  <1>7. 0 \in T
    <2>1. PeersFrom(ns, <<>>) = <<>>
      BY DEF PeersFrom, FlattenSeq
    <2>2. QED
      BY <1>5, <2>1
  <1>8. ASSUME NEW k \in Nat, k \in T PROVE k + 1 \in T
    <2>1. SUFFICES ASSUME k + 1 \in 0..n PROVE P(k + 1) = PeersFrom(ns, Q(k + 1))
      OBVIOUS
    <2>2. k \in 0..(n - 1) /\ k \in 0..n /\ k + 1 \in 1..n /\ P(k) = PeersFrom(ns, Q(k))
      BY <1>1, <1>8, <2>1
    <2>3. P(k + 1) = P(k) \o p[k + 1] /\ Q(k + 1) = Q(k) \o w[k + 1] /\ IsSeq(P(k)) /\ IsSeq(Q(k))
      BY <1>5, <2>2
    <2>4. p[k + 1] = PeersOf(ns, s[k + 1]) /\ w[k + 1] = IF "wireguard" \in s[k + 1].access THEN <<s[k + 1]>> ELSE <<>>
      BY <1>2, <2>2
    <2>5. CASE "wireguard" \in s[k + 1].access
      <3>1. Q(k + 1) = Q(k) \o <<s[k + 1]>>
        BY <2>3, <2>4, <2>5
      <3>2. IsSeq(PeersOf(ns, s[k + 1]))
        BY <1>3, <2>2, <2>4
      <3>3. PeersFrom(ns, Q(k) \o <<s[k + 1]>>) = PeersFrom(ns, Q(k)) \o PeersOf(ns, s[k + 1])
        BY <1>6, <2>3, <3>2
      <3>4. QED
        BY <2>2, <2>3, <2>4, <3>1, <3>3
    <2>6. CASE "wireguard" \notin s[k + 1].access
      <3>1. p[k + 1] = <<>> /\ w[k + 1] = <<>>
        BY <2>4, <2>6 DEF PeersOf
      <3>2. P(k + 1) = P(k) /\ Q(k + 1) = Q(k)
        BY <2>3, <3>1, ConcatEmpty
      <3>3. QED
        BY <2>2, <3>2
    <2>7. QED
      BY <2>5, <2>6
  <1> HIDE DEF T
  <1>9. Nat \subseteq T
    BY <1>7, <1>8, Upwards
  <1>10. \A k \in 0..n : P(k) = PeersFrom(ns, Q(k))
    BY <1>1, <1>9 DEF T
  <1>11. QED
    BY <1>4, <1>10 DEF P, Q

\* The peers of the first k users: all peers begin with them, and the k-th user's
\* are among them.
LEMMA PeersUpTo ==
    ASSUME NEW t, WellFormed(t), NEW k \in 1..Len(t.users), NEW u, u = t.users[k],
           NEW q, q = PeersFrom(t.ns, UpToPlace(t.users, k))
    PROVE  /\ \A i \in 1..Len(q) : i \in 1..Len(Peers(t)) /\ Peers(t)[i] = q[i]
           /\ IsSeq(q) /\ ToSet(PeersOf(t.ns, u)) \subseteq ToSet(q)
  <1> DEFINE s == t.users
             p == [i \in DOMAIN s |-> PeersOf(t.ns, s[i])]
             n == Len(s)
  <1>1. IsSeq(s)
    BY DEF WellFormed, Listed, IsSeq
  <1>2. n \in Nat /\ DOMAIN s = 1..n /\ \A i \in 1..n : s[i] \in ToSet(s)
    BY <1>1, SeqFacts, Elements
  <1>3. \A i \in 1..n : IsSeq(PeersOf(t.ns, s[i]))
    <2>1. ASSUME NEW i \in 1..n PROVE IsSeq(s[i].guests)
      BY <1>2, UserFacts
    <2>2. QED
      BY <2>1, PeersOfAre
  <1>4. Peers(t) = FlattenSeq(p)
    BY DEF Peers
  <1>5. p = [i \in 1..n |-> p[i]] /\ \A i \in 1..n : p[i] = PeersOf(t.ns, s[i])
    BY <1>2
  <1> HIDE DEF p
  <1>6. IsSeq(p) /\ Len(p) = n
    BY <1>2, <1>5, FunctionIsSeq
  <1>7. \A i \in 1..Len(p) : IsSeq(p[i])
    BY <1>3, <1>5, <1>6
  <1>8. q = FlattenSeq(UpToPlace(p, k))
    <2> DEFINE b == UpToPlace(s, k)
    <2>1. DOMAIN b = 1..k /\ \A i \in 1..k : b[i] = s[i] /\ i \in 1..n
      BY <1>2 DEF UpToPlace
    <2>2. q = FlattenSeq([i \in DOMAIN b |-> PeersOf(t.ns, b[i])])
      BY DEF PeersFrom
    <2> HIDE DEF b
    <2>3. [i \in DOMAIN b |-> PeersOf(t.ns, b[i])] = UpToPlace(p, k)
      BY <1>5, <2>1 DEF UpToPlace
    <2>4. QED
      BY <2>2, <2>3
  <1>9. k \in 0..Len(p) /\ k - 1 \in 0..(Len(p) - 1) /\ k - 1 \in 0..Len(p) /\ (k - 1) + 1 = k
    BY <1>2, <1>6
  <1>10. \A i \in 1..Len(q) : i \in 1..Len(Peers(t)) /\ Peers(t)[i] = q[i]
    BY <1>4, <1>6, <1>7, <1>8, <1>9, FlattenBegins
  <1> DEFINE r == FlattenSeq(UpToPlace(p, k - 1))
  <1>11. q = r \o p[k] /\ IsSeq(r)
    <2>1. FlattenSeq(UpToPlace(p, (k - 1) + 1)) = r \o p[(k - 1) + 1] /\ IsSeq(r)
      BY <1>6, <1>7, <1>9, FlattenBegins
    <2>2. QED
      BY <1>8, <1>9, <2>1
  <1> HIDE DEF r
  <1>12. p[k] = PeersOf(t.ns, u) /\ IsSeq(p[k])
    BY <1>2, <1>3, <1>5
  <1>13. IsSeq(q) /\ ToSet(q) = ToSet(r) \cup ToSet(p[k])
    BY <1>11, <1>12, Concatenation
  <1>14. QED
    BY <1>10, <1>12, <1>13

\* A user is at one place.
LEMMA UserPlace ==
    ASSUME NEW t, WellFormed(t), Loads(t), NEW u \in ToSet(t.users)
    PROVE  \E k \in 1..Len(t.users) : u = t.users[k] /\ \A j \in DOMAIN t.users : t.users[j] = u => j = k
  <1>1. IsSeq(t.users)
    BY DEF WellFormed, Listed, IsSeq
  <1>2. PICK k \in 1..Len(t.users) : u = t.users[k]
    BY <1>1, Elements
  <1> DEFINE f == [i \in DOMAIN t.users |-> t.users[i].name]
  <1>3. IsInjective(f)
    BY DEF Loads
  <1>4. DOMAIN f = DOMAIN t.users /\ (\A i \in DOMAIN t.users : f[i] = t.users[i].name) /\ k \in DOMAIN t.users
    BY <1>1, <1>2, SeqFacts
  <1> HIDE DEF f
  <1>5. \A j \in DOMAIN t.users : t.users[j] = u => j = k
    BY <1>2, <1>3, <1>4 DEF IsInjective
  <1>6. QED
    BY <1>2, <1>5

\* What is ahead of it: the WireGuard users of the first k.
LEMMA AheadIs ==
    ASSUME NEW s, NEW t, t = Topo[s.topo], WellFormed(t), NEW u, NEW k \in 1..Len(t.users), u = t.users[k],
           \A j \in DOMAIN t.users : t.users[j] = u => j = k
    PROVE  Ahead(s, u) = WireguardUsers(UpToPlace(t.users, k))
  <1>1. DOMAIN t.users = 1..Len(t.users) /\ Len(t.users) \in Nat
    BY SeqFacts DEF WellFormed, Listed, IsSeq
  <1>2. UsersUpTo(s, u) = 1..k
    BY <1>1 DEF UsersUpTo
  <1>3. [i \in UsersUpTo(s, u) |-> Topo[s.topo].users[i]] = UpToPlace(t.users, k)
    BY <1>2 DEF UpToPlace
  <1>4. QED
    BY <1>3 DEF Ahead, WireguardUsers, Where, SeqConcat

\* With the same users ahead of it, a user keeps its peers at their places.
LEMMA PeerStays ==
    ASSUME NEW a, NEW b, NEW o, NEW t, o = Topo[a.topo], t = Topo[b.topo],
           WellFormed(o), WellFormed(t), Loads(o), Loads(t), NamespaceFree(o),
           NEW u, Stays(u, o, t), Ahead(a, u) = Ahead(b, u), "wireguard" \in u.access,
           NEW who \in Holders(u), HasIdentity(u, who),
           NEW i \in 1..Len(Peers(o)), Peers(o)[i].email = EmailFor(o, u, who)
    PROVE  /\ i \in 1..Len(Peers(t)) /\ Peers(t)[i] = Peers(o)[i]
           /\ Peers(o)[i].id = IdFor(o, u, who)
  <1>1. u \in ToSet(o.users) /\ u \in ToSet(t.users) /\ o.ns = t.ns
    BY DEF Stays
  <1>2. PICK k \in 1..Len(o.users) : u = o.users[k] /\ \A j \in DOMAIN o.users : o.users[j] = u => j = k
    BY <1>1, UserPlace
  <1>3. PICK m \in 1..Len(t.users) : u = t.users[m] /\ \A j \in DOMAIN t.users : t.users[j] = u => j = m
    BY <1>1, UserPlace
  <1> DEFINE q == PeersFrom(o.ns, UpToPlace(o.users, k))
             r == PeersFrom(t.ns, UpToPlace(t.users, m))
             x == Peer(EmailFor(o, u, who), IdFor(o, u, who))
  <1>4. q = r
    <2>1. WireguardUsers(UpToPlace(o.users, k)) = WireguardUsers(UpToPlace(t.users, m))
      <3>1. Ahead(a, u) = WireguardUsers(UpToPlace(o.users, k))
        BY ONLY <1>2, WellFormed(o), o = Topo[a.topo], AheadIs
      <3>2. Ahead(b, u) = WireguardUsers(UpToPlace(t.users, m))
        BY ONLY <1>3, WellFormed(t), t = Topo[b.topo], AheadIs
      <3>3. QED
        BY ONLY <3>1, <3>2, Ahead(a, u) = Ahead(b, u)
    <2>2. /\ IsSeq(o.users) /\ (\A v \in ToSet(o.users) : IsSeq(v.guests))
          /\ IsSeq(t.users) /\ (\A v \in ToSet(t.users) : IsSeq(v.guests))
      BY DEF WellFormed, Listed, IsSeq
    <2>3. Len(o.users) \in Nat /\ Len(t.users) \in Nat
      BY <2>2, SeqFacts
    <2>4. k \in 0..Len(o.users) /\ m \in 0..Len(t.users)
      BY <2>3
    <2>5. q = PeersFrom(o.ns, WireguardUsers(UpToPlace(o.users, k)))
      BY <2>2, <2>4, PeersOfWireguard
    <2>6. r = PeersFrom(t.ns, WireguardUsers(UpToPlace(t.users, m)))
      BY <2>2, <2>4, PeersOfWireguard
    <2> HIDE DEF q, r
    <2>7. QED
      BY <1>1, <2>1, <2>5, <2>6
  <1>q. q = PeersFrom(o.ns, UpToPlace(o.users, k)) /\ r = PeersFrom(t.ns, UpToPlace(t.users, m))
    OBVIOUS
  <1> HIDE DEF q, r
  <1>5. /\ \A j \in 1..Len(q) : j \in 1..Len(Peers(o)) /\ Peers(o)[j] = q[j]
        /\ IsSeq(q) /\ ToSet(PeersOf(o.ns, u)) \subseteq ToSet(q)
    BY ONLY <1>q, <1>2, k \in 1..Len(o.users), WellFormed(o), PeersUpTo
  <1>6. \A j \in 1..Len(r) : j \in 1..Len(Peers(t)) /\ Peers(t)[j] = r[j]
    BY ONLY <1>q, <1>3, WellFormed(t), PeersUpTo
  <1>7. x \in ToSet(PeersOf(o.ns, u))
    <2>1. InPeers(o, u, x)
      <3>1. CASE who = Self
        BY <3>1, IdentityFor DEF InPeers
      <3>2. CASE who = Server
        BY <3>2, IdentityFor DEF InPeers
      <3>3. ASSUME NEW l \in ToSet(u.guests), who = Guest(l) PROVE InPeers(o, u, x)
        BY <3>3, IdentityFor DEF InPeers
      <3>4. QED
        BY <3>1, <3>2, <3>3, HoldersAre
    <2>2. IsSeq(u.guests)
      BY <1>1, UserFacts
    <2> HIDE DEF x
    <2>3. QED
      BY <2>1, <2>2, PeersOfAre
  <1>8. x.email = EmailFor(o, u, who) /\ x.id = IdFor(o, u, who)
    BY DEF Peer
  <1> HIDE DEF q, r, x
  <1>9. PICK j \in 1..Len(q) : x = q[j]
    BY <1>5, <1>7, Elements
  <1>10. j \in 1..Len(Peers(o)) /\ Peers(o)[j] = x
    BY <1>5, <1>9
  <1>11. i = j
    <2>1. ByUsers(o, Peers(o))
      BY NoCollisionsApart, PeersByUsers DEF Loads
    <2>2. Differ(Peers(o), "email") /\ IsSeq(Peers(o))
      BY <2>1, AloneDiffer DEF ByUsers
    <2> DEFINE f == [h \in DOMAIN Peers(o) |-> Peers(o)[h]["email"]]
    <2>3. IsInjective(f)
      BY <2>2 DEF Differ
    <2>4. DOMAIN Peers(o) = 1..Len(Peers(o))
      BY <2>2, SeqFacts
    <2>5. DOMAIN f = 1..Len(Peers(o)) /\ \A h \in 1..Len(Peers(o)) : f[h] = Peers(o)[h].email
      BY <2>4
    <2> HIDE DEF f
    <2>6. f[i] = f[j]
      BY <1>8, <1>10, <2>5
    <2>7. QED
      BY <1>10, <2>3, <2>5, <2>6 DEF IsInjective
  <1>12. i \in 1..Len(Peers(t)) /\ Peers(t)[i] = x
    BY <1>4, <1>6, <1>9, <1>11
  <1>13. QED
    BY <1>8, <1>10, <1>11, <1>12

\* Snapshot a is of file o.
FileOf(a, o) == o = Topo[a.topo]

\* A WireGuard configuration of a hub with the same settings: the peer has the
\* same place, so the address is its, and the key.
LEMMA WireguardShareTaken ==
    ASSUME NEW a, NEW b, NEW o, NEW t, FileOf(a, o), FileOf(b, t), NamespaceFree(o),
           NEW e, NEW s, NEW g, NEW h, HubOf(e, t, g), HubOf(s, o, h), Agree(e, s),
           Wireguard(o, s.n) # Unset,
           NEW u, Stays(u, o, t), Ahead(a, u) = Ahead(b, u), "wireguard" \in u.access,
           NEW who \in Holders(u), HasIdentity(u, who),
           NEW i \in 1..Len(Peers(o)), Peers(o)[i].email = EmailFor(o, u, who),
           NEW d, d = WireguardDial(o, s, i)
    PROVE  \E x : x.email = EmailFor(o, u, who) /\ \A c : c \in Admitted(e, d) <=> c = x
  <1>1. /\ e.t = t /\ s.t = o /\ e.r.type = "hub" /\ e.key = s.key /\ Marked(e)
        /\ WellFormed(t) /\ WellFormed(o) /\ Loads(t) /\ Loads(o)
    BY DEF HubOf, Agree
  <1> DEFINE wg == Wireguard(o, s.n)
  <1>0. /\ d.via = "wireguard" /\ d.port = wg.port /\ d.pair = s.key.pair
        /\ d.key = PeerKey(s.key.pair, Peers(o)[i].id) /\ d.address = Address(wg.subnet, i)
    BY DEF WireguardDial
  <1>2. Wireguard(t, e.n) = wg
    BY <1>1, SameHubSettings
  <1>3. i \in 1..Len(Peers(t)) /\ Peers(t)[i] = Peers(o)[i]
    <2>1. o = Topo[a.topo] /\ t = Topo[b.topo]
      BY DEF FileOf
    <2>2. QED
      BY <1>1, <2>1, PeerStays
  <1> DEFINE p == Peers(t)
             q == [j \in DOMAIN p |-> [email |-> p[j].email, key |-> PeerKey(e.key.pair, p[j].id),
                                       address |-> Address(wg.subnet, j)]]
             in == WireguardInbound(e)
  <1>4. IsSeq(p) /\ DOMAIN p = 1..Len(p) /\ Len(p) \in Nat
    BY <1>1, PeersByUsers, NoCollisionsApart, SeqFacts DEF ByUsers, Loads
  <1>5. p # <<>>
    BY <1>3, <1>4
  <1>6. in # Unset
    BY <1>1, <1>2, <1>5 DEF Marked
  <1>7. in.port = wg.port /\ in.pair = e.key.pair /\ in.peers = q
    BY <1>1, <1>2, <1>5, <1>6 DEF WireguardInbound
  <1>8. /\ q = [j \in 1..Len(p) |-> q[j]]
        /\ \A j \in 1..Len(p) : /\ q[j].email = p[j].email /\ q[j].key = PeerKey(e.key.pair, p[j].id)
                                /\ q[j].address = Address(wg.subnet, j)
    BY <1>4
  <1>9. p[i].email = EmailFor(o, u, who) /\ p[i].id = Peers(o)[i].id /\ i \in 1..Len(p)
    BY <1>3
  <1> HIDE DEF p, q, in, wg
  <1>10. IsSeq(q) /\ Len(q) = Len(p)
    BY <1>4, <1>8, FunctionIsSeq
  <1>11. \A c : c \in ToSet(q) <=> \E j \in 1..Len(p) : c = q[j]
    BY <1>10, Elements
  <1>12. \A j \in 1..Len(p) : Address(wg.subnet, j) = Address(wg.subnet, i) => j = i
    BY <1>4, <1>9 DEF Address
  <1>13. Admitted(e, d) = {c \in ToSet(q) : c.key = d.key /\ c.address = d.address}
    BY <1>0, <1>1, <1>6, <1>7 DEF Admitted, in
  <1>14. q[i].key = d.key /\ q[i].address = d.address /\ q[i].email = EmailFor(o, u, who)
    BY <1>0, <1>1, <1>8, <1>9
  <1>15. \A c : c \in Admitted(e, d) <=> c = q[i]
    <2>1. \A c : c \in Admitted(e, d) <=> c \in ToSet(q) /\ c.key = d.key /\ c.address = d.address
      BY <1>13
    <2>2. ASSUME NEW c, c \in Admitted(e, d) PROVE c = q[i]
      <3>1. PICK j \in 1..Len(p) : c = q[j]
        BY <1>11, <2>1, <2>2
      <3>2. Address(wg.subnet, j) = Address(wg.subnet, i)
        BY <1>0, <1>8, <2>1, <2>2, <3>1
      <3>3. QED
        BY <1>12, <3>1, <3>2
    <2>3. q[i] \in Admitted(e, d)
      BY <1>9, <1>11, <1>14, <2>1
    <2>4. QED
      BY <2>2, <2>3
  <1>16. QED
    BY <1>14, <1>15

-----------------------------------------------------------------------------
(* The invariant: what is held is all that one command gave out.           *)

\* By share, to a user of the snapshot's file; by gen-portal, for a portal of it.
SharedBy(h) ==
    LET o == Topo[h.at.topo]
    IN  /\ h.owner \in ToSet(o.users) /\ h.who \in Holders(h.owner)
        /\ h.via \in {"direct", "cdn", "hysteria", "wireguard"}
        /\ h.dials = Shares(o, KeysAt(h.at.gen), h.owner, h.hub, h.via, h.who)
        /\ h.email = EmailFor(o, h.owner, h.who) /\ h.reverse = NoTag
DialedBy(h) ==
    LET o == Topo[h.at.topo]
    IN  /\ h.owner \in ToSet(o.portals) /\ h.who = <<"portal">> /\ h.via = "direct"
        /\ h.dials = {PortalDial(e, h.owner) : e \in ToSet(Envs(o, "hub", KeysAt(h.at.gen)))}
        /\ h.email = PortalEmail(o.ns, h.owner) /\ h.reverse = h.owner.id \o <<"-portal">>
GivenInv == held # Unset => SharedBy(held) \/ DialedBy(held)

\* Nothing is held at first.
LEMMA InitGivenInv == Init => GivenInv
  BY DEF Init, GivenInv

\* share and gen-portal give out once, and nothing changes it afterwards.
LEMMA NextGivenInv == GivenInv /\ [Next]_vars => GivenInv'
  <1> SUFFICES ASSUME GivenInv, [Next]_vars PROVE GivenInv'
    OBVIOUS
  <1>1. CASE UNCHANGED held
    BY <1>1 DEF GivenInv, SharedBy, DialedBy
  <1>2. ASSUME NEW u \in ToSet(Topo[topo].users), NEW hub,
               NEW via \in {"direct", "cdn", "hysteria", "wireguard"},
               NEW who \in {Self, Server} \cup {Guest(l) : l \in ToSet(u.guests)}, Share(u, hub, via, who)
        PROVE  GivenInv'
    <2> DEFINE h == held'
    <2>1. /\ h.at = Now /\ h.dials = Shares(Topo[topo], KeysAt(gen), u, hub, via, who)
          /\ h.hub = hub /\ h.via = via /\ h.owner = u /\ h.who = who
          /\ h.email = ResolveIdentity(Topo[topo], u, who).email /\ h.reverse = NoTag
      BY <1>2 DEF Share
    <2>2. h.at.topo = topo /\ h.at.gen = gen
      BY <2>1 DEF Now
    <2> HIDE DEF h
    <2>3. SharedBy(h)
      BY <1>2, <2>1, <2>2 DEF SharedBy, Holders, EmailFor
    <2>4. QED
      BY <2>3 DEF GivenInv, SharedBy, h
  <1>3. ASSUME NEW p \in ToSet(Topo[topo].portals), GenPortal(p) PROVE GivenInv'
    <2> DEFINE h == held'
    <2>1. /\ h.at = Now /\ h.dials = {PortalDial(e, p) : e \in ToSet(Envs(Topo[topo], "hub", KeysAt(gen)))}
          /\ h.via = "direct" /\ h.owner = p /\ h.who = <<"portal">>
          /\ h.email = PortalEmail(Topo[topo].ns, p) /\ h.reverse = p.id \o <<"-portal">>
      BY <1>3 DEF GenPortal
    <2>2. h.at.topo = topo /\ h.at.gen = gen
      BY <2>1 DEF Now
    <2> HIDE DEF h
    <2>3. DialedBy(h)
      BY <2>1, <2>2 DEF DialedBy
    <2>4. QED
      BY <2>3 DEF GivenInv, DialedBy, h
  <1>4. ASSUME NEW x, Edit(x) PROVE GivenInv'
    BY <1>1, <1>4 DEF Edit
  <1>5. ASSUME NEW c, Rotate(c) PROVE GivenInv'
    BY <1>1, <1>5 DEF Rotate
  <1>6. ASSUME NEW n, Build(n) PROVE GivenInv'
    BY <1>1, <1>6 DEF Build
  <1>7. CASE UNCHANGED vars
    BY <1>1, <1>7 DEF vars
  <1>8. QED
    BY <1>2, <1>3, <1>4, <1>5, <1>6, <1>7 DEF Next

\* Portals are none of the ways to ask for a share.
LEMMA PortalIsNoHolder == \A u : <<"portal">> \notin Holders(u)
  <1>1. <<"portal">> # Self /\ <<"portal">> # Server /\ \A l : <<"portal">> # Guest(l)
    BY DEF Self, Server, Guest
  <1>2. QED
    BY <1>1, HoldersAre

\* Dial d is let in at e as one, who has email m and tag r.
LetInAs(e, d, m, r) == \E x : x.email = m /\ x.reverse = r /\ \A c : c \in Admitted(e, d) <=> c = x
LetIn(e, d, m) == \E r : LetInAs(e, d, m, r)

\* Who is let in alone is let in under its name.
LEMMA OnlyOne ==
    ASSUME NEW e, NEW d, NEW m, NEW r, LetInAs(e, d, m, r)
    PROVE  Emails(e, d) = {m} /\ \A c \in Admitted(e, d) : c.reverse = r
  <1>1. PICK x : x.email = m /\ x.reverse = r /\ \A c : c \in Admitted(e, d) <=> c = x
    BY DEF LetInAs
  <1>2. Emails(e, d) = EmailsIn(Admitted(e, d))
    BY EmailsAre
  <1>3. \A y : y \in EmailsIn(Admitted(e, d)) <=> y = m
    BY <1>1 DEF EmailsIn
  <1>4. QED
    BY <1>1, <1>2, <1>3

\* What a share has from which hub.
LEMMA SharesAre ==
    ASSUME NEW t, NEW k, NEW u, NEW hub, NEW who, NEW via, NEW d \in Shares(t, k, u, hub, via, who),
           NEW envs, envs = Envs(t, "hub", k)
    PROVE  /\ HasIdentity(u, who)
           /\ via = "direct" =>
                 \E e \in ToSet(envs) : Lists(t, e.r, u, who) /\ d = DirectDial(e, IdFor(t, u, who), DialShortId(t, u, who))
           /\ via = "cdn" =>
                 "cdn" \in u.access /\ \E e \in ToSet(envs) : Cdn(e) # Unset /\ d = CdnDial(e, IdFor(t, u, who))
           /\ via = "hysteria" =>
                 /\ "hysteria" \in u.access
                 /\ \E e \in ToSet(envs) :
                       /\ HysteriaInbound(e) # Unset
                       /\ d = HysteriaDial(e.n.host, HysteriaInbound(e).port, HysteriaInbound(e).end, IdFor(t, u, who))
           /\ via = "wireguard" =>
                 /\ "wireguard" \in u.access
                 /\ \E e \in ToSet(envs) : \E i \in DOMAIN Peers(t) :
                       /\ Wireguard(t, e.n) # Unset /\ Peers(t)[i].email = EmailFor(t, u, who)
                       /\ d = WireguardDial(t, e, i)
  <1> DEFINE id == IdFor(t, u, who)
             sid == DialShortId(t, u, who)
             m == EmailFor(t, u, who)
  <1>1. HasIdentity(u, who) /\ MayAsk(u, via, who)
    BY DEF Shares
  <1>2. ASSUME via = "direct"
        PROVE  \E e \in ToSet(envs) : Lists(t, e.r, u, who) /\ d = DirectDial(e, id, sid)
    <2>1. d \in DirectShares(t, u, hub, who, id, sid, envs)
      BY <1>2 DEF Shares, IdFor
    <2> HIDE DEF id, sid
    <2>2. PICK e \in ToSet(envs) : Lists(t, e.r, u, who) /\ d = DirectDial(e, id, sid)
      BY <2>1 DEF DirectShares, FirstOfEach, ToSet, Lists
    <2>3. QED
      BY <2>2
  <1>3. ASSUME via = "cdn"
        PROVE  "cdn" \in u.access /\ \E e \in ToSet(envs) : Cdn(e) # Unset /\ d = CdnDial(e, id)
    <2>1. d \in CdnShares(t, hub, id, envs)
      BY <1>3 DEF Shares, IdFor
    <2>2. "cdn" \in u.access
      BY <1>1, <1>3 DEF MayAsk
    <2> HIDE DEF id
    <2>3. PICK e \in ToSet(envs) : Cdn(e) # Unset /\ d = CdnDial(e, id)
      BY <2>1 DEF CdnShares, FirstOfEach, ToSet
    <2>4. QED
      BY <2>2, <2>3
  <1>4. ASSUME via = "hysteria"
        PROVE  /\ "hysteria" \in u.access
               /\ \E e \in ToSet(envs) :
                     /\ HysteriaInbound(e) # Unset
                     /\ d = HysteriaDial(e.n.host, HysteriaInbound(e).port, HysteriaInbound(e).end, id)
    <2>1. d \in HysteriaShares(hub, id, envs)
      BY <1>4 DEF Shares, IdFor
    <2>2. "hysteria" \in u.access
      BY <1>1, <1>4 DEF MayAsk
    <2> HIDE DEF id
    <2>3. PICK e \in ToSet(envs) : /\ HysteriaInbound(e) # Unset
                                   /\ d = HysteriaDial(e.n.host, HysteriaInbound(e).port, HysteriaInbound(e).end, id)
      BY <2>1 DEF HysteriaShares, FirstOfEach, ToSet
    <2>4. QED
      BY <2>2, <2>3
  <1>5. ASSUME via = "wireguard"
        PROVE  /\ "wireguard" \in u.access
               /\ \E e \in ToSet(envs) : \E i \in DOMAIN Peers(t) :
                     Wireguard(t, e.n) # Unset /\ Peers(t)[i].email = m /\ d = WireguardDial(t, e, i)
    <2>1. d \in WireguardShares(t, hub, m, envs)
      BY <1>5 DEF Shares, EmailFor
    <2>2. "wireguard" \in u.access
      BY <1>1, <1>5 DEF MayAsk
    <2> HIDE DEF m
    <2> DEFINE peers == Peers(t)
               W == {x \in ToSet(envs) : Meant(hub, x) /\ Wireguard(t, x.n) # Unset}
               I == {j \in DOMAIN peers : peers[j].email = m}
               Of(e, i) == WireguardDial(t, e, i)
    <2>3. d \in {Of(e, i) : e \in W, i \in I}
      BY <2>1 DEF WireguardShares, WireguardDial
    <2>4. (\A e \in W : e \in ToSet(envs) /\ Wireguard(t, e.n) # Unset) /\ \A i \in I : i \in DOMAIN peers /\ peers[i].email = m
      OBVIOUS
    <2> HIDE DEF W, I, peers
    <2>5. PICK e \in W, i \in I : d = Of(e, i)
      BY <2>3
    <2>6. QED
      BY <2>2, <2>4, <2>5 DEF peers
  <1>6. QED
    BY <1>1, <1>2, <1>3, <1>4, <1>5

\* A hub that runs is as it was for what is held: what is known of the two
\* environments, built from newer (e) and the one of the snapshot (s).
Situation(a, b, n, o, t, e, s) ==
    /\ o = Topo[a.topo] /\ t = Topo[b.topo] /\ e = EnvAt(b, n) /\ s = EnvAt(a, n)
    /\ HubOf(e, t, b.gen) /\ HubOf(s, o, a.gen) /\ Agree(e, s)
    /\ s \in ToSet(Envs(o, "hub", KeysAt(a.gen))) /\ a.gen \in [Range(CircleOf) -> 0..MaxRotations] /\ a.topo \in Loadable
    /\ HubsApart(o) /\ PathsApart(o) /\ HubsApart(t) /\ PathsApart(t) /\ NamespaceFree(o) /\ NamespaceFree(t)
    /\ o.ns = t.ns /\ o.cdn = t.cdn

\* This is so in every state, where DialsApart holds of the files.
LEMMA SituationIs ==
    ASSUME DialsApart, NamespaceApart, TypeInv, KeyInv, held # Unset, NEW n \in RunningHubs, Current(built[n], n),
           NEW a, a = held.at, NEW b, b = built[n], NEW o, o = Topo[a.topo], NEW t, t = Topo[b.topo],
           NEW e, e = EnvAt(b, n), NEW s, s = EnvAt(a, n)
    PROVE  Situation(a, b, n, o, t, e, s)
  <1>1. a \in Snapshots /\ b \in Snapshots /\ n \in Declared(b) /\ IsHub(b, n)
    BY DEF TypeInv, KeyInv, RunningHubs, Running
  <1>2. SamePlace(a, b, n) /\ SameKeys(a, b, n)
    BY DEF Current
  <1>3. n \in Declared(a) /\ o.ns = t.ns /\ o.cdn = t.cdn
    BY <1>2 DEF SamePlace
  <1>4. a.topo \in Loadable /\ b.topo \in Loadable /\ a.topo \in DOMAIN Topo /\ b.topo \in DOMAIN Topo
        /\ a.gen \in [Range(CircleOf) -> 0..MaxRotations]
    BY <1>1 DEF Snapshots, Loadable
  <1>5. Agree(e, s)
    BY <1>2, <1>4, PlacesAgree
  <1>6. HubOf(e, t, b.gen)
    BY <1>1, HubRuns
  <1>7. IsHub(a, n)
    <2>1. e.r.type = "hub" /\ e.r.type = s.r.type
      BY <1>5, <1>6 DEF HubOf, Agree
    <2>2. s.r = PlaceIn(a, n).r
      BY <1>3, <1>4, EnvFields
    <2>3. QED
      BY <2>1, <2>2 DEF IsHub
  <1>8. HubOf(s, o, a.gen) /\ s \in ToSet(Envs(o, "hub", KeysAt(a.gen)))
    BY <1>1, <1>3, <1>7, HubRuns
  <1>9. HubsApart(o) /\ PathsApart(o) /\ HubsApart(t) /\ PathsApart(t)
    BY <1>4 DEF DialsApart
  <1>10. NamespaceFree(o) /\ NamespaceFree(t)
    BY <1>4 DEF NamespaceApart
  <1>11. QED
    BY <1>3, <1>4, <1>5, <1>6, <1>8, <1>9, <1>10 DEF Situation

\* Snapshot a is of keys k.
KeysOf(a, k) == k = KeysAt(a.gen)

\* Hubs of one circle have the same keys.
LEMMA OneCircle ==
    ASSUME NEW n \in Node, NEW m \in Node, CircleOf[n] = CircleOf[m], NEW g
    PROVE  KeysAt(g)[n] = KeysAt(g)[m]
  BY DEF KeysAt

\* The ways to connect, and what SameOwner asks for of the users before u.
IsVia(via) == via \in {"direct", "cdn", "hysteria", "wireguard"}
SameAhead(a, b, u, via) == via = "wireguard" => Ahead(a, u) = Ahead(b, u)

\* What share gave out lets its owner in, and only it, at every hub that is as
\* it was, where it arrives.
LEMMA ShareSurvives ==
    ASSUME NEW a, NEW b, NEW n, NEW o, NEW t, NEW e, NEW s, Situation(a, b, n, o, t, e, s),
           NEW u, Stays(u, o, t), NEW who \in Holders(u), NEW hub, NEW via, IsVia(via), SameAhead(a, b, u, via),
           NEW k, KeysOf(a, k), NEW d \in Shares(o, k, u, hub, via, who), Arrives(d, e)
    PROVE  LetIn(e, d, EmailFor(o, u, who))
  <1> SUFFICES \E x : x.email = EmailFor(o, u, who) /\ \A c : c \in Admitted(e, d) <=> c = x
    BY DEF LetIn, LetInAs
  <1> DEFINE g == a.gen
             h == b.gen
             envs == Envs(o, "hub", k)
             id == IdFor(o, u, who)
             sid == DialShortId(o, u, who)
             m == EmailFor(o, u, who)
  <1>1. HubOf(e, t, h) /\ HubOf(s, o, g) /\ Agree(e, s)
        /\ HubsApart(o) /\ PathsApart(o) /\ HubsApart(t) /\ PathsApart(t) /\ NamespaceFree(o)
        /\ o.ns = t.ns /\ o.cdn = t.cdn /\ o = Topo[a.topo] /\ t = Topo[b.topo]
    BY DEF Situation
  <1>2. e.t = t /\ s.t = o /\ e.r.type = "hub" /\ s.r.type = "hub" /\ e.n = s.n /\ e.key = s.key /\ e.r.cdn = s.r.cdn
        /\ WellFormed(o) /\ WellFormed(t) /\ Loads(o) /\ Loads(t)
    BY <1>1 DEF HubOf, Agree
  <1>3. \A x \in ToSet(envs) : HubOf(x, o, g)
    BY HubsOf DEF Situation, KeysOf
  <1>4. \A x \in ToSet(envs) : x.n.host = e.n.host => x = s
    BY <1>1, <1>2, <1>3, OneHub
  <1>5. \A flow : Mine(t, u, who, flow).email = m
    <2>1. EmailFor(t, u, who) = m
      BY StaysIdentity DEF Stays
    <2>2. QED
      BY <2>1, EntryFields
  <1>6. RegionTls(e.t, e.r) = RegionTls(s.t, s.r)
    BY <1>1, <1>2, SameHubSettings
  <1>7. HasIdentity(u, who)
    BY SharesAre
  <1> HIDE DEF g, h, envs, id, sid, m
  <1>8. CASE via = "direct"
    <2>1. PICK x \in ToSet(envs) : Lists(o, x.r, u, who) /\ d = DirectDial(x, id, sid)
      BY <1>8, SharesAre DEF envs, g, id, sid
    <2>2. d.via = "direct" /\ d.to = x.n.host
      BY <2>1 DEF DirectDial
    <2>3. x = s
      BY <1>4, <2>2 DEF Arrives
    <2>4. Lists(t, e.r, u, who)
      BY <1>2, <1>6, <2>1, <2>3 DEF Lists
    <2>5. Twin(d, DirectDial(s, id, sid))
      BY <2>1, <2>3 DEF Twin
    <2>6. \A c : c \in Admitted(e, d) <=> c = Mine(t, u, who, e.key.enc)
      BY <1>1, <1>7, <2>4, <2>5, DirectShareTaken DEF id, sid
    <2>7. QED
      BY <1>5, <2>6 DEF m
  <1>9. CASE via = "cdn"
    <2>1. "cdn" \in u.access
      BY <1>9, SharesAre
    <2>2. PICK x \in ToSet(envs) : Cdn(x) # Unset /\ d = CdnDial(x, id)
      BY <1>9, SharesAre DEF envs, g, id
    <2>3. x.r.cdn # Unset /\ Cdn(x).path = x.r.cdn
      BY <2>2 DEF Cdn
    <2>4. d.via = "cdn" /\ d.path = x.r.cdn
      BY <2>2, <2>3 DEF CdnDial
    <2>5. e.r.cdn = x.r.cdn
      BY <2>4 DEF Arrives
    <2>6. CircleOf[s.n.id] = CircleOf[x.n.id]
      <3>1. HubOf(x, o, g) /\ s.r.cdn # Unset /\ s.r.cdn = x.r.cdn
        BY <1>2, <1>3, <2>3, <2>5
      <3>2. QED
        BY ONLY <1>1, <3>1, OneHub
    <2>7. /\ s.key = KeysAt(g)[s.n.id] /\ x.key = KeysAt(g)[x.n.id]
          /\ [r |-> s.r, n |-> s.n] \in AllPlaces(o) /\ [r |-> x.r, n |-> x.n] \in AllPlaces(o)
      BY <1>1, <1>3 DEF HubOf, AllPlaces
    <2>8. s.n.id \in Node /\ x.n.id \in Node
      <3>1. a.topo \in DOMAIN Topo
        BY DEF Situation, Loadable
      <3>2. \A pl \in AllPlaces(o) : pl.n.id \in Node
        BY <1>1, <3>1, NodesAssumption
      <3>3. QED
        BY <2>7, <3>2
    <2>9. e.key = x.key
      BY <1>2, <2>6, <2>7, <2>8, OneCircle
    <2>10. HubOf(x, o, g)
      BY <1>3
    <2>11. \A c : c \in Admitted(e, d) <=> c = Mine(t, u, who, e.key.enc)
      BY <1>1, <1>7, <2>1, <2>2, <2>5, <2>9, <2>10, CdnShareTaken DEF id
    <2>12. QED
      BY <1>5, <2>11 DEF m
  <1>10. CASE via = "hysteria"
    <2>1. "hysteria" \in u.access
      BY <1>10, SharesAre
    <2>2. PICK x \in ToSet(envs) :
              HysteriaInbound(x) # Unset
              /\ d = HysteriaDial(x.n.host, HysteriaInbound(x).port, HysteriaInbound(x).end, id)
      BY <1>10, SharesAre DEF envs, g, id
    <2>3. d.via = "hysteria" /\ d.to = x.n.host /\ d.id = id
      BY <2>2 DEF HysteriaDial
    <2>4. x = s
      BY <1>4, <2>3 DEF Arrives
    <2>5. Presents(d, HysteriaInbound(s), IdFor(o, u, who)) /\ HysteriaInbound(s) # Unset
      BY <2>2, <2>4 DEF HysteriaDial, Presents, id
    <2>6. \E y : y.email = EmailFor(t, u, who) /\ \A c : c \in Admitted(e, d) <=> c = y
      BY <1>1, <1>7, <2>1, <2>5, HysteriaShareTaken
    <2>7. QED
      BY <2>6, StaysIdentity DEF m, Stays
  <1>11. CASE via = "wireguard"
    <2>1. "wireguard" \in u.access
      BY <1>11, SharesAre
    <2>2. PICK x \in ToSet(envs), i \in DOMAIN Peers(o) :
              Wireguard(o, x.n) # Unset /\ Peers(o)[i].email = m /\ d = WireguardDial(o, x, i)
      BY <1>11, SharesAre DEF envs, g, m
    <2>3. d.via = "wireguard" /\ d.to = x.n.host
      BY <2>2 DEF WireguardDial
    <2>4. x = s
      BY <1>4, <2>3 DEF Arrives
    <2>5. d = WireguardDial(o, s, i) /\ Peers(o)[i].email = EmailFor(o, u, who)
      BY <2>2, <2>4 DEF m
    <2>6. Wireguard(o, s.n) # Unset
      BY <2>2, <2>4
    <2>7. i \in 1..Len(Peers(o))
      BY <1>2, PeersByUsers, NoCollisionsApart, SeqFacts DEF ByUsers, Loads
    <2>8. Ahead(a, u) = Ahead(b, u)
      BY <1>11 DEF SameAhead
    <2>9. QED
      <3>1. FileOf(a, o) /\ FileOf(b, t)
        BY <1>1 DEF FileOf
      <3>2. HubOf(e, t, h) /\ HubOf(s, o, g) /\ Agree(e, s) /\ NamespaceFree(o)
        BY <1>1
      <3>3. QED
        BY ONLY <1>7, <2>1, <2>5, <2>6, <2>7, <2>8, <3>1, <3>2, Stays(u, o, t), who \in Holders(u), WireguardShareTaken DEF m
  <1>12. QED
    BY <1>8, <1>9, <1>10, <1>11 DEF m, IsVia

\* So does a portal's dial, at the hub it is for.
LEMMA PortalSurvives ==
    ASSUME NEW a, NEW b, NEW n, NEW o, NEW t, NEW e, NEW s, Situation(a, b, n, o, t, e, s),
           NEW p, NEW q \in ToSet(t.portals), q.id = p.id, q.uuid = p.uuid,
           NEW k, KeysOf(a, k), NEW x \in ToSet(Envs(o, "hub", k)), NEW d, d = PortalDial(x, p), Arrives(d, e)
    PROVE  LetInAs(e, d, PortalEmail(o.ns, p), p.id \o <<"-portal">>)
  <1> DEFINE g == a.gen
             h == b.gen
  <1>1. HubOf(e, t, h) /\ HubOf(s, o, g) /\ Agree(e, s)
        /\ HubsApart(o) /\ HubsApart(t) /\ PathsApart(t) /\ o.ns = t.ns
    BY DEF Situation
  <1>2. HubOf(x, o, g)
    BY HubsOf DEF Situation, KeysOf
  <1>3. d.via = "direct" /\ d.to = x.n.host
    BY DEF PortalDial, DirectDial
  <1>4. x.n.host = s.n.host
    BY <1>1, <1>3 DEF Arrives, Agree
  <1> HIDE DEF g, h
  <1>5. x = s
    BY <1>1, <1>2, <1>4, OneHub
  <1>6. Twin(d, PortalDial(s, p))
    BY <1>5 DEF Twin
  <1>7. PICK flow : flow = e.key.enc
    OBVIOUS
  <1>8. \A y : y \in Admitted(e, d) <=> y = PortalClient(t, q, flow)
    BY <1>1, <1>6, <1>7, PortalTaken
  <1>9. /\ PortalClient(t, q, flow).email = PortalEmail(t.ns, q)
        /\ PortalClient(t, q, flow).reverse = q.id \o <<"-portal">>
    BY ClientFields
  <1>10. PortalEmail(t.ns, q) = PortalEmail(o.ns, p)
    BY <1>1 DEF PortalEmail
  <1>11. QED
    BY <1>8, <1>9, <1>10 DEF LetInAs

\* What SameOwner says of a share's owner.
LEMMA OwnerStays ==
    ASSUME held # Unset, SharedBy(held), NEW b, SameOwner(b),
           NEW o, o = Topo[held.at.topo], NEW t, t = Topo[b.topo], o.ns = t.ns
    PROVE  /\ Stays(held.owner, o, t)
           /\ SameAhead(held.at, b, held.owner, held.via)
  <1>1. held.owner \in ToSet(o.users) /\ held.who # <<"portal">>
    BY PortalIsNoHolder DEF SharedBy
  <1>2. /\ held.owner \in ToSet(t.users)
        /\ GroupOf(held.at, held.owner) = GroupOf(b, held.owner)
        /\ held.via = "wireguard" => Ahead(held.at, held.owner) = Ahead(b, held.owner)
    BY <1>1 DEF SameOwner
  <1>3. QED
    BY <1>1, <1>2 DEF Stays, GroupOf, SameAhead

\* The invariants are enough.
LEMMA WorksOn == (DialsApart /\ NamespaceApart /\ TypeInv /\ KeyInv /\ GivenInv) => SharesSurvive
  <1> SUFFICES ASSUME DialsApart, NamespaceApart, TypeInv, KeyInv, GivenInv, held # Unset,
                      NEW n \in RunningHubs, Current(built[n], n), NEW e, e = EnvAt(built[n], n),
                      NEW d \in held.dials, Arrives(d, e)
               PROVE  /\ Emails(e, d) = {held.email}
                      /\ held.reverse # NoTag => \A c \in Admitted(e, d) : c.reverse = held.reverse
    BY DEF SharesSurvive
  <1> DEFINE a == held.at
             b == built[n]
             o == Topo[a.topo]
             t == Topo[b.topo]
             s == EnvAt(a, n)
             k == KeysAt(a.gen)
             u == held.owner
             who == held.who
             via == held.via
             hub == held.hub
  <1>1. Situation(a, b, n, o, t, e, s)
    BY SituationIs
  <1>2. SameOwner(b) /\ o.ns = t.ns
    BY <1>1 DEF Current, Situation
  <1>3. CASE SharedBy(held)
    <2>1. /\ Stays(u, o, t)
          /\ SameAhead(a, b, u, via)
      BY <1>2, <1>3, OwnerStays
    <2>2. /\ who \in Holders(u) /\ IsVia(via)
          /\ d \in Shares(o, k, u, hub, via, who)
          /\ held.email = EmailFor(o, u, who) /\ held.reverse = NoTag
          /\ KeysOf(a, k)
      BY <1>3 DEF SharedBy, KeysOf, IsVia
    <2> HIDE DEF a, b, o, t, s, k, u, who, via, hub
    <2>3. LetIn(e, d, EmailFor(o, u, who))
      BY ONLY <1>1, <2>1, <2>2, Arrives(d, e), ShareSurvives
    <2>4. QED
      BY <2>2, <2>3, OnlyOne DEF LetIn
  <1>4. CASE DialedBy(held)
    <2>1. /\ who = <<"portal">> /\ held.email = PortalEmail(o.ns, u)
          /\ held.reverse = u.id \o <<"-portal">>
          /\ d \in {PortalDial(x, u) : x \in ToSet(Envs(o, "hub", k))} /\ KeysOf(a, k)
      BY <1>4 DEF DialedBy, KeysOf
    <2>2. PICK q \in ToSet(t.portals) : q.id = u.id /\ q.uuid = u.uuid
      BY <1>2, <2>1 DEF SameOwner
    <2> HIDE DEF a, b, o, t, s, k, u, who, via, hub
    <2>3. PICK x \in ToSet(Envs(o, "hub", k)) : d = PortalDial(x, u)
      BY <2>1
    <2>4. LetInAs(e, d, PortalEmail(o.ns, u), u.id \o <<"-portal">>)
      BY ONLY <1>1, <2>1, <2>2, <2>3, Arrives(d, e), PortalSurvives
    <2> DEFINE r == u.id \o <<"-portal">>
               m == PortalEmail(o.ns, u)
    <2>5. LetInAs(e, d, m, r) /\ held.email = m /\ held.reverse = r
      BY <2>1, <2>4
    <2> HIDE DEF m, r
    <2>6. QED
      BY <2>5, OnlyOne
  <1>5. QED
    BY <1>3, <1>4 DEF GivenInv

\* Whatever is edited about others and however often nodes are rebuilt, the
\* listener of a hub that kept its keys and settings lets in what its owner was
\* given, as its owner and nobody else, and a portal with its tag, as long as
\* the owner kept its entry and its group (for WireGuard, and those before it
\* theirs); if hubs are told apart by what dials go by, identities by their
\* path, and no namespace is a username, none of which the code checks
\* (share_url and conf against fragment).
THEOREM StillLetIn == ASSUME DialsApart, NamespaceApart PROVE Spec => []SharesSurvive
  <1>1. TypeInv /\ KeyInv /\ GivenInv => SharesSurvive
    BY WorksOn
  <1>2. QED
    BY <1>1, InitTypeInv, NextTypeInv, InitKeyInv, NextKeyInv, InitGivenInv, NextGivenInv, PTL DEF Spec

-----------------------------------------------------------------------------
(* What was left out repeats what was given out.                           *)

\* Of the places to keep, there is a first with the region and the material of i.
FirstLike(envs, keep, mat, i) ==
    \E j \in keep :
        /\ envs[j].r.id = envs[i].r.id /\ mat[j] = mat[i]
        /\ \A h \in 1..(j - 1) : (h \in keep /\ envs[h].r.id = envs[j].r.id) => mat[h] # mat[j]

\* There is, if i is one of them.
LEMMA FirstAlike ==
    ASSUME NEW envs, IsSeq(envs), NEW keep, keep \subseteq DOMAIN envs, NEW mat, NEW i \in keep
    PROVE  FirstLike(envs, keep, mat, i)
  <1> DEFINE T == {j \in keep : envs[j].r.id = envs[i].r.id /\ mat[j] = mat[i]}
  <1>1. DOMAIN envs = 1..Len(envs) /\ Len(envs) \in Nat
    BY SeqFacts
  <1>2. T \subseteq Nat /\ i \in T
    BY <1>1
  <1>3. PICK j \in T : \A y \in T : j <= y
    BY <1>2, Least
  <1>4. j \in keep /\ envs[j].r.id = envs[i].r.id /\ mat[j] = mat[i] /\ j \in Nat
    BY <1>2, <1>3
  <1>5. ASSUME NEW h \in 1..(j - 1), h \in keep, envs[h].r.id = envs[j].r.id, mat[h] = mat[j] PROVE FALSE
    <2>1. h \in T
      BY <1>4, <1>5
    <2> HIDE DEF T
    <2>2. j <= h /\ h <= j - 1 /\ h \in Nat
      BY <1>2, <1>3, <1>4, <2>1
    <2>3. QED
      BY <1>4, <2>2
  <1>6. QED
    BY <1>4, <1>5 DEF FirstLike

\* share without --hub has a direct URL with the material of every hub that lists
\* its owner,
LEMMA DirectCovered ==
    ASSUME NEW t, NEW u, NEW who, NEW id, NEW sid, NEW envs, IsSeq(envs), NEW hub, hub = Unset,
           NEW s \in ToSet(envs), Lists(t, s.r, u, who)
    PROVE  \E x \in ToSet(envs) :
              /\ x.r.id = s.r.id /\ DirectDial(x, id, sid) \in DirectShares(t, u, hub, who, id, sid, envs)
              /\ IF RegionTls(t, s.r) # Unset
                 THEN RegionTls(t, x.r) # Unset => x.n.id = s.n.id
                 ELSE RegionTls(t, x.r) = Unset => Direct(x) = Direct(s) /\ x.key = s.key
  <1> DEFINE tls(e) == RegionTls(t, e.r) # Unset
             wanted(e) == Meant(hub, e) /\ IF tls(e) THEN "tls" \in u.access ELSE who = Server \/ "xhttp" \in u.access
             material(e) == IF tls(e) THEN <<e.n.id>> ELSE <<Direct(e), e.key>>
             keep == {j \in DOMAIN envs : wanted(envs[j])}
             mat == [j \in DOMAIN envs |-> material(envs[j])]
  <1>1. PICK i \in DOMAIN envs : s = envs[i]
    BY DEF ToSet
  <1>2. i \in keep
    BY <1>1 DEF Lists, Meant
  <1>3. keep \subseteq DOMAIN envs /\ \A j \in keep : wanted(envs[j]) /\ mat[j] = material(envs[j])
    OBVIOUS
  <1>4. \A j \in DOMAIN envs : j \in keep <=> wanted(envs[j])
    OBVIOUS
  <1>5. \A j \in DOMAIN envs : mat[j] = material(envs[j])
    OBVIOUS
  <1> HIDE DEF keep, mat
  <1>6. PICK j \in keep :
            /\ envs[j].r.id = envs[i].r.id /\ mat[j] = mat[i]
            /\ \A h \in 1..(j - 1) : (h \in keep /\ envs[h].r.id = envs[j].r.id) => mat[h] # mat[j]
    <2>1. keep \subseteq DOMAIN envs
      BY <1>3
    <2>2. FirstLike(envs, keep, mat, i)
      BY ONLY IsSeq(envs), <1>2, <2>1, FirstAlike
    <2>3. QED
      BY <2>2 DEF FirstLike
  <1>7. j \in DOMAIN envs /\ envs[j] \in ToSet(envs)
    BY <1>3 DEF ToSet
  <1>8. DOMAIN envs = 1..Len(envs) /\ Len(envs) \in Nat
    BY SeqFacts
  <1>9. \A h \in 1..(j - 1) : h \in DOMAIN envs
    BY <1>7, <1>8
  <1>10. /\ wanted(envs[j])
         /\ \A h \in 1..(j - 1) :
               (wanted(envs[h]) /\ envs[h].r.id = envs[j].r.id) => material(envs[h]) # material(envs[j])
    BY <1>3, <1>4, <1>5, <1>6, <1>7, <1>9
  <1>11. material(envs[j]) = material(s)
    BY <1>1, <1>5, <1>6, <1>7
  <1>12. DirectDial(envs[j], id, sid) \in DirectShares(t, u, hub, who, id, sid, envs)
    BY <1>7, <1>10 DEF DirectShares, FirstOfEach
  <1>13. /\ (RegionTls(t, s.r) # Unset /\ RegionTls(t, envs[j].r) # Unset) => envs[j].n.id = s.n.id
         /\ (RegionTls(t, s.r) = Unset /\ RegionTls(t, envs[j].r) = Unset) =>
               Direct(envs[j]) = Direct(s) /\ envs[j].key = s.key
    BY <1>11
  <1>14. envs[j].r.id = s.r.id
    BY <1>1, <1>6
  <1>15. QED
    BY <1>7, <1>12, <1>13, <1>14

\* a Hysteria URL with what every listener of its region that has one asks for,
LEMMA HysteriaCovered ==
    ASSUME NEW id, NEW envs, IsSeq(envs), NEW hub, hub = Unset,
           NEW s \in ToSet(envs), HysteriaInbound(s) # Unset
    PROVE  \E d \in HysteriaShares(hub, id, envs) : Presents(d, HysteriaInbound(s), id)
  <1> DEFINE listening(e) == Meant(hub, e) /\ HysteriaInbound(e) # Unset
             keep == {j \in DOMAIN envs : listening(envs[j])}
             mat == [j \in DOMAIN envs |-> HysteriaMaterial(envs[j])]
  <1>1. PICK i \in DOMAIN envs : s = envs[i]
    BY DEF ToSet
  <1>2. i \in keep
    BY <1>1 DEF Meant
  <1>3. keep \subseteq DOMAIN envs /\ \A j \in DOMAIN envs : j \in keep <=> listening(envs[j])
    OBVIOUS
  <1>4. \A j \in DOMAIN envs : mat[j] = HysteriaMaterial(envs[j])
    OBVIOUS
  <1> HIDE DEF keep, mat
  <1>5. PICK j \in keep :
            /\ envs[j].r.id = envs[i].r.id /\ mat[j] = mat[i]
            /\ \A h \in 1..(j - 1) : (h \in keep /\ envs[h].r.id = envs[j].r.id) => mat[h] # mat[j]
    <2>1. keep \subseteq DOMAIN envs
      BY <1>3
    <2>2. FirstLike(envs, keep, mat, i)
      BY ONLY IsSeq(envs), <1>2, <2>1, FirstAlike
    <2>3. QED
      BY <2>2 DEF FirstLike
  <1>6. j \in DOMAIN envs
    BY <1>3
  <1>7. DOMAIN envs = 1..Len(envs) /\ Len(envs) \in Nat
    BY SeqFacts
  <1>8. \A h \in 1..(j - 1) : h \in DOMAIN envs
    BY <1>6, <1>7
  <1>9. /\ listening(envs[j])
        /\ \A h \in 1..(j - 1) :
              (listening(envs[h]) /\ envs[h].r.id = envs[j].r.id) => HysteriaMaterial(envs[h]) # HysteriaMaterial(envs[j])
    BY <1>3, <1>4, <1>5, <1>6, <1>8
  <1> DEFINE x == envs[j]
             in == HysteriaInbound(s)
             d == HysteriaDial(x.n.host, HysteriaInbound(x).port, HysteriaInbound(x).end, id)
  <1>10. d \in HysteriaShares(hub, id, envs)
    BY <1>6, <1>9 DEF HysteriaShares, FirstOfEach
  <1>11. HysteriaMaterial(x) = HysteriaMaterial(s)
    BY <1>1, <1>4, <1>5, <1>6
  <1>12. /\ HysteriaInbound(x).port = in.port /\ HysteriaInbound(x).end.sni = in.end.sni
         /\ HysteriaInbound(x).end.pin = in.end.pin /\ HysteriaInbound(x).end.obfs = in.end.obfs
    BY <1>11 DEF HysteriaMaterial
  <1> HIDE DEF x, in
  <1>13. Presents(d, in, id)
    BY <1>12 DEF HysteriaDial, Presents
  <1>14. QED
    BY <1>10, <1>13 DEF in

\* and for every region behind the CDN a URL.
LEMMA CdnCovered ==
    ASSUME NEW t, t.cdn # Unset, NEW id, NEW envs, IsSeq(envs), NEW hub, hub = Unset, NEW s \in ToSet(envs),
           \A x \in ToSet(envs) : x.r.id = s.r.id => Cdn(x) # Unset
    PROVE  \E x \in ToSet(envs) : x.r.id = s.r.id /\ CdnDial(x, id) \in CdnShares(t, hub, id, envs)
  <1> DEFINE keep == DOMAIN envs
             mat == [j \in DOMAIN envs |-> <<>>]
  <1>1. PICK i \in DOMAIN envs : s = envs[i]
    BY DEF ToSet
  <1>2. i \in keep /\ keep \subseteq DOMAIN envs /\ \A j \in DOMAIN envs : j \in keep /\ mat[j] = <<>>
    OBVIOUS
  <1> HIDE DEF keep, mat
  <1>3. PICK j \in keep :
            /\ envs[j].r.id = envs[i].r.id /\ mat[j] = mat[i]
            /\ \A h \in 1..(j - 1) : (h \in keep /\ envs[h].r.id = envs[j].r.id) => mat[h] # mat[j]
    <2>1. FirstLike(envs, keep, mat, i)
      BY ONLY IsSeq(envs), <1>2, FirstAlike
    <2>2. QED
      BY <2>1 DEF FirstLike
  <1>4. j \in DOMAIN envs /\ envs[j] \in ToSet(envs) /\ envs[j].r.id = s.r.id
    BY <1>1, <1>2, <1>3 DEF ToSet
  <1>5. DOMAIN envs = 1..Len(envs) /\ Len(envs) \in Nat
    BY SeqFacts
  <1>6. \A h \in 1..(j - 1) : h \in DOMAIN envs
    BY <1>4, <1>5
  <1>7. \A h \in 1..(j - 1) : envs[h].r.id # envs[j].r.id
    BY <1>2, <1>3, <1>4, <1>6
  <1>8. Cdn(envs[j]) # Unset
    BY <1>4
  <1>9. CdnDial(envs[j], id) \in CdnShares(t, hub, id, envs)
    BY <1>4, <1>7, <1>8 DEF CdnShares, FirstOfEach, Meant
  <1>10. QED
    BY <1>4, <1>9

\* An email goes with an identity, however it is asked for,
LEMMA HolderIsEmail ==
    ASSUME NEW t, NEW u \in ToSet(t.users), NEW who \in Holders(u)
    PROVE  EmailOf(t, EmailFor(t, u, who), IdFor(t, u, who))
  <1>1. CASE who = Self
    BY <1>1, IdentityFor DEF EmailOf
  <1>2. CASE who = Server
    <2>1. EmailFor(t, u, who) = ServerEmail(u) /\ IdFor(t, u, who) = ServerUuid(t.ns, u)
      BY <1>2, IdentityFor
    <2>2. QED
      BY <2>1 DEF EmailOf, ServerEmail, ServerUuid
  <1>3. ASSUME NEW l \in ToSet(u.guests), who = Guest(l) PROVE EmailOf(t, EmailFor(t, u, who), IdFor(t, u, who))
    <2>1. EmailFor(t, u, who) = GuestEmail(u, l) /\ IdFor(t, u, who) = GuestUuid(t.ns, u, l)
      BY <1>3, IdentityFor
    <2>2. QED
      BY <2>1 DEF EmailOf, GuestEmail, GuestUuid
  <1>4. QED
    BY <1>1, <1>2, <1>3, HoldersAre

\* and tells its user and how it was asked for; no portal has it.
LEMMA EmailTellsWho ==
    ASSUME NEW t, WellFormed(t), Loads(t), NamespaceFree(t), NEW u \in ToSet(t.users), NEW who \in Holders(u)
    PROVE  /\ \A v \in ToSet(t.users) : \A how \in Holders(v) :
                 EmailFor(t, v, how) = EmailFor(t, u, who) => v = u /\ how = who
           /\ \A p \in ToSet(t.portals) : PortalEmail(t.ns, p) # EmailFor(t, u, who)
  <1>1. IdsApart(t)
    BY NoCollisionsApart DEF Loads
  <1>2. EmailOf(t, EmailFor(t, u, who), IdFor(t, u, who))
    BY HolderIsEmail
  <1>3. ASSUME NEW v \in ToSet(t.users), NEW how \in Holders(v), EmailFor(t, v, how) = EmailFor(t, u, who)
        PROVE  v = u /\ how = who
    <2>1. EmailOf(t, EmailFor(t, u, who), IdFor(t, v, how))
      <3>1. EmailOf(t, EmailFor(t, v, how), IdFor(t, v, how))
        BY HolderIsEmail
      <3>2. QED
        BY <1>3, <3>1
    <2>2. IdFor(t, v, how) = IdFor(t, u, who)
      BY <1>2, <2>1, EmailTells
    <2>3. QED
      BY <1>1, <2>2, IdTellsWho
  <1>4. ASSUME NEW p \in ToSet(t.portals), PortalEmail(t.ns, p) = EmailFor(t, u, who) PROVE FALSE
    <2>1. EmailOf(t, EmailFor(t, u, who), PortalUuid(t.ns, p))
      BY <1>4 DEF EmailOf
    <2>2. IdFor(t, u, who) = PortalUuid(t.ns, p)
      BY <1>2, <2>1, EmailTells
    <2>3. IdFor(t, u, who) \in IdSet(t, u)
      BY IdentityFor DEF Holders, IdSet
    <2>4. QED
      BY <1>1, <2>2, <2>3 DEF IdsApart
  <1>5. QED
    BY <1>3, <1>4

\* So whoever is listed under an email is listed as its owner: by access type,
LEMMA AccessListed ==
    ASSUME NEW t, WellFormed(t), Loads(t), NamespaceFree(t), NEW u \in ToSet(t.users), NEW who \in Holders(u),
           NEW type, NEW flow, NEW c \in ToSet(AccessClients(t, type, flow, TRUE)), c.email = EmailFor(t, u, who)
    PROVE  type \in u.access /\ HasIdentity(u, who)
  <1>1. PICK v \in ToSet(t.users) : type \in v.access /\ \E how \in Holders(v) : Entry(t, v, how, flow, c)
    BY AccessEntries
  <1>2. PICK how \in Holders(v) : Entry(t, v, how, flow, c)
    BY <1>1
  <1>3. HasIdentity(v, how) /\ EmailFor(t, v, how) = EmailFor(t, u, who)
    BY <1>2, EntryFields DEF Entry
  <1>4. v = u /\ how = who
    BY <1>3, EmailTellsWho
  <1>5. QED
    BY <1>1, <1>3, <1>4

\* and at a hub's direct inbound.
LEMMA DirectListed ==
    ASSUME NEW e, NEW t, NEW g, HubOf(e, t, g), NamespaceFree(t), NEW u \in ToSet(t.users), NEW who \in Holders(u),
           NEW c \in ToSet(Direct(e).clients), c.email = EmailFor(t, u, who)
    PROVE  Lists(t, e.r, u, who) /\ HasIdentity(u, who)
  <1>1. e.t = t /\ e.r.type = "hub" /\ WellFormed(t) /\ Loads(t)
    BY DEF HubOf
  <1>2. c \in ToSet(HubClients(e))
    BY <1>1, HubDirect
  <1>3. PICK flow : flow = e.key.enc
    OBVIOUS
  <1>4. \/ \E v \in ToSet(t.users) : \E how \in Holders(v) : Lists(t, e.r, v, how) /\ Entry(t, v, how, flow, c)
        \/ \E p \in ToSet(t.portals) : c = PortalClient(t, p, flow)
    BY <1>1, <1>2, <1>3, HubEntries
  <1>5. ASSUME NEW v \in ToSet(t.users), NEW how \in Holders(v), Lists(t, e.r, v, how), Entry(t, v, how, flow, c)
        PROVE  Lists(t, e.r, u, who) /\ HasIdentity(u, who)
    <2>1. HasIdentity(v, how) /\ EmailFor(t, v, how) = EmailFor(t, u, who)
      BY <1>5, EntryFields DEF Entry
    <2>2. v = u /\ how = who
      BY <1>1, <2>1, EmailTellsWho
    <2>3. QED
      BY <1>5, <2>1, <2>2
  <1>6. ASSUME NEW p \in ToSet(t.portals), c = PortalClient(t, p, flow) PROVE FALSE
    <2>1. PortalEmail(t.ns, p) = EmailFor(t, u, who)
      BY <1>6, ClientFields
    <2>2. QED
      BY <1>1, <2>1, EmailTellsWho
  <1>7. QED
    BY <1>4, <1>5, <1>6

\* With what a region's URLs lead to, a hub with the same settings lets in the
\* owner alone: over the direct inbound,
LEMMA DirectReached ==
    ASSUME NEW a, NEW b, NEW n, NEW o, NEW t, NEW e, NEW s, Situation(a, b, n, o, t, e, s),
           NEW u, Stays(u, o, t), NEW who \in Holders(u), HasIdentity(u, who), Lists(t, e.r, u, who),
           NEW k, KeysOf(a, k), NEW hub, hub = Unset, NEW via, via = "direct"
    PROVE  \E d \in Shares(o, k, u, hub, via, who) : LetIn(e, d, EmailFor(o, u, who))
  <1> DEFINE envs == Envs(o, "hub", k)
             id == IdFor(o, u, who)
             sid == DialShortId(o, u, who)
             g == a.gen
             h == b.gen
  <1>1. HubOf(e, t, h) /\ HubOf(s, o, g) /\ Agree(e, s) /\ HubsApart(o) /\ HubsApart(t) /\ PathsApart(t)
    BY DEF Situation
  <1>2. e.t = t /\ s.t = o /\ e.r.type = "hub" /\ s \in ToSet(envs) /\ IsSeq(envs) /\ WellFormed(o)
    <2>1. WellFormed(o) /\ s \in ToSet(envs)
      BY <1>1 DEF HubOf, Situation, KeysOf
    <2>2. IsSeq(Places(o, "hub"))
      BY <2>1, PlaceElements
    <2>3. IsSeq(envs)
      BY <2>2, SeqFacts, FunctionIsSeq DEF Envs
    <2>4. QED
      BY <1>1, <2>1, <2>3 DEF HubOf
  <1>3. \A x \in ToSet(envs) : HubOf(x, o, g)
    BY HubsOf DEF Situation, KeysOf
  <1>4. RegionTls(t, e.r) = RegionTls(o, s.r)
    BY <1>1, <1>2, SameHubSettings
  <1>5. Lists(o, s.r, u, who)
    BY <1>4 DEF Lists
  <1>6. MayAsk(u, via, who)
    BY DEF Lists, MayAsk
  <1>7. Shares(o, k, u, hub, via, who) = DirectShares(o, u, hub, who, id, sid, envs)
    BY <1>6 DEF Shares, IdFor
  <1> HIDE DEF envs, id, sid, g, h
  <1>8. PICK x \in ToSet(envs) :
            /\ x.r.id = s.r.id /\ DirectDial(x, id, sid) \in DirectShares(o, u, hub, who, id, sid, envs)
            /\ IF RegionTls(o, s.r) # Unset
               THEN RegionTls(o, x.r) # Unset => x.n.id = s.n.id
               ELSE RegionTls(o, x.r) = Unset => Direct(x) = Direct(s) /\ x.key = s.key
    BY <1>2, <1>5, DirectCovered
  <1>9. HubOf(x, o, g) /\ x.r = s.r
    <2>1. HubOf(x, o, g)
      BY <1>3
    <2>2. QED
      BY ONLY <1>1, <1>8, <2>1, OneHub
  <1> DEFINE d == DirectDial(x, id, sid)
  <1>10. Twin(d, DirectDial(s, id, sid))
    <2>1. CASE RegionTls(o, s.r) # Unset
      <3>1. x.n.id = s.n.id /\ x.r.id = s.r.id
        BY <1>8, <1>9, <2>1
      <3>2. x = s
        BY ONLY <1>1, <1>9, <3>1, OneHub
      <3>3. QED
        BY <3>2 DEF Twin
    <2>2. CASE RegionTls(o, s.r) = Unset
      <3>1. Direct(x) = Direct(s) /\ x.key = s.key
        BY <1>8, <1>9, <2>2
      <3>2. QED
        BY <3>1 DEF Twin, DirectDial
    <2>3. QED
      BY <2>1, <2>2
  <1>11. d \in Shares(o, k, u, hub, via, who)
    BY <1>7, <1>8
  <1> HIDE DEF d
  <1>12. PICK flow : flow = e.key.enc
    OBVIOUS
  <1>13. \A c : c \in Admitted(e, d) <=> c = Mine(t, u, who, flow)
    BY <1>1, <1>10, <1>12, DirectShareTaken DEF id, sid
  <1>14. Mine(t, u, who, flow).email = EmailFor(o, u, who) /\ Mine(t, u, who, flow).reverse = NoTag
    BY EntryFields, StaysIdentity DEF Stays
  <1>15. LetIn(e, d, EmailFor(o, u, who))
    BY <1>13, <1>14 DEF LetIn, LetInAs
  <1>16. QED
    BY <1>11, <1>15

\* behind the CDN,
LEMMA CdnReached ==
    ASSUME NEW a, NEW b, NEW n, NEW o, NEW t, NEW e, NEW s, Situation(a, b, n, o, t, e, s),
           NEW u, Stays(u, o, t), NEW who \in Holders(u), HasIdentity(u, who), "cdn" \in u.access, Cdn(e) # Unset,
           NEW k, KeysOf(a, k), NEW hub, hub = Unset, NEW via, via = "cdn"
    PROVE  \E d \in Shares(o, k, u, hub, via, who) : LetIn(e, d, EmailFor(o, u, who))
  <1> DEFINE envs == Envs(o, "hub", k)
             id == IdFor(o, u, who)
             g == a.gen
             h == b.gen
  <1>1. HubOf(e, t, h) /\ HubOf(s, o, g) /\ Agree(e, s) /\ HubsApart(o) /\ HubsApart(t) /\ PathsApart(t) /\ o.cdn = t.cdn
    BY DEF Situation
  <1>2. e.t = t /\ s.t = o /\ e.r.type = "hub" /\ s \in ToSet(envs) /\ IsSeq(envs) /\ WellFormed(o)
    <2>1. WellFormed(o) /\ s \in ToSet(envs)
      BY <1>1 DEF HubOf, Situation, KeysOf
    <2>2. IsSeq(Places(o, "hub"))
      BY <2>1, PlaceElements
    <2>3. IsSeq(envs)
      BY <2>2, SeqFacts, FunctionIsSeq DEF Envs
    <2>4. QED
      BY <1>1, <2>1, <2>3 DEF HubOf
  <1>3. \A x \in ToSet(envs) : HubOf(x, o, g)
    BY HubsOf DEF Situation, KeysOf
  <1>4. o.cdn # Unset /\ e.r.cdn # Unset /\ s.r.cdn = e.r.cdn
    BY <1>1, <1>2 DEF Cdn, Agree
  <1>5. MayAsk(u, via, who)
    BY DEF MayAsk
  <1>6. Shares(o, k, u, hub, via, who) = CdnShares(o, hub, id, envs)
    BY <1>5 DEF Shares, IdFor
  <1> HIDE DEF envs, id, g, h
  <1>7. ASSUME NEW x \in ToSet(envs), x.r.id = s.r.id PROVE x.r = s.r /\ Cdn(x) # Unset
    <2>1. HubOf(x, o, g)
      BY <1>3
    <2>2. x.r = s.r
      BY ONLY <1>1, <1>7, <2>1, OneHub
    <2>3. x.t.cdn # Unset /\ x.r.cdn # Unset
      BY <1>4, <2>1, <2>2 DEF HubOf
    <2>4. QED
      BY <1>1, <2>1, <2>2, <2>3, HubSays
  <1>8. PICK x \in ToSet(envs) : x.r.id = s.r.id /\ CdnDial(x, id) \in CdnShares(o, hub, id, envs)
    BY <1>2, <1>4, <1>7, CdnCovered
  <1>9. HubOf(x, o, g) /\ x.r = s.r /\ Cdn(x) # Unset
    BY <1>3, <1>7, <1>8
  <1>10. CircleOf[s.n.id] = CircleOf[x.n.id]
    <2>1. s.r.cdn # Unset /\ s.r.cdn = x.r.cdn
      BY <1>4, <1>9
    <2>2. QED
      BY ONLY <1>1, <1>9, <2>1, OneHub
  <1>11. /\ s.key = KeysAt(g)[s.n.id] /\ x.key = KeysAt(g)[x.n.id]
         /\ [r |-> s.r, n |-> s.n] \in AllPlaces(o) /\ [r |-> x.r, n |-> x.n] \in AllPlaces(o)
    BY <1>1, <1>9 DEF HubOf, AllPlaces
  <1>12. s.n.id \in Node /\ x.n.id \in Node
    <2>1. a.topo \in DOMAIN Topo /\ o = Topo[a.topo]
      BY DEF Situation, Loadable
    <2>2. \A pl \in AllPlaces(o) : pl.n.id \in Node
      BY <2>1, NodesAssumption
    <2>3. QED
      BY <1>11, <2>2
  <1>13. e.key = x.key
    BY <1>1, <1>10, <1>11, <1>12, OneCircle DEF Agree
  <1> DEFINE d == CdnDial(x, id)
  <1>14. d \in Shares(o, k, u, hub, via, who) /\ d = CdnDial(x, IdFor(o, u, who))
    BY <1>6, <1>8 DEF id
  <1> HIDE DEF d
  <1>15. PICK flow : flow = e.key.enc
    OBVIOUS
  <1>16. \A c : c \in Admitted(e, d) <=> c = Mine(t, u, who, flow)
    <2>1. x.r.cdn = e.r.cdn /\ t.cdn = o.cdn
      BY <1>1, <1>4, <1>9
    <2>2. QED
      BY <1>1, <1>9, <1>13, <1>14, <1>15, <2>1, CdnShareTaken
  <1>17. Mine(t, u, who, flow).email = EmailFor(o, u, who)
    BY EntryFields, StaysIdentity DEF Stays
  <1>18. LetIn(e, d, EmailFor(o, u, who))
    BY <1>16, <1>17 DEF LetIn, LetInAs
  <1>19. QED
    BY <1>14, <1>18

\* and over Hysteria.
LEMMA HysteriaReached ==
    ASSUME NEW a, NEW b, NEW n, NEW o, NEW t, NEW e, NEW s, Situation(a, b, n, o, t, e, s),
           NEW u, Stays(u, o, t), NEW who \in Holders(u), HasIdentity(u, who), "hysteria" \in u.access,
           HysteriaInbound(e) # Unset,
           NEW k, KeysOf(a, k), NEW hub, hub = Unset, NEW via, via = "hysteria"
    PROVE  \E d \in Shares(o, k, u, hub, via, who) : LetIn(e, d, EmailFor(o, u, who))
  <1> DEFINE envs == Envs(o, "hub", k)
             id == IdFor(o, u, who)
             g == a.gen
             h == b.gen
  <1>1. HubOf(e, t, h) /\ HubOf(s, o, g) /\ Agree(e, s) /\ HubsApart(t) /\ PathsApart(t)
    BY DEF Situation
  <1>2. e.t = t /\ s.t = o /\ e.r.type = "hub" /\ s.r.type = "hub" /\ s \in ToSet(envs) /\ IsSeq(envs)
        /\ WellFormed(o) /\ Marked(s)
    <2>1. WellFormed(o) /\ s \in ToSet(envs)
      BY <1>1 DEF HubOf, Situation, KeysOf
    <2>2. IsSeq(Places(o, "hub"))
      BY <2>1, PlaceElements
    <2>3. IsSeq(envs)
      BY <2>2, SeqFacts, FunctionIsSeq DEF Envs
    <2>4. QED
      BY <1>1, <2>1, <2>3 DEF HubOf
  <1>3. PICK flow : flow = FALSE
    OBVIOUS
  <1>4. HysteriaClients(s) # <<>>
    <2>1. HysteriaClients(s) = AccessClients(o, "hysteria", flow, TRUE)
      BY <1>2, <1>3 DEF HysteriaClients
    <2>2. Entry(o, u, who, flow, Mine(o, u, who, flow)) /\ u \in ToSet(o.users)
      BY DEF Entry, Stays
    <2>3. Mine(o, u, who, flow) \in ToSet(HysteriaClients(s))
      BY <1>2, <2>1, <2>2, AccessEntries
    <2>4. QED
      BY <2>3, EmptyIsSeq
  <1>5. HysteriaInbound(s) # Unset
    <2>1. Hysteria(e.t, e.r, e.n) = Hysteria(s.t, s.r, s.n)
      BY <1>1, <1>2, SameHubSettings
    <2>2. Hysteria(s.t, s.r, s.n) # Unset
      BY <2>1 DEF HysteriaInbound
    <2>3. QED
      BY <1>2, <1>4, <2>2 DEF HysteriaInbound, Marked
  <1>6. MayAsk(u, via, who)
    BY DEF MayAsk
  <1>7. Shares(o, k, u, hub, via, who) = HysteriaShares(hub, id, envs)
    BY <1>6 DEF Shares, IdFor
  <1> HIDE DEF envs, g, h, id
  <1>8. PICK d \in HysteriaShares(hub, id, envs) : Presents(d, HysteriaInbound(s), id)
    BY <1>2, <1>5, HysteriaCovered
  <1>9. PICK x : x.email = EmailFor(t, u, who) /\ \A c : c \in Admitted(e, d) <=> c = x
    BY <1>1, <1>5, <1>8, HysteriaShareTaken DEF id
  <1>10. EmailFor(t, u, who) = EmailFor(o, u, who)
    BY StaysIdentity DEF Stays
  <1> DEFINE r == x.reverse
  <1>11. LetInAs(e, d, EmailFor(o, u, who), r)
    BY <1>9, <1>10 DEF LetInAs
  <1> HIDE DEF r
  <1>12. QED
    BY <1>7, <1>8, <1>11 DEF LetIn

\* What RegionCovered looks at.
InboundOf(e, via) ==
    CASE via = "direct" -> Direct(e) [] via = "cdn" -> Cdn(e) [] via = "hysteria" -> HysteriaInbound(e) [] OTHER -> Unset

\* So whatever lists the owner of a share is reached by a URL,
LEMMA ShareReaches ==
    ASSUME NEW a, NEW b, NEW n, NEW o, NEW t, NEW e, NEW s, Situation(a, b, n, o, t, e, s),
           NEW u, Stays(u, o, t), NEW who \in Holders(u), NEW k, KeysOf(a, k), NEW hub, hub = Unset,
           NEW via, NEW in, in = InboundOf(e, via), in # Unset,
           NEW c \in ToSet(Given(in, "clients")), c.email = EmailFor(o, u, who)
    PROVE  \E d \in Shares(o, k, u, hub, via, who) : LetIn(e, d, EmailFor(o, u, who))
  <1> DEFINE h == b.gen
  <1>1. HubOf(e, t, h) /\ NamespaceFree(t) /\ o.ns = t.ns
    BY DEF Situation
  <1>2. e.t = t /\ e.r.type = "hub" /\ WellFormed(t) /\ Loads(t)
    BY <1>1 DEF HubOf
  <1>3. u \in ToSet(t.users) /\ c.email = EmailFor(t, u, who)
    BY StaysIdentity DEF Stays
  <1> HIDE DEF h
  <1>4. CASE via = "direct"
    <2>1. in = Direct(e)
      BY <1>4 DEF InboundOf
    <2>2. c \in ToSet(Direct(e).clients)
      BY <2>1 DEF Given, Direct
    <2>3. Lists(t, e.r, u, who) /\ HasIdentity(u, who)
      BY <1>1, <1>3, <2>2, DirectListed
    <2>4. QED
      BY <1>4, <2>3, DirectReached
  <1>5. CASE via = "cdn"
    <2>1. in = Cdn(e) /\ Cdn(e) # Unset
      BY <1>5 DEF InboundOf
    <2>2. PICK flow : flow = e.key.enc
      OBVIOUS
    <2>3. c \in ToSet(AccessClients(t, "cdn", flow, TRUE))
      <3>1. "clients" \in DOMAIN Cdn(e) /\ Cdn(e).clients = AccessClients(t, "cdn", flow, TRUE)
        BY <1>2, <2>1, <2>2 DEF Cdn
      <3>2. Given(in, "clients") = Cdn(e).clients
        BY <2>1, <3>1 DEF Given
      <3>3. QED
        BY <3>1, <3>2
    <2>4. "cdn" \in u.access /\ HasIdentity(u, who)
      BY <1>1, <1>2, <1>3, <2>3, AccessListed
    <2>5. QED
      BY <1>5, <2>1, <2>4, CdnReached
  <1>6. CASE via = "hysteria"
    <2>1. in = HysteriaInbound(e) /\ HysteriaInbound(e) # Unset
      BY <1>6 DEF InboundOf
    <2>2. PICK flow : flow = FALSE
      OBVIOUS
    <2>3. HysteriaClients(e) = AccessClients(t, "hysteria", flow, TRUE)
      BY <1>2, <2>2 DEF HysteriaClients
    <2>4. c \in ToSet(HysteriaClients(e))
      BY <2>1 DEF Given, HysteriaInbound, HysteriaListener
    <2>5. "hysteria" \in u.access /\ HasIdentity(u, who)
      BY <1>1, <1>2, <1>3, <2>3, <2>4, AccessListed
    <2>6. QED
      BY <1>6, <2>1, <2>5, HysteriaReached
  <1>7. QED
    BY <1>4, <1>5, <1>6 DEF InboundOf

\* and a portal by the dial for the hub itself, which gen-portal gave out with the rest.
LEMMA PortalReaches ==
    ASSUME NEW a, NEW b, NEW n, NEW o, NEW t, NEW e, NEW s, Situation(a, b, n, o, t, e, s),
           NEW p, NEW q \in ToSet(t.portals), q.id = p.id, q.uuid = p.uuid, NEW k, KeysOf(a, k)
    PROVE  \E x \in ToSet(Envs(o, "hub", k)) : LetIn(e, PortalDial(x, p), PortalEmail(o.ns, p))
  <1>1. s \in ToSet(Envs(o, "hub", k)) /\ Agree(e, s)
    BY DEF Situation, KeysOf
  <1> DEFINE d == PortalDial(s, p)
             r == p.id \o <<"-portal">>
  <1>2. d.via = "direct" /\ d.to = s.n.host
    BY DEF PortalDial, DirectDial
  <1>3. Arrives(d, e)
    BY <1>1, <1>2 DEF Arrives, Agree
  <1>4. d = PortalDial(s, p)
    OBVIOUS
  <1> HIDE DEF d
  <1>5. LetInAs(e, d, PortalEmail(o.ns, p), p.id \o <<"-portal">>)
    BY <1>1, <1>3, <1>4, PortalSurvives
  <1>6. LetInAs(e, d, PortalEmail(o.ns, p), r)
    BY <1>5
  <1> HIDE DEF r
  <1>7. LetIn(e, d, PortalEmail(o.ns, p))
    BY <1>6 DEF LetIn
  <1>8. QED
    BY <1>1, <1>4, <1>7

\* The invariants are enough for this, too.
LEMMA Covered == (DialsApart /\ NamespaceApart /\ TypeInv /\ KeyInv /\ GivenInv) => RegionCovered
  <1> SUFFICES ASSUME DialsApart, NamespaceApart, TypeInv, KeyInv, GivenInv, held # Unset, held.hub = Unset,
                      NEW n \in RunningHubs, Current(built[n], n), NEW e, e = EnvAt(built[n], n),
                      NEW in, in = InboundOf(e, held.via), in # Unset,
                      NEW c \in ToSet(Given(in, "clients")), c.email = held.email
               PROVE  \E d \in held.dials : Emails(e, d) = {held.email}
    BY DEF RegionCovered, InboundOf
  <1> DEFINE a == held.at
             b == built[n]
             o == Topo[a.topo]
             t == Topo[b.topo]
             s == EnvAt(a, n)
             k == KeysAt(a.gen)
             u == held.owner
             who == held.who
             via == held.via
             hub == held.hub
             m == held.email
             dials == held.dials
  <1>1. Situation(a, b, n, o, t, e, s)
    BY SituationIs
  <1>2. SameOwner(b) /\ o.ns = t.ns
    BY <1>1 DEF Current, Situation
  <1>3. \E d \in dials : LetIn(e, d, m)
    <2>1. CASE SharedBy(held)
      <3>1. Stays(u, o, t)
        BY <1>2, <2>1, OwnerStays
      <3>2. /\ who \in Holders(u) /\ dials = Shares(o, k, u, hub, via, who) /\ m = EmailFor(o, u, who)
            /\ KeysOf(a, k) /\ hub = Unset /\ in = InboundOf(e, via) /\ c.email = m
        BY <2>1 DEF SharedBy, KeysOf
      <3> HIDE DEF a, b, o, t, s, k, u, who, via, hub, m, dials
      <3>3. c.email = EmailFor(o, u, who)
        BY <3>2
      <3>4. \E d \in Shares(o, k, u, hub, via, who) : LetIn(e, d, EmailFor(o, u, who))
        BY ONLY <1>1, <3>1, <3>2, <3>3, in # Unset, c \in ToSet(Given(in, "clients")), ShareReaches
      <3>5. QED
        BY <3>2, <3>4
    <2>2. CASE DialedBy(held)
      <3>1. /\ who = <<"portal">> /\ m = PortalEmail(o.ns, u) /\ KeysOf(a, k)
            /\ dials = {PortalDial(x, u) : x \in ToSet(Envs(o, "hub", k))}
        BY <2>2 DEF DialedBy, KeysOf
      <3>2. PICK q \in ToSet(t.portals) : q.id = u.id /\ q.uuid = u.uuid
        BY <1>2, <3>1 DEF SameOwner
      <3> HIDE DEF a, b, o, t, s, k, u, who, via, hub, m, dials
      <3>3. PICK x \in ToSet(Envs(o, "hub", k)) : LetIn(e, PortalDial(x, u), PortalEmail(o.ns, u))
        BY ONLY <1>1, <3>1, <3>2, PortalReaches
      <3>4. QED
        BY <3>1, <3>3
    <2>3. QED
      BY <2>1, <2>2 DEF GivenInv
  <1>4. QED
    BY <1>3, OnlyOne DEF LetIn

\* share without --hub leaves nobody without a URL: every hub of which the keys
\* and the settings are as they were, and whose inbound lists the owner of what
\* is held, lets the owner in, and only it, with one of the URLs, though those of
\* hubs that repeat another's of the region were left out; under the same
\* conditions (_direct_share_urls, _hysteria_share_urls, _cdn_share_urls).
THEOREM NoHubLeftOut == ASSUME DialsApart, NamespaceApart PROVE Spec => []RegionCovered
  <1>1. TypeInv /\ KeyInv /\ GivenInv => RegionCovered
    BY Covered
  <1>2. QED
    BY <1>1, InitTypeInv, NextTypeInv, InitKeyInv, NextKeyInv, InitGivenInv, NextGivenInv, PTL DEF Spec
=============================================================================
