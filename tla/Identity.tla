------------------------------ MODULE Identity ------------------------------
(***************************************************************************)
(* The identities derived from a topology: UUIDs, short ids, emails and    *)
(* WireGuard peers.                                                        *)
(*                                                                         *)
(* Version 5 UUIDs are hashes: two are equal when the names and the bases  *)
(* they were derived from are, so a UUID is the path of its derivation,    *)
(* and its third segment seg, which Xray leaves out when it compares ids.  *)
(* A short id is the text it is a hash of, or what the file pins.          *)
(***************************************************************************)
EXTENDS Integers, Sequences, SequencesExt

CONSTANTS Unset,       \* a setting that is not given
          HashSegment  \* the third segment of a derived UUID

\* The version of the UUID is its first hexadecimal digit: 0x5000 to 0x5fff.
ASSUME HashSegmentAssumption == HashSegment \in 20480..24575

WarpSegment == 65535

Uuid5(base, name) ==
    [path |-> Append(base.path, [name |-> name, on |-> base.seg]), seg |-> HashSegment]
NamespaceUuid(ns) == Uuid5([path |-> <<>>, seg |-> 0], ns)
WarpUuid(uuid) == [uuid EXCEPT !.seg = WarpSegment]

UserUuid(ns, u) == IF u.uuid # Unset THEN u.uuid ELSE Uuid5(NamespaceUuid(ns), u.name)
ServerUuid(ns, u) == Uuid5(UserUuid(ns, u), u.name \o <<"-server">>)
GuestUuid(ns, u, label) == Uuid5(UserUuid(ns, u), label)
\* (Mutant: portals and users are derived alike.)
PortalUuidUnprefixed(ns, p) ==
    IF p.uuid # Unset THEN p.uuid ELSE Uuid5(NamespaceUuid(ns), p.id)
PortalUuid(ns, p) ==
    IF p.uuid # Unset THEN p.uuid ELSE Uuid5(NamespaceUuid(ns), <<"portal/">> \o p.id)
HubExitUuid(ns, hub, exit) == Uuid5(NamespaceUuid(ns), hub \o <<"-">> \o exit)

Email(local, domain) == [local |-> local, domain |-> domain]
UserEmail(ns, u) == Email(u.name, ns)
ServerEmail(u) == Email(u.name \o <<"-server">>, u.name)
GuestEmail(u, label) == Email(label, u.name)
PortalEmail(ns, p) == Email(p.id, <<"portal.">> \o ns)
HubExitEmail(ns, hub, exit) == Email(hub \o <<"-">> \o exit, ns)

GroupShortId(ns, g) == IF g.short # Unset THEN g.short ELSE g.id \o <<".">> \o ns
ExitShortId(ns, id) == id \o <<".exit.">> \o ns
UserShortId(ns, u) == u.name \o <<".user.">> \o ns
PortalShortId(ns, p) == p.id \o <<".portal.">> \o ns

-----------------------------------------------------------------------------
(* Every identity a hub may have to tell apart.  A user's server identity  *)
(* counts whether it is used or not.                                       *)

\* (Mutant: guests are left out.)
IdentitiesOfUser(ns, u) == <<UserUuid(ns, u), ServerUuid(ns, u)>>
IdentitiesOf(ns, u) ==
    <<UserUuid(ns, u), ServerUuid(ns, u)>>
    \o [i \in DOMAIN u.guests |-> GuestUuid(ns, u, u.guests[i])]
HubIdentities(t) ==
    FlattenSeq([i \in DOMAIN t.users |-> IdentitiesOf(t.ns, t.users[i])])
    \o [i \in DOMAIN t.portals |-> PortalUuid(t.ns, t.portals[i])]
NoCollisions(t) == IsInjective(HubIdentities(t))

-----------------------------------------------------------------------------
(* WireGuard peers get the addresses of the subnet one after the other:    *)
(* the first is the server's, peer i's is the next after it.               *)

PeersOf(ns, u) ==
    IF "wireguard" \notin u.access THEN <<>>
    ELSE <<[email |-> UserEmail(ns, u), id |-> UserUuid(ns, u)]>>
         \o (IF "server" \in u.access
             THEN <<[email |-> ServerEmail(u), id |-> ServerUuid(ns, u)]>> ELSE <<>>)
         \o [i \in DOMAIN u.guests |-> [email |-> GuestEmail(u, u.guests[i]),
                                        id |-> GuestUuid(ns, u, u.guests[i])]]
Peers(t) == FlattenSeq([i \in DOMAIN t.users |-> PeersOf(t.ns, t.users[i])])
\* Fails when the subnet runs out: its hosts are the server and the peers.
Exhausted(t, subnet) == Len(Peers(t)) > subnet.hosts - 1
Address(subnet, i) == <<subnet.net, i + 1>>
\* The keys of a peer: from the hub's private key and the identity.
PeerKey(pair, id) == [pair |-> pair, of |-> id]
=============================================================================
