# HexRift in TLA+

HexRift turns one topology file (`conglomerate.yaml`) into the Xray and HAProxy
configurations of every node of a proxy network: *hubs*, which clients dial, and
*exits*, which hubs dial. It is a command line program. No daemon runs; what makes
it hard is that several commands, possibly at the same time, share three pieces of
state on disk (the topology file, the key directory, the generated configurations),
that the generated files must agree *with each other*, and that the generated rule
lists are programs of their own, run by Xray, whose meaning depends on order, on
tag names and on prefixes.

## 1. Inventory

| Component (source) | State | Operations | Properties that make it correct |
|---|---|---|---|
| **keys** (`components/keys`, `shared/files.py`) | `keys/<node>.yaml`, one file per node | `gen_keys` (fresh, copied from a sibling hub, forced rotation), `load_node_keys`, `save_node_keys` | a key file is never torn; a pair goes no further than hubs of one region and ids that move; hubs of a region with one key configuration share one pair, and without `--force` existing files are left alone (the documentation's claims; section 6 says where they end); a whole rotation repairs everything |
| **topology** (`components/topology`) | the topology file, edited as text in place; `<file>.tmp` | `nodes add`, `nodes remove`, `nodes list` | an edit keeps a valid file valid or reports it; nothing keeps pointing at a removed node; a balanced region keeps its fallback; two edits do not lose one another |
| **schema** (`components/schema`) | the parsed configuration, cached once per process | `load`, `get_*`, the cross-reference validator | the cache never holds a configuration that failed validation; what validation accepts, rendering can render |
| **derive/topology** (`components/derive/topology.py`, `inbounds/context.py`) | none (pure) | routing rules, balancers, observatory selectors, published ports | every tag a rule, a balancer or a fallback names is rendered; published ports lead only into their tunnel; portals carry only members; hub and portal agree on what a tunnel carries; routes in the documented order (not so over several kinds) |
| **derive/identity** (`identity.py`, `wireguard.py`, `hysteria.py`) | none (pure) | UUIDs, emails, shortIds, WireGuard addresses and keys | two owners never share an identity on one inbound; an address names one peer, and client and server agree on it |
| **inbounds, links** (`inbounds/`, `links/`) | none (pure) | client lists, fragments, share URLs, hub-to-exit dials | what a share URL or a hub dials with, the listener accepts |
| **render** (`components/render`) | `configs/<node>/config.json`, `haproxy.cfg` | `build`, `gen-portal`, `diff` | one node's failure does not stop the others; configurations built from one key set interoperate; no two listeners on one socket |
| **core, CLI, templates** (`core/`, `app.py`, `__main__.py`, `templates/`) | component registry | registration, option parsing, output | not stateful beyond wiring |

### How the parts interact

* Every command is a process of its own. `SchemaController.config` parses the
  topology file once per process and caches it; every other component reads the
  cache (`app.schema.config`), so a command works on a *snapshot* of the topology.
* `DeriveController.check_identity_collisions` is registered as a validator that
  `SchemaController.load` calls after Pydantic's own validation.
* `nodes add` and `nodes remove` read the file's bytes, compute the edited text
  line by line, write `<file>.tmp`, rename it over the file, then reload it through
  the schema to report (not to prevent) an invalid result.
* `gen-keys` writes key files through a temporary file of a unique name and a
  rename; `build`, `gen-portal`, `share` and `diff` read them.
* A hub's configuration embeds key material of every exit and the exit's own
  configuration embeds the other half; Xray interprets both.

### Hard behaviours

* *Interleaving*: check-then-act on key files, read-modify-write of the topology
  file, a fixed temporary name shared by all editors, `build` reading key files one
  by one while another command rotates them.
* *Failure*: a write fails half way through a multi-node command; a command is
  killed between the first and the last file of a rotation.
* *Staleness*: a snapshot of the topology outlives an edit; a key file outlives the
  removal of its node, and its move to another region.
* *Ordering*: first-match rule lists; rule groups are emitted by kind, not in the
  order they are declared.
* *Naming*: balancer and observatory selectors match tags by prefix; backup nodes
  get a prefixed tag; ids of regions and of nodes share one destination namespace.

## 2. Plan

Done:

1. `KeyAuthority` (abstract: how far a key pair may get) and `KeyStore` (the
   `gen-keys` processes, one file access per step), the refinement, `KeyStoreProofs`; then what
   one command at a time has achieved when it ends: `KeyCommandProofs`.
2. `Topology` (what a configuration says, and what validation accepts),
   `RoutingRules` (the rule lists derived from it), `TrafficPath` (a connection's way
   through hub, exit and portal); `SequenceFacts` (sequences and FlattenSeq),
   `RoutingProofs` (what each rule list decides) and `TrafficPathProofs`.
3. `TopologyEdit` (`nodes add` and `nodes remove` as functions of the file) and
   `TopologyFile` (the editors, the temporary file), `TopologyFileProofs`.
4. `Identity`, `Conglomerate`, `Inbounds`, `Dials`: what a node listens for, whom it
   lets in, and what the program hands out to dial it with. `Access` composes them over
   time: edits, rotations, rebuilds of single nodes, and a share URL somebody holds;
   `AccessProofs`.
5. `Deployment` (the `build` and `gen-portal` processes, over what `KeyAuthority`
   promises of `gen-keys`) and `DeploymentProofs`.

Left: nothing that TLC checks of safety is without a theorem (section 5); what is not
modelled at all is in section 7.

The schema cache gets no module of its own. It is filled once, by the first access of
a command, with a configuration that passed validation or not at all; that is the
snapshot of `KeyStore` and `Deployment` and the guard of `Access!Edit`.

## 3. Modules

| Module | Models | Kind |
|---|---|---|
| `KeyAuthority` | what the key directory promises | abstract specification |
| `KeyStore` | `components/keys`, `shared/files.py` | state machine |
| `KeyStoreProofs` | | theorems about `KeyStore`, for any interleaving of commands |
| `KeyCommandProofs` | | what one command at a time restores and leaves shared |
| `Topology` | `schema/models/root.py`, routing's part | definitions |
| `RoutingRules` | `derive/topology.py`, `inbounds/context.py`, `render/xray.py`, `render/portal.py` | definitions |
| `TrafficPath` | the generated rules at work; client lists, outbounds, sniffing | state machine |
| `SequenceFacts` | | lemmas about sequences, prefixes and `FlattenSeq` |
| `RoutingProofs` | | lemmas about `RoutingRules`: what each rule list decides |
| `TrafficPathProofs` | | theorems about `TrafficPath` |
| `TopologyEdit` | `topology/edit.py`, `topology/controller.py` | definitions |
| `TopologyFile` | `TopologyController._read`, `_write` | state machine |
| `TopologyFileProofs` | | theorems about `TopologyFile` |
| `Identity` | `derive/identity.py`, `derive/wireguard.py`, `check_identity_collisions` | definitions |
| `Conglomerate` | `schema/models`: the overlays of settings, and what validation accepts | definitions |
| `Inbounds` | `inbounds/`, the listeners of `render/haproxy.py` | definitions |
| `Dials` | `derive/controller.py` (`share`), `links/`, `render/portal.py` | definitions |
| `Access` | the commands of these parts, one step each, over time | state machine |
| `AccessProofs` | | theorems about `Access` |
| `Deployment` | `render/controller.py`, `render/component.py` | state machine |
| `DeploymentProofs` | | theorems about `Deployment` |
| `MCKeyStore`, `MCTrafficPath`, `MCTopologyFile`, `MCAccess`, `MCDeployment` | | instances for TLC |

`Deployment` extends `KeyAuthority`, which `KeyStore` implements. `Access` extends
`Dials`, `Inbounds`, `Conglomerate` and `Identity`, in this order. `Topology` and
`Conglomerate` are two views of one file: the part that routing reads, and the part
that listeners and dials read.

### KeyStore

One process per `gen-keys` command. `run[p]` is its memory: the snapshot of the
topology it parsed, the nodes still to do, the siblings still to look at. `topo` is
the topology file reduced to what this component reads: which nodes are declared, in
which region (of hubs or of exits), with which key settings. `file[n]` is
`keys/<n>.yaml`. A key pair is a number, unique to one generation; a file holds that
number and the settings it was generated under. The steps are the accesses other
processes can see: looking for the own file (`Skip`, `Begin`), looking at a sibling's
(`PassBy`, `Copy`, `CopyFails`), generating (`Mint`, which sees nothing of the disk),
creating, filling and renaming the temporary file (`Open`, `Fill`, `Replace`), the end
of the command (`Finish`) or its death (`Abort`). `Edit` and `Damage` are the
environment: the topology changes at one node, which joins any region, leaves, moves to
another or gets other settings, while its key file stays where it is; a file stops being
readable.

Two variables and a field are history, read by no guard. `run[p].old` is the nodes whose
file was there when an unforced command started. `granted[i]` is the node pair `i` was
generated for and those it was put into the file of, and `met[n]` the nodes that were,
in some topology so far, hubs of `n`'s region with `n`'s settings. Ids move, so there
is no fixed set of nodes a pair belongs to. What the code guarantees is that a pair
passes only between nodes that met: `KeyAuthority` lets `Grant` make a pair for a node
and `Install` put it into the file of one that has met a holder, past or present. `Mint`
implements `Grant`, `Replace` implements `Install`, `Damage` implements `Spoil`, `Edit`
implements `Meet`, everything else is a stutter.

### Topology, RoutingRules, TrafficPath

`Topology` is a configuration as a record, and the conditions of
`ConglomerateConfig._validate_references` that routing depends on. Ids are sequences
of characters because selectors compare prefixes; domains, networks, addresses are
members of small sets. `TopologyRecords` says which values the schema's types
allow, for any number of regions, nodes, portals and routes. `RoutingRules` builds, from such a record, the rule lists of
a hub, an exit and a portal in the order the code appends them, and the balancers,
links and published ports. `TrafficPath` takes one connection through them:
first-match rule lists, balancers that select by prefix, a fallback, reverse tunnels.
The router, the dispatcher and the tunnels are Xray's and are modelled from how the
generated configuration uses them. A balancer may choose any live outbound it selects,
or its fallback.

The address a name has at the exit or the portal is any. The hub never asks for one: its
list ends in a catch-all, so the second pass of `IPIfNonMatch` does not happen.

### TopologyEdit, TopologyFile

A document is the record of `Topology` with the regions in file order, and for each
whether it is written in block style and whether its `lb_fallback` is null in so many
words (`nulled`), which `nodes add` leaves alone.
`Results(d, c)` is what the file may say after command `c` (a set, because the route
of a new exit region is drawn at random), empty when the command refuses or has
nothing to do. `TopologyFile` runs such commands in processes: `Begin` reads and
computes, `Open` truncates or creates `<file>.tmp`, `Write` writes to whatever file
that handle means by now, `Rename` puts it in place. Handles follow files through
renames, so an editor may find itself writing into the topology file. `Fail` is the
`OSError` path, which removes the temporary file, `Kill` leaves it. Reloading the file
after the rename only produces a warning and changes nothing.

### Identity, Conglomerate, Inbounds, Dials

All four are functions of a topology; none has state.

* `Identity`: a version 5 UUID is a hash, so it is represented by what is hashed: the
  path of names from the namespace down, and the third segment. The segment is kept
  because the program sets it itself for its warp links and because Xray does not
  compare it. `Addresses` is the WireGuard allocation in file order.
* `Conglomerate`: a topology is a record of roles, regions, nodes, groups, users and
  portals. Settings come in layers, node over region over role; one operator per
  resolver of `resolve.py`. `Loads(t)` is what `ConglomerateConfig` and the identity
  check accept.
* `Inbounds`: one operator per inbound kind, from the environment a build resolves for
  one node. Each gives the socket, the clients in file order, and what a caller must
  show; `Unset` when the node does not have it. `Sockets` adds HAProxy's and those of published ports.
* `Dials`: what `share`, `share --wg`, `gen-portal` and the links of a hub dial with.
  `Admitted(e, d)` is the set of clients an inbound of `e` takes dial `d` for. It is
  Xray's part (and that of HAProxy's SNI switch, which the program writes) and is
  written from what the generated configurations rely on: equal keys, a known short
  id, a name the certificate covers, an equal path, an id that is equal but for its
  third segment.

### Access

`topo` is the name of the file in place, `gen` the generation of every key pair.
`built[n]` is the snapshot node `n` was last built from, so nodes of different ages run
next to each other. `held` is what one command gave out, with the snapshot it was made
from. `Edit` takes any file of `Edits` that loads, `Rotate` is `gen-keys --force` of a
circle, `Build` is `build` of one node and its roll-out, `Share` and `GenPortal` fill
`held`. Here the circles of nodes that share their keys are constant: no file of
`Edits` moves an id to another region. Every action is one step: what happens within a command is the business of
`KeyStore`, `TopologyFile` and `Deployment`.

Most properties of `Access` compare what was given out with a node built *later*, from
another file. `Current(b, n)` says what must not have changed in between for it to
keep working: the node's own entry and the settings it overlays, its key pair, and the
entry of the owner (for WireGuard the users before the owner as well, since addresses
are given in file order). Everything else may have changed.

### Deployment

A process is one `build` or `gen-portal` command. Its memory is the snapshot, the items
to do, the pairs read so far for the current one, the flags, and which items failed.
`Read` takes one key file (a hub's configuration needs its own and every exit's, a
portal's every hub's). `Refuse` is any exception before something is written.
`WriteXray` is one step, since `config.json` goes through a temporary file and a
rename; `haproxy.cfg` is written in place, so it takes `Truncate` and `Fill`.
`WriteFails` and `Kill` strike in between. `Finish` reports. `GenKeys` is whatever
`KeyAuthority` lets gen-keys do, mixtures of several commands included; `Edit` (with
the hubs that meet in the new topology) and `Damage` are as in `KeyStore`. What is
stated of `Deployment` therefore holds as far as gen-keys keeps to `KeyAuthority`, which
`KeyStore` is proved to do.
The field `quiet` is auxiliary: no key file, configuration or topology was changed by
others since the command began. No guard reads it.

## 4. Runs

| Run | Question | Result |
|---|---|---|
| `KeyStoreOne` | one command at a time with edits, interrupts and damaged files: how far do key pairs get, do hubs share, what does success mean, does a rotation repair, does every command end? | holds |
| `KeyStoreTwo` | two commands interleaved: is a file ever torn, does the directory implement `KeyAuthority`, are existing files left alone? | holds |
| `KeyStoreReadded` | do the hubs of a region share their keys after one left and returned? | violated |
| `Path` | does every tag exist, does traffic leave where it was sent, what do published ports and portals let through? | holds |
| `PathBackupNode` | may a route name a backup node? | violated |
| `PathOrder` | does the first matching entry of `hub_routes` decide? | violated |
| `TopologyOne` | one editor, three commands in a row, with an error and a kill | holds |
| `TopologyTwo` | two editors: is a document that is in place free of dangling references? | holds |
| `TopologyLost` | two editors: does an edit change only what it should? | violated |
| `Access` | who is let in where, as whom, across edits, rotations and rebuilds; do sockets and identities stay apart? | holds |
| `AccessOverrides` | is every override that shadows another identity rejected? | violated |
| `Deployment` | two commands, key rotations, and an edit, damage, error or kill: what do configurations embed, what does a finished command mean? | holds |

### Bounds, and why they are enough

* `KeyStore`: two hubs of one region and a third node, which may be an exit or a third
  hub, are the least with a sibling, a non-sibling and a choice of siblings to copy from;
  an edit moves any of them anywhere, to the second region of hubs too, and one move
  before, between or within two commands is what takes a pair to another region. Two
  settings tell equal from different; the first hub's is called `c1` whichever it is, which
  saves a symmetry that liveness does not allow. Two commands are needed for
  stale files and rotations over them; `KeyStoreReadded` needs three commands and two
  edits. `MaxAborts` and `MaxDamage` of one already put every partial result in front of
  the next command; `MaxIncidents` bounds edits, deaths and damage together, and two put
  every one in front of every other. With two commands at a time one incident is
  enough: what the properties of `KeyStoreTwo` ask is about two writers, and the theorems
  of section 5 have no bounds.
* `TrafficPath`: rules only compare a connection with sets, so one member and one
  non-member of each matcher suffice. Two exit nodes, each primary or backup, give
  every case of a fallback (no, own, other); two `hub_routes` of every kind and
  matcher give every pair, and the order of rules is a question of pairs. Two
  portals, one strict or open, show that membership of one is not membership of the
  other.
* `TopologyFile`: one editor with three commands reaches an emptied region, a region
  created again, an id that moves from a region to a node, an exhausted range (of two
  routes). With two editors, three commands and a write error give every order of the
  accesses to the shared temporary file, its removal under a writer included; a kill
  only leaves it behind, which the run with one editor covers.
* `Access`: the deployments `full` and `mixed` have between them every inbound kind,
  Reality and TLS, with HAProxy and without, both link protocols, a derived and an
  operator's certificate, obfuscation and warp. Edits lead from `mixed` to `full`, and
  from `full` to files that change one thing each: users reordered and added, a freed
  name taken by a portal, a renaming with the identity pinned, one hub's own Hysteria
  name, a hub gone, a namespace, another link protocol; two of the files must not load
  (two listeners on one socket, an identity taken). What is held is compared with one
  later build at a time, so one edit and one rotation put every difference between two
  ages in front of every dial. What is given out dials hubs only, so `share` is asked
  for where there are only hubs, and links between nodes are looked at in the same
  files with an exit: the two do not meet, and their product shows nothing new.
  `share` is asked for all hubs and for the second one, which is the one it could
  confuse.
* `Deployment`: one hub and one exit are the least where a configuration has two pairs,
  a portal needs the hub's. In the second topology the order is reversed, the hub's
  configuration cannot be derived and the portal is gone, so each kind of refusal
  happens first and last in a batch. Two processes write the same files; one pair more
  than there are circles is a rotation under a reader; one incident is enough for a
  torn file, and a second command follows it.

Every region of the run `Path` has a primary node, no region id begins
with another, no link's tag is another's or a special destination's, and the namespace
is not a username (`MCApart`): see sections 5 and 6.

`CHECK_DEADLOCK FALSE`: commands end; when the bounds are used up there is nothing
left to do, and that is no error. The runs of `TrafficPath` do check for deadlock: a
connection always arrives somewhere.

### Fairness

Only `CommandsEnd` (run `KeyStoreOne`) is a liveness property. `FairSpec` adds
`WF_vars(Step(p))` for each process: a command that was started is an operating system
process that takes no locks and waits for nobody, so it is scheduled until it ends.
Edits, damage and interrupts are never assumed to happen. `Access` and `Deployment`
state safety only: nothing in the program makes anyone rebuild a node or roll it out.

## 5. Proofs

`KeyStoreProofs`, for any number of processes, nodes, regions and settings, without
the bounds, from `RankAssumption` (file order is an order), `MarksAssumption` (the
two marks are no keys) and `RegionAssumption` (types):

* `TypeCorrect`: `TypeOK`. Its last conjunct but one (commands work on nodes of their
  snapshot) is needed to look up regions and settings.
* `Inductive`: the invariant behind the rest. `KeysStayApart` speaks of files only
  and is not inductive: the pair a process is about to write is in its memory or in
  its temporary file. The invariant says that a pair on disk was granted to its node and one in memory or
  in a temporary file may be, for every file it goes to (`Writable`); that nodes that are
  apart were granted no pair in common (`GrantsApart`); that the hubs that share in the
  present topology, and in the snapshot of each process, have met; and that a file is
  renamed only when it is filled.
* `KeysConfined`: `KeysStayApart`, since what a pair was granted to stays inside a set
  that no meeting leaves. `NeverTorn`: `WritesAreWhole`.
* `Implements`: every behaviour of `KeyStore` is one of `KeyAuthority`.

Also, under the same assumptions: `SuccessProved` is `SuccessCovers`, for
any interleaving of commands. Its invariant `CoverInv` says that a node a command is
done with has a file unless an error was counted, and that the node it writes for has
one as soon as it is not among those left to write. What keeps it is that no step ever
removes a key file (`FilesStay`).

`LeftAlone` is `ExistingLeftAlone`, also for any interleaving. Its invariant `SpareInv`
says that the files an unforced command found at its start are still there, so that its
own look at each of them makes it skip the node, and that it writes no other node's file.

`KeyCommandProofs`, under the hypothesis `OneCommand` (one process; two at once may
leave a region with two pairs, see section 6):

* `RotationProved`: `RotationRestores`, from whatever an interrupted command, an edit or
  damage had left. The invariant (`Restored`) says of a forced command that the nodes it
  is done with have keys made for their settings (`Fit`) and share them where they should
  (`Paired`), except for those that are just being given another pair, and that this
  pair fits, and is already in the files that are no longer to be written (`Spread`).

* `HubsShare`: `UndisturbedHubsShare`, for any number of commands and with files damaged
  in between, as long as no command died and nothing was edited (`KeyStoreReadded`
  shows what edits do, and an interrupted rotation leaves two pairs in a region).
  While a pair is written the region does disagree;
  `AgreeBesides` says that it does so only between files written and files to be
  written, and that those already written, or with nothing left to copy, have this pair.

`TopologyFileProofs`, for all documents and commands and any number of errors and
kills. Assumptions: `DocumentsLoad` (the documents there are at first have the fields of
`DocumentRecords` and load), `CommandsGiven` (commands are of `CommandRecords`, so the
mark of an idle process is none) and `RoutesDrawn` (the range routes are drawn from is
one of routes). For any number of editors, who may overwrite each other's files:

* `TypeCorrect`: `TypeOK`.
* `LoadsAgain`: `LoadsOrExplained`. Neither the property nor `Loads` is inductive: a
  file that does not load is edited further, and a later command may remove the reason.
  The invariant (`KeptInv`) says of every whole file, temporary file and text in memory
  that it is `Sound`: everything validation asks for except what the four reasons take
  away. Ids and routes are unique, a fallback is a node of its region, routes lead to
  something with nodes or to the name of a hub region, published ports do not meet.
  There is one lemma per kind of command (`JoinedSound`, `CreatedSound`, `LeftSound`;
  `ResultSound` has them all), each from what the command does to one list of regions
  (`ReplacedSound`, `AppendedSound`) and to the routes; `SoundExplained` is the step
  from `Sound` to the property.
* `NothingLeftDangling`: `NothingDangles`. Under `RouteNamesKept`: no command creates a
  hub region with the name of something a route of a document at hand leads to. Without
  it there is a counterexample of two commands (section 6, hub region named like a node).
  The invariant has one conjunct more (`NamesApart`), that routes do not lead to hub
  regions.
* `RoundTrip`: `AddThenRemove`, under `RouteNamesKept` and if no node is named like a
  special destination, since `nodes remove` would take the routes to that with it.

And under the hypothesis `OneEditor` (there is one editing process; the run
`TopologyLost` shows why it is needed):

* `NeverHalfWritten`: `FileWhole`. `OnlyTheEdit`: `OthersKept`. The invariant says that
  the text the editor holds is its edit of the file as it is, that only a step from
  open to write has the handle, which means an empty `<file>.tmp`, and that before the
  rename `<file>.tmp` holds that text, whatever an earlier, killed editor had left.
* `FallbackKept`: `FallbackStays`. A node that joins a region without a written fallback
  is put somewhere in file order, perhaps before the first primary node; `JoinedFallback`
  says that the fallback written with it is that node, `LeftFallback` that removing
  another one leaves the first where it was. An addition to a region whose fallback is
  null in so many words is left out: nothing is written there, and the first primary
  node may become another.

`AccessProofs`, for all topologies, edits, rebuilds and any number of rotations.
Assumptions: `NodesAssumption` (every declared node has a circle), `PinsAssumption` (a
pin in the file belongs to a certificate of the operator's; one that repeats a derived
certificate's would survive a rotation by intent), `FieldsAssumption` (the files have
the fields of the schema's types, `WellFormed`), `MarkAssumption` (the mark for what is
not given is no listener, no settings and no pin: a node that has a Hysteria or CDN
inbound, TLS, or WireGuard peers is not taken for one without) and `BoundsAssumption`.

* `TypeCorrect`: `TypeOK`. A generation never passes the number of rotations
  (`TypeInv`), and a portal's dials are never empty, because a file with portals loads
  only with a hub.
* `Revoked`: `RotationRevokes`, whose invariant `KeyInv` says that what is in a held
  dial of a key pair is of the snapshot it was made from (`Carries`), and that a node
  runs a snapshot that declares it. The rest is what a listener does with a dial
  (`DirectRefused` and the like): its pair is of its own circle and generation
  (`Keyed`), pairs of one circle differ in their generation and others in the circle,
  and each handshake compares one of the fields that carry a pair. The hub the dial was
  made for and the one it arrives at need not be the same, so host names may move.
* `LinksTaken`: `LinksAccepted`, of files with `LinksApart`, which the code does not
  check and `MCAccess` says of its files: no Reality name of an exit is one that HAProxy
  hands to the CDN's inbound, and a pin in the file is that of the file's certificate.
  Two snapshots that see one exit the same way `Agree` on all that the two ends of a
  link are made of (`PlacesAgree`, `SameExitSettings`), so the handshake is between
  equals (`VlessLinkTaken`, `HysteriaLinkTaken`). Who is let in is then a matter of
  identities: an id that differs from a hub's in the third segment alone, as the one for
  warp does, is that hub's, and two hubs that shared an id would share the email
  (`OneIdOneEmail`). The invariants are `TypeInv` and `KeyInv`. The proof found what the
  property has to ask: that the hub is still a hub in the file of the exit; a node whose
  id has become an exit's is no client of it.
* `SameOwnerForever`: `NeverSomebodyElse`. The invariant `HeldInv` says that every dial
  that is held shows an identity that is `Owned`, in the file it was made from, by who
  has the email it was given out under: a user's, a server's, a guest's or a portal's. Who is let in is, with
  its email, the owner of an identity with the same path in the file of the hub
  (`AdmittedOwned`). An identity that no pin starts (`Unpinned`) has the path that goes
  with its email (`OwnedLooks`), which spells out namespace, user's name and label
  (`PathsTell`); a portal's begins with a mark no username has. So one path has one
  owner in any two files (`OnePathOneOwner`), however far apart.
* `EveryClientOnce`: `ClientsDistinct`, of files whose namespace is no username
  (`NamespaceApart`, which `MCAccess` says of its files). `IdsApart` is what
  `check_identity_collisions` leaves of the identities; a list made user by user
  (`ByUsers`) has its ids apart if those of each user are, and its emails because an
  email tells the user and the kind of the identity (`EmailTells`). The list of an exit
  adds links, whose emails are the tags of hubs and have no `@`.
* `EverySocketOnce`: `SocketsDisjoint`. What the check of a node counts (`Reserved`) is
  all that its listeners bind: each inbound that does not listen locally has a claim of
  its own in it (`SocketsAre`, `InboundSocketsDiffer`), and the published ports a node
  keeps are compared with these and with each other on load (`SocketsDiffer`).
* `StillLetIn`: `SharesSurvive`, and `NoHubLeftOut`: `RegionCovered`. Both of files with
  `DialsApart` and `NamespaceApart`, which the code does not check and `MCAccess` says of
  its files (`DialsApartHere`; the file of `AccessOverrides` is the one without).
  `DialsApart` says that hubs are told apart by what dials go by: a host name is one
  node's, a CDN path leads to hubs with one key pair, no hub's direct SNI is the CDN's domain,
  a pin is that of its certificate, and two identities of a file differ in the part that
  Xray compares. Each of these is needed: without it a dial ends elsewhere or lets in
  another owner, as `AccessOverrides` shows for the last.
  The invariant `GivenInv` says that what is held is *all* that one command gave out, and of
  whom. From it a state in which the hub is as it was (`Current`) is a `Situation`: two
  environments of one hub, from the file of the snapshot and from the file it was built
  from, that `Agree`. Then:
  - The dial that arrives was made for that very hub, since hosts are apart (`OneHub`), or
    for one with its keys, behind the CDN (`OneCircle`).
  - The listener shows the same face: settings, pair, name, path and pin
    (`SameHubSettings`, `DirectTaken`, `CdnTaken`, `HysteriaTaken`); the short id, of the
    owner's group, portal or name, is still among those of the hub (`ShortIdTaken`).
  - Its list has the owner's entry (`HubEntries`, `AccessEntries`) and no other that
    answers to the same id (`LetInAlone`, from `PathTellsId` and `IdTellsWho`). For
    WireGuard the owner's peer is at the same place, so it has the same address
    (`PeerStays`): its peers and those of the users before it are a beginning of both lists
    (`PeersUpTo`), which is why the property asks for these users to stay.
  - For `NoHubLeftOut`: a client with the owner's email is the owner (`EmailTellsWho`), so
    share may be asked for it, and of the hubs of a region with one material the first in
    file order is kept (`FirstAlike`, `DirectCovered`, `HysteriaCovered`, `CdnCovered`).
    Its URL differs from the one left out in the host alone (`Twin`, `Presents`).

`DeploymentProofs`, for any number of processes, nodes, portals, topologies and
commands, without the bounds. Assumptions: `TopologyAssumption` and `FlagsAssumption`
(types of the constants), `KeysAssumption` (the key directory at first holds pairs that
were granted to their node) and `MarkAssumption` (the marks are no keys
and no topologies; nodes and portals are different items, as `gen-portal` and `build`
write to different directories and validation keeps their ids apart).

* `TypeCorrect`: `TypeOK`. That a process at `haproxy.cfg` still has an item is part of
  it, because the next step takes the head of its list.
* `EmbeddedSafe`: `EmbeddedAreGranted`. It takes of gen-keys what `KeyAuthority` says,
  and allows pairs of different rotations in one configuration. It speaks of configurations only; the
  invariant `GrantedInv` behind it also covers what a process has read so far for the
  item it is at, and what the key files hold. Grants are only ever added, so what was
  granted once stays so, however long a reader waits between two files.
* `TornExcused`: `TornOnlyByErrors`. A process that has the file truncated stays with
  it until it fills it (`WritersStayLemma`), unless it fails or dies, which counts as
  an error. With two writers the last one to fill still leaves it whole.
* `CommandsSettle` and `FailuresAreIsolated`: `Settles` and `BatchIsolated`. The
  invariant `QuietInv` says of a quiet process that its snapshot is the topology, that
  what it read for the current item is what the key files hold, and that an item it is
  done with has failed exactly when it cannot be built (or a write failed) and has
  fresh files otherwise.

`TrafficPathProofs`, for every valid topology, any number of regions, nodes, routes,
portals and published ports, and everything a client may dial. Assumptions:
`TopologiesValid` (the topologies have the fields of `TopologyRecords`, and `Valid`, the
cross-reference checks, accepts them) and `DestinationsNamed` (what is dialed is not the
mark for "nothing"). Every property of the run `Path` is a theorem; half of them need
more of the topologies than validation gives, which the theorem then says:

* `EveryStepFinds`: `TypeOK`. `WarpIsAgreed`: `WarpAsAsked`. `TunnelsAgree`:
  `TunnelAgrees`. Of any valid topology.
* `NamedIsRendered`: `NoDangling`, if each region with nodes has a primary one and no
  route names a backup (`PrimariesNamed`; the run `PathBackupNode` is the
  counterexample without it).
* `MembersEnter`: `MembersOnly`, if the namespace is no username (`NamespaceApart`: a
  guest's email has the username where a member's has the namespace).
* `PublishedPortsStayPut`: `PublishedStaysPut`, if no link has the tag of a special
  destination (`NoSpecialLink`). Xray would find two outbounds of one tag; a node may be
  called `direct`, since validation compares node ids with each other only.
* `FirstOfOneKind`: `FirstMatchWins`, if the entries of `hub_routes` are of one kind
  (`OneKind`: all to `blocked`, all to `direct`, or none to either; the run `PathOrder` is
  the counterexample without it).
* `RegionIsChosen`: `RegionChosen`, if moreover links have tags of their own
  (`LinksApart`, a node `warp-x` next to `x` would share one) and a balancer's selector
  is a prefix of no tag it should not select (`SelectorsApart`), and `PrimariesNamed`.

`MCApart` has TLC check that all topologies of the run satisfy these hypotheses, so
none of them is empty.

The argument has three layers. `SequenceFacts`, which `TopologyFileProofs` uses as well,
proves what the rest needs of sequences: `UpTo` (a set that has 1, and with each k the
next, has 1..n) stands in for induction, and with it what `FlattenSeq` of a list per
element contains, what `SelectSeq` leaves and where (`FilterElements`, `FilterIndex`),
and what mapping a list element by element gives (`MapElements`). `RoutingProofs` says of
each rule list which connections it decides, and to what: a list that comes from one
kind of declaration (`FirstHit`) goes to the target of its first declaration that
accepts the connection; lists put one after the other decide like the first of them
that decides at all (`FiveLists`). From there `HubTarget` gives everything a hub may
name. `TrafficPathProofs` is the inductive part:

* `TypeInv`: `TypeOK`, and that a position is a record of its four fields.
* `TagRendered`: `NoDangling` one step earlier, when the tag has been named but no
  outbound taken it.
* `ConnInv` and `Entered`: an open connection is one its client may open; one through
  an identity that is about to enter a tunnel, or has, is one the rules of that portal
  accept for its members. For this a portal's tag must not be one a balancer selects, which validation sees to
  (`PortalTagsKept`, `SelectorElements`).
* `OnPort`: what has come in on a published port is on its way to its own portal, to
  `blocked`, or there. It needs that the tag of a published port names one portal and one
  port, and is not the inbound of a user (`PublishTags`).
* `Bound`: who asks for a region is at the hub, at a balancer of the region, at one of
  its links or at one of its nodes. `RegionChosen` looks at the end of this way only.
* `ChosenIs` carries `FirstMatchWins`: of a connection that no rule of a published port,
  resolver, vless route or portal takes, the hub's decision is `Chosen`, the first hit
  of the first kind that has any (blocked names, regions, nodes and warp, direct, blocked
  networks). With one kind (`OneKindChosen`) that is the first hit of all.

Only model-checked: `CommandsEnd`, liveness under fairness, which is out of the proof
system's reach. Every invariant and action property of the passing runs is a theorem.

## 6. What the runs found

* `TopologyLost`: two `nodes add`/`remove` at once share `<file>.tmp` and take no lock.
  One can rename the file the other has just truncated; the topology is then empty
  until the other writes into it, or stays so. And an edit made from an older text
  undoes the other's.
* `PathBackupNode`: a `hub_routes` destination that is a node with `lb_role: backup` is
  accepted and leads to an outbound tag that is not rendered. (The same holds, by
  reading, for a region all of whose nodes are backups: `region_outbound_tag` falls
  back to the plain tag of its first node. The runs only use regions with a primary.)
* `KeyStoreReadded`: a hub that is removed and added again keeps the keys of its first
  life. `RotationRestores` shows the repair.
* `PathOrder`: routes are emitted grouped by kind, so "ordered; first match wins" does
  not hold for two entries of different kinds. `FirstOfOneKind` proves it for lists of
  one kind.
* `AccessOverrides`: an override of a user's UUID is compared with every other identity
  as a whole, but Xray leaves out the third segment. One that differs from another
  identity there alone is accepted, and one of the two owners is never matched.

Known from reading and excluded from what the passing runs claim:

* Two `gen-keys` without `--force` at the same time may both find no file for a node; the
  second then replaces what the first one wrote, and what was made from it is void.
  `docs/cli-reference.md:261` says "without `--force` existing key files are left alone";
  `ExistingLeftAlone` says of which files that is true: of those there when the command
  started.
* `gen-keys` for two hubs of one region at the same time: neither finds the other's file,
  each generates. The hubs that "automatically share a keypair" have two, and every later
  command without `--force` skips both. Two forced rotations at once can leave the same
  mixture, since each writes the hubs one by one. `UndisturbedHubsShare` and
  `RotationRestores` are therefore stated for one command at a time, and `KeyAuthority`
  allows the mixture.
* `docs/topology-schema.md:293-296` names two cases in which a strict portal fails closed.
  The second one, an address dialed under a sniffed name, is the exception in
  `TunnelAgrees`. The first one, the two resolvers disagree, does not come about the way it
  is described: the hub never resolves a name (the page says so itself at line 291), so a
  name that only a network would match leaves by `hub_default`, whatever the hub's resolver
  would say, and reaches no portal that could drop it.
* A node id that is removed and declared again in another region, or as the other type,
  keeps its key file: `gen-keys` skips it, and new siblings copy it. One pair may then
  lie in two regions, or with an exit. No line of the documentation excludes it;
  `KeysStayApart` says how far a pair can get, `RotationRestores` what repairs it.
* `docs/architecture.md` says that of a region of hubs `gen-keys` "only generates one
  file"; it generates one pair, and writes it to a file per hub.
* The first primary node of a region without a balancer, or with a null `lb_fallback`,
  may become another when a node is added before it.
* A balancer selects tags by prefix: when the id of a region begins with the id of a
  balanced one, part of its traffic leaves by the other's nodes. Validation refuses
  this for portal tags only.
* A namespace equal to a username gives a guest of that user the email of a member.
* Validation does not look at what `LinksApart` says: with a Reality name under the CDN's
  exit domain, HAProxy hands the links of the hubs to the CDN's inbound, which has no
  Reality; with a wrong pin for an operator's certificate the hubs refuse the exit.
* Nor does it look at what `DialsApart` says. Two nodes with one host, two hub regions
  with one CDN path, or a hub whose Reality name is the CDN's domain are accepted; then a
  URL may end at a hub, or at an inbound, that it was not made for.
* A region created with the id of an exit node that a route names takes that route over.
  When it is a hub region the file does not load, and `nodes remove` of the node, which
  keeps the routes to an id "another region still owns", leaves the route as it is. The
  commands of the runs create no such region.
* `gen-keys` without `--force`, recommended in `store.py` for a corrupted key file,
  skips it, since the file exists. `RotationRestores` shows what does repair.
* `gen-keys --force` is documented to disconnect every client. A TLS inbound without
  VLESS encryption and a Hysteria one with the operator's certificate and no
  obfuscation carry nothing of the pair; `RotationRevokes` states which dials do.
* Guests dial with a short id made of their user's name, so a renaming with the
  identity pinned (`renamed` in `MCAccess`) keeps the user's own URLs and, where
  Reality is used, breaks the guests'.
* Addresses of WireGuard peers follow the order of the users in the file: moving one
  changes the addresses of those after it (the second half of `SameOwner`).

The files of `MCAccess` have no namespace equal to a username and no direct SNI equal
to the CDN's domain.

## 7. Not modelled

* Formats of single fields (`fields.py`), option parsing and output, and `derive`,
  `show`, `nodes list` and `diff`, which only read and print.
* YAML text: lines, quotes, anchors, flow style beyond "can be edited or not". A file with two texts mixed up counts as unreadable.
* Cryptographic encodings (`shared/crypto.py`): what is derived from different inputs is
  taken to be different. That a short id or a hash may collide by chance is left out.
* Transport settings that decide neither who is let in nor where: congestion control
  (with the check that `brutal` has bandwidths), QUIC, mKCP and TCP options, sniffing of
  share URLs, the XDNS transport, fingerprints, logging, IPv6, `exit_connections`.
* The namespace in the seeds of the Hysteria and WireGuard material. The properties that
  say a dial is accepted compare snapshots of one namespace; for those that say it is
  refused the model only accepts more. The port of the resolver is fixed at 53.
* The duplicate outbound tag of a node whose id is another's derived tag (`warp-x`). The
  strategy of a balancer and the observatory only narrow the choices the model leaves
  open.
* Xray, HAProxy, the CDN, DNS and the tunnels are external: `TrafficPath`, `Admitted`,
  `Handshake`, `Verified`, `SameId` and `Arrives` say what the generated files rely on.
* Component wiring (`core/`, `app.py`): no state besides the cached topology.
