----------------------------- MODULE Interfaces -----------------------------
(***************************************************************************)
(* The network interfaces of a machine whose devices come and go: services *)
(* that are made for an interface and look for it later, a thread that     *)
(* keeps a cache while it looks, and the list of interfaces that the       *)
(* interface namer stores.                                                 *)
(*                                                                         *)
(* The registry is IOKit's, the preferences and the dynamic store are      *)
(* those of the configuration agents; nothing here changes them.           *)
(***************************************************************************)
EXTENDS InterfaceLookup

CONSTANTS
    Nodes,        \* [1..n -> nodes]: the devices there may be
    Virtuals,     \* the bonds, bridges and VLANs there may be in the preferences
    PANName,      \* the Bluetooth PAN's BSD name, that InterfaceNamer tells
    Asked,        \* BSD names that clients look for
    Units,        \* units that the interface namer assigns
    Initially,    \* the nodes that may be present at first
    MaxMigrated,  \* bound on the new units of one interface
    MaxSteps      \* bound on the steps

\* IOKit's texts are strings, and the BSD name of an interface is its prefix
\* and its unit.
Text == Seq(ToSet(Alphabet))
ASSUME NodesAssumption ==
    /\ Alphabet \in Seq(ToSet(Alphabet))
    /\ Initially \subseteq SUBSET DOMAIN Nodes
    /\ \A k \in DOMAIN Nodes : LET n == Nodes[k] IN
          /\ {n.loc, n.bsd, n.prefix, n.unit, n.tty, n.base, n.unique} \subseteq Text
          /\ None \notin {n.bsd, n.prefix, n.unit} => n.bsd = n.prefix \o n.unit
    /\ Units \subseteq Text \ {None} /\ PANName \in Text

\* The names and identifiers of devices tell them apart, those of one kind; a
\* network interface that has prefix and unit has its name; a serial port has
\* the name of the kind that it is.
Differ(kind, key) == \A j, k \in DOMAIN Nodes :
    /\ Nodes[j].kind = kind /\ Nodes[k].kind = kind
    /\ Nodes[j][key] = Nodes[k][key] /\ Nodes[k][key] # None
    => j = k
ASSUME NamesAssumption ==
    /\ IsFiniteSet(DOMAIN Nodes) /\ DOMAIN Nodes \subseteq Nat
    /\ \A k \in DOMAIN Nodes : Nodes[k].kind \in {"network", "serial"} /\ Nodes[k].path # <<>>
    /\ \A j, k \in DOMAIN Nodes : Nodes[j].path = Nodes[k].path => j = k
    /\ Differ("network", "bsd") /\ Differ("serial", "tty") /\ Differ("serial", "unique")
    /\ \A k \in DOMAIN Nodes : LET n == Nodes[k] IN
          /\ n.kind = "network" => n.bsd = BSDName(n) /\ n.bsd # <<"lo", "0">>
          /\ n.kind = "serial" /\ n.tty # None =>
                /\ n.base # None
                /\ Head(n.tty) \in {"irda", "irda-ircomm"} \/ Head(n.base) \in {"irda", "irda-ircomm"}
                   => Base(n) = <<"irda">> \/ SerialType(n) = "IrDA"

\* No device is above another in the registry, and the elements that tell paths
\* apart compare as different.
Siblings(p, q, k) == k \in DOMAIN p \cap DOMAIN q /\ \A j \in 1..(k - 1) : p[j] = q[j]
ASSUME PathsAssumption ==
    LET paths == {Nodes[k].path : k \in DOMAIN Nodes} IN
    /\ paths \subseteq Seq([hex : Nat \cup {-1}, text : Nat])
    /\ \A p, q \in paths : p # q => \E k \in DOMAIN p \cap DOMAIN q : p[k] # q[k]
    /\ \A p, q \in paths : \A k \in DOMAIN p : Siblings(p, q, k) =>
          (CompareElements(p[k], q[k]) = 0 => p[k] = q[k])

\* The bonds, bridges and VLANs have names of their own, and so has the
\* Bluetooth PAN, unless it is a device of that kind.
ASSUME VirtualsAssumption ==
    /\ \A v \in Virtuals : LET l == v[1] IN
          /\ v = VirtualInterface(l.type, l.dev, l.parts, Head(l.key))
          /\ l.type \in {"Bond", "Bridge", "VLAN"} /\ Head(l.key) \in {"bond", "bridge", "vlan"}
          /\ l.dev \in Text \ {None, <<"lo", "0">>}
          /\ \A k \in DOMAIN Nodes : Nodes[k].kind = "network" => Nodes[k].bsd # l.dev
          /\ \A w \in Virtuals : w[1].dev = l.dev => w = v
    /\ PANName # <<"lo", "0">>
    /\ \A k \in DOMAIN Nodes : LET n == Nodes[k] IN
          n.kind = "network" /\ n.bsd = PANName /\ PANName # None =>
              n.iftype = "ether" /\ EthernetSort(n) = "BluetoothPAN_GN" /\ ~IsHidden(n.hconf)

VARIABLES
    present,   \* the nodes in the registry
    virtual,   \* the bonds, bridges and VLANs of the preferences
    cache,     \* the thread's cache of interfaces
    seen,      \* the answers the thread had while the cache was open (a history)
    service,   \* the service: its interface's entity, and the interface it was made for (a history)
    linked,    \* the service's PPP link is up, as ppp0
    stored,    \* the stored interfaces, each with the one that it stands for (a history)
    steps

vars == <<present, virtual, cache, seen, service, linked, stored, steps>>

NoService == [there |-> FALSE, entity |-> Entity, made |-> NULL]
PPPName   == <<"ppp", "0">>

Registry == [k \in present |-> Nodes[k]]

Answer(e, search) == CreateWithEntity(Registry, virtual, cache, e, search)

\* _SCNetworkInterfaceCreateWithBSDName's entity: the service's if its PPP link has that name
ByName(dev, without) ==
    LET e == IF linked /\ dev = PPPName THEN service.entity ELSE [Entity EXCEPT !.dev = dev]
    IN  [e EXCEPT !.without = without]

-----------------------------------------------------------------------------
(* All interfaces. *)

\* findMatchingInterfaces without the hidden and the preconfigured; the order of
\* the registry has no part in it, since the list is sorted
AllMatching(nodes) ==
    {CreateInterface(Registry, n, FALSE) : n \in {n \in nodes : ~n.preconfigured}} \ {NULL}

Present(kind) == {Nodes[k] : k \in {k \in present : Nodes[k].kind = kind}}

CopyAllNetwork == AllMatching(Present("network"))
CopyAllSerial(serial) == AllMatching({n \in Present("serial") : n.serial = serial})

PANEntity == [Entity EXCEPT !.type = "Ethernet", !.dev = PANName, !.name = BTPAN]

\* a Bluetooth PAN is looked for if there is none
NeedsPAN == PANName # None /\ \A i \in CopyAllNetwork : i[1].dev # None => i[1].sort # "BluetoothPAN_GN"

\* the interfaces with a BSD name, and the Bluetooth PAN
CopyAll ==
    {i \in CopyAllNetwork \cup (UNION {CopyAllSerial(s) : s \in {"modem", "rs232"}}) \cup virtual :
        i[1].dev # None}
    \cup {i \in {Answer(PANEntity, Plain)} : NeedsPAN}

\* the layers that a client may put over an interface
Layers(i) == {CreateWithInterface(i, type) :
    type \in SupportedInterfaceTypes(i) \cup (IF i = IPv4 THEN Vendors \cup {"PPTP"} ELSE {"PPP"})} \ {NULL}

\* what a service may be made for (L2TP, PPTP and serial ports are layers under PPP)
MayServe(i) == i[1].etype \notin {"L2TP", "PPTP", "Modem"}

-----------------------------------------------------------------------------
Init ==
    /\ present \in Initially
    /\ virtual \in {{}, Virtuals}
    /\ cache = Closed /\ seen = {}
    /\ service = NoService /\ linked = FALSE
    /\ stored = {} /\ steps = 0

\* The thread opens its cache, unless it is open, and closes it.
CacheOpen ==
    /\ ~cache.open
    /\ cache' = [Closed EXCEPT !.open = TRUE]
    /\ UNCHANGED <<present, virtual, seen, service, linked, stored>>

CacheClose ==
    /\ cache.open
    /\ cache' = Closed /\ seen' = {}
    /\ UNCHANGED <<present, virtual, service, linked, stored>>

\* The thread looks for an interface.
Look(e, search) ==
    /\ cache' = CacheAdd(Registry, cache, e, search)
    /\ seen' = IF cache.open /\ IsCached(e, search)
               THEN seen \cup {[entity |-> e, search |-> search, answer |-> Answer(e, search)]} ELSE seen
    /\ UNCHANGED <<present, virtual, service, linked, stored>>

LookByName == \E dev \in Asked, without \in {{}, {"Bond", "Bridge", "VLAN"}} :
    Look(ByName(dev, without), System)

LookForService == service.there /\ Look(service.entity, Service)

\* The list of all interfaces, which may look for the Bluetooth PAN.
List ==
    /\ NeedsPAN
    /\ Look(PANEntity, Plain)

\* A service is made for an interface, or removed.
MakeService ==
    /\ ~service.there /\ ~cache.open
    /\ \E i \in CopyAll \cup Layers(IPv4) : \E j \in {i} \cup Layers(i) :
        /\ MayServe(j)
        /\ service' = [there |-> TRUE, entity |-> CopyInterfaceEntity(j), made |-> j]
    /\ UNCHANGED <<present, virtual, cache, seen, linked, stored>>

RemoveService ==
    /\ service.there
    /\ service' = NoService /\ linked' = FALSE
    /\ UNCHANGED <<present, virtual, cache, seen, stored>>

\* The environment: devices, PPP links, and the preferences of virtual interfaces.
Attach == \E k \in DOMAIN Nodes \ present :
    /\ present' = present \cup {k}
    /\ UNCHANGED <<virtual, cache, seen, service, linked, stored>>

Detach == \E k \in present :
    /\ present' = present \ {k}
    /\ UNCHANGED <<virtual, cache, seen, service, linked, stored>>

Connect ==
    /\ service.there /\ service.entity.type = "PPP"
    /\ linked' = ~linked
    /\ UNCHANGED <<present, virtual, cache, seen, service, stored>>

EditVirtual == \E v \in Virtuals :
    /\ virtual' = IF v \in virtual THEN virtual \ {v} ELSE virtual \cup {v}
    /\ UNCHANGED <<present, cache, seen, service, linked, stored>>

-----------------------------------------------------------------------------
(* The interface namer stores the interfaces, and gives one a new unit. *)

Save ==
    /\ stored = {}
    /\ stored' = {[entity |-> CopyStorageEntity(i), of |-> i] :
                    i \in {i \in CopyAllNetwork : i[1].dev # None /\ Storable(i)}}
    /\ UNCHANGED <<present, virtual, cache, seen, service, linked>>

\* the stored interface of a BSD name
StoredNamed(dev) == {r \in stored : r.entity.dev = dev}

Renumber(dev, unit) == \E r \in StoredNamed(dev) :
  \E i \in {SetIOInterfaceUnit(CreateWithStorageEntity(r.entity), unit)} :
    /\ StoredNamed(i[1].dev) \subseteq {r}
    /\ Cardinality({k \in DOMAIN i[1].path : i[1].path[k] = Migrated}) <= MaxMigrated
    /\ stored' = (stored \ {r}) \cup
            {[entity |-> CopyStorageEntity(i), of |-> SetIOInterfaceUnit(r.of, unit)]}
    /\ UNCHANGED <<present, virtual, cache, seen, service, linked>>

Forget ==
    /\ stored # {}
    /\ stored' = {}
    /\ UNCHANGED <<present, virtual, cache, seen, service, linked>>

NewUnit == \E dev \in {r.entity.dev : r \in stored}, unit \in Units : Renumber(dev, unit)

Next ==
    /\ steps < MaxSteps /\ steps' = steps + 1
    /\ \/ CacheOpen \/ CacheClose \/ LookByName \/ LookForService \/ List
       \/ MakeService \/ RemoveService
       \/ Attach \/ Detach \/ Connect \/ EditVirtual
       \/ Save \/ NewUnit \/ Forget

Spec == Init /\ [][Next]_vars

-----------------------------------------------------------------------------
(* Properties. *)

\* the device of an interface is attached, or configured, or none is needed
Attached(i) ==
    \/ Last(i).path # <<>> /\ \E k \in present : Nodes[k].path = Last(i).path
    \/ <<Last(i)>> \in virtual
    \/ Last(i).type = "IPv4"

\* The present serial ports that the device name of an entity may mean: it is
\* clear which one when there is one at most, or one with the identifier.
Ports(e) == {k \in present : Nodes[k].kind = "serial" /\ (Nodes[k].base = e.dev \/ Nodes[k].tty = e.dev)}
IsClear(e) == IsSerial(e) =>
    \/ Cardinality(Ports(e)) <= 1
    \/ e.uniq # None /\ Cardinality({k \in Ports(e) : Nodes[k].unique = e.uniq}) = 1

\* PPP over a VLAN or over IrDA is offered, but its entity does not tell it
Expressible(i) == ~(IsOver(i, "VLAN") \/ IsOver(i, "IrDA"))

Watched == service.there /\ Expressible(service.made) /\ IsClear(service.entity)

\* A service whose device is attached gets that device, as an interface equal
\* to the one that it was made for, by its entity and by the name of its PPP
\* link (_SCNetworkInterfaceCreateWithEntity, _SCNetworkInterfaceCreateWithBSDName).
IsAgain(i, made) == Equal(i, made) /\ Last(i).path = Last(made).path
FindsAgain ==
    Watched /\ ~cache.open /\ Attached(service.made) =>
        /\ IsAgain(Answer(service.entity, Service), service.made)
        /\ linked => IsAgain(Answer(ByName(PPPName, {}), System), service.made)

\* Whatever is attached, and whatever the cache holds, the interface that a
\* service gets is for the device that its entity tells; the stand-in for an
\* absent one tells its hardware and its hidden configuration too.
EntityKept == Watched =>
    LET Identity(e) == <<e.type, e.sub, e.dev, e.uniq>>
        Kept(now) ==
            /\ Identity(now) = Identity(service.entity)
            /\ ~Attached(service.made) =>
                    now.hw = service.entity.hw /\ now.hconf = service.entity.hconf
    IN  Kept(CopyInterfaceEntity(Answer(service.entity, Service)))

\* While its cache is open a thread has one answer to one question, whichever
\* devices come and go (SCNetworkInterface.c:3998-4060).
CacheStable == \A a, b \in seen :
    /\ a.entity = b.entity /\ a.search = b.search
    /\ \A v \in Virtuals : v[1].dev # a.entity.dev
    => a.answer = b.answer

\* The comparison of elements of paths goes in a circle, since it takes two
\* numbers as numbers and anything else as text: "9" < "1C" < "1C,5" < "9".
Circle(p, q, r) == \E k \in DOMAIN p :
    /\ Siblings(p, q, k) /\ Siblings(q, r, k)
    /\ CompareElements(p[k], q[k]) <= 0 /\ CompareElements(q[k], r[k]) <= 0
    /\ CompareElements(p[k], r[k]) > 0

\* Whatever is attached, the comparison tells any two interfaces apart, one way,
\* and is transitive but for three devices whose paths part in a circle: any
\* other list has one order, and the order of IOKit's iterators and the sort that
\* is used make no difference (_SCNetworkInterfaceCompare; the service and the
\* stored interfaces have no part in it).
OrderFixed ==
    LET all == CopyAll
        before == [i \in all |-> {j \in all : Compare(j, i) < 0}]
    IN  ~service.there /\ stored = {} => \A i, j \in all : i # j =>
            /\ (i \in before[j]) # (j \in before[i])
            /\ i \in before[j] => \A h \in before[i] :
                  h \in before[j] \/ Circle(h[1].path, i[1].path, j[1].path)

\* A stored interface is restored as an interface equal to the one that was
\* stored, that is stored as it was before, and that is named by its prefix
\* and unit, however often it got a new unit.
RoundTrip ==
    LET Restores(i, r) == Equal(i, r.of) /\ CopyStorageEntity(i) = r.entity
    IN  \A r \in stored :
            /\ Restores(CreateWithStorageEntity(r.entity), r)
            /\ r.entity.dev = r.entity.prefix \o r.entity.unit

=============================================================================
