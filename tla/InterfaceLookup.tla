-------------------------- MODULE InterfaceLookup --------------------------
(***************************************************************************)
(* How an interface is layered over another, kept as an entity with a      *)
(* service, and found again from the entity: among the nodes of the        *)
(* registry, among the bonds, bridges and VLANs of the preferences, or as  *)
(* a stand-in for a device that is not there.  Also how an interface is    *)
(* stored in the preferences of the interface namer, and restored.         *)
(***************************************************************************)
EXTENDS InterfaceNodes

CONSTANT Vendors  \* interface types of vendors, with a "." in them

\* entity_hardware of the table of interface types, or the type of an unknown one
Hardware(type) ==
    CASE type \in {"Bluetooth", "Modem", "Serial", "WWAN"}  -> "Modem"
      [] type \in {"Bond", "Bridge", "Ethernet", "VLAN"}    -> "Ethernet"
      [] type = "IEEE80211"                                 -> "AirPort"
      [] type \in {"L2TP", "PPTP", "Loopback", "IPv4"}      -> ""
      [] OTHER                                              -> type

PPPSubtype == [Bluetooth |-> "PPPSerial", Modem |-> "PPPSerial", Serial |-> "PPPSerial",
               WWAN |-> "PPPSerial", Ethernet |-> "PPPoE", IEEE80211 |-> "PPPoE", VLAN |-> "PPPoE",
               L2TP |-> "L2TP", PPTP |-> "PPTP"]

Known(type) == type \in DOMAIN PPPSubtype \cup
    {"6to4", "Bond", "Bridge", "FireWire", "IPSec", "PPP", "VPN", "Loopback", "IPv4"}

\* no name of the system's has a "." in it
ASSUME VendorsAssumption ==
    \A v \in Vendors : ~Known(v) /\ v \notin {"", "IrDA", "PPPoE", "PPPSerial"}

\* supported_interfaces of the table: what may be layered over an interface
Supports(i) ==
    IF i[1].type = "IPv4" THEN {"6to4", "L2TP", "PPTP", "IPSec"}
    ELSE IF i[1].type \in DOMAIN PPPSubtype \ {"VLAN"} THEN {"PPP"} ELSE {}

\* what a client is told of it: not PPTP, and a VPN over the type of a vendor
SupportedInterfaceTypes(i) ==
    (Supports(i) \ {"PPTP"}) \cup (IF ~Known(i[1].type) /\ IsOver(i, "IPv4") THEN {"VPN"} ELSE {})

-----------------------------------------------------------------------------
(* SCNetworkInterfaceCreateWithInterface *)

Parent(child, type, etype, esub) ==
    LET c == child[1] IN
    [Blank EXCEPT !.type = type, !.etype = etype, !.esub = esub,
        !.hconf = c.hconf, !.hidden = c.hidden, !.script = c.script, !.owner = c.owner,
        !.sort = IF esub # "PPPoE" THEN c.sort
                 ELSE IF c.type = "IEEE80211" THEN "AirportPPP" ELSE "EthernetPPP"]

OverPPP(child) ==
    LET c == child[1] IN
    IF Known(c.type) /\ c.type \notin DOMAIN PPPSubtype THEN NULL
    ELSE <<[Parent(child, "PPP", "PPP", IF Known(c.type) THEN PPPSubtype[c.type] ELSE c.etype)
                EXCEPT !.dev = c.dev, !.uniq = c.uniq]>> \o child

OverIPv4(child, type) ==
    LET keys == [L2TP |-> "l2tp", PPTP |-> "pptp", IPSec |-> "ipsec"]
        dev  == IF type = "6to4" THEN <<"stf", "0">> ELSE None
        key  == IF type = "6to4" THEN "6to4" ELSE keys[type]
    IN  IF type \notin Supports(child) THEN NULL
        ELSE <<[Parent(child, type, type, "") EXCEPT !.dev = dev, !.key = <<key>>]>> \o child

OverVPN(child) ==
    LET c == child[1] IN
    IF Known(c.type) THEN NULL
    ELSE <<[Parent(child, "VPN", "VPN", c.etype) EXCEPT !.dev = c.dev, !.key = <<"vpn", c.etype>>]>> \o child

CreateWithInterface(child, type) ==
    CASE child = NULL \/ child = Loopback           -> NULL
      [] child \notin {NULL, Loopback} /\ type = "PPP" -> OverPPP(child)
      [] child \notin {NULL, Loopback} /\ type \in {"L2TP", "PPTP", "6to4", "IPSec"} -> OverIPv4(child, type)
      [] child \notin {NULL, Loopback} /\ type = "VPN" -> OverVPN(child)
      [] child \notin {NULL, Loopback} /\ type \in Vendors -> <<Parent(child, type, type, "")>> \o child
      [] OTHER -> NULL

-----------------------------------------------------------------------------
(* The entity of an interface, kept with its service. *)

Entity == [type |-> "", sub |-> "", dev |-> None, uniq |-> None, hw |-> "", name |-> None,
           hconf |-> FALSE, without |-> {}]

\* "hardware" and name are those of the lowest layer
CopyInterfaceEntity(i) ==
    LET top == i[1]  leaf == Last(i)
        own == [Entity EXCEPT !.type = top.etype, !.sub = top.esub, !.dev = top.dev,
                              !.uniq = top.uniq, !.hconf = top.hconf]
    IN  IF leaf.type = "IPv4" THEN own
        ELSE [own EXCEPT !.hw = Hardware(leaf.type), !.name = DisplayName(<<leaf>>)]

\* Who looks for an interface: everything of the system, for a service, for a
\* service of other preferences (which bypass the system), without the system.
System   == [system |-> TRUE,  keepHidden |-> TRUE,  service |-> FALSE]
Plain    == [system |-> TRUE,  keepHidden |-> FALSE, service |-> FALSE]
Service  == [system |-> TRUE,  keepHidden |-> FALSE, service |-> TRUE]
Bypass   == [system |-> FALSE, keepHidden |-> FALSE, service |-> TRUE]
External == [system |-> FALSE, keepHidden |-> FALSE, service |-> FALSE]

Type(e)      == IF e.type = "" THEN "Ethernet" ELSE e.type
IsNetwork(e) == Type(e) \in {"Ethernet", "FireWire"} \/ (e.type = "PPP" /\ e.sub = "PPPoE")
IsSerial(e)  == e.type = "PPP" /\ e.sub = "PPPSerial"

Rejected(e) ==
    \/ e.type \in {"PPP", "VPN"} /\ e.sub = ""
    \/ (IsNetwork(e) \/ IsSerial(e) \/ e.type = "6to4") /\ e.dev = None

\* A thread's cache of the lists that were found for a name.
Closed == [open |-> FALSE, found |-> <<>>]

IsCached(e, search) == search.system /\ IsNetwork(e) /\ e.dev # <<"lo", "0">>

NetworkInterfaces(registry, cache, e, search) ==
    IF e.dev \in DOMAIN cache.found THEN cache.found[e.dev]
    ELSE FindMatching(registry, Matching(registry, "network", "bsd", e.dev), search.keepHidden)

\* a list that was found for a name
Added(found, dev, list) == [n \in DOMAIN found \cup {dev} |-> IF n = dev THEN list ELSE found[n]]

\* Mutant of CacheAdd: only what was found is kept.
CacheSome(registry, cache, e, search) ==
    LET list == NetworkInterfaces(registry, cache, e, search) IN
    IF cache.open /\ IsCached(e, search) /\ list # <<>>
    THEN [cache EXCEPT !.found = Added(@, e.dev, list)] ELSE cache

\* the cache after a search: a list that was not there is added, an empty one too
CacheAdd(registry, cache, e, search) ==
    IF cache.open /\ IsCached(e, search)
    THEN [cache EXCEPT !.found = Added(@, e.dev, NetworkInterfaces(registry, cache, e, search))] ELSE cache

\* Mutant of SerialInterfaces: the name of the TTY device is not tried.
BaseOnly(registry, e, search) ==
    FindMatching(registry, Matching(registry, "serial", "base", e.dev), search.keepHidden)

\* by base name, and by the name of the TTY device unless identifiers are used
SerialInterfaces(registry, e, search) ==
    LET Serial(key) == FindMatching(registry, Matching(registry, "serial", key, e.dev), search.keepHidden)
    IN  IF e.uniq = None /\ \A i \in ToSet(Serial("base")) : i[1].uniq = None
        THEN Serial("tty") ELSE Serial("base")

-----------------------------------------------------------------------------
(* _SCNetworkInterfaceCreateWithEntity *)

\* a bond, a bridge or a VLAN of that name
FindVirtual(virtual, dev, without) ==
    LET named == {v \in virtual : v[1].dev = dev /\ v[1].type \notin without}
    IN  IF named = {} THEN NULL ELSE CHOOSE v \in named : TRUE

\* the one element that fits, or else the first of the list
TheOne(list, fitting) ==
    list[IF Cardinality(fitting) = 1 THEN CHOOSE k \in fitting : TRUE ELSE 1]

Choose(list, virtual, e) ==
    IF Len(list) = 1 /\ list[1][1].uniq = e.uniq THEN list[1]
    ELSE IF Len(list) <= 1 THEN
        IF Type(e) # "Ethernet" \/ e.name = BTPAN THEN NULL
        ELSE FindVirtual(virtual, e.dev, e.without)
    ELSE IF e.uniq # None THEN TheOne(list, {k \in DOMAIN list : list[k][1].uniq = e.uniq})
    ELSE IF e.name # None THEN TheOne(list, {k \in DOMAIN list :
                            list[k][1].uniq = None \/ DisplayName(<<list[k][1]>>) = e.name})
    ELSE list[1]

\* the choice among the interfaces of the system
FromSystem(registry, virtual, cache, e, search) ==
    CHOOSE i \in {Choose(list, virtual, e) : list \in
            {IF IsNetwork(e) THEN NetworkInterfaces(registry, cache, e, search)
             ELSE SerialInterfaces(registry, e, search)}} : TRUE

Found(registry, virtual, cache, e, search) ==
    CASE IsNetwork(e) /\ e.dev = <<"lo", "0">> -> Loopback
      [] IsCached(e, search) \/ (IsSerial(e) /\ search.system) -> FromSystem(registry, virtual, cache, e, search)
      [] e.type = "PPP" /\ ~IsNetwork(e) /\ ~IsSerial(e) -> CreateWithInterface(IPv4, e.sub)
      [] e.type \in {"6to4", "IPSec"} -> CreateWithInterface(IPv4, e.type)
      [] e.type = "Loopback" -> Loopback
      [] e.type = "VPN" /\ e.sub \in Vendors -> CreateWithInterface(IPv4, e.sub)
      [] e.type \in Vendors /\ e.dev = None -> CreateWithInterface(IPv4, e.type)
      [] OTHER -> NULL

\* what the last known name of an Ethernet device tells of it
EthernetStandIn(bare, e) ==
    LET Named(keys)  == \E key \in keys : MatchesName(e.name, key)
        tethered     == {"iPhone", "iPad"}
        pan          == {"bluetooth-pan-gn", "bluetooth-pan-nap", "bluetooth-pan-u"}
        PANSort      == CHOOSE s \in {"BluetoothPAN_GN", "BluetoothPAN_NAP", "BluetoothPAN_U"} :
                            FixedKeys[s] = Head(e.name)
        As(type, key, sort, builtin) ==
            [bare EXCEPT !.type = type, !.key = key, !.sort = sort, !.builtin = builtin]
    IN  CASE e.hw = "AirPort" -> As("IEEE80211", <<"airport">>, "AirPort", TRUE)
          [] e.hw # "AirPort" /\ Named({"ether", "multiether"}) -> As("Ethernet", None, "Ethernet", TRUE)
          [] e.hw # "AirPort" /\ Named(tethered) -> As("Ethernet", <<Head(e.name)>>, "Tethered", FALSE)
          [] e.hw # "AirPort" /\ Named({"thunderbolt", "multithunderbolt"})
                -> As("Ethernet", <<"thunderbolt">>, "Thunderbolt", TRUE)
          [] e.hw # "AirPort" /\ Named(pan) -> As("Ethernet", <<Head(e.name)>>, PANSort, FALSE)
          [] OTHER -> As("Ethernet", None, "Ethernet", FALSE)

SerialStandIn(bare, e) ==
    LET As(type) == [bare EXCEPT !.type = type, !.sort = type] IN
    CASE Head(e.dev) = "Bluetooth" -> As("Bluetooth")
      [] Head(e.dev) \in {"irda", "irda-ircomm"} -> As("IrDA")
      [] Head(e.dev) = "wwan" -> As("WWAN")
      [] OTHER -> As("Modem")

\* Mutant of Bare: the identifier of the device is lost.
BareName(e, search) == [Blank EXCEPT !.etype = Type(e), !.esub = e.sub, !.dev = e.dev]

Bare(e, search) ==
    [Blank EXCEPT !.etype = Type(e), !.esub = e.sub, !.dev = e.dev, !.uniq = e.uniq,
                  !.name = IF search.system THEN None ELSE e.name]

\* the stand-in for an Ethernet device, or the virtual interface of that name
EthernetOrVirtual(virtual, e, search) ==
    IF search.service /\ ~search.system /\ \E v \in virtual : v[1].dev = e.dev
    THEN FindVirtual(virtual, e.dev, {}) ELSE <<EthernetStandIn(Bare(e, search), e)>>

\* if the device is not present on this system
StandIn(virtual, e, search) ==
    LET sort == IF e.hw = "AirPort" THEN "AirPort" ELSE "Ethernet"
    IN  CASE Type(e) = "Ethernet" -> EthernetOrVirtual(virtual, e, search)
          [] e.type = "FireWire"  -> <<[Bare(e, search) EXCEPT !.type = "FireWire", !.sort = "FireWire",
                                            !.builtin = MatchesName(e.name, "firewire")]>>
          [] e.type = "PPP" /\ e.sub = "PPPoE" -> <<[Bare(e, search) EXCEPT !.sort = sort,
                                            !.type = IF sort = "AirPort" THEN "IEEE80211" ELSE sort]>>
          [] IsSerial(e) -> <<SerialStandIn(Bare(e, search), e)>>
          [] e.type \in {"PPP", "VPN"} /\ ~IsSerial(e) /\ e.sub # "PPPoE" -> CreateWithInterface(IPv4, e.sub)
          [] e.type \in {"IPSec", "6to4"} -> CreateWithInterface(IPv4, e.type)
          [] e.type = "Loopback" -> Loopback
          [] e.type \in Vendors -> <<[Bare(e, search) EXCEPT !.type = e.type]>>
          [] OTHER -> NULL

\* what was found, or else the stand-in with what the entity says of it
Filled(found, stand, e, search) ==
    IF found # NULL /\ search.system THEN found
    ELSE IF stand = NULL THEN NULL ELSE [stand EXCEPT ![1].hconf = e.hconf]

\* (The code puts the service into the object that the cache holds, so that a
\* later answer to a question without a service may name it too; here it is part
\* of this answer alone.)
Owned(i, e, search) == IF search.service /\ i # NULL THEN [i EXCEPT ![1].owner = e.name] ELSE i

Layered(i, e) == IF e.type \in {"PPP", "VPN"} THEN CreateWithInterface(i, e.type) ELSE i

CreateWithEntity(registry, virtual, cache, e, search) ==
    IF Rejected(e) THEN NULL
    ELSE CHOOSE i \in {Layered(j, e) : j \in
                {Owned(k, e, search) : k \in
                    {Filled(found, stand, e, search) :
                        found \in {Found(registry, virtual, cache, e, search)},
                        stand \in {StandIn(virtual, e, search)}}}} : TRUE

-----------------------------------------------------------------------------
(* The preferences of the interface namer. *)

Digits == {"0", "1", "2", "3", "4", "5", "6", "7", "8", "9"}

\* a BSD name without its number
PrefixOf(dev) ==
    LET letters == {k \in DOMAIN dev : dev[k] \notin Digits}
    IN  SubSeq(dev, 1, IF letters = {} THEN 0 ELSE Max(letters))

\* __SCNetworkInterfaceCopyStorageEntity: all of an interface or nothing
Storable(i) ==
    LET l == i[1] IN
    None \notin {l.dev, l.prefix, l.unit, l.mac, l.path} /\ l.ioType # ""

CopyStorageEntity(i) ==
    LET l == i[1] IN
    [dev |-> l.dev, hidden |-> l.hidden, hconf |-> l.hconf, builtin |-> l.builtin,
     prefix |-> l.prefix, ioType |-> l.ioType, unit |-> l.unit, mac |-> l.mac, path |-> l.path,
     name |-> DisplayName(i), type |-> l.type]

\* Mutant of CreateWithStorageEntity: whether it is built in follows from its name.
Guess(st) ==
    LET e == [Entity EXCEPT !.type = IF st.ioType = "ieee1394" THEN "FireWire" ELSE "Ethernet",
                  !.hw = Hardware(st.type), !.dev = st.dev, !.hconf = st.hconf, !.name = st.name]
        i == CreateWithEntity(<<>>, {}, Closed, e, External)
    IN  <<[i[1] EXCEPT !.hidden = st.hidden, !.prefix = st.prefix, !.ioType = st.ioType,
                       !.unit = st.unit, !.mac = st.mac, !.path = st.path]>>

CreateWithStorageEntity(st) ==
    LET type == IF st.ioType = "ether" THEN "Ethernet"
                ELSE IF st.ioType = "ieee1394" THEN "FireWire" ELSE st.type
        e == [Entity EXCEPT !.type = type, !.hw = Hardware(st.type), !.dev = st.dev,
                            !.hconf = st.hconf, !.name = st.name]
        i == CreateWithEntity(<<>>, {}, Closed, e, External)
    IN  <<[i[1] EXCEPT !.builtin = st.builtin, !.hidden = st.hidden, !.ioType = st.ioType,
                       !.unit = st.unit, !.mac = st.mac, !.path = st.path,
                       !.prefix = IF st.prefix = None THEN PrefixOf(st.dev) ELSE st.prefix]>>

Migrated == [hex |-> -1, text |-> 0]   \* "Migrated_From: "

\* __SCNetworkInterfaceSetIOInterfaceUnit: the name follows from prefix and unit,
\* and the path tells that it did, whether the name changed or not
SetIOInterfaceUnit(i, unit) ==
    LET l == i[1]
        prefix == IF l.prefix = None THEN PrefixOf(l.dev) ELSE l.prefix
    IN  [i EXCEPT ![1].prefix = prefix, ![1].unit = unit,
                  ![1].dev  = IF prefix = None THEN @ ELSE prefix \o unit,
                  ![1].path = IF @ = <<>> THEN @ ELSE <<Migrated>> \o @]

=============================================================================
