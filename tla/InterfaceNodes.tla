--------------------------- MODULE InterfaceNodes ---------------------------
(***************************************************************************)
(* How a node of the IOKit registry becomes a network interface, when two  *)
(* interfaces are equal, and the order of a list of interfaces.            *)
(*                                                                         *)
(* An interface is the sequence of its layers, the top one first; NULL is  *)
(* <<>>.  A text is a sequence of tokens, None when there is none: en0 is  *)
(* <<"en", "0">>.  A registry is a function from numbers to nodes, in the  *)
(* order of IOKit's iterators.                                             *)
(***************************************************************************)
EXTENDS Naturals, Integers, FiniteSets, Sequences, SequencesExt

CONSTANTS
    Alphabet,  \* the tokens of texts, in the order of CFStringCompare
    Scripts    \* the names of the modem scripts on the disk

None   == <<>>
NULL   == <<>>
BTPAN  == <<"bluetooth-pan-gn">>   \* "Bluetooth PAN", the name of that key

\* the order of enum kSort...
SortOrder == <<"InternalModem", "USBModem", "Modem", "Bluetooth", "IrDA", "SerialPort", "WWAN",
    "EthernetPPP", "AirportPPP", "Ethernet", "FireWire", "AirPort", "OtherWireless", "Tethered",
    "WWANEthernet", "BluetoothPAN_GN", "BluetoothPAN_NAP", "BluetoothPAN_U", "Thunderbolt",
    "CarPlay", "Bond", "Bridge", "VLAN", "Unknown">>

\* A layer as it is created.
Blank == [type   |-> "",      \* interface_type
          etype  |-> "",      \* entity_type
          esub   |-> "",      \* entity_subtype
          dev    |-> None,    \* entity_device
          uniq   |-> None,    \* entity_device_unique
          sort   |-> "Unknown", builtin |-> FALSE, loc |-> None, path |-> <<>>,
          key    |-> None,    \* localized_key and its arguments
          name   |-> None,    \* name, localized_name
          owner  |-> None,    \* the interface's name in the service that it was set to
          hidden |-> FALSE, hconf |-> FALSE,
          ioType |-> "", prefix |-> None, unit |-> None, mac |-> None,
          script |-> None,    \* overrides: the connection script of a modem
          parts  |-> <<>>,    \* members and mode of a bond, interface and tag of a VLAN
          supports |-> {}]    \* supportsBond, supportsBridge, supportsVLAN

IPv4     == <<[Blank EXCEPT !.type = "IPv4", !.key = <<"ipv4">>]>>
Loopback == <<[Blank EXCEPT !.type = "Loopback", !.etype = "Loopback",
                            !.key = <<"loopback">>, !.dev = <<"lo", "0">>]>>

\* a bond, a bridge or a VLAN of the preferences
VirtualInterface(type, dev, parts, key) ==
    <<[Blank EXCEPT !.type = type, !.etype = "Ethernet", !.dev = dev, !.builtin = TRUE,
                    !.sort = type, !.key = <<key>> \o dev, !.parts = parts]>>

-----------------------------------------------------------------------------
(* Texts and display names. *)

Rank(t) == SelectInSeq(Alphabet, LAMBDA x : x = t)
Sign(m, n) == IF m < n THEN -1 ELSE IF m > n THEN 1 ELSE 0

\* the first result that is not "equal"
First(results) ==
    LET differ == {k \in DOMAIN results : results[k] # 0}
    IN  IF differ = {} THEN 0 ELSE results[Min(differ)]

\* the result of the first place where two sequences differ
FirstDifference(s, t, Cmp(_, _)) ==
    First([k \in 1..(IF Len(s) < Len(t) THEN Len(s) ELSE Len(t)) |-> Cmp(s[k], t[k])])

CompareText(s, t) ==
    First(<<FirstDifference(s, t, LAMBDA a, b : Sign(Rank(a), Rank(b))), Sign(Len(s), Len(t))>>)

IsOver(i, type) == Len(i) > 1 /\ i[2].type = type

\* the name of one layer: localized, as it was last known, or by its type
LayerName(i, k) ==
    LET layer == i[k]
        leaf  == k = Len(i) \/ i[k + 1].type = "IPv4" \/ layer.type = "VPN"
    IN  IF layer.key # None THEN layer.key
        ELSE IF leaf /\ layer.owner # None THEN layer.owner
        ELSE <<layer.type>> \o (IF leaf THEN layer.dev ELSE None)

\* the layers that a display name tells
Told(i) == {k \in 1..Len(i) : \A j \in 1..(k - 1) : i[j].type # "VPN" /\ i[j + 1].type # "IPv4"}

DisplayName(i) ==
    IF i[1].name # None THEN i[1].name
    ELSE FlattenSeq([k \in 1..Cardinality(Told(i)) |-> LayerName(i, k)])

\* the name matches a localized string, with its arguments
MatchesName(name, key) == name # None /\ Head(name) = key

-----------------------------------------------------------------------------
(* Equality and order. *)

\* a missing identifier is made up for by the names
SameLayer(i, j) ==
    LET a == i[1]  b == j[1] IN
    /\ a.type = b.type /\ a.dev = b.dev
    /\ IF a.uniq # None /\ b.uniq # None THEN a.uniq = b.uniq
       ELSE a.uniq = b.uniq \/ DisplayName(i) = DisplayName(j)
    /\ a.type \in {"Bond", "Bridge", "VLAN"} => a.parts = b.parts

Equal(i, j) ==
    \/ i = j
    \/ /\ Len(i) = Len(j)
       /\ \A k \in 1..Len(i) : SameLayer(SubSeq(i, k, Len(i)), SubSeq(j, k, Len(j)))

ByLocation(a, b) ==
    IF ~a.builtin \/ a.loc = b.loc THEN 0
    ELSE IF a.loc = None THEN 1
    ELSE IF b.loc = None THEN -1
    ELSE CompareText(a.loc, b.loc)

\* Elements of a path, [hex |-> value or -1, text |-> place among the texts]:
\* two hexadecimal numbers compare as numbers.
CompareElements(e, f) ==
    IF e.hex >= 0 /\ f.hex >= 0 THEN Sign(e.hex, f.hex) ELSE Sign(e.text, f.text)

\* (of two paths that agree, only the shorter first one sorts as less)
ByPath(a, b) ==
    IF a.path = <<>> \/ b.path = <<>> THEN 0
    ELSE First(<<FirstDifference(a.path, b.path, CompareElements),
                 IF Len(a.path) < Len(b.path) THEN -1 ELSE 0>>)

ByText(s, t) == IF s = None \/ t = None THEN 0 ELSE CompareText(s, t)

\* Mutant of Compare: interfaces of one sort compare as equal.
CompareSort(i, j) ==
    Sign(SelectInSeq(SortOrder, LAMBDA x : x = i[1].sort), SelectInSeq(SortOrder, LAMBDA x : x = j[1].sort))

\* _SCNetworkInterfaceCompare
Compare(i, j) ==
    LET a == i[1]  b == j[1]
        Place(l) == SelectInSeq(SortOrder, LAMBDA x : x = l.sort)
    IN  First(<<Sign(Place(a), Place(b)),
                IF a.builtin = b.builtin THEN 0 ELSE IF a.builtin THEN -1 ELSE 1,
                ByLocation(a, b), ByPath(a, b), ByText(a.dev, b.dev), ByText(a.uniq, b.uniq)>>)

-----------------------------------------------------------------------------
(* Nodes.  A property that a node does not have is "" or None. *)

Node == [kind |-> "network", iftype |-> "ether", driver |-> "", role |-> "", iphone |-> FALSE,
         bus |-> "", provider |-> "", primary |-> "", slot |-> None, thunderbolt |-> FALSE,
         loc |-> None, bsd |-> None, prefix |-> None, unit |-> None, mac |-> None, vlan |-> FALSE,
         product |-> None, usb |-> None, path |-> <<>>, preconfigured |-> FALSE,
         hidden |-> "", hconf |-> "",
         tty |-> None, base |-> None, serial |-> "", unique |-> None, script |-> None,
         wwan |-> FALSE, initializing |-> FALSE, appleHCI |-> FALSE]

\* not explicitly FALSE or 0
IsHidden(value) == value \notin {"", "false", "zero"}

\* what every interface keeps of its node
Entry(n) == [Blank EXCEPT !.hidden = IsHidden(n.hidden), !.hconf = IsHidden(n.hconf), !.path = n.path]

\* IODictionaryCopyBSDName
BSDName(n) ==
    IF n.bsd # None THEN n.bsd
    ELSE IF n.prefix # None /\ n.unit # None THEN n.prefix \o n.unit ELSE None

\* an interface with a slot is not built in
IsBuiltin(n) == n.slot = None

\* the number of a port, when the slot has more than one
Port(registry, n) ==
    LET names == {BSDName(registry[k]) : k \in {k \in DOMAIN registry :
                    /\ registry[k].kind = "network" /\ registry[k].slot = n.slot
                    /\ registry[k].iftype = n.iftype}} \ {None}
        place == Cardinality({m \in names : CompareText(m, BSDName(n)) <= 0})
    IN  IF Cardinality(names) > 1 THEN <<ToString(place)>> ELSE None

\* (the "multi" variant of the key when there is a port)
SlotKey(registry, n, what) ==
    <<IF n.thunderbolt THEN "thunderbolt" ELSE "pci", what>> \o n.slot \o Port(registry, n)

\* the name of a product, or of a USB product
ProductName(n, useUSBInfo) ==
    IF n.product # None THEN n.product ELSE IF useUSBInfo THEN n.usb ELSE None

Drivers == [IO80211 |-> "AirPort", ThunderboltIP |-> "Thunderbolt", BNEP |-> "BluetoothPAN_GN",
            USBEthernetHost |-> "Tethered", CDCECM |-> "WWANEthernet"]
Roles   == [GN |-> "BluetoothPAN_GN", NAP |-> "BluetoothPAN_NAP", P2P |-> "BluetoothPAN_U",
            CarPlay |-> "CarPlay"]

EthernetSort(n) ==
    IF n.driver \in DOMAIN Drivers THEN Drivers[n.driver]
    ELSE IF n.role \in DOMAIN Roles THEN Roles[n.role]
    ELSE IF n.iphone THEN "Tethered"
    ELSE IF n.bus = "radio" THEN "OtherWireless" ELSE "Ethernet"

EthernetBuiltin(n) ==
    \/ EthernetSort(n) = "AirPort"
    \/ IF n.primary # "" THEN n.primary = "true" ELSE IsBuiltin(n)

FixedKeys == [AirPort |-> "airport", BluetoothPAN_GN |-> "bluetooth-pan-gn",
              BluetoothPAN_NAP |-> "bluetooth-pan-nap", BluetoothPAN_U |-> "bluetooth-pan-u",
              OtherWireless |-> "wireless"]

\* the key of an Ethernet interface that is not built in
AddedKey(registry, n) ==
    CASE n.provider = "PCI" /\ n.product = None /\ n.slot # None /\ BSDName(n) # None
            -> SlotKey(registry, n, "ether")
      [] n.provider = "USB" /\ ProductName(n, TRUE) = None -> <<"usb-ether">> \o BSDName(n)
      [] OTHER -> <<"generic-ether">> \o BSDName(n)

EthernetKey(registry, n) ==
    LET sort == EthernetSort(n)
        At(key, multi) == IF n.loc = None THEN <<key>> ELSE <<multi>> \o n.loc
    IN  CASE sort \in DOMAIN FixedKeys -> <<FixedKeys[sort]>>
          [] sort = "Thunderbolt" -> At("thunderbolt", "multithunderbolt")
          [] sort \notin DOMAIN FixedKeys \cup {"Thunderbolt"} /\ EthernetBuiltin(n) -> At("ether", "multiether")
          [] OTHER -> AddedKey(registry, n)

EthernetName(n) ==
    IF EthernetSort(n) \in DOMAIN FixedKeys \cup {"Thunderbolt"} \/ EthernetBuiltin(n) \/ n.provider = ""
    THEN None ELSE ProductName(n, n.provider = "USB")

Ethernet(registry, n) ==
    LET sort == EthernetSort(n) IN
    [Entry(n) EXCEPT !.type = IF sort = "AirPort" THEN "IEEE80211" ELSE "Ethernet",
        !.etype = "Ethernet", !.sort = sort, !.builtin = EthernetBuiltin(n), !.loc = n.loc,
        !.key = EthernetKey(registry, n), !.name = EthernetName(n),
        !.supports = {s \in {"Bond", "Bridge", "VLAN"} :
            \/ s = "Bond" /\ sort = "Ethernet"
            \/ s = "Bridge" /\ sort # "AirPort"
            \/ s = "VLAN" /\ n.vlan}]

FireWire(registry, n) ==
    [Entry(n) EXCEPT !.type = "FireWire", !.etype = "FireWire", !.sort = "FireWire",
        !.builtin = IsBuiltin(n),
        !.name = IF IsBuiltin(n) THEN None ELSE ProductName(n, FALSE),
        !.key = IF IsBuiltin(n) THEN <<"firewire">>
                ELSE IF n.product # None \/ BSDName(n) = None THEN None
                ELSE SlotKey(registry, n, "firewire")]

\* processNetworkInterface
NetworkLayer(registry, n) ==
    IF n.iftype \notin {"ether", "ieee1394"} THEN NULL
    ELSE <<[(IF n.iftype = "ether" THEN Ethernet(registry, n) ELSE FireWire(registry, n))
                EXCEPT !.ioType = n.iftype, !.dev = BSDName(n), !.mac = n.mac,
                       !.prefix = n.prefix, !.unit = n.unit]>>

-----------------------------------------------------------------------------
(* Serial ports. *)

Base(n) == IF n.base = None THEN n.tty ELSE n.base

SerialType(n) ==
    CASE Head(Base(n)) \in {"Bluetooth", "bluetooth"} -> "Bluetooth"
      [] Head(Base(n)) = "irda-ircomm" -> "IrDA"
      [] OTHER -> IF n.wwan THEN "WWAN" ELSE "Modem"

IsInternal(n) == n.serial = "modem" /\ Base(n) = <<"modem">>

SerialSort(n) ==
    IF IsInternal(n) THEN "InternalModem"
    ELSE IF n.serial = "modem" /\ Base(n) = <<"usbmodem">> THEN "USBModem"
    ELSE IF n.serial = "rs232" THEN "SerialPort" ELSE SerialType(n)

SerialName(n) ==
    IF SerialType(n) \in {"IrDA", "Bluetooth"} THEN None
    ELSE IF IsInternal(n) \/ ProductName(n, TRUE) = None THEN Base(n)
    ELSE ProductName(n, TRUE)

\* the script that overrides or properties name, or else one named as the product
Script(n) ==
    IF n.script # None THEN n.script
    ELSE IF SerialType(n) \in {"Modem", "WWAN"} /\ ~IsInternal(n) /\ ProductName(n, TRUE) \in Scripts
         THEN ProductName(n, TRUE) ELSE None

\* processSerialInterface
SerialLayer(n) ==
    IF n.initializing \/ n.tty = None \/ Base(n) = <<"irda">> \/ n.serial \notin {"modem", "rs232"} THEN NULL
    ELSE <<[Entry(n) EXCEPT !.type = SerialType(n), !.etype = "Modem", !.sort = SerialSort(n),
        !.builtin = IsInternal(n) \/ (SerialType(n) = "Bluetooth" /\ n.appleHCI),
        !.dev = IF n.unique = None THEN n.tty ELSE Base(n), !.uniq = n.unique,
        !.key = IF SerialType(n) = "IrDA" THEN <<"irda">>
                ELSE IF SerialType(n) = "Bluetooth" THEN <<"bluetooth">> ELSE None,
        !.name = SerialName(n), !.script = Script(n)]>>

-----------------------------------------------------------------------------
(* Interfaces of nodes. *)

CreateInterface(registry, n, keepHidden) ==
    IF IsHidden(n.hidden) /\ ~keepHidden THEN NULL
    ELSE IF n.kind = "network" THEN NetworkLayer(registry, n) ELSE SerialLayer(n)

\* a matching dictionary: the entries of a kind with a value for a key
Matching(registry, kind, key, value) ==
    {k \in DOMAIN registry : registry[k].kind = kind /\ registry[k][key] = value}

\* the n-th of a set of entries
Nth(entries, n) == CHOOSE k \in entries : Cardinality({j \in entries : j < k}) = n - 1

\* the interfaces of the entries that match, in the order of the registry (a
\* search keeps the preconfigured ones)
FindMatching(registry, matching, keepHidden) ==
    LET Made(k) == CreateInterface(registry, registry[k], keepHidden)
        made    == {k \in matching : Made(k) # NULL}
    IN  [n \in 1..Cardinality(made) |-> Made(Nth(made, n))]

=============================================================================
