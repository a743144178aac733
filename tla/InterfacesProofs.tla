-------------------------- MODULE InterfacesProofs --------------------------
(***************************************************************************)
(* Proofs about the network interfaces:                                    *)
(*                                                                         *)
(*  - OneAnswer: while its cache is open, a thread gets one answer to one  *)
(*    question.  CacheInv: what was answered can be answered again from    *)
(*    the cached lists alone, whatever is attached by then.                *)
(*  - RestoredEqual: what the namer stored is restored as equal.           *)
(*    StoredInv: each stored entry is the flattened form of one layer, of  *)
(*    a node of the registry and with the unit of its name (LayerOf).      *)
(*  - FoundAgain: an attached service gets its interface again.            *)
(*    EntitiesStay: what a service gets is for the device of its entity.   *)
(*    GetsInv: a cached list holds the device that has the name, or none   *)
(*    (FoundInv); a service was made for an interface of a kind that is    *)
(*    found again by its entity (ServiceInv, Served).                      *)
(*  - OneOrder: the interfaces of a list have one order, unless the paths  *)
(*    of three devices part in a circle (Circle): each level of the        *)
(*    comparison has one where all levels before it are equal              *)
(*    (FirstChain, CompareChain), and the paths of devices and the names   *)
(*    of virtual interfaces tell apart those of one sort (CompareTells).   *)
(***************************************************************************)

EXTENDS Interfaces, FiniteSetTheorems, SequenceTheorems, WellFoundedInduction, TLAPS

\* No bond, bridge or VLAN has the name that an entity tells.
Plainly(e) == \A v \in Virtuals : v[1].dev # e.dev

\* The answer that a thread gets although nothing is attached any more.
Again(e, search) == CreateWithEntity(<<>>, {}, cache, e, search)

CacheInv ==
    /\ virtual \subseteq Virtuals
    /\ cache = [open |-> cache.open, found |-> cache.found]
    /\ \A r \in seen :
          /\ cache.open /\ IsCached(r.entity, r.search)
          /\ r.entity.dev \in DOMAIN cache.found
          /\ Plainly(r.entity) => r.answer = Again(r.entity, r.search)

LEMMA FindsNoVirtual ==
    ASSUME NEW v, NEW dev, \A x \in v : x[1].dev # dev, NEW without
    PROVE  FindVirtual(v, dev, without) = NULL
  BY DEF FindVirtual

\* An answer that may be kept depends on the list that was found for the name
\* alone: neither on the devices that are there now nor on virtual interfaces.
LEMMA SameList ==
    ASSUME NEW e, NEW search, IsCached(e, search), Plainly(e),
           NEW r1, NEW c1, NEW v1, v1 \subseteq Virtuals,
           NEW r2, NEW c2, NEW v2, v2 \subseteq Virtuals,
           NetworkInterfaces(r1, c1, e, search) = NetworkInterfaces(r2, c2, e, search)
    PROVE  CreateWithEntity(r1, v1, c1, e, search) = CreateWithEntity(r2, v2, c2, e, search)
<1>1. IsNetwork(e)
  BY DEF IsCached
<1>2. \A without : FindVirtual(v1, e.dev, without) = FindVirtual(v2, e.dev, without)
  BY FindsNoVirtual DEF Plainly
<1>3. \A list : Choose(list, v1, e) = Choose(list, v2, e)
  BY <1>2 DEF Choose
<1>4. FromSystem(r1, v1, c1, e, search) = FromSystem(r2, v2, c2, e, search)
  BY <1>1, <1>3 DEF FromSystem
<1>5. Found(r1, v1, c1, e, search) = Found(r2, v2, c2, e, search)
  BY <1>1, <1>4 DEF Found
<1>6. EthernetOrVirtual(v1, e, search) = EthernetOrVirtual(v2, e, search)
  BY DEF EthernetOrVirtual, Plainly
<1>7. StandIn(v1, e, search) = StandIn(v2, e, search)
  BY <1>6 DEF StandIn
<1> QED  BY <1>5, <1>7 DEF CreateWithEntity

\* A search leaves every list that was found, and adds that of its name.
LEMMA KeepsLists ==
    ASSUME NEW reg, NEW c, c = [open |-> c.open, found |-> c.found], NEW e, NEW search,
           NEW d, d = CacheAdd(reg, c, e, search)
    PROVE  /\ d = [open |-> c.open, found |-> d.found]
           /\ DOMAIN c.found \subseteq DOMAIN d.found
           /\ \A n \in DOMAIN c.found : d.found[n] = c.found[n]
           /\ c.open /\ IsCached(e, search) =>
                 /\ e.dev \in DOMAIN d.found
                 /\ d.found[e.dev] = NetworkInterfaces(reg, c, e, search)
<1>1. CASE c.open /\ IsCached(e, search)
  <2>1. d.found = Added(c.found, e.dev, NetworkInterfaces(reg, c, e, search))
    BY <1>1 DEF CacheAdd
  <2>2. d = [open |-> c.open, found |-> d.found]
    BY <1>1 DEF CacheAdd
  <2>3. e.dev \in DOMAIN c.found => NetworkInterfaces(reg, c, e, search) = c.found[e.dev]
    BY DEF NetworkInterfaces
  <2>4. /\ DOMAIN d.found = {e.dev} \cup DOMAIN c.found
        /\ \A n \in DOMAIN d.found :
              d.found[n] = IF n = e.dev THEN NetworkInterfaces(reg, c, e, search) ELSE c.found[n]
    BY <2>1 DEF Added
  <2> QED  BY <2>2, <2>3, <2>4
<1>2. CASE ~(c.open /\ IsCached(e, search))
  BY <1>2 DEF CacheAdd
<1> QED  BY <1>1, <1>2

LEMMA CacheInit == Init => CacheInv
  BY DEF Init, CacheInv, Closed

LEMMA LookKeeps ==
    ASSUME CacheInv, NEW e, NEW search, Look(e, search)
    PROVE  CacheInv'
<1>1. /\ cache' = CacheAdd(Registry, cache, e, search) /\ virtual' = virtual
  BY DEF Look
<1>2. /\ cache' = [open |-> cache.open, found |-> cache'.found]
      /\ DOMAIN cache.found \subseteq DOMAIN cache'.found
      /\ \A n \in DOMAIN cache.found : cache'.found[n] = cache.found[n]
      /\ cache.open /\ IsCached(e, search) =>
            /\ e.dev \in DOMAIN cache'.found
            /\ cache'.found[e.dev] = NetworkInterfaces(Registry, cache, e, search)
  <2>1. cache = [open |-> cache.open, found |-> cache.found]
    BY DEF CacheInv
  <2> QED  BY <1>1, <2>1, KeepsLists
<1>3. virtual \subseteq Virtuals /\ {} \subseteq Virtuals
  BY DEF CacheInv
<1>4. ASSUME NEW r \in seen
      PROVE  /\ cache'.open /\ IsCached(r.entity, r.search)
             /\ r.entity.dev \in DOMAIN cache'.found
             /\ Plainly(r.entity) => r.answer = Again(r.entity, r.search)'
  <2>1. /\ cache.open /\ IsCached(r.entity, r.search) /\ r.entity.dev \in DOMAIN cache.found
        /\ Plainly(r.entity) => r.answer = Again(r.entity, r.search)
    BY <1>4 DEF CacheInv
  <2>2. NetworkInterfaces(<<>>, cache, r.entity, r.search)
           = NetworkInterfaces(<<>>, cache', r.entity, r.search)
    BY <2>1, <1>2 DEF NetworkInterfaces
  <2>3. Plainly(r.entity) => CreateWithEntity(<<>>, {}, cache, r.entity, r.search)
           = CreateWithEntity(<<>>, {}, cache', r.entity, r.search)
    BY <2>1, <2>2, <1>3, SameList
  <2> QED  BY <1>2, <2>1, <2>3 DEF Again
<1>5. ASSUME cache.open, IsCached(e, search)
      PROVE  /\ cache'.open /\ e.dev \in DOMAIN cache'.found
             /\ Plainly(e) => Answer(e, search) = Again(e, search)'
  <2>1. NetworkInterfaces(Registry, cache, e, search) = NetworkInterfaces(<<>>, cache', e, search)
    BY <1>5, <1>2 DEF NetworkInterfaces
  <2>2. Plainly(e) => CreateWithEntity(Registry, virtual, cache, e, search)
           = CreateWithEntity(<<>>, {}, cache', e, search)
    BY <1>5, <2>1, <1>3, SameList
  <2> QED  BY <1>2, <1>5, <2>2 DEF Answer, Again
<1>6. ASSUME NEW r \in seen'
      PROVE  r \in seen \/ /\ cache.open /\ IsCached(e, search)
                           /\ r = [entity |-> e, search |-> search, answer |-> Answer(e, search)]
  BY <1>6 DEF Look
<1>7. ASSUME NEW r \in seen'
      PROVE  /\ cache'.open /\ IsCached(r.entity, r.search)
             /\ r.entity.dev \in DOMAIN cache'.found
             /\ Plainly(r.entity) => r.answer = Again(r.entity, r.search)'
  <2>1. CASE r \in seen
    BY <2>1, <1>4
  <2>2. CASE r \notin seen
    <3>1. /\ cache.open /\ IsCached(e, search)
          /\ r.entity = e /\ r.search = search /\ r.answer = Answer(e, search)
      BY <2>2, <1>6
    <3> QED  BY <3>1, <1>5
  <2> QED  BY <2>1, <2>2
<1> QED  BY <1>1, <1>2, <1>3, <1>7 DEF CacheInv

LEMMA CacheStep == CacheInv /\ [Next]_vars => CacheInv'
<1> SUFFICES ASSUME CacheInv, [Next]_vars PROVE CacheInv'
  OBVIOUS
<1>1. ASSUME UNCHANGED <<cache, seen>>, virtual' \subseteq Virtuals
      PROVE  CacheInv'
  BY <1>1 DEF CacheInv, Again
<1>2. virtual \subseteq Virtuals
  BY DEF CacheInv
<1>3. CASE CacheOpen
  <2>1. seen' = {} /\ virtual' = virtual
    BY <1>3 DEF CacheOpen, CacheInv
  <2>2. cache' = [open |-> TRUE, found |-> <<>>]
    BY <1>3 DEF CacheOpen, Closed
  <2> QED  BY <1>2, <2>1, <2>2 DEF CacheInv
<1>4. CASE CacheClose
  <2>1. seen' = {} /\ virtual' = virtual /\ cache' = [open |-> FALSE, found |-> <<>>]
    BY <1>4 DEF CacheClose, Closed
  <2> QED  BY <1>2, <2>1 DEF CacheInv
<1>5. CASE LookByName
  BY <1>5, LookKeeps DEF LookByName
<1>6. CASE LookForService
  BY <1>6, LookKeeps DEF LookForService
<1>7. CASE List
  BY <1>7, LookKeeps DEF List
<1>8. CASE MakeService \/ RemoveService
  BY <1>1, <1>2, <1>8 DEF MakeService, RemoveService
<1>9. CASE Attach \/ Detach \/ Connect
  BY <1>1, <1>2, <1>9 DEF Attach, Detach, Connect
<1>10. CASE EditVirtual
  BY <1>1, <1>2, <1>10 DEF EditVirtual
<1>11. CASE Save \/ Forget
  BY <1>1, <1>2, <1>11 DEF Save, Forget
<1>12. CASE NewUnit
  BY <1>1, <1>2, <1>12 DEF NewUnit, Renumber
<1>13. CASE UNCHANGED vars
  BY <1>1, <1>2, <1>13 DEF vars
<1> QED
  BY <1>3, <1>4, <1>5, <1>6, <1>7, <1>8, <1>9, <1>10, <1>11, <1>12, <1>13 DEF Next

\* A thread that keeps its cache open gets the same interface whenever it asks the
\* same, although devices were attached and detached meanwhile: every list of
\* candidates comes from the cache from the first time on.
THEOREM OneAnswer == Spec => []CacheStable
<1>1. CacheInv => CacheStable
  <2> SUFFICES ASSUME CacheInv, NEW a \in seen, NEW b \in seen,
                      a.entity = b.entity, a.search = b.search,
                      \A v \in Virtuals : v[1].dev # a.entity.dev
               PROVE  a.answer = b.answer
    BY DEF CacheStable
  <2>1. Plainly(a.entity) /\ Plainly(b.entity)
    BY DEF Plainly
  <2> QED  BY <2>1 DEF CacheInv
<1>2. QED
  BY <1>1, CacheInit, CacheStep, PTL DEF Spec

-----------------------------------------------------------------------------
(* The interface namer's stored interfaces. *)

\* a layer, by the fields that are stored and those that tell interfaces apart
LayerOf(l, st) ==
    /\ DOMAIN l = DOMAIN Blank
    /\ l.type = st.type /\ l.dev = st.dev /\ l.uniq = None /\ l.prefix = st.prefix

StoredOK(st) ==
    /\ st = [dev |-> st.dev, hidden |-> st.hidden, hconf |-> st.hconf, builtin |-> st.builtin,
             prefix |-> st.prefix, ioType |-> st.ioType, unit |-> st.unit, mac |-> st.mac,
             path |-> st.path, name |-> st.name, type |-> st.type]
    /\ \/ st.ioType = "ether" /\ st.type \in {"Ethernet", "IEEE80211"}
       \/ st.ioType = "ieee1394" /\ st.type = "FireWire"
    /\ st.prefix \in Text \ {None} /\ st.unit \in Text \ {None}
    /\ st.dev = st.prefix \o st.unit
    /\ st.name # None

\* the entity that stands for a stored one
EntityOf(st) ==
    [Entity EXCEPT !.type = IF st.ioType = "ether" THEN "Ethernet" ELSE "FireWire",
        !.hw = Hardware(st.type), !.dev = st.dev, !.hconf = st.hconf, !.name = st.name]

LEMMA EntityFields ==
    ASSUME NEW st, StoredOK(st), NEW e, e = EntityOf(st)
    PROVE  /\ e.type = IF st.ioType = "ether" THEN "Ethernet" ELSE "FireWire"
           /\ e.sub = "" /\ e.dev = st.dev /\ e.dev # None /\ e.uniq = None
           /\ e.hconf = st.hconf /\ e.name = st.name
           /\ st.ioType = "ether" => (e.hw = "AirPort") = (st.type = "IEEE80211")
<1>1. e.hw = Hardware(st.type) /\ e.sub = "" /\ e.dev = st.dev /\ e.uniq = None
      /\ e.hconf = st.hconf /\ e.name = st.name
      /\ e.type = IF st.ioType = "ether" THEN "Ethernet" ELSE "FireWire"
  BY DEF EntityOf, Entity
<1>2. Hardware("IEEE80211") = "AirPort" /\ Hardware("Ethernet") = "Ethernet"
  BY DEF Hardware
<1>3. st.dev # None
  BY DEF StoredOK, Text, None
<1> QED  BY <1>1, <1>2, <1>3 DEF StoredOK

LEMMA BareFields ==
    ASSUME NEW st, StoredOK(st), NEW b, b = Bare(EntityOf(st), External)
    PROVE  /\ DOMAIN b = DOMAIN Blank
           /\ b.dev = st.dev /\ b.uniq = None /\ b.name = st.name
<1>1. EntityOf(st).dev = st.dev /\ EntityOf(st).uniq = None /\ EntityOf(st).name = st.name
  BY EntityFields
<1> QED  BY <1>1 DEF Bare, Blank, External

\* the stand-in for an Ethernet device
Recast(bare, type, key, sort, builtin) ==
    [bare EXCEPT !.type = type, !.key = key, !.sort = sort, !.builtin = builtin]

LEMMA EthernetShape ==
    ASSUME NEW bare, NEW e
    PROVE  \E key, sort, builtin :
              EthernetStandIn(bare, e) =
                Recast(bare, IF e.hw = "AirPort" THEN "IEEE80211" ELSE "Ethernet",
                       key, sort, builtin)
<1> DEFINE As(type, key, sort, builtin) == Recast(bare, type, key, sort, builtin)
           Named(keys) == \E key \in keys : MatchesName(e.name, key)
           tethered == Named({"iPhone", "iPad"})
           thunder == Named({"thunderbolt", "multithunderbolt"})
           pan == Named({"bluetooth-pan-gn", "bluetooth-pan-nap", "bluetooth-pan-u"})
           ether == Named({"ether", "multiether"})
           PANSort == CHOOSE s \in {"BluetoothPAN_GN", "BluetoothPAN_NAP", "BluetoothPAN_U"} :
                          FixedKeys[s] = Head(e.name)
<1>1. EthernetStandIn(bare, e) =
        CASE e.hw = "AirPort" -> As("IEEE80211", <<"airport">>, "AirPort", TRUE)
          [] e.hw # "AirPort" /\ ether -> As("Ethernet", None, "Ethernet", TRUE)
          [] e.hw # "AirPort" /\ tethered -> As("Ethernet", <<Head(e.name)>>, "Tethered", FALSE)
          [] e.hw # "AirPort" /\ thunder -> As("Ethernet", <<"thunderbolt">>, "Thunderbolt", TRUE)
          [] e.hw # "AirPort" /\ pan -> As("Ethernet", <<Head(e.name)>>, PANSort, FALSE)
          [] OTHER -> As("Ethernet", None, "Ethernet", FALSE)
  BY DEF EthernetStandIn, Recast
<1> HIDE DEF ether, tethered, thunder, pan, PANSort
<1> QED  BY <1>1

LEMMA EthernetFields ==
    ASSUME NEW st, StoredOK(st), st.ioType = "ether",
           NEW l, l = EthernetStandIn(Bare(EntityOf(st), External), EntityOf(st))
    PROVE  /\ DOMAIN l = DOMAIN Blank
           /\ l.dev = st.dev /\ l.uniq = None /\ l.name = st.name /\ l.type = st.type
<1> DEFINE e == EntityOf(st)
           bare == Bare(e, External)
<1>1. /\ DOMAIN bare = DOMAIN Blank
      /\ bare.dev = st.dev /\ bare.uniq = None /\ bare.name = st.name
  BY BareFields
<1>2. st.type = IF e.hw = "AirPort" THEN "IEEE80211" ELSE "Ethernet"
  BY EntityFields DEF StoredOK
<1>3. l = EthernetStandIn(bare, e)
  OBVIOUS
<1> HIDE DEF bare, e
<1>4. PICK key, sort, builtin :
         l = Recast(bare, IF e.hw = "AirPort" THEN "IEEE80211" ELSE "Ethernet",
                    key, sort, builtin)
  BY <1>3, EthernetShape
<1> QED  BY <1>1, <1>2, <1>4 DEF Recast, Blank

\* the stand-ins for a FireWire device and for PPP over Ethernet, and which one it is
FireWireStandIn(e, search) ==
    [Bare(e, search) EXCEPT !.type = "FireWire", !.sort = "FireWire",
                            !.builtin = MatchesName(e.name, "firewire")]
PPPoEStandIn(e, search) ==
    LET sort == IF e.hw = "AirPort" THEN "AirPort" ELSE "Ethernet"
    IN  [Bare(e, search) EXCEPT !.sort = sort, !.type = IF sort = "AirPort" THEN "IEEE80211" ELSE sort]

LEMMA StandInOf ==
    ASSUME NEW v, NEW e, NEW search
    PROVE  /\ e.type = "Ethernet" => StandIn(v, e, search) = EthernetOrVirtual(v, e, search)
           /\ e.type = "FireWire" => StandIn(v, e, search) = <<FireWireStandIn(e, search)>>
           /\ e.type = "PPP" /\ e.sub = "PPPoE" => StandIn(v, e, search) = <<PPPoEStandIn(e, search)>>
           /\ IsSerial(e) => StandIn(v, e, search) = <<SerialStandIn(Bare(e, search), e)>>
<1> DEFINE serial == <<SerialStandIn(Bare(e, search), e)>>
           vendor == <<[Bare(e, search) EXCEPT !.type = e.type]>>
<1>1. StandIn(v, e, search) =
        CASE Type(e) = "Ethernet" -> EthernetOrVirtual(v, e, search)
          [] e.type = "FireWire" -> <<FireWireStandIn(e, search)>>
          [] e.type = "PPP" /\ e.sub = "PPPoE" -> <<PPPoEStandIn(e, search)>>
          [] IsSerial(e) -> serial
          [] e.type \in {"PPP", "VPN"} /\ ~IsSerial(e) /\ e.sub # "PPPoE" -> CreateWithInterface(IPv4, e.sub)
          [] e.type \in {"IPSec", "6to4"} -> CreateWithInterface(IPv4, e.type)
          [] e.type = "Loopback" -> Loopback
          [] e.type \in Vendors -> vendor
          [] OTHER -> NULL
  BY DEF StandIn, FireWireStandIn, PPPoEStandIn
<1>2. "Ethernet" \notin Vendors /\ "FireWire" \notin Vendors /\ "PPP" \notin Vendors
  BY VendorsAssumption DEF Known, PPPSubtype
<1>3. Type(e) = IF e.type = "" THEN "Ethernet" ELSE e.type
  BY DEF Type
<1>4. IsSerial(e) = (e.type = "PPP" /\ e.sub = "PPPSerial")
  BY DEF IsSerial
<1> HIDE DEF serial, vendor
<1>5. CASE e.type = "Ethernet"
  BY <1>1, <1>2, <1>3, <1>4, <1>5
<1>6. CASE e.type = "FireWire"
  BY <1>1, <1>2, <1>3, <1>4, <1>6
<1>7. CASE e.type = "PPP" /\ e.sub = "PPPoE"
  BY <1>1, <1>2, <1>3, <1>4, <1>7
<1>8. CASE IsSerial(e)
  BY <1>1, <1>2, <1>3, <1>4, <1>8 DEF serial
<1> QED  BY <1>3, <1>4, <1>5, <1>6, <1>7, <1>8

LEMMA StandInFields ==
    ASSUME NEW st, StoredOK(st)
    PROVE  \E l : /\ CreateWithEntity(<<>>, {}, Closed, EntityOf(st), External) = <<l>>
                  /\ DOMAIN l = DOMAIN Blank /\ l.hconf = st.hconf
                  /\ l.dev = st.dev /\ l.uniq = None /\ l.name = st.name /\ l.type = st.type
<1> DEFINE e == EntityOf(st)
<1>1. /\ e.type = IF st.ioType = "ether" THEN "Ethernet" ELSE "FireWire"
      /\ e.dev # None /\ e.hconf = st.hconf
  BY EntityFields
<1>2. PICK l : /\ StandIn({}, e, External) = <<l>>
               /\ DOMAIN l = DOMAIN Blank
               /\ l.dev = st.dev /\ l.uniq = None /\ l.name = st.name /\ l.type = st.type
  <2>1. CASE st.ioType = "ether"
    <3>1. StandIn({}, e, External) = EthernetOrVirtual({}, e, External)
      <4>1. e.type = "Ethernet"
        BY <1>1, <2>1
      <4> HIDE DEF e
      <4> QED  BY <4>1, StandInOf
    <3>2. EthernetOrVirtual({}, e, External) = <<EthernetStandIn(Bare(e, External), e)>>
      BY DEF EthernetOrVirtual, External
    <3> QED  BY <2>1, <3>1, <3>2, EthernetFields
  <2>2. CASE st.ioType # "ether"
    <3>1. st.type = "FireWire" /\ e.type = "FireWire"
      BY <1>1, <2>2 DEF StoredOK
    <3> DEFINE b == Bare(e, External)
               k == FireWireStandIn(e, External)
    <3>2. StandIn({}, e, External) = <<k>>
      <4>1. e.type = "FireWire"
        BY <3>1
      <4> HIDE DEF e
      <4> QED  BY <4>1, StandInOf
    <3>3. DOMAIN b = DOMAIN Blank /\ b.dev = st.dev /\ b.uniq = None /\ b.name = st.name
      BY BareFields
    <3>5. k = [b EXCEPT !.type = "FireWire", !.sort = "FireWire",
                        !.builtin = MatchesName(e.name, "firewire")]
      BY DEF FireWireStandIn
    <3> HIDE DEF b
    <3>4. /\ DOMAIN k = DOMAIN Blank
          /\ k.dev = st.dev /\ k.uniq = None /\ k.name = st.name /\ k.type = st.type
      BY <3>1, <3>3, <3>5 DEF Blank
    <3> HIDE DEF k
    <3> QED  BY <3>2, <3>4
  <2> QED  BY <2>1, <2>2
<1> HIDE DEF e
<1>3. ~Rejected(e)
  BY <1>1 DEF Rejected
<1>4. \A found : Filled(found, <<l>>, e, External) = [<<l>> EXCEPT ![1].hconf = e.hconf]
  BY DEF Filled, External, NULL
<1>5. \A k : Layered(Owned(k, e, External), e) = k
  BY <1>1 DEF Layered, Owned, External
<1>6. CreateWithEntity(<<>>, {}, Closed, e, External) = [<<l>> EXCEPT ![1].hconf = e.hconf]
  BY <1>2, <1>3, <1>4, <1>5 DEF CreateWithEntity
<1>7. [<<l>> EXCEPT ![1].hconf = e.hconf] = <<[l EXCEPT !.hconf = e.hconf]>>
  OBVIOUS
<1>8. WITNESS [l EXCEPT !.hconf = e.hconf]
<1> QED  BY <1>1, <1>2, <1>6, <1>7 DEF e, Blank

\* A stored interface is restored with everything that was stored of it.
LEMMA Restored ==
    ASSUME NEW st, StoredOK(st)
    PROVE  \E l : /\ CreateWithStorageEntity(st) = <<l>>
                  /\ LayerOf(l, st) /\ l.name = st.name
                  /\ l.hidden = st.hidden /\ l.hconf = st.hconf /\ l.builtin = st.builtin
                  /\ l.ioType = st.ioType /\ l.unit = st.unit /\ l.mac = st.mac /\ l.path = st.path
<1>1. PICK l : /\ CreateWithEntity(<<>>, {}, Closed, EntityOf(st), External) = <<l>>
               /\ DOMAIN l = DOMAIN Blank /\ l.hconf = st.hconf
               /\ l.dev = st.dev /\ l.uniq = None /\ l.name = st.name /\ l.type = st.type
  BY StandInFields
<1>2. st.prefix # None
  BY DEF StoredOK
<1> DEFINE m == [l EXCEPT !.builtin = st.builtin, !.hidden = st.hidden, !.ioType = st.ioType,
                          !.unit = st.unit, !.mac = st.mac, !.path = st.path, !.prefix = st.prefix]
<1>3. CreateWithStorageEntity(st) = <<m>>
  <2> DEFINE type == IF st.ioType = "ether" THEN "Ethernet"
                     ELSE IF st.ioType = "ieee1394" THEN "FireWire" ELSE st.type
             e == [Entity EXCEPT !.type = type, !.hw = Hardware(st.type), !.dev = st.dev,
                                 !.hconf = st.hconf, !.name = st.name]
  <2>1. type = IF st.ioType = "ether" THEN "Ethernet" ELSE "FireWire"
    BY DEF StoredOK
  <2> HIDE DEF type
  <2>2. e = EntityOf(st)
    BY <2>1 DEF EntityOf
  <2> DEFINE i == CreateWithEntity(<<>>, {}, Closed, e, External)
  <2>3. CreateWithStorageEntity(st) =
          <<[i[1] EXCEPT !.builtin = st.builtin, !.hidden = st.hidden, !.ioType = st.ioType,
                         !.unit = st.unit, !.mac = st.mac, !.path = st.path,
                         !.prefix = IF st.prefix = None THEN PrefixOf(st.dev) ELSE st.prefix]>>
    BY DEF CreateWithStorageEntity, type
  <2> HIDE DEF e
  <2>4. i[1] = l
    BY <1>1, <2>2
  <2> HIDE DEF i
  <2> QED  BY <1>2, <2>3, <2>4
<1>4. WITNESS m
<1> QED  BY <1>1, <1>3 DEF LayerOf, Blank

\* What is stored of a restored interface is what it was restored from.
LEMMA StoredAgain ==
    ASSUME NEW st, StoredOK(st), NEW l, LayerOf(l, st), l.name = st.name,
           l.hidden = st.hidden, l.hconf = st.hconf, l.builtin = st.builtin,
           l.ioType = st.ioType, l.unit = st.unit, l.mac = st.mac, l.path = st.path
    PROVE  CopyStorageEntity(<<l>>) = st
<1>1. DisplayName(<<l>>) = st.name
  BY DEF DisplayName, StoredOK
<1> QED  BY <1>1 DEF CopyStorageEntity, LayerOf, StoredOK

\* Two interfaces of one layer and the same device are equal.
LEMMA EqualLayers ==
    ASSUME NEW st, StoredOK(st), NEW l, NEW m, LayerOf(l, st), LayerOf(m, st)
    PROVE  Equal(<<l>>, <<m>>)
<1>1. SameLayer(<<l>>, <<m>>)
  BY DEF SameLayer, LayerOf, StoredOK, None
<1>2. ASSUME NEW x
      PROVE  \A k \in 1..1 : SubSeq(<<x>>, k, 1) = <<x>>
  <2>1. <<x>> \in Seq({x}) /\ Len(<<x>>) = 1
    OBVIOUS
  <2>2. SubSeq(<<x>>, 1, Len(<<x>>)) = <<x>>
    BY <2>1, SubSeqFull
  <2> QED  BY <2>2
<1> QED  BY <1>1, <1>2 DEF Equal

\* A sequence of one text, flattened.
LEMMA FlattenOne ==
    ASSUME NEW t
    PROVE  FlattenSeq(<<t>>) = t
<1> DEFINE F(f) == [i \in 1..1 |-> IF i = 1 THEN <<t>>[i] ELSE f[i - 1] \o <<t>>[i]]
           g == [i \in 1..1 |-> t]
           h == CHOOSE f : f = F(f)
<1>1. g = F(g)
  OBVIOUS
<1>2. h = F(h)
  BY <1>1
<1>3. h[1] = t
  BY <1>2
<1> QED  BY <1>3 DEF FlattenSeq

\* An interface of one layer has a name to show: the device is told if nothing else.
LEMMA NamedLayer ==
    ASSUME NEW l, l.dev \in Text
    PROVE  DisplayName(<<l>>) # None
<1>1. Told(<<l>>) = {1}
  BY DEF Told
<1>2. Cardinality(Told(<<l>>)) = 1
  BY <1>1, FS_Singleton
<1>3. LayerName(<<l>>, 1) # None
  BY DEF LayerName, None, Text
<1>4. [k \in 1..1 |-> LayerName(<<l>>, k)] = <<LayerName(<<l>>, 1)>>
  OBVIOUS
<1> QED  BY <1>2, <1>3, <1>4, FlattenOne DEF DisplayName

\* What a network interface of a node has, if all of it can be stored.
LEMMA NodeStored ==
    ASSUME NEW reg, NEW k \in DOMAIN Nodes, NEW n, n = Nodes[k], n.kind = "network",
           NEW i, i = CreateInterface(reg, n, FALSE), i # NULL, Storable(i)
    PROVE  /\ StoredOK(CopyStorageEntity(i))
           /\ \E l : i = <<l>> /\ LayerOf(l, CopyStorageEntity(i))
<1>1. i = NetworkLayer(reg, n) /\ n.iftype \in {"ether", "ieee1394"}
  BY DEF CreateInterface, NetworkLayer
<1> DEFINE base == IF n.iftype = "ether" THEN Ethernet(reg, n) ELSE FireWire(reg, n)
           l == [base EXCEPT !.ioType = n.iftype, !.dev = BSDName(n), !.mac = n.mac,
                             !.prefix = n.prefix, !.unit = n.unit]
<1>2. i = <<l>>
  BY <1>1 DEF NetworkLayer
<1>3. /\ DOMAIN Entry(n) = DOMAIN Blank /\ Entry(n).uniq = None
  BY DEF Entry, Blank
<1>4. /\ DOMAIN base = DOMAIN Blank /\ base.uniq = None
      /\ n.iftype = "ether" => base.type \in {"Ethernet", "IEEE80211"}
      /\ n.iftype = "ieee1394" => base.type = "FireWire"
  <2>1. CASE n.iftype = "ether"
    BY <1>3, <2>1 DEF Ethernet, Blank
  <2>2. CASE n.iftype = "ieee1394"
    BY <1>3, <2>2 DEF FireWire, Blank
  <2> QED  BY <1>1, <2>1, <2>2
<1> HIDE DEF base
<1>5. /\ DOMAIN l = DOMAIN Blank /\ l.uniq = None /\ l.type = base.type
      /\ l.ioType = n.iftype /\ l.dev = BSDName(n) /\ l.prefix = n.prefix /\ l.unit = n.unit
  BY <1>4 DEF Blank
<1> HIDE DEF l
<1>6. /\ n.prefix \in Text \ {None} /\ n.unit \in Text \ {None}
      /\ l.dev = n.prefix \o n.unit
  <2> DEFINE first == <<l>>[1]
  <2>4. first = l
    OBVIOUS
  <2>5. i[1] = first
    BY <1>2
  <2> HIDE DEF first
  <2>1. i[1] = l
    BY <2>4, <2>5
  <2>2. n.prefix # None /\ n.unit # None
    BY <1>5, <2>1 DEF Storable
  <2>3. /\ n.prefix \in Text /\ n.unit \in Text
        /\ None \notin {n.bsd, n.prefix, n.unit} => n.bsd = n.prefix \o n.unit
    BY NodesAssumption
  <2> QED  BY <1>5, <2>2, <2>3 DEF BSDName
<1>7. l.dev \in Text
  BY <1>6 DEF Text
<1>8. DisplayName(<<l>>) # None
  BY <1>7, NamedLayer
<1> DEFINE st == CopyStorageEntity(<<l>>)
<1>9. /\ st = [dev |-> l.dev, hidden |-> l.hidden, hconf |-> l.hconf, builtin |-> l.builtin,
               prefix |-> l.prefix, ioType |-> l.ioType, unit |-> l.unit, mac |-> l.mac,
               path |-> l.path, name |-> DisplayName(<<l>>), type |-> l.type]
  BY DEF CopyStorageEntity
<1>10. StoredOK(st)
  <2> HIDE DEF st
  <2>1. /\ st.dev = l.dev /\ st.prefix = l.prefix /\ st.ioType = l.ioType
        /\ st.unit = l.unit /\ st.type = l.type /\ st.name # None
    BY <1>8, <1>9
  <2>2. \/ st.ioType = "ether" /\ st.type \in {"Ethernet", "IEEE80211"}
        \/ st.ioType = "ieee1394" /\ st.type = "FireWire"
    BY <1>1, <1>4, <1>5, <2>1
  <2>3. st = [dev |-> st.dev, hidden |-> st.hidden, hconf |-> st.hconf, builtin |-> st.builtin,
              prefix |-> st.prefix, ioType |-> st.ioType, unit |-> st.unit, mac |-> st.mac,
              path |-> st.path, name |-> st.name, type |-> st.type]
    BY <1>9
  <2> QED  BY <1>5, <1>6, <2>1, <2>2, <2>3 DEF StoredOK
<1>11. LayerOf(l, st)
  BY <1>5, <1>9 DEF LayerOf
<1> QED  BY <1>2, <1>10, <1>11

\* A new unit changes the unit, the name and the path.
Renamed(l, unit) ==
    [l EXCEPT !.unit = unit, !.dev = l.prefix \o unit,
              !.path = IF @ = <<>> THEN @ ELSE <<Migrated>> \o @]

LEMMA NewUnitLayer ==
    ASSUME NEW st, NEW l, NEW unit, StoredOK(st), LayerOf(l, st)
    PROVE  SetIOInterfaceUnit(<<l>>, unit) = <<Renamed(l, unit)>>
<1>1. st.prefix # None /\ l.prefix = st.prefix /\ DOMAIN l = DOMAIN Blank
  BY DEF StoredOK, LayerOf
<1> DEFINE k == <<l>>
<1>2. k[1] = l
  OBVIOUS
<1>3. SetIOInterfaceUnit(k, unit) =
        [k EXCEPT ![1].prefix = l.prefix, ![1].unit = unit,
                  ![1].dev = l.prefix \o unit,
                  ![1].path = IF @ = <<>> THEN @ ELSE <<Migrated>> \o @]
  BY <1>1, <1>2 DEF SetIOInterfaceUnit
<1>4. [l EXCEPT !.prefix = l.prefix, !.unit = unit, !.dev = l.prefix \o unit,
                !.path = IF @ = <<>> THEN @ ELSE <<Migrated>> \o @] = Renamed(l, unit)
  BY <1>1 DEF Renamed, Blank
<1> QED  BY <1>3, <1>4

LEMMA RenamedFields ==
    ASSUME NEW st, NEW l, NEW unit, LayerOf(l, st)
    PROVE  /\ DOMAIN Renamed(l, unit) = DOMAIN Blank
           /\ Renamed(l, unit).type = l.type /\ Renamed(l, unit).uniq = None
           /\ Renamed(l, unit).name = l.name /\ Renamed(l, unit).ioType = l.ioType
           /\ Renamed(l, unit).prefix = st.prefix /\ Renamed(l, unit).unit = unit
           /\ Renamed(l, unit).dev = st.prefix \o unit
  BY DEF Renamed, LayerOf, Blank

StoredInv ==
    /\ present \subseteq DOMAIN Nodes
    /\ \A r \in stored : /\ StoredOK(r.entity)
                         /\ \E l : r.of = <<l>> /\ LayerOf(l, r.entity)

LEMMA SaveKeeps == ASSUME StoredInv, Save PROVE StoredInv'
<1>1. present' = present
  BY DEF Save
<1>2. ASSUME NEW r \in stored'
      PROVE  StoredOK(r.entity) /\ \E l : r.of = <<l>> /\ LayerOf(l, r.entity)
  <2>1. PICK i \in CopyAllNetwork : Storable(i) /\ r = [entity |-> CopyStorageEntity(i), of |-> i]
    BY <1>2 DEF Save
  <2>2. PICK n \in Present("network") : i = CreateInterface(Registry, n, FALSE) /\ i # NULL
    BY <2>1 DEF CopyAllNetwork, AllMatching
  <2>3. PICK k \in DOMAIN Nodes : n = Nodes[k] /\ n.kind = "network"
    BY <2>2 DEF Present, StoredInv
  <2> QED  BY <2>1, <2>2, <2>3, NodeStored
<1> QED  BY <1>1, <1>2 DEF StoredInv

LEMMA RenumberKeeps ==
    ASSUME StoredInv, NEW dev, NEW unit \in Units, Renumber(dev, unit)
    PROVE  StoredInv'
<1>1. PICK r \in stored :
        /\ stored' = (stored \ {r}) \cup
              {[entity |-> CopyStorageEntity(SetIOInterfaceUnit(CreateWithStorageEntity(r.entity), unit)),
                of |-> SetIOInterfaceUnit(r.of, unit)]}
        /\ present' = present
  BY DEF Renumber, StoredNamed
<1> DEFINE st == r.entity
<1>2. StoredOK(st)
  BY DEF StoredInv
<1>3. PICK a : r.of = <<a>> /\ LayerOf(a, st)
  BY DEF StoredInv
<1>4. PICK b : CreateWithStorageEntity(st) = <<b>> /\ LayerOf(b, st) /\ b.name = st.name
               /\ b.ioType = st.ioType
  BY <1>2, Restored
<1> HIDE DEF st
<1> DEFINE c == Renamed(a, unit)
           d == Renamed(b, unit)
<1>5. /\ SetIOInterfaceUnit(<<a>>, unit) = <<c>>
      /\ DOMAIN c = DOMAIN Blank
      /\ c.type = a.type /\ c.uniq = None /\ c.prefix = st.prefix
      /\ c.dev = st.prefix \o unit
  <2>1. SetIOInterfaceUnit(<<a>>, unit) = <<Renamed(a, unit)>>
    BY <1>2, <1>3, NewUnitLayer
  <2> QED  BY <1>2, <1>3, <2>1, RenamedFields
<1>6. /\ SetIOInterfaceUnit(<<b>>, unit) = <<d>>
      /\ DOMAIN d = DOMAIN Blank
      /\ d.type = b.type /\ d.name = b.name /\ d.prefix = st.prefix
      /\ d.unit = unit /\ d.dev = st.prefix \o unit /\ d.ioType = b.ioType
  <2>1. SetIOInterfaceUnit(<<b>>, unit) = <<Renamed(b, unit)>>
    BY <1>2, <1>4, NewUnitLayer
  <2> QED  BY <1>2, <1>4, <2>1, RenamedFields
<1> HIDE DEF c, d
<1> DEFINE new == CopyStorageEntity(<<d>>)
<1>7. new = [dev |-> d.dev, hidden |-> d.hidden, hconf |-> d.hconf, builtin |-> d.builtin,
             prefix |-> d.prefix, ioType |-> d.ioType, unit |-> d.unit, mac |-> d.mac,
             path |-> d.path, name |-> d.name, type |-> d.type]
  BY <1>2, <1>4, <1>6 DEF CopyStorageEntity, DisplayName, StoredOK
<1> HIDE DEF new
<1>8. StoredOK(new)
  <2>1. unit \in Text \ {None}
    BY NodesAssumption
  <2>2. /\ new.ioType = st.ioType /\ new.type = st.type /\ new.name = st.name
        /\ new.prefix = st.prefix /\ new.unit = unit /\ new.dev = st.prefix \o unit
    BY <1>4, <1>6, <1>7 DEF LayerOf
  <2>3. /\ \/ st.ioType = "ether" /\ st.type \in {"Ethernet", "IEEE80211"}
           \/ st.ioType = "ieee1394" /\ st.type = "FireWire"
        /\ st.prefix \in Text \ {None} /\ st.name # None
    BY <1>2 DEF StoredOK
  <2>4. new = [dev |-> new.dev, hidden |-> new.hidden, hconf |-> new.hconf,
               builtin |-> new.builtin, prefix |-> new.prefix, ioType |-> new.ioType,
               unit |-> new.unit, mac |-> new.mac, path |-> new.path,
               name |-> new.name, type |-> new.type]
    BY <1>7
  <2> QED  BY <2>1, <2>2, <2>3, <2>4 DEF StoredOK
<1>9. LayerOf(c, new)
  <2>1. new.type = b.type /\ new.dev = st.prefix \o unit /\ new.prefix = st.prefix
    BY <1>6, <1>7
  <2>2. a.type = st.type /\ b.type = st.type
    BY <1>3, <1>4 DEF LayerOf
  <2> QED  BY <1>5, <2>1, <2>2 DEF LayerOf
<1>10. stored' = (stored \ {r}) \cup {[entity |-> new, of |-> <<c>>]}
  BY <1>1, <1>3, <1>4, <1>5, <1>6 DEF st, new
<1>11. ASSUME NEW q \in stored'
       PROVE  StoredOK(q.entity) /\ \E l : q.of = <<l>> /\ LayerOf(l, q.entity)
  <2>1. CASE q \in stored
    BY <2>1 DEF StoredInv
  <2>2. CASE q \notin stored
    <3>1. q.entity = new /\ q.of = <<c>>
      BY <1>10, <2>2
    <3> QED  BY <1>8, <1>9, <3>1
  <2> QED  BY <2>1, <2>2
<1> QED  BY <1>1, <1>11 DEF StoredInv

LEMMA StoredStep == StoredInv /\ [Next]_vars => StoredInv'
<1> SUFFICES ASSUME StoredInv, [Next]_vars PROVE StoredInv'
  OBVIOUS
<1>1. ASSUME stored' = stored, present' \subseteq DOMAIN Nodes
      PROVE  StoredInv'
  BY <1>1 DEF StoredInv
<1>2. present \subseteq DOMAIN Nodes
  BY DEF StoredInv
<1>3. CASE CacheOpen \/ CacheClose \/ MakeService \/ RemoveService
  BY <1>1, <1>2, <1>3 DEF CacheOpen, CacheClose, MakeService, RemoveService
<1>4. CASE LookByName \/ LookForService \/ List
  BY <1>1, <1>2, <1>4 DEF LookByName, LookForService, List, Look
<1>5. CASE Attach
  BY <1>1, <1>2, <1>5 DEF Attach
<1>6. CASE Detach
  BY <1>1, <1>2, <1>6 DEF Detach
<1>7. CASE Connect \/ EditVirtual
  BY <1>1, <1>2, <1>7 DEF Connect, EditVirtual
<1>8. CASE Save
  BY <1>8, SaveKeeps
<1>9. CASE NewUnit
  BY <1>9, RenumberKeeps DEF NewUnit
<1>10. CASE Forget
  BY <1>2, <1>10 DEF Forget, StoredInv
<1>11. CASE UNCHANGED vars
  BY <1>1, <1>2, <1>11 DEF vars
<1> QED
  BY <1>3, <1>4, <1>5, <1>6, <1>7, <1>8, <1>9, <1>10, <1>11 DEF Next

\* A stored interface comes back as an interface equal to the one it stands for,
\* is stored as it was, and its name is its prefix and its unit, however often the
\* namer gave it another unit.
THEOREM RestoredEqual == Spec => []RoundTrip
<1>1. Init => StoredInv
  BY NodesAssumption DEF Init, StoredInv
<1>2. StoredInv => RoundTrip
  <2> SUFFICES ASSUME StoredInv, NEW r \in stored
               PROVE  /\ Equal(CreateWithStorageEntity(r.entity), r.of)
                      /\ CopyStorageEntity(CreateWithStorageEntity(r.entity)) = r.entity
                      /\ r.entity.dev = r.entity.prefix \o r.entity.unit
    BY DEF RoundTrip
  <2>1. StoredOK(r.entity)
    BY DEF StoredInv
  <2>2. PICK l : r.of = <<l>> /\ LayerOf(l, r.entity)
    BY DEF StoredInv
  <2>3. PICK m : /\ CreateWithStorageEntity(r.entity) = <<m>>
                 /\ LayerOf(m, r.entity) /\ m.name = r.entity.name
                 /\ m.hidden = r.entity.hidden /\ m.hconf = r.entity.hconf
                 /\ m.builtin = r.entity.builtin /\ m.ioType = r.entity.ioType
                 /\ m.unit = r.entity.unit /\ m.mac = r.entity.mac /\ m.path = r.entity.path
    BY <2>1, Restored
  <2>4. Equal(<<m>>, <<l>>)
    BY <2>1, <2>2, <2>3, EqualLayers
  <2>5. CopyStorageEntity(<<m>>) = r.entity
    BY <2>1, <2>3, StoredAgain
  <2> QED  BY <2>1, <2>2, <2>3, <2>4, <2>5 DEF StoredOK
<1>3. QED
  BY <1>1, <1>2, StoredStep, PTL DEF Spec

-----------------------------------------------------------------------------
(* Lists of the entries that match. *)

\* the entries before one are fewer than those before a later one
LEMMA RankGrows ==
    ASSUME NEW S, IsFiniteSet(S), S \subseteq Nat, NEW k \in S
    PROVE  /\ Cardinality({i \in S : i < k}) \in 0..(Cardinality(S) - 1)
           /\ \A j \in S : j < k =>
                Cardinality({i \in S : i < j}) < Cardinality({i \in S : i < k})
<1> DEFINE Below(j) == {i \in S : i < j}
<1>1. \A j \in S : IsFiniteSet(Below(j)) /\ Cardinality(Below(j)) \in Nat
  BY FS_Subset, FS_CardinalityType
<1>2. Cardinality(S) \in Nat
  BY FS_CardinalityType
<1>3. Cardinality(Below(k)) <= Cardinality(S) - 1
  <2>1. IsFiniteSet(S \ {k}) /\ Cardinality(S \ {k}) = Cardinality(S) - 1
    BY FS_RemoveElement
  <2>2. Below(k) \subseteq S \ {k}
    OBVIOUS
  <2> QED  BY <2>1, <2>2, FS_Subset
<1>4. ASSUME NEW j \in S, j < k
      PROVE  Cardinality(Below(j)) < Cardinality(Below(k))
  <2>1. /\ IsFiniteSet(Below(k) \ {j})
        /\ Cardinality(Below(k) \ {j}) = Cardinality(Below(k)) - 1
    BY <1>1, <1>4, FS_RemoveElement
  <2>2. Below(j) \subseteq Below(k) \ {j}
    <3> SUFFICES ASSUME NEW i \in S, i < j PROVE i < k /\ i # j
      BY <1>4
    <3>1. i \in Nat /\ j \in Nat /\ k \in Nat
      OBVIOUS
    <3> QED  BY <1>4, <3>1
  <2>3. Cardinality(Below(j)) <= Cardinality(Below(k)) - 1
    BY <2>1, <2>2, FS_Subset
  <2> QED  BY <1>1, <2>3
<1> QED  BY <1>1, <1>2, <1>3, <1>4

\* Nth counts the entries of a set, each one once.
LEMMA NthEntry ==
    ASSUME NEW S, IsFiniteSet(S), S \subseteq Nat
    PROVE  /\ \A n \in 1..Cardinality(S) : Nth(S, n) \in S
           /\ \A k \in S : \E n \in 1..Cardinality(S) : Nth(S, n) = k
           /\ \A m, n \in 1..Cardinality(S) : Nth(S, m) = Nth(S, n) => m = n
<1> DEFINE c == Cardinality(S)
           rank == [k \in S |-> Cardinality({i \in S : i < k})]
<1>1. c \in Nat
  BY FS_CardinalityType
<1>2. \A k \in S : rank[k] \in 0..(c - 1)
  BY RankGrows
<1>7. \A j, k \in S : j < k => rank[j] < rank[k]
  BY RankGrows
<1> HIDE DEF rank
<1>3. \A j, k \in S : rank[j] = rank[k] => j = k
  <2> SUFFICES ASSUME NEW j \in S, NEW k \in S, j < k PROVE rank[j] # rank[k]
    OBVIOUS
  <2>1. rank[j] \in Nat /\ rank[k] \in Nat /\ rank[j] < rank[k]
    BY <1>1, <1>2, <1>7
  <2> QED  BY <2>1
<1>8. rank \in [S -> 0..(c - 1)]
  BY <1>2 DEF rank
<1>4. rank \in Surjection(S, 0..(c - 1))
  <2>1. rank \in Injection(S, 0..(c - 1))
    BY <1>3, <1>8 DEF Injection, IsInjective
  <2>2. IsFiniteSet(0..(c - 1)) /\ Cardinality(0..(c - 1)) = c
    <3> HIDE DEF c
    <3>1. 0 \in Int /\ c - 1 \in Int
      BY <1>1
    <3>2. IsFiniteSet(0..(c - 1)) /\ Cardinality(0..(c - 1)) = IF 0 > c - 1 THEN 0 ELSE (c - 1) - 0 + 1
      BY <3>1, FS_Interval
    <3> QED  BY <1>1, <3>2
  <2> QED  BY <2>1, <2>2, FS_Injection
<1>5. \A n \in 1..c : Nth(S, n) \in S /\ rank[Nth(S, n)] = n - 1
  <2> SUFFICES ASSUME NEW n \in 1..c PROVE Nth(S, n) \in S /\ rank[Nth(S, n)] = n - 1
    OBVIOUS
  <2>1. n - 1 \in 0..(c - 1)
    BY <1>1
  <2>2. \E k \in S : rank[k] = n - 1
    BY <1>4, <2>1 DEF Surjection
  <2> QED  BY <2>2 DEF Nth, rank
<1>6. \A k \in S : Nth(S, rank[k] + 1) = k /\ rank[k] + 1 \in 1..c
  <2> SUFFICES ASSUME NEW k \in S PROVE Nth(S, rank[k] + 1) = k /\ rank[k] + 1 \in 1..c
    OBVIOUS
  <2>1. rank[k] + 1 \in 1..c /\ (rank[k] + 1) - 1 = rank[k]
    BY <1>1, <1>2
  <2> QED  BY <1>3, <1>5, <2>1
<1> QED  BY <1>1, <1>5, <1>6

\* the entries that are an interface
Made(reg, matching, keepHidden) ==
    {k \in matching : CreateInterface(reg, reg[k], keepHidden) # NULL}

\* a list has each of them once
Lists(list, made, reg, keepHidden) ==
    /\ Len(list) = Cardinality(made) /\ DOMAIN list = 1..Cardinality(made)
    /\ Cardinality(made) \in Nat /\ IsFiniteSet(made)
    /\ \A n \in DOMAIN list : /\ Nth(made, n) \in made
                              /\ list[n] = CreateInterface(reg, reg[Nth(made, n)], keepHidden)
    /\ \A k \in made : \E n \in DOMAIN list : Nth(made, n) = k
    /\ \A m, n \in DOMAIN list : Nth(made, m) = Nth(made, n) => m = n

\* a list has every interface of the entries that match, once
LEMMA ListOf ==
    ASSUME NEW reg, NEW matching, IsFiniteSet(matching), matching \subseteq Nat, NEW keepHidden,
           NEW made, made = Made(reg, matching, keepHidden),
           NEW list, list = FindMatching(reg, matching, keepHidden)
    PROVE  Lists(list, made, reg, keepHidden)
<1>1. IsFiniteSet(made) /\ made \subseteq Nat /\ Cardinality(made) \in Nat
  BY FS_Subset, FS_CardinalityType DEF Made
<1>2. list = [n \in 1..Cardinality(made) |-> CreateInterface(reg, reg[Nth(made, n)], keepHidden)]
  BY DEF FindMatching, Made
<1>3. Len(list) = Cardinality(made) /\ DOMAIN list = 1..Cardinality(made)
  <2> DEFINE c == Cardinality(made)
             F(n) == CreateInterface(reg, reg[Nth(made, n)], keepHidden)
  <2>1. list = [n \in 1..c |-> F(n)] /\ c \in Nat
    BY <1>1, <1>2
  <2> HIDE DEF c, F
  <2>2. Len(list) = c /\ DOMAIN list = 1..c
    BY <2>1
  <2> QED  BY <2>2 DEF c
<1> QED  BY <1>1, <1>2, <1>3, NthEntry DEF Lists

\* nothing matches
LEMMA ListOfNone ==
    ASSUME NEW reg, NEW matching, NEW keepHidden, Made(reg, matching, keepHidden) = {}
    PROVE  FindMatching(reg, matching, keepHidden) = <<>>
<1> DEFINE made == Made(reg, matching, keepHidden)
           F(n) == CreateInterface(reg, reg[Nth(made, n)], keepHidden)
<1>1. FindMatching(reg, matching, keepHidden) = [n \in 1..Cardinality(made) |-> F(n)]
  BY DEF FindMatching, Made
<1>2. Cardinality(made) = 0
  BY FS_EmptySet
<1> HIDE DEF made, F
<1> QED  BY <1>1, <1>2

\* one entry matches
LEMMA ListOfOne ==
    ASSUME NEW reg, NEW matching, NEW keepHidden, NEW k \in Nat,
           Made(reg, matching, keepHidden) = {k}
    PROVE  FindMatching(reg, matching, keepHidden) = <<CreateInterface(reg, reg[k], keepHidden)>>
<1>1. IsFiniteSet({k}) /\ Cardinality({k}) = 1
  BY FS_Singleton
<1>2. Nth({k}, 1) = k
  BY <1>1, NthEntry
<1> QED  BY <1>1, <1>2 DEF FindMatching, Made

-----------------------------------------------------------------------------
(* The layer of a network interface. *)

\* what a layer has of the node that it was made of, apart from names
NetType(n) ==
    IF n.iftype = "ieee1394" THEN "FireWire"
    ELSE IF EthernetSort(n) = "AirPort" THEN "IEEE80211" ELSE "Ethernet"

NetLeaf(l, k) ==
    /\ k \in DOMAIN Nodes /\ Nodes[k].kind = "network"
    /\ Nodes[k].iftype \in {"ether", "ieee1394"}
    /\ DOMAIN l = DOMAIN Blank
    /\ l.type = NetType(Nodes[k])
    /\ l.etype = IF Nodes[k].iftype = "ether" THEN "Ethernet" ELSE "FireWire"
    /\ l.esub = "" /\ l.dev = Nodes[k].bsd /\ l.uniq = None
    /\ l.hconf = IsHidden(Nodes[k].hconf) /\ l.parts = <<>> /\ l.path = Nodes[k].path
    /\ l.sort = IF Nodes[k].iftype = "ether" THEN EthernetSort(Nodes[k]) ELSE "FireWire"
    /\ l.loc \in {Nodes[k].loc, None} /\ l.builtin \in BOOLEAN

\* createInterface makes one layer of a network node, of its type and under its name
LEMMA NodeLeaf ==
    ASSUME NEW reg, NEW k \in DOMAIN Nodes, Nodes[k].kind = "network", NEW keepHidden,
           CreateInterface(reg, Nodes[k], keepHidden) # NULL
    PROVE  \E l : CreateInterface(reg, Nodes[k], keepHidden) = <<l>> /\ NetLeaf(l, k)
<1> DEFINE n == Nodes[k]
           i == CreateInterface(reg, n, keepHidden)
           base == IF n.iftype = "ether" THEN Ethernet(reg, n) ELSE FireWire(reg, n)
           l == [base EXCEPT !.ioType = n.iftype, !.dev = BSDName(n), !.mac = n.mac,
                             !.prefix = n.prefix, !.unit = n.unit]
<1>1. i = NetworkLayer(reg, n) /\ n.iftype \in {"ether", "ieee1394"}
  BY DEF CreateInterface, NetworkLayer
<1>2. i = <<l>>
  BY <1>1 DEF NetworkLayer
<1>3. /\ DOMAIN Entry(n) = DOMAIN Blank /\ Entry(n).uniq = None /\ Entry(n).esub = ""
      /\ Entry(n).hconf = IsHidden(n.hconf) /\ Entry(n).parts = <<>> /\ Entry(n).path = n.path
      /\ Entry(n).loc = None
  BY DEF Entry, Blank
<1>4. /\ DOMAIN base = DOMAIN Blank /\ base.uniq = None /\ base.esub = ""
      /\ base.hconf = IsHidden(n.hconf) /\ base.parts = <<>> /\ base.path = n.path
      /\ base.type = NetType(n)
      /\ base.etype = IF n.iftype = "ether" THEN "Ethernet" ELSE "FireWire"
      /\ base.sort = IF n.iftype = "ether" THEN EthernetSort(n) ELSE "FireWire"
      /\ base.loc \in {n.loc, None} /\ base.builtin \in {EthernetBuiltin(n), IsBuiltin(n)}
  <2>1. CASE n.iftype = "ether"
    BY <1>3, <2>1 DEF Ethernet, Blank, NetType
  <2>2. CASE n.iftype = "ieee1394"
    BY <1>3, <2>2 DEF FireWire, Blank, NetType
  <2> QED  BY <1>1, <2>1, <2>2
<1> HIDE DEF base
<1>5. BSDName(n) = n.bsd
  BY NamesAssumption
<1>6. base.builtin \in BOOLEAN
  BY <1>4 DEF EthernetBuiltin, IsBuiltin
<1>7. NetLeaf(l, k)
  BY <1>1, <1>4, <1>5, <1>6 DEF NetLeaf, Blank
<1> HIDE DEF l
<1> QED  BY <1>2, <1>7

\* the list for a name: the one device that has it, or none
NetList(list, dev) ==
    \/ list = <<>>
    \/ \E x, k : NetLeaf(x, k) /\ Nodes[k].bsd = dev /\ list = <<<<x>>>>

\* two devices never match one name
LEMMA NamedOnce ==
    ASSUME present \subseteq DOMAIN Nodes, NEW dev, dev # None
    PROVE  \A j, k \in Matching(Registry, "network", "bsd", dev) : j = k
<1>1. Differ("network", "bsd")
  BY NamesAssumption
<1> QED  BY <1>1 DEF Matching, Registry, Differ

\* the list for a name has the device of that name, or none
LEMMA ListForName ==
    ASSUME present \subseteq DOMAIN Nodes, NEW dev, dev # None, NEW keepHidden
    PROVE  NetList(FindMatching(Registry, Matching(Registry, "network", "bsd", dev), keepHidden), dev)
<1> DEFINE matching == Matching(Registry, "network", "bsd", dev)
           made == Made(Registry, matching, keepHidden)
<1>1. CASE made = {}
  BY <1>1, ListOfNone DEF NetList
<1>2. CASE made # {}
  <2>1. PICK k \in matching : made = {k}
    BY <1>2, NamedOnce DEF Made
  <2>2. /\ k \in present /\ k \in DOMAIN Nodes /\ Registry[k] = Nodes[k] /\ k \in Nat
        /\ Nodes[k].kind = "network" /\ Nodes[k].bsd = dev
    BY NamesAssumption DEF Matching, Registry
  <2>3. FindMatching(Registry, matching, keepHidden) = <<CreateInterface(Registry, Nodes[k], keepHidden)>>
    BY <2>1, <2>2, ListOfOne
  <2>4. CreateInterface(Registry, Nodes[k], keepHidden) # NULL
    BY <2>1, <2>2 DEF Made
  <2>5. PICK x : CreateInterface(Registry, Nodes[k], keepHidden) = <<x>> /\ NetLeaf(x, k)
    BY <2>2, <2>4, NodeLeaf
  <2> QED  BY <2>2, <2>3, <2>5 DEF NetList
<1> QED  BY <1>1, <1>2

\* an attached device that is not hidden is found by its name
LEMMA ListOfAttached ==
    ASSUME present \subseteq DOMAIN Nodes, NEW k \in present,
           Nodes[k].kind = "network", Nodes[k].bsd # None, ~IsHidden(Nodes[k].hidden),
           Nodes[k].iftype \in {"ether", "ieee1394"}, NEW keepHidden
    PROVE  FindMatching(Registry, Matching(Registry, "network", "bsd", Nodes[k].bsd), keepHidden) # <<>>
<1> DEFINE matching == Matching(Registry, "network", "bsd", Nodes[k].bsd)
           made == Made(Registry, matching, keepHidden)
<1>1. k \in matching /\ Registry[k] = Nodes[k] /\ k \in Nat
  BY NamesAssumption DEF Matching, Registry
<1>2. CreateInterface(Registry, Nodes[k], keepHidden) # NULL
  BY DEF CreateInterface, NetworkLayer, NULL
<1>3. made = {k}
  BY <1>1, <1>2, NamedOnce DEF Made
<1>4. FindMatching(Registry, matching, keepHidden) = <<CreateInterface(Registry, Nodes[k], keepHidden)>>
  BY <1>1, <1>3, ListOfOne
<1> QED  BY <1>4

-----------------------------------------------------------------------------
(* Stand-ins. *)

BareWith(b, e) ==
    /\ DOMAIN b = DOMAIN Blank
    /\ b.etype = Type(e) /\ b.esub = e.sub /\ b.dev = e.dev /\ b.uniq = e.uniq
    /\ b.parts = <<>> /\ b.path = <<>>

\* a stand-in begins with what the entity says
LEMMA BareIs == ASSUME NEW e, NEW search PROVE BareWith(Bare(e, search), e)
  BY DEF Bare, BareWith, Blank

\* a stand-in has the entity's names, and its type of hardware
StandsFor(s, e) ==
    /\ BareWith(s, e)
    /\ IF IsSerial(e) THEN s.type \in {"Bluetooth", "IrDA", "WWAN", "Modem"}
       ELSE s.type = IF e.type = "FireWire" THEN "FireWire"
                     ELSE IF e.hw = "AirPort" THEN "IEEE80211" ELSE "Ethernet"

\* there is a stand-in for every device, of the hardware that the entity tells
LEMMA StandsIn ==
    ASSUME NEW v, NEW e, NEW search, search.system,
           \/ e.type \in {"Ethernet", "FireWire"}
           \/ e.type = "PPP" /\ e.sub \in {"PPPoE", "PPPSerial"}
    PROVE  \E s : /\ StandIn(v, e, search) = <<s>> /\ StandsFor(s, e)
                  /\ IsSerial(e) /\ Head(e.dev) \notin {"irda", "irda-ircomm"} => s.type # "IrDA"
<1> DEFINE b == Bare(e, search)
<1>1. BareWith(b, e)
  BY BareIs
<1> HIDE DEF b
<1>2. CASE e.type = "Ethernet"
  <2>1. EthernetOrVirtual(v, e, search) = <<EthernetStandIn(b, e)>>
    BY DEF EthernetOrVirtual, b
  <2>2. PICK key, sort, builtin :
           EthernetStandIn(b, e) =
             Recast(b, IF e.hw = "AirPort" THEN "IEEE80211" ELSE "Ethernet", key, sort, builtin)
    BY EthernetShape
  <2> DEFINE s == EthernetStandIn(b, e)
  <2>3. StandsFor(s, e)
    BY <1>1, <1>2, <2>2 DEF StandsFor, BareWith, Recast, Blank, IsSerial
  <2>4. ~IsSerial(e)
    BY <1>2 DEF IsSerial
  <2> HIDE DEF s
  <2> QED  BY <1>2, <2>1, <2>3, <2>4, StandInOf DEF s
<1>3. CASE e.type = "FireWire"
  <2> DEFINE s == FireWireStandIn(e, search)
  <2>1. s = [b EXCEPT !.type = "FireWire", !.sort = "FireWire",
                      !.builtin = MatchesName(e.name, "firewire")]
    BY DEF FireWireStandIn, b
  <2> HIDE DEF s
  <2>2. StandsFor(s, e)
    BY <1>1, <1>3, <2>1 DEF StandsFor, BareWith, Blank, IsSerial
  <2>3. ~IsSerial(e)
    BY <1>3 DEF IsSerial
  <2> QED  BY <1>3, <2>2, <2>3, StandInOf DEF s
<1>4. CASE e.type = "PPP" /\ e.sub = "PPPoE"
  <2> DEFINE s == PPPoEStandIn(e, search)
             sort == IF e.hw = "AirPort" THEN "AirPort" ELSE "Ethernet"
  <2>1. s = [b EXCEPT !.sort = sort, !.type = IF sort = "AirPort" THEN "IEEE80211" ELSE sort]
    BY DEF PPPoEStandIn, b
  <2> HIDE DEF s
  <2>2. StandsFor(s, e)
    BY <1>1, <1>4, <2>1 DEF StandsFor, BareWith, Blank, IsSerial
  <2>3. ~IsSerial(e)
    BY <1>4 DEF IsSerial
  <2> QED  BY <1>4, <2>2, <2>3, StandInOf DEF s
<1>5. CASE e.type = "PPP" /\ e.sub = "PPPSerial"
  <2> DEFINE s == SerialStandIn(b, e)
             As(type) == [b EXCEPT !.type = type, !.sort = type]
  <2>1. \E type \in {"Bluetooth", "IrDA", "WWAN", "Modem"} :
           /\ s = As(type)
           /\ Head(e.dev) \notin {"irda", "irda-ircomm"} => type # "IrDA"
    <3> HIDE DEF As
    <3>1. s = CASE Head(e.dev) = "Bluetooth" -> As("Bluetooth")
                [] Head(e.dev) \in {"irda", "irda-ircomm"} -> As("IrDA")
                [] Head(e.dev) = "wwan" -> As("WWAN")
                [] OTHER -> As("Modem")
      BY DEF SerialStandIn, As
    <3> HIDE DEF s
    <3> QED  BY <3>1
  <2>2. PICK type \in {"Bluetooth", "IrDA", "WWAN", "Modem"} :
           /\ s = As(type)
           /\ Head(e.dev) \notin {"irda", "irda-ircomm"} => type # "IrDA"
    BY <2>1
  <2> HIDE DEF s
  <2>3. StandsFor(s, e) /\ s.type = type
    BY <1>1, <1>5, <2>2 DEF StandsFor, BareWith, Blank, IsSerial
  <2>4. StandIn(v, e, search) = <<s>>
    BY <1>5, StandInOf DEF IsSerial, s, b
  <2> QED  BY <2>2, <2>3, <2>4
<1> QED  BY <1>2, <1>3, <1>4, <1>5

-----------------------------------------------------------------------------
(* Layers and their entities. *)

\* sequences of two
LEMMA Two ==
    ASSUME NEW a, NEW b
    PROVE  /\ <<a>> \o <<b>> = <<a, b>>
           /\ SubSeq(<<a, b>>, 1, 2) = <<a, b>> /\ SubSeq(<<a, b>>, 2, 2) = <<b>>
<1> DEFINE S == {a, b}
           s == <<a, b>>
           join == <<a>> \o <<b>>
           tail == SubSeq(s, 2, 2)
<1>1. /\ <<a>> \in Seq(S) /\ <<b>> \in Seq(S) /\ s \in Seq(S)
      /\ Len(<<a>>) = 1 /\ Len(<<b>>) = 1 /\ Len(s) = 2 /\ s[1] = a /\ s[2] = b
      /\ <<b>>[1] = b
  OBVIOUS
<1>2. join \in Seq(S) /\ Len(join) = 2 /\ join[1] = a /\ join[2] = b
  BY <1>1
<1>3. SubSeq(s, 1, Len(s)) = s
  BY <1>1, SubSeqFull
<1>4. tail \in Seq(S) /\ Len(tail) = 1 /\ tail[1] = b
  <2> HIDE DEF s, S
  <2>1. \A i \in 2..2 : s[i] \in S
    BY <1>1 DEF S
  <2> QED  BY <1>1, <2>1, SubSeqProperties
<1> HIDE DEF join, tail
<1>5. join = s
  <2> HIDE DEF s
  <2>1. \A i \in 1..Len(join) : join[i] = s[i]
    BY <1>1, <1>2
  <2> QED  BY <1>1, <1>2, <2>1, SeqEqual
<1>6. tail = <<b>>
  <2> DEFINE t == <<b>>
  <2> HIDE DEF t
  <2>1. t \in Seq(S) /\ Len(t) = 1 /\ t[1] = b
    BY <1>1 DEF t
  <2>2. \A i \in 1..Len(tail) : tail[i] = t[i]
    BY <1>4, <2>1
  <2>3. tail = t
    BY <1>4, <2>1, <2>2, SeqEqual
  <2> QED  BY <2>3 DEF t
<1> QED  BY <1>1, <1>3, <1>5, <1>6 DEF join, tail

\* two layers for one device
Like(x, l) ==
    /\ DOMAIN x = DOMAIN Blank /\ DOMAIN l = DOMAIN Blank
    /\ x.type = l.type /\ x.etype = l.etype /\ x.esub = l.esub
    /\ x.dev = l.dev /\ x.uniq = l.uniq /\ x.hconf = l.hconf /\ x.parts = l.parts

\* the layer of PPP over another
PPPLayer(p, l) ==
    /\ DOMAIN p = DOMAIN Blank
    /\ p.type = "PPP" /\ p.etype = "PPP" /\ p.esub = PPPSubtype[l.type]
    /\ p.dev = l.dev /\ p.uniq = l.uniq /\ p.hconf = l.hconf /\ p.parts = <<>>

\* PPP keeps the name and the identifier of the layer below
LEMMA OverPPPIs ==
    ASSUME NEW l, DOMAIN l = DOMAIN Blank, l.type \in DOMAIN PPPSubtype
    PROVE  \E p : OverPPP(<<l>>) = <<p, l>> /\ PPPLayer(p, l)
<1> DEFINE b == Parent(<<l>>, "PPP", "PPP", PPPSubtype[l.type])
           p == [b EXCEPT !.dev = l.dev, !.uniq = l.uniq]
<1>1. Known(l.type)
  BY DEF Known
<1>2. OverPPP(<<l>>) = <<p, l>>
  <2> DEFINE i == <<l>>
             q == [Parent(i, "PPP", "PPP", PPPSubtype[l.type]) EXCEPT !.dev = l.dev, !.uniq = l.uniq]
  <2>1. i[1] = l
    OBVIOUS
  <2>2. OverPPP(i) = <<q>> \o i
    <3> HIDE DEF i
    <3> QED  BY <1>1, <2>1 DEF OverPPP
  <2> HIDE DEF q
  <2>3. <<q>> \o <<l>> = <<q, l>>
    BY Two
  <2> QED  BY <2>2, <2>3 DEF q
<1>3. /\ DOMAIN b = DOMAIN Blank
      /\ b.type = "PPP" /\ b.etype = "PPP" /\ b.esub = PPPSubtype[l.type]
      /\ b.hconf = l.hconf /\ b.parts = <<>>
  BY DEF Parent, Blank
<1> HIDE DEF b
<1>4. PPPLayer(p, l)
  BY <1>3 DEF PPPLayer, Blank
<1> HIDE DEF p
<1> QED  BY <1>2, <1>4

\* what an entity tells of an interface whose lowest layer is l, the top one t
Tells(e, t, l) ==
    /\ e.type = t.etype /\ e.sub = t.esub /\ e.dev = t.dev /\ e.uniq = t.uniq
    /\ e.hconf = t.hconf /\ e.hw = Hardware(l.type) /\ e.name = DisplayName(<<l>>)
    /\ e.without = {}

\* the entity of an interface of one layer
LEMMA EntityOfOne ==
    ASSUME NEW l, l.type # "IPv4"
    PROVE  Tells(CopyInterfaceEntity(<<l>>), l, l)
<1>1. Last(<<l>>) = l /\ <<l>>[1] = l
  BY DEF Last
<1> DEFINE i == <<l>>
           own == [Entity EXCEPT !.type = l.etype, !.sub = l.esub, !.dev = l.dev,
                                 !.uniq = l.uniq, !.hconf = l.hconf]
<1>2. CopyInterfaceEntity(i) = [own EXCEPT !.hw = Hardware(l.type), !.name = DisplayName(<<l>>)]
  <2> HIDE DEF i
  <2> QED  BY <1>1 DEF CopyInterfaceEntity, i
<1> QED  BY <1>2 DEF Tells, Entity

\* the entity of an interface of two layers
LEMMA EntityOfTwo ==
    ASSUME NEW t, NEW l, l.type # "IPv4"
    PROVE  Tells(CopyInterfaceEntity(<<t, l>>), t, l)
<1>1. Last(<<t, l>>) = l /\ <<t, l>>[1] = t
  BY DEF Last
<1> DEFINE i == <<t, l>>
           own == [Entity EXCEPT !.type = t.etype, !.sub = t.esub, !.dev = t.dev,
                                 !.uniq = t.uniq, !.hconf = t.hconf]
<1>2. CopyInterfaceEntity(i) = [own EXCEPT !.hw = Hardware(l.type), !.name = DisplayName(<<l>>)]
  <2> HIDE DEF i
  <2> QED  BY <1>1 DEF CopyInterfaceEntity, i
<1> QED  BY <1>2 DEF Tells, Entity

\* the interface over l that a service is made for, by its top layer
Over(m, t, l) ==
    /\ DOMAIN l = DOMAIN Blank /\ DOMAIN t = DOMAIN Blank
    /\ \/ m = <<l>> /\ t = l /\ l.etype \notin {"PPP", "VPN"} /\ l.type # "IPv4"
       \/ m = <<t, l>> /\ PPPLayer(t, l) /\ l.type \in DOMAIN PPPSubtype

\* what was found or stands in becomes an interface of the same kind
LEMMA Dressed ==
    ASSUME NEW y, DOMAIN y = DOMAIN Blank, NEW e, NEW search,
           \/ e.type \notin {"PPP", "VPN"}
           \/ e.type = "PPP" /\ y.type \in DOMAIN PPPSubtype
    PROVE  \E z : /\ Like(z, y) /\ z.path = y.path
                  /\ IF e.type = "PPP"
                     THEN \E p : Layered(Owned(<<y>>, e, search), e) = <<p, z>> /\ PPPLayer(p, z)
                     ELSE Layered(Owned(<<y>>, e, search), e) = <<z>>
<1> DEFINE z == IF search.service THEN [y EXCEPT !.owner = e.name] ELSE y
<1>1. Owned(<<y>>, e, search) = <<z>>
  BY DEF Owned, NULL
<1>2. Like(z, y) /\ z.path = y.path
  BY DEF Like, Blank
<1> HIDE DEF z
<1>3. CASE e.type \notin {"PPP", "VPN"}
  BY <1>1, <1>2, <1>3 DEF Layered
<1>4. CASE e.type = "PPP"
  <2>1. z.type \in DOMAIN PPPSubtype /\ DOMAIN z = DOMAIN Blank
    BY <1>2, <1>4 DEF Like
  <2>2. <<z>> # NULL /\ <<z>> # Loopback
    <3>1. z.type # "Loopback"
      BY <2>1 DEF PPPSubtype
    <3> QED  BY <3>1 DEF Loopback, NULL, Blank
  <2>3. "PPP" \notin Vendors
    BY VendorsAssumption DEF Known
  <2>4. CreateWithInterface(<<z>>, "PPP") = OverPPP(<<z>>)
    <3> DEFINE i == <<z>>
    <3> HIDE DEF i
    <3>1. i # NULL /\ i # Loopback
      BY <2>2 DEF i
    <3> QED  BY <2>3, <3>1 DEF CreateWithInterface, i
  <2>5. Layered(<<z>>, e) = OverPPP(<<z>>)
    BY <1>4, <2>4 DEF Layered
  <2> QED  BY <1>1, <1>2, <1>4, <2>1, <2>5, OverPPPIs
<1> QED  BY <1>3, <1>4

-----------------------------------------------------------------------------
(* What is found for a name. *)

\* what a thread's cache holds: for a name the one device that has it, or nothing
FoundInv ==
    /\ present \subseteq DOMAIN Nodes /\ virtual \subseteq Virtuals
    /\ cache = [open |-> cache.open, found |-> cache.found]
    /\ ~cache.open => DOMAIN cache.found = {}
    /\ \A d \in DOMAIN cache.found : \A list :
          d # None /\ list = cache.found[d] => NetList(list, d)

\* the cached list is one that the registry gave for the name
LEMMA ListKnown ==
    ASSUME FoundInv, NEW e, e.dev # None, NEW search
    PROVE  NetList(NetworkInterfaces(Registry, cache, e, search), e.dev)
<1>1. CASE e.dev \in DOMAIN cache.found
  BY <1>1 DEF NetworkInterfaces, FoundInv
<1>2. CASE e.dev \notin DOMAIN cache.found
  <2>1. NetworkInterfaces(Registry, cache, e, search) =
          FindMatching(Registry, Matching(Registry, "network", "bsd", e.dev), search.keepHidden)
    BY <1>2 DEF NetworkInterfaces
  <2>2. present \subseteq DOMAIN Nodes
    BY DEF FoundInv
  <2> QED  BY <2>1, <2>2, ListForName
<1> QED  BY <1>1, <1>2

\* the choice from an empty list
LEMMA ChooseNone ==
    ASSUME NEW v, NEW e
    PROVE  Choose(<<>>, v, e) = IF Type(e) # "Ethernet" \/ e.name = BTPAN THEN NULL
                                ELSE FindVirtual(v, e.dev, e.without)
<1> DEFINE list == <<>>
<1>1. Len(list) = 0
  OBVIOUS
<1> HIDE DEF list
<1>2. Choose(list, v, e) = IF Type(e) # "Ethernet" \/ e.name = BTPAN THEN NULL
                           ELSE FindVirtual(v, e.dev, e.without)
  BY <1>1 DEF Choose
<1> QED  BY <1>2 DEF list

\* the choice from a list of one
LEMMA ChooseOne ==
    ASSUME NEW v, NEW e, NEW x
    PROVE  Choose(<<<<x>>>>, v, e) =
             IF x.uniq = e.uniq THEN <<x>>
             ELSE IF Type(e) # "Ethernet" \/ e.name = BTPAN THEN NULL
             ELSE FindVirtual(v, e.dev, e.without)
<1> DEFINE i == <<x>>
           list == <<i>>
<1>1. i[1] = x
  OBVIOUS
<1> HIDE DEF i
<1>2. Len(list) = 1 /\ list[1] = i
  OBVIOUS
<1> HIDE DEF list
<1>3. Choose(list, v, e) = IF x.uniq = e.uniq THEN i
                           ELSE IF Type(e) # "Ethernet" \/ e.name = BTPAN THEN NULL
                           ELSE FindVirtual(v, e.dev, e.without)
  BY <1>1, <1>2 DEF Choose
<1> QED  BY <1>3 DEF list, i

\* who looks in the system gets a choice from the list
LEMMA FoundIs ==
    ASSUME NEW reg, NEW v, NEW c, NEW e, NEW search, search.system
    PROVE  /\ IsNetwork(e) /\ e.dev # <<"lo", "0">> =>
                Found(reg, v, c, e, search) = Choose(NetworkInterfaces(reg, c, e, search), v, e)
           /\ IsSerial(e) =>
                Found(reg, v, c, e, search) = Choose(SerialInterfaces(reg, e, search), v, e)
<1>1. ~(IsNetwork(e) /\ IsSerial(e))
  BY DEF IsNetwork, IsSerial, Type
<1>2. FromSystem(reg, v, c, e, search) =
        Choose(IF IsNetwork(e) THEN NetworkInterfaces(reg, c, e, search)
               ELSE SerialInterfaces(reg, e, search), v, e)
  BY DEF FromSystem
<1>3. ASSUME IsNetwork(e), e.dev # <<"lo", "0">>
      PROVE  Found(reg, v, c, e, search) = FromSystem(reg, v, c, e, search)
  <2>1. IsCached(e, search)
    BY <1>3 DEF IsCached
  <2>2. e.type \notin {"6to4", "IPSec", "Loopback", "VPN"} /\ e.type \notin Vendors
    BY <1>3, VendorsAssumption DEF IsNetwork, Type, Known, PPPSubtype
  <2> QED  BY <1>1, <1>3, <2>1, <2>2 DEF Found
<1>4. ASSUME IsSerial(e)
      PROVE  Found(reg, v, c, e, search) = FromSystem(reg, v, c, e, search)
  <2>1. e.type = "PPP" /\ "PPP" \notin Vendors
    BY <1>4, VendorsAssumption DEF IsSerial, Known
  <2> QED  BY <1>1, <1>4, <2>1 DEF Found
<1> QED  BY <1>1, <1>2, <1>3, <1>4

\* what is found for a name: the device, a virtual interface, or nothing
LEMMA NetFound ==
    ASSUME FoundInv, NEW e, IsNetwork(e), e.dev \notin {None, <<"lo", "0">>},
           e.uniq = None, e.without = {}, NEW search, search.system,
           NEW list, list = NetworkInterfaces(Registry, cache, e, search),
           NEW f, f = Found(Registry, virtual, cache, e, search)
    PROVE  \/ /\ list = <<>>
              /\ f = IF Type(e) # "Ethernet" \/ e.name = BTPAN THEN NULL
                     ELSE FindVirtual(virtual, e.dev, {})
           \/ \E x, k : NetLeaf(x, k) /\ Nodes[k].bsd = e.dev /\ f = <<x>>
<1>1. f = Choose(list, virtual, e)
  BY FoundIs
<1>2. NetList(list, e.dev)
  BY ListKnown
<1>3. CASE list = <<>>
  BY <1>1, <1>3, ChooseNone
<1>4. CASE list # <<>>
  <2>1. PICK x, k : NetLeaf(x, k) /\ Nodes[k].bsd = e.dev /\ list = <<<<x>>>>
    BY <1>2, <1>4 DEF NetList
  <2>2. x.uniq = None
    BY <2>1 DEF NetLeaf
  <2>3. f = <<x>>
    BY <1>1, <2>1, <2>2, ChooseOne
  <2> QED  BY <2>1, <2>3
<1> QED  BY <1>3, <1>4

\* an answer is what was found, or the stand-in, as an interface
LEMMA AnswerFound ==
    ASSUME NEW e, ~Rejected(e), NEW search, search.system,
           NEW i, i # NULL, Found(Registry, virtual, cache, e, search) = i
    PROVE  Answer(e, search) = Layered(Owned(i, e, search), e)
<1> DEFINE stand == StandIn(virtual, e, search)
<1>1. Answer(e, search) = Layered(Owned(Filled(i, stand, e, search), e, search), e)
  BY DEF Answer, CreateWithEntity
<1> QED  BY <1>1 DEF Filled

\* when nothing is found the answer is the stand-in
LEMMA AnswerStands ==
    ASSUME NEW e, ~Rejected(e), NEW search, search.system,
           Found(Registry, virtual, cache, e, search) = NULL,
           NEW s, StandIn(virtual, e, search) = <<s>>
    PROVE  Answer(e, search) = Layered(Owned(<<[s EXCEPT !.hconf = e.hconf]>>, e, search), e)
<1> DEFINE one == <<s>>
           y == [s EXCEPT !.hconf = e.hconf]
           filled == Filled(NULL, one, e, search)
<1>1. Answer(e, search) = Layered(Owned(filled, e, search), e)
  BY DEF Answer, CreateWithEntity
<1>2. filled = [one EXCEPT ![1].hconf = e.hconf]
  BY DEF Filled, NULL
<1>3. [one EXCEPT ![1].hconf = e.hconf] = <<y>>
  OBVIOUS
<1> HIDE DEF y, filled
<1>4. filled = <<y>>
  BY <1>2, <1>3
<1> QED  BY <1>1, <1>4 DEF y

-----------------------------------------------------------------------------
(* What answers suit. *)

\* a layer for the device that an entity of l tells
Suits(y, l, e) ==
    /\ DOMAIN y = DOMAIN Blank
    /\ y.dev = l.dev /\ y.uniq = l.uniq /\ y.hconf = l.hconf
    /\ Hardware(y.type) = Hardware(l.type) /\ y.type # "IPv4"
    /\ IF e.type = "PPP"
       THEN y.type \in DOMAIN PPPSubtype /\ PPPSubtype[y.type] = PPPSubtype[l.type]
       ELSE y.etype = l.etype /\ y.esub = l.esub

\* a layer for the very device
Exactly(y, l) == y.type = l.type /\ y.parts = l.parts /\ y.path = l.path

\* a layer that is found by its name among the network interfaces
Device(l) ==
    /\ DOMAIN l = DOMAIN Blank
    /\ l.uniq = None /\ l.esub = "" /\ l.dev \notin {None, <<"lo", "0">>}
    /\ l.etype = IF l.type = "FireWire" THEN "FireWire" ELSE "Ethernet"
    /\ l.type \in {"Ethernet", "IEEE80211", "FireWire", "Bond", "Bridge", "VLAN"}

\* the type of hardware that an entity tells
LEMMA HardwareTold ==
    /\ Hardware("Ethernet") = "Ethernet" /\ Hardware("IEEE80211") = "AirPort"
    /\ Hardware("FireWire") = "FireWire" /\ Hardware("Bond") = "Ethernet"
    /\ Hardware("Bridge") = "Ethernet" /\ Hardware("VLAN") = "Ethernet"
    /\ Hardware("Modem") = "Modem" /\ Hardware("Bluetooth") = "Modem" /\ Hardware("WWAN") = "Modem"
  BY DEF Hardware

\* the subtype of PPP that an entity tells
LEMMA SubtypeTold ==
    /\ DOMAIN PPPSubtype = {"Bluetooth", "Modem", "Serial", "WWAN", "Ethernet", "IEEE80211",
                            "VLAN", "L2TP", "PPTP"}
    /\ \A type \in {"Bluetooth", "Modem", "Serial", "WWAN"} : PPPSubtype[type] = "PPPSerial"
    /\ \A type \in {"Ethernet", "IEEE80211", "VLAN"} : PPPSubtype[type] = "PPPoE"
    /\ PPPSubtype["L2TP"] = "L2TP" /\ PPPSubtype["PPTP"] = "PPTP"
  BY DEF PPPSubtype

\* the entity of a network interface, or of PPPoE over it, names the device
LEMMA NetEntity ==
    ASSUME NEW l, Device(l), NEW m, NEW t, Over(m, t, l), NEW e, Tells(e, t, l)
    PROVE  /\ IsNetwork(e) /\ ~IsSerial(e) /\ ~Rejected(e)
           /\ e.dev = l.dev /\ e.uniq = None /\ e.without = {} /\ e.hconf = l.hconf
           /\ e.hw = Hardware(l.type) /\ e.name = DisplayName(<<l>>)
           /\ \/ m = <<l>> /\ e.type = l.etype /\ e.sub = "" /\ e.type \in {"Ethernet", "FireWire"}
              \/ m = <<t, l>> /\ e.type = "PPP" /\ e.sub = "PPPoE"
                 /\ l.type \in {"Ethernet", "IEEE80211", "VLAN"}
<1>1. CASE m = <<l>> /\ t = l
  BY <1>1 DEF Device, Tells, IsNetwork, IsSerial, Rejected, Type
<1>2. CASE m = <<t, l>> /\ PPPLayer(t, l) /\ l.type \in DOMAIN PPPSubtype
  <2>1. l.type \in {"Ethernet", "IEEE80211", "VLAN"} /\ PPPSubtype[l.type] = "PPPoE"
    BY <1>2, SubtypeTold DEF Device
  <2> QED  BY <1>2, <2>1 DEF Device, Tells, PPPLayer, IsNetwork, IsSerial, Rejected, Type
<1> QED  BY <1>1, <1>2 DEF Over

\* the stand-in for a network interface suits it
LEMMA NetStandInSuits ==
    ASSUME NEW l, Device(l), NEW m, NEW t, Over(m, t, l), NEW e, Tells(e, t, l),
           NEW s, StandsFor(s, e)
    PROVE  Suits([s EXCEPT !.hconf = e.hconf], l, e)
<1> DEFINE y == [s EXCEPT !.hconf = e.hconf]
<1>1. /\ ~IsSerial(e) /\ e.dev = l.dev /\ e.uniq = None /\ e.hconf = l.hconf
      /\ e.hw = Hardware(l.type)
      /\ \/ m = <<l>> /\ e.type = l.etype /\ e.sub = "" /\ e.type \in {"Ethernet", "FireWire"}
         \/ m = <<t, l>> /\ e.type = "PPP" /\ e.sub = "PPPoE"
            /\ l.type \in {"Ethernet", "IEEE80211", "VLAN"}
  BY NetEntity
<1>2. /\ s.type = IF e.type = "FireWire" THEN "FireWire"
                  ELSE IF e.hw = "AirPort" THEN "IEEE80211" ELSE "Ethernet"
      /\ DOMAIN s = DOMAIN Blank
      /\ s.etype = Type(e) /\ s.esub = e.sub /\ s.dev = e.dev /\ s.uniq = e.uniq
  BY <1>1 DEF StandsFor, BareWith
<1>3. /\ DOMAIN y = DOMAIN Blank /\ y.hconf = e.hconf
      /\ y.type = s.type /\ y.etype = s.etype /\ y.esub = s.esub /\ y.dev = s.dev /\ y.uniq = s.uniq
  BY <1>2 DEF Blank
<1> HIDE DEF y
<1>4. Hardware(s.type) = Hardware(l.type) /\ s.type \in {"FireWire", "IEEE80211", "Ethernet"}
  <2>1. e.type = "FireWire" => l.type = "FireWire"
    BY <1>1 DEF Device
  <2>2. l.type = "FireWire" => e.type = "FireWire"
    BY <1>1 DEF Device
  <2> QED  BY <1>1, <1>2, <2>1, <2>2, HardwareTold DEF Device
<1>5. ASSUME e.type = "PPP"
      PROVE  Suits(y, l, e)
  <2>1. s.type \in {"IEEE80211", "Ethernet"} /\ l.type \in {"Ethernet", "IEEE80211", "VLAN"}
    BY <1>1, <1>2, <1>5
  <2>2. s.type \in DOMAIN PPPSubtype /\ PPPSubtype[s.type] = PPPSubtype[l.type]
    BY <2>1, SubtypeTold
  <2> QED  BY <1>1, <1>2, <1>3, <1>4, <1>5, <2>2 DEF Suits, Device
<1>6. ASSUME e.type # "PPP"
      PROVE  Suits(y, l, e)
  <2>1. Type(e) = l.etype /\ e.sub = l.esub
    BY <1>1, <1>6 DEF Type, Device
  <2> QED  BY <1>1, <1>2, <1>3, <1>4, <1>6, <2>1 DEF Suits, Device
<1> QED  BY <1>5, <1>6 DEF y

\* a device of the registry
LEMMA NetDevice ==
    ASSUME NEW l, NEW k, NetLeaf(l, k), l.dev # None
    PROVE  Device(l)
<1>1. Nodes[k].bsd # <<"lo", "0">>
  BY NamesAssumption DEF NetLeaf
<1> QED  BY <1>1 DEF NetLeaf, Device, NetType

\* the bonds, bridges and VLANs have names of their own
LEMMA OwnNames ==
    /\ \A v \in Virtuals, k \in DOMAIN Nodes : Nodes[k].kind = "network" => Nodes[k].bsd # v[1].dev
    /\ \A v, w \in Virtuals : w[1].dev = v[1].dev => w = v
  BY VirtualsAssumption, Zenon

\* a layer of the same type suits too
LEMMA SameLeafSuits ==
    ASSUME NEW l, Device(l), NEW m, NEW t, Over(m, t, l), NEW e, Tells(e, t, l),
           NEW y, DOMAIN y = DOMAIN Blank, y.type = l.type, y.etype = l.etype, y.esub = l.esub,
           y.dev = l.dev, y.uniq = l.uniq, y.hconf = l.hconf
    PROVE  Suits(y, l, e)
<1>1. e.type = "PPP" => l.type \in {"Ethernet", "IEEE80211", "VLAN"}
  BY NetEntity
<1>2. l.type \in {"Ethernet", "IEEE80211", "VLAN"} => l.type \in DOMAIN PPPSubtype
  BY SubtypeTold
<1>3. l.type # "IPv4"
  BY DEF Device
<1> QED  BY <1>1, <1>2, <1>3 DEF Suits

\* a network interface is found again
LEMMA NetAnswer ==
    ASSUME FoundInv, NEW l, NEW k, NetLeaf(l, k), l.dev # None,
           NEW m, NEW t, Over(m, t, l), NEW e, Tells(e, t, l), NEW search, search.system
    PROVE  \E y : /\ Answer(e, search) = Layered(Owned(<<y>>, e, search), e)
                  /\ Suits(y, l, e)
                  /\ ~cache.open /\ k \in present /\ ~IsHidden(Nodes[k].hidden) => Exactly(y, l)
<1>1. Device(l)
  BY NetDevice
<1>2. /\ IsNetwork(e) /\ ~Rejected(e) /\ e.dev = l.dev /\ e.uniq = None /\ e.without = {}
      /\ \/ e.type \in {"Ethernet", "FireWire"}
         \/ e.type = "PPP" /\ e.sub = "PPPoE"
  BY <1>1, NetEntity
<1>3. e.dev \notin {None, <<"lo", "0">>} /\ e.dev = Nodes[k].bsd
  BY <1>1, <1>2 DEF Device, NetLeaf
<1>4. PICK s : StandIn(virtual, e, search) = <<s>> /\ StandsFor(s, e)
  BY <1>2, StandsIn
<1>5. Suits([s EXCEPT !.hconf = e.hconf], l, e)
  BY <1>1, <1>4, NetStandInSuits
<1> DEFINE list == NetworkInterfaces(Registry, cache, e, search)
           f == Found(Registry, virtual, cache, e, search)
<1>6. \/ /\ list = <<>>
         /\ f = IF Type(e) # "Ethernet" \/ e.name = BTPAN THEN NULL
                ELSE FindVirtual(virtual, e.dev, {})
      \/ \E x, j : NetLeaf(x, j) /\ Nodes[j].bsd = e.dev /\ f = <<x>>
  BY <1>2, <1>3, NetFound
<1>7. ~cache.open /\ k \in present /\ ~IsHidden(Nodes[k].hidden) => list # <<>>
  <2> SUFFICES ASSUME ~cache.open, k \in present, ~IsHidden(Nodes[k].hidden) PROVE list # <<>>
    OBVIOUS
  <2>1. list = FindMatching(Registry, Matching(Registry, "network", "bsd", e.dev), search.keepHidden)
    BY DEF NetworkInterfaces, FoundInv
  <2> QED  BY <1>3, <2>1, ListOfAttached DEF NetLeaf, FoundInv
<1> HIDE DEF list
<1>8. CASE \E x, j : NetLeaf(x, j) /\ Nodes[j].bsd = e.dev /\ f = <<x>>
  <2>1. PICK x, j : NetLeaf(x, j) /\ Nodes[j].bsd = e.dev /\ f = <<x>>
    BY <1>8
  <2>2. j = k
    <3>1. Differ("network", "bsd")
      BY NamesAssumption
    <3> QED  BY <1>3, <2>1, <3>1 DEF Differ, NetLeaf
  <2>3. Suits(x, l, e) /\ Exactly(x, l)
    <3>1. /\ DOMAIN x = DOMAIN Blank /\ x.type = l.type /\ x.etype = l.etype /\ x.esub = l.esub
          /\ x.dev = l.dev /\ x.uniq = l.uniq /\ x.hconf = l.hconf
          /\ x.parts = l.parts /\ x.path = l.path
      BY <2>1, <2>2 DEF NetLeaf
    <3> QED  BY <1>1, <3>1, SameLeafSuits DEF Exactly
  <2>4. Answer(e, search) = Layered(Owned(<<x>>, e, search), e)
    <3> DEFINE i == <<x>>
    <3>1. i # NULL
      BY DEF NULL
    <3> HIDE DEF i
    <3>2. Answer(e, search) = Layered(Owned(i, e, search), e)
      BY <1>2, <2>1, <3>1, AnswerFound DEF i
    <3> QED  BY <3>2 DEF i
  <2> QED  BY <2>3, <2>4
<1>9. CASE /\ list = <<>>
           /\ f = IF Type(e) # "Ethernet" \/ e.name = BTPAN THEN NULL
                  ELSE FindVirtual(virtual, e.dev, {})
  <2>1. \A v \in virtual : v[1].dev # e.dev
    <3>1. k \in DOMAIN Nodes /\ Nodes[k].kind = "network" /\ virtual \subseteq Virtuals
      BY DEF FoundInv, NetLeaf
    <3> QED  BY <1>3, <3>1, OwnNames
  <2>2. f = NULL
    BY <1>9, <2>1, FindsNoVirtual
  <2>3. Answer(e, search) = Layered(Owned(<<[s EXCEPT !.hconf = e.hconf]>>, e, search), e)
    BY <1>2, <1>4, <2>2, AnswerStands
  <2> QED  BY <1>5, <1>7, <1>9, <2>3
<1> QED  BY <1>6, <1>8, <1>9

\* an interface of one layer is shown by its key
LEMMA KeyNames ==
    ASSUME NEW l, l.name = None, l.key # None
    PROVE  DisplayName(<<l>>) = l.key
<1>1. Told(<<l>>) = {1}
  BY DEF Told
<1>2. Cardinality(Told(<<l>>)) = 1
  BY <1>1, FS_Singleton
<1>3. LayerName(<<l>>, 1) = l.key
  BY DEF LayerName
<1>4. [k \in 1..1 |-> LayerName(<<l>>, k)] = <<LayerName(<<l>>, 1)>>
  OBVIOUS
<1> QED  BY <1>2, <1>3, <1>4, FlattenOne DEF DisplayName

\* a bond, a bridge or a VLAN
LEMMA VirtualFields ==
    ASSUME NEW l, <<l>> \in Virtuals
    PROVE  /\ Device(l) /\ Over(<<l>>, l, l) /\ DisplayName(<<l>>) # BTPAN
           /\ l.type \in {"Bond", "Bridge", "VLAN"} /\ l.path = <<>>
           /\ l.sort = l.type /\ l.builtin = TRUE /\ l.loc = None /\ l.uniq = None
<1> DEFINE v == <<l>>
<1>1. v[1] = l
  OBVIOUS
<1> HIDE DEF v
<1>2. /\ v = VirtualInterface(l.type, l.dev, l.parts, Head(l.key))
      /\ l.type \in {"Bond", "Bridge", "VLAN"} /\ Head(l.key) \in {"bond", "bridge", "vlan"}
      /\ l.dev \in Text \ {None, <<"lo", "0">>}
  <2>1. v \in Virtuals
    BY DEF v
  <2> QED  BY <1>1, <2>1, VirtualsAssumption, Zenon
<1> DEFINE b(type, dev, parts, key) ==
             [Blank EXCEPT !.type = type, !.etype = "Ethernet", !.dev = dev, !.builtin = TRUE,
                           !.sort = type, !.key = key, !.parts = parts]
<1>3. l = b(l.type, l.dev, l.parts, <<Head(l.key)>> \o l.dev)
  <2> DEFINE type == l.type  dev == l.dev  parts == l.parts  key == <<Head(l.key)>> \o l.dev
  <2>1. v = <<b(type, dev, parts, key)>>
    BY <1>2 DEF VirtualInterface
  <2> HIDE DEF b, type, dev, parts, key
  <2>2. v[1] = b(type, dev, parts, key)
    BY <2>1
  <2> QED  BY <1>1, <2>2 DEF type, dev, parts, key
<1>4. /\ DOMAIN l = DOMAIN Blank /\ l.uniq = None /\ l.esub = "" /\ l.etype = "Ethernet"
      /\ l.path = <<>> /\ l.name = None /\ l.key = <<Head(l.key)>> \o l.dev
      /\ l.sort = l.type /\ l.builtin = TRUE /\ l.loc = None
  <2> DEFINE type == l.type  dev == l.dev  parts == l.parts  key == <<Head(l.key)>> \o l.dev
  <2>1. l = b(type, dev, parts, key)
    BY <1>3
  <2> HIDE DEF type, dev, parts, key
  <2>2. /\ DOMAIN l = DOMAIN Blank /\ l.uniq = None /\ l.esub = "" /\ l.etype = "Ethernet"
        /\ l.path = <<>> /\ l.name = None /\ l.key = key
        /\ l.sort = type /\ l.builtin = TRUE /\ l.loc = None
    BY <2>1 DEF Blank
  <2> QED  BY <2>2 DEF key, type
<1>5. Device(l)
  BY <1>2, <1>4 DEF Device
<1>6. Over(<<l>>, l, l)
  BY <1>2, <1>4 DEF Over
<1>7. l.key # None /\ l.key # BTPAN
  <2>1. Head(BTPAN) = "bluetooth-pan-gn" /\ Head(l.key) # "bluetooth-pan-gn"
    BY <1>2 DEF BTPAN
  <2>2. l.key # None
    <3> DEFINE S == ToSet(Alphabet) \cup {Head(l.key)}
    <3>1. <<Head(l.key)>> \in Seq(S) /\ l.dev \in Seq(S)
      BY <1>2 DEF Text
    <3> HIDE DEF S
    <3> DEFINE key == <<Head(l.key)>> \o l.dev
    <3>2. Len(key) = 1 + Len(l.dev) /\ Len(l.dev) \in Nat
      BY <3>1
    <3>3. l.key = key
      BY <1>4
    <3> HIDE DEF key
    <3> QED  BY <3>2, <3>3 DEF None
  <2> QED  BY <2>1, <2>2
<1>8. DisplayName(<<l>>) = l.key
  BY <1>4, <1>7, KeyNames
<1> QED  BY <1>2, <1>4, <1>5, <1>6, <1>7, <1>8

\* a bond, a bridge or a VLAN is found again
LEMMA VirtualAnswer ==
    ASSUME FoundInv, NEW l, <<l>> \in Virtuals, NEW e, Tells(e, l, l), NEW search, search.system
    PROVE  \E y : /\ Answer(e, search) = Layered(Owned(<<y>>, e, search), e)
                  /\ Suits(y, l, e)
                  /\ <<l>> \in virtual => Exactly(y, l)
<1>1. /\ Device(l) /\ Over(<<l>>, l, l) /\ DisplayName(<<l>>) # BTPAN
      /\ l.type \in {"Bond", "Bridge", "VLAN"} /\ l.path = <<>>
  BY VirtualFields
<1>2. /\ IsNetwork(e) /\ ~Rejected(e) /\ e.dev = l.dev /\ e.uniq = None /\ e.without = {}
      /\ e.name # BTPAN
  BY <1>1, NetEntity
<1>8. e.type = "Ethernet" /\ Type(e) = "Ethernet"
  BY <1>1 DEF Tells, Device, Type
<1>3. PICK s : StandIn(virtual, e, search) = <<s>> /\ StandsFor(s, e)
  BY <1>8, StandsIn
<1>4. Suits([s EXCEPT !.hconf = e.hconf], l, e)
  BY <1>1, <1>3, NetStandInSuits
<1> DEFINE v == <<l>>
<1>5. v[1] = l /\ v \in Virtuals
  OBVIOUS
<1> HIDE DEF v
<1>6. Found(Registry, virtual, cache, e, search) = FindVirtual(virtual, l.dev, {})
  <2>1. e.dev \notin {None, <<"lo", "0">>}
    BY <1>1, <1>2 DEF Device
  <2>2. ASSUME NEW x, NEW k, NetLeaf(x, k) PROVE Nodes[k].bsd # e.dev
    BY <1>2, <1>5, <2>2, OwnNames DEF NetLeaf
  <2> QED  BY <1>2, <1>8, <2>1, <2>2, NetFound
<1>7. \A w \in virtual : w[1].dev = l.dev => w = v
  BY <1>5, OwnNames DEF FoundInv
<1>9. CASE v \in virtual
  <2>1. {w \in virtual : w[1].dev = l.dev /\ w[1].type \notin {}} = {v}
    BY <1>5, <1>7, <1>9
  <2>2. FindVirtual(virtual, l.dev, {}) = v
    BY <2>1 DEF FindVirtual
  <2>3. v # NULL
    BY DEF v, NULL
  <2>4. Answer(e, search) = Layered(Owned(v, e, search), e)
    BY <1>2, <1>6, <2>2, <2>3, AnswerFound
  <2>5. Suits(l, l, e) /\ Exactly(l, l)
    <3>1. DOMAIN l = DOMAIN Blank
      BY <1>1 DEF Device
    <3> QED  BY <1>1, <3>1, SameLeafSuits DEF Exactly
  <2> QED  BY <2>4, <2>5 DEF v
<1>10. CASE v \notin virtual
  <2>1. {w \in virtual : w[1].dev = l.dev /\ w[1].type \notin {}} = {}
    BY <1>7, <1>10
  <2>2. FindVirtual(virtual, l.dev, {}) = NULL
    BY <2>1 DEF FindVirtual
  <2>3. Answer(e, search) = Layered(Owned(<<[s EXCEPT !.hconf = e.hconf]>>, e, search), e)
    BY <1>2, <1>3, <1>6, <2>2, AnswerStands
  <2> QED  BY <1>4, <1>10, <2>3 DEF v
<1> QED  BY <1>9, <1>10

\* the stand-in for the Bluetooth PAN
PANLeaf(l) ==
    /\ DOMAIN l = DOMAIN Blank
    /\ l.type = "Ethernet" /\ l.etype = "Ethernet" /\ l.esub = ""
    /\ l.dev = PANName /\ l.uniq = None /\ l.hconf = FALSE /\ l.parts = <<>> /\ l.path = <<>>
    /\ l.key = BTPAN /\ l.name = None
    /\ l.sort = "BluetoothPAN_GN" /\ l.loc = None /\ l.builtin = FALSE

\* a Bluetooth PAN without a device gets a device or a stand-in that suits it
LEMMA PANAnswer ==
    ASSUME FoundInv, NEW l, PANLeaf(l), l.dev # None, NEW m, NEW t, Over(m, t, l),
           NEW e, Tells(e, t, l), NEW search, search.system
    PROVE  \E y : /\ Answer(e, search) = Layered(Owned(<<y>>, e, search), e)
                  /\ Suits(y, l, e)
<1>1. Device(l)
  BY VirtualsAssumption DEF PANLeaf, Device
<1>2. /\ IsNetwork(e) /\ ~Rejected(e) /\ e.dev = l.dev /\ e.uniq = None /\ e.without = {}
      /\ e.name = BTPAN
      /\ \/ e.type \in {"Ethernet", "FireWire"}
         \/ e.type = "PPP" /\ e.sub = "PPPoE"
  <2>1. DisplayName(<<l>>) = BTPAN
    <3>1. BTPAN # None
      BY DEF BTPAN, None
    <3>2. l.key # None /\ l.key = BTPAN /\ l.name = None
      BY <3>1 DEF PANLeaf
    <3> QED  BY <3>2, KeyNames
  <2> QED  BY <1>1, <2>1, NetEntity
<1>3. PICK s : StandIn(virtual, e, search) = <<s>> /\ StandsFor(s, e)
  BY <1>2, StandsIn
<1>4. Suits([s EXCEPT !.hconf = e.hconf], l, e)
  BY <1>1, <1>3, NetStandInSuits
<1> DEFINE f == Found(Registry, virtual, cache, e, search)
<1>5. f = NULL \/ \E x, k : NetLeaf(x, k) /\ Nodes[k].bsd = e.dev /\ f = <<x>>
  <2>1. e.dev \notin {None, <<"lo", "0">>}
    BY <1>1, <1>2 DEF Device
  <2> QED  BY <1>2, <2>1, NetFound
<1>6. CASE f = NULL
  <2>1. Answer(e, search) = Layered(Owned(<<[s EXCEPT !.hconf = e.hconf]>>, e, search), e)
    BY <1>2, <1>3, <1>6, AnswerStands
  <2> QED  BY <1>4, <2>1
<1>7. CASE \E x, k : NetLeaf(x, k) /\ Nodes[k].bsd = e.dev /\ f = <<x>>
  <2>1. PICK x, k : NetLeaf(x, k) /\ Nodes[k].bsd = e.dev /\ f = <<x>>
    BY <1>7
  <2>2. /\ Nodes[k].iftype = "ether" /\ EthernetSort(Nodes[k]) = "BluetoothPAN_GN"
        /\ ~IsHidden(Nodes[k].hconf)
    <3>1. k \in DOMAIN Nodes /\ Nodes[k].kind = "network" /\ Nodes[k].bsd = PANName /\ PANName # None
      BY <1>2, <2>1 DEF NetLeaf, PANLeaf
    <3> QED  BY <3>1, VirtualsAssumption, Zenon
  <2>3. /\ DOMAIN x = DOMAIN Blank /\ x.type = l.type /\ x.etype = l.etype /\ x.esub = l.esub
        /\ x.dev = l.dev /\ x.uniq = l.uniq /\ x.hconf = l.hconf
    <3>1. IsHidden(Nodes[k].hconf) = FALSE
      BY <2>2, Zenon DEF IsHidden
    <3> QED  BY <1>2, <2>1, <2>2, <3>1 DEF NetLeaf, PANLeaf, NetType
  <2>4. Suits(x, l, e)
    BY <1>1, <2>3, SameLeafSuits
  <2>5. Answer(e, search) = Layered(Owned(<<x>>, e, search), e)
    <3> DEFINE i == <<x>>
    <3>1. i # NULL
      BY DEF NULL
    <3> HIDE DEF i
    <3>2. Answer(e, search) = Layered(Owned(i, e, search), e)
      BY <1>2, <2>1, <3>1, AnswerFound DEF i
    <3> QED  BY <3>2 DEF i
  <2> QED  BY <2>4, <2>5
<1> QED  BY <1>5, <1>6, <1>7

-----------------------------------------------------------------------------
(* Serial ports. *)

\* the layer of a serial port that is not hidden
PortLeaf(l, k) ==
    /\ k \in DOMAIN Nodes /\ Nodes[k].kind = "serial" /\ ~IsHidden(Nodes[k].hidden)
    /\ SerialLayer(Nodes[k]) = <<l>> /\ l.type # "IrDA"

\* what a layer has of its port
PortFields(l, n) ==
    /\ DOMAIN l = DOMAIN Blank
    /\ l.type = SerialType(n) /\ l.etype = "Modem" /\ l.esub = ""
    /\ l.dev = IF n.unique = None THEN n.tty ELSE Base(n)
    /\ l.uniq = n.unique /\ l.hconf = IsHidden(n.hconf) /\ l.parts = <<>> /\ l.path = n.path

\* processSerialInterface makes one layer of a port
LEMMA SerialShape ==
    ASSUME NEW n, SerialLayer(n) # NULL
    PROVE  /\ \E x : SerialLayer(n) = <<x>> /\ PortFields(x, n)
           /\ n.tty # None /\ Base(n) # <<"irda">>
           /\ SerialType(n) \in {"Bluetooth", "IrDA", "WWAN", "Modem"}
<1> DEFINE b == Entry(n)
           As(type, sort, builtin, dev, key, name, script) ==
             [b EXCEPT !.type = type, !.etype = "Modem", !.sort = sort, !.builtin = builtin,
                       !.dev = dev, !.uniq = n.unique, !.key = key, !.name = name, !.script = script]
           dev == IF n.unique = None THEN n.tty ELSE Base(n)
           builtin == IsInternal(n) \/ (SerialType(n) = "Bluetooth" /\ n.appleHCI)
           key == IF SerialType(n) = "IrDA" THEN <<"irda">>
                  ELSE IF SerialType(n) = "Bluetooth" THEN <<"bluetooth">> ELSE None
           x == As(SerialType(n), SerialSort(n), builtin, dev, key, SerialName(n), Script(n))
<1>1. SerialLayer(n) = <<x>> /\ n.tty # None /\ Base(n) # <<"irda">>
  BY DEF SerialLayer
<1>2. /\ DOMAIN b = DOMAIN Blank /\ b.esub = "" /\ b.hconf = IsHidden(n.hconf)
      /\ b.parts = <<>> /\ b.path = n.path
  BY DEF Entry, Blank
<1> HIDE DEF b, builtin, key
<1>3. PortFields(x, n)
  BY <1>2 DEF PortFields, Blank
<1>4. SerialType(n) \in {"Bluetooth", "IrDA", "WWAN", "Modem"}
  BY DEF SerialType
<1> HIDE DEF x
<1> QED  BY <1>1, <1>3, <1>4

\* a port that is not IrDA is not named as if it were
LEMMA PortShape ==
    ASSUME NEW l, NEW k, PortLeaf(l, k)
    PROVE  /\ PortFields(l, Nodes[k])
           /\ l.type \in {"Bluetooth", "WWAN", "Modem"} /\ l.dev # None
           /\ Nodes[k].tty # None /\ Nodes[k].base # None /\ Base(Nodes[k]) = Nodes[k].base
           /\ Head(l.dev) \notin {"irda", "irda-ircomm"}
<1> DEFINE n == Nodes[k]
<1>1. SerialLayer(n) # NULL /\ SerialLayer(n) = <<l>>
  BY DEF PortLeaf, NULL
<1>2. PICK x : SerialLayer(n) = <<x>> /\ PortFields(x, n)
  BY <1>1, SerialShape
<1>3. l = x
  <2>1. <<l>>[1] = l /\ <<x>>[1] = x /\ <<l>> = <<x>>
    BY <1>1, <1>2
  <2> QED  BY <2>1
<1>4. /\ n.tty # None /\ Base(n) # <<"irda">>
      /\ SerialType(n) \in {"Bluetooth", "IrDA", "WWAN", "Modem"}
  BY <1>1, SerialShape
<1>5. /\ n.base # None
      /\ Head(n.tty) \in {"irda", "irda-ircomm"} \/ Head(n.base) \in {"irda", "irda-ircomm"}
         => Base(n) = <<"irda">> \/ SerialType(n) = "IrDA"
  BY <1>4, NamesAssumption DEF PortLeaf
<1>6. Base(n) = n.base
  BY <1>5 DEF Base
<1>7. l.type = SerialType(n) /\ l.type # "IrDA" /\ l.dev \in {n.tty, n.base}
  BY <1>2, <1>3, <1>6 DEF PortFields, PortLeaf
<1> QED  BY <1>2, <1>3, <1>4, <1>5, <1>6, <1>7

\* PPP over a serial port
LEMMA PortEntity ==
    ASSUME NEW l, NEW k, PortLeaf(l, k), NEW m, NEW t, Over(m, t, l), NEW e, Tells(e, t, l),
           m = <<t, l>> /\ PPPLayer(t, l)
    PROVE  /\ IsSerial(e) /\ ~Rejected(e) /\ Type(e) = "PPP"
           /\ e.dev = l.dev /\ e.uniq = l.uniq /\ e.hconf = l.hconf /\ e.hw = "Modem"
<1>1. l.type \in {"Bluetooth", "WWAN", "Modem"} /\ l.dev # None
  BY PortShape
<1>2. PPPSubtype[l.type] = "PPPSerial"
  BY <1>1, SubtypeTold
<1>3. Hardware(l.type) = "Modem"
  BY <1>1, HardwareTold
<1> QED  BY <1>1, <1>2, <1>3 DEF Tells, PPPLayer, IsSerial, Rejected, Type

\* the stand-in for a serial port suits it
LEMMA PortStandInSuits ==
    ASSUME NEW l, NEW k, PortLeaf(l, k), NEW e, IsSerial(e),
           e.dev = l.dev, e.uniq = l.uniq, e.hconf = l.hconf,
           NEW s, BareWith(s, e), s.type \in {"Bluetooth", "WWAN", "Modem"}
    PROVE  Suits([s EXCEPT !.hconf = e.hconf], l, e)
<1> DEFINE y == [s EXCEPT !.hconf = e.hconf]
<1>1. /\ DOMAIN y = DOMAIN Blank /\ y.hconf = e.hconf
      /\ y.type = s.type /\ y.dev = e.dev /\ y.uniq = e.uniq
  BY DEF BareWith, Blank
<1> HIDE DEF y
<1>2. l.type \in {"Bluetooth", "WWAN", "Modem"}
  BY PortShape
<1>3. Hardware(y.type) = Hardware(l.type) /\ y.type # "IPv4"
  BY <1>1, <1>2, HardwareTold
<1>4. y.type \in DOMAIN PPPSubtype /\ PPPSubtype[y.type] = PPPSubtype[l.type]
  BY <1>1, <1>2, SubtypeTold
<1>5. Suits(y, l, e)
  BY <1>1, <1>3, <1>4 DEF Suits, IsSerial
<1> QED  BY <1>5 DEF y

\* the present ports that have a value for a key
Having(key, e, search) == Made(Registry, Matching(Registry, "serial", key, e.dev), search.keepHidden)

\* a port that is listed is present
LEMMA PortMade ==
    ASSUME present \subseteq DOMAIN Nodes, NEW e, NEW search, NEW key, NEW j \in Having(key, e, search)
    PROVE  /\ j \in present /\ Nodes[j].kind = "serial" /\ Nodes[j][key] = e.dev /\ Registry[j] = Nodes[j]
           /\ \E x : /\ CreateInterface(Registry, Nodes[j], search.keepHidden) = <<x>>
                     /\ SerialLayer(Nodes[j]) = <<x>> /\ x.uniq = Nodes[j].unique
<1>1. /\ j \in present /\ Nodes[j].kind = "serial" /\ Nodes[j][key] = e.dev /\ Registry[j] = Nodes[j]
      /\ CreateInterface(Registry, Nodes[j], search.keepHidden) # NULL
  BY DEF Having, Made, Matching, Registry
<1>2. CreateInterface(Registry, Nodes[j], search.keepHidden) = SerialLayer(Nodes[j])
  BY <1>1 DEF CreateInterface
<1>3. SerialLayer(Nodes[j]) # NULL
  BY <1>1, <1>2
<1>4. PICK x : SerialLayer(Nodes[j]) = <<x>> /\ PortFields(x, Nodes[j])
  BY <1>3, SerialShape
<1>5. x.uniq = Nodes[j].unique
  BY <1>4 DEF PortFields
<1> QED  BY <1>1, <1>2, <1>4, <1>5

\* a port that is present is listed
LEMMA PortIsMade ==
    ASSUME present \subseteq DOMAIN Nodes, NEW e, NEW search, NEW key,
           NEW l, NEW k, PortLeaf(l, k), k \in present, Nodes[k][key] = e.dev
    PROVE  k \in Having(key, e, search)
<1>1. CreateInterface(Registry, Nodes[k], search.keepHidden) = SerialLayer(Nodes[k])
  BY DEF CreateInterface, PortLeaf
<1>2. SerialLayer(Nodes[k]) # NULL
  BY DEF PortLeaf, NULL
<1> QED  BY <1>1, <1>2 DEF Having, Made, Matching, Registry, PortLeaf

\* the ports that a search finds are those that the device name may mean
LEMMA HavingPorts ==
    ASSUME present \subseteq DOMAIN Nodes, NEW e, NEW search, NEW key \in {"base", "tty"}
    PROVE  /\ Having(key, e, search) \subseteq Ports(e)
           /\ IsFiniteSet(Ports(e)) /\ Ports(e) \subseteq Nat /\ Cardinality(Ports(e)) \in Nat
           /\ IsFiniteSet(Matching(Registry, "serial", key, e.dev))
           /\ Matching(Registry, "serial", key, e.dev) \subseteq Nat
           /\ IsFiniteSet(Having(key, e, search))
<1>1. IsFiniteSet(DOMAIN Nodes) /\ DOMAIN Nodes \subseteq Nat
  BY NamesAssumption
<1>2. Ports(e) \subseteq DOMAIN Nodes
  BY DEF Ports
<1>3. Matching(Registry, "serial", key, e.dev) \subseteq DOMAIN Nodes
  BY DEF Matching, Registry
<1>4. IsFiniteSet(Ports(e)) /\ IsFiniteSet(Matching(Registry, "serial", key, e.dev))
  BY <1>1, <1>2, <1>3, FS_Subset
<1>5. Having(key, e, search) \subseteq Matching(Registry, "serial", key, e.dev)
  BY DEF Having, Made
<1>6. ASSUME NEW j \in Having(key, e, search) PROVE j \in Ports(e)
  <2>1. j \in present /\ Nodes[j].kind = "serial" /\ Nodes[j][key] = e.dev
    BY PortMade
  <2> QED  BY <2>1 DEF Ports
<1> QED  BY <1>1, <1>2, <1>3, <1>4, <1>5, <1>6, FS_Subset, FS_CardinalityType

\* two ports are more than one
LEMMA OnlyPort ==
    ASSUME NEW S, IsFiniteSet(S), Cardinality(S) <= 1, NEW a \in S, NEW b \in S
    PROVE  a = b
<1> SUFFICES ASSUME a # b PROVE FALSE
  OBVIOUS
<1>1. IsFiniteSet(S \ {a}) /\ Cardinality(S \ {a}) = Cardinality(S) - 1 /\ Cardinality(S) \in Nat
  BY FS_RemoveElement, FS_CardinalityType
<1>2. Cardinality(S \ {a}) = 0
  BY <1>1, FS_CardinalityType
<1>3. S \ {a} = {}
  BY <1>1, <1>2, FS_EmptySet
<1> QED  BY <1>3

\* the list of the ports that have a value for a key
SerialList(key, e, search) ==
    FindMatching(Registry, Matching(Registry, "serial", key, e.dev), search.keepHidden)

\* no port is listed
LEMMA SerialListNone ==
    ASSUME NEW key, NEW e, NEW search, Having(key, e, search) = {}
    PROVE  SerialList(key, e, search) = <<>>
  BY ListOfNone DEF SerialList, Having

\* one port is listed
LEMMA SerialListOne ==
    ASSUME present \subseteq DOMAIN Nodes, NEW key \in {"base", "tty"}, NEW e, NEW search, NEW j,
           Having(key, e, search) = {j}
    PROVE  \E x : /\ SerialList(key, e, search) = <<<<x>>>>
                  /\ SerialLayer(Nodes[j]) = <<x>> /\ x.uniq = Nodes[j].unique
<1>1. Registry[j] = Nodes[j] /\ j \in Nat
  BY PortMade, HavingPorts
<1>2. PICK x : /\ CreateInterface(Registry, Nodes[j], search.keepHidden) = <<x>>
               /\ SerialLayer(Nodes[j]) = <<x>> /\ x.uniq = Nodes[j].unique
  BY PortMade
<1>3. SerialList(key, e, search) = <<CreateInterface(Registry, Registry[j], search.keepHidden)>>
  BY <1>1, ListOfOne DEF SerialList, Having
<1> QED  BY <1>1, <1>2, <1>3

\* the choice of a port with an identifier, among several
LEMMA ChooseAmong ==
    ASSUME NEW list, NEW v, NEW e, Len(list) \in Nat, Len(list) > 1, e.uniq # None,
           NEW n \in DOMAIN list, \A i \in DOMAIN list : (list[i][1].uniq = e.uniq) <=> i = n
    PROVE  Choose(list, v, e) = list[n]
<1> DEFINE fitting == {i \in DOMAIN list : list[i][1].uniq = e.uniq}
<1>1. fitting = {n} /\ Cardinality({n}) = 1
  BY FS_Singleton
<1>4. Len(list) # 1 /\ ~(Len(list) <= 1)
  <2> DEFINE c == Len(list)
  <2>1. c \in Nat /\ c > 1
    OBVIOUS
  <2> HIDE DEF c
  <2>2. c # 1 /\ ~(c <= 1)
    BY <2>1
  <2> QED  BY <2>2 DEF c
<1>2. Choose(list, v, e) = TheOne(list, fitting)
  BY <1>4, Zenon DEF Choose
<1> HIDE DEF fitting
<1>3. (CHOOSE k \in fitting : TRUE) = n
  BY <1>1
<1> QED  BY <1>1, <1>2, <1>3 DEF TheOne

\* ports are looked for by base name first
LEMMA SerialInterfacesAre ==
    ASSUME NEW e, NEW search
    PROVE  SerialInterfaces(Registry, e, search) =
             IF e.uniq = None /\ \A i \in ToSet(SerialList("base", e, search)) : i[1].uniq = None
             THEN SerialList("tty", e, search) ELSE SerialList("base", e, search)
  BY DEF SerialInterfaces, SerialList

\* one port that is listed alone, and chosen if it has the identifier
LEMMA ChosenAlone ==
    ASSUME present \subseteq DOMAIN Nodes, NEW key \in {"base", "tty"}, NEW e, NEW search,
           Type(e) = "PPP", NEW S, S = Having(key, e, search), \A i, j \in S : i = j
    PROVE  LET c == Choose(SerialList(key, e, search), virtual, e)
           IN  IF \E j \in S : Nodes[j].unique = e.uniq
               THEN \A j \in S : c = SerialLayer(Nodes[j]) ELSE c = NULL
<1>1. CASE S = {}
  BY <1>1, SerialListNone, ChooseNone
<1>2. CASE S # {}
  <2>1. PICK j : S = {j}
    BY <1>2
  <2>2. PICK x : /\ SerialList(key, e, search) = <<<<x>>>>
                 /\ SerialLayer(Nodes[j]) = <<x>> /\ x.uniq = Nodes[j].unique
    <3>1. Having(key, e, search) = {j}
      BY <2>1
    <3> QED  BY <3>1, SerialListOne
  <2>3. Choose(<<<<x>>>>, virtual, e) = IF x.uniq = e.uniq THEN <<x>> ELSE NULL
    BY ChooseOne
  <2> QED  BY <2>1, <2>2, <2>3
<1> QED  BY <1>1, <1>2

\* the service's port, or none
LEMMA SerialFound ==
    ASSUME present \subseteq DOMAIN Nodes, NEW l, NEW k, PortLeaf(l, k),
           NEW e, IsSerial(e), Type(e) = "PPP", e.dev = l.dev, e.uniq = l.uniq, IsClear(e),
           NEW search, search.system,
           NEW f, f = Found(Registry, virtual, cache, e, search)
    PROVE  /\ f = NULL \/ f = <<l>>
           /\ k \in present => f = <<l>>
<1>1. f = Choose(SerialInterfaces(Registry, e, search), virtual, e)
  BY FoundIs
<1>2. /\ PortFields(l, Nodes[k]) /\ Nodes[k].tty # None
      /\ Nodes[k].base # None /\ Base(Nodes[k]) = Nodes[k].base
      /\ SerialLayer(Nodes[k]) = <<l>> /\ Nodes[k].kind = "serial" /\ k \in DOMAIN Nodes
  BY PortShape DEF PortLeaf
<1>3. Nodes[k].unique = e.uniq
  BY <1>2 DEF PortFields
<1>4. \/ Cardinality(Ports(e)) <= 1
      \/ e.uniq # None /\ Cardinality({j \in Ports(e) : Nodes[j].unique = e.uniq}) = 1
  BY DEF IsClear
<1>5. /\ IsFiniteSet(Ports(e)) /\ Cardinality(Ports(e)) \in Nat
      /\ \A key \in {"base", "tty"} : Having(key, e, search) \subseteq Ports(e)
  BY HavingPorts
<1>6. ASSUME Cardinality(Ports(e)) <= 1
      PROVE  /\ \A i, j \in Ports(e) : i = j
             /\ \A key \in {"base", "tty"} : \A i, j \in Having(key, e, search) : i = j
  BY <1>5, <1>6, OnlyPort
<1>7. CASE e.uniq = None
  <2>1. /\ Cardinality(Ports(e)) <= 1 /\ Nodes[k].tty = e.dev
        /\ k \in present => k \in Having("tty", e, search) /\ k \in Ports(e)
    <3>1. Nodes[k].tty = e.dev
      BY <1>2, <1>3, <1>7 DEF PortFields
    <3>2. k \in present => k \in Having("tty", e, search)
      BY <3>1, PortIsMade
    <3> QED  BY <1>4, <1>5, <1>7, <3>1, <3>2
  <2>2. CASE \A i \in ToSet(SerialList("base", e, search)) : i[1].uniq = None
    <3>1. f = Choose(SerialList("tty", e, search), virtual, e)
      BY <1>1, <1>7, <2>2, SerialInterfacesAre
    <3>2. \A j \in Having("tty", e, search) : j = k
      <4> SUFFICES ASSUME NEW j \in Having("tty", e, search) PROVE j = k
        OBVIOUS
      <4>1. j \in present /\ Nodes[j].kind = "serial" /\ Nodes[j].tty = e.dev
        BY PortMade
      <4>2. Differ("serial", "tty")
        BY NamesAssumption
      <4> QED  BY <1>2, <2>1, <4>1, <4>2 DEF Differ
    <3>3. IF \E j \in Having("tty", e, search) : Nodes[j].unique = e.uniq
          THEN \A j \in Having("tty", e, search) : f = SerialLayer(Nodes[j]) ELSE f = NULL
      BY <1>6, <2>1, <3>1, ChosenAlone
    <3> QED  BY <1>2, <1>3, <2>1, <3>2, <3>3
  <2>3. CASE ~(\A i \in ToSet(SerialList("base", e, search)) : i[1].uniq = None)
    <3>1. f = Choose(SerialList("base", e, search), virtual, e)
      BY <1>1, <2>3, SerialInterfacesAre
    <3>2. Having("base", e, search) # {}
      <4>1. ASSUME Having("base", e, search) = {} PROVE FALSE
        <5>1. SerialList("base", e, search) = <<>>
          BY <4>1, SerialListNone
        <5>2. ToSet(<<>>) = {}
          BY DEF ToSet
        <5> QED  BY <2>3, <5>1, <5>2
      <4> QED  BY <4>1
    <3>3. PICK j : Having("base", e, search) = {j}
      BY <1>6, <2>1, <3>2
    <3>4. PICK x : /\ SerialList("base", e, search) = <<<<x>>>> /\ x.uniq = Nodes[j].unique
      BY <3>3, SerialListOne
    <3>5. x.uniq # None
      <4> DEFINE i == <<x>>
      <4>1. i[1] = x
        OBVIOUS
      <4> HIDE DEF i
      <4>2. ToSet(<<i>>) = {i}
        BY DEF ToSet
      <4> QED  BY <2>3, <3>4, <4>1, <4>2 DEF i
    <3>6. f = NULL
      BY <1>7, <3>1, <3>4, <3>5, ChooseOne
    <3>7. k \notin present
      <4>1. j \in Ports(e)
        BY <1>5, <3>3
      <4> QED  BY <1>3, <1>6, <1>7, <2>1, <3>4, <3>5, <4>1
    <3> QED  BY <3>6, <3>7
  <2> QED  BY <2>2, <2>3
<1>8. CASE e.uniq # None
  <2>1. Nodes[k].base = e.dev
    BY <1>2, <1>3, <1>8 DEF PortFields
  <2>2. f = Choose(SerialList("base", e, search), virtual, e)
    BY <1>1, <1>8, SerialInterfacesAre
  <2>3. k \in present => k \in Having("base", e, search)
    BY <2>1, PortIsMade
  <2>4. \A j \in DOMAIN Nodes : Nodes[j].kind = "serial" /\ Nodes[j].unique = e.uniq => j = k
    <3>1. Differ("serial", "unique")
      BY NamesAssumption
    <3> QED  BY <1>2, <1>3, <1>8, <3>1 DEF Differ
  <2>5. \A j \in Having("base", e, search) : j \in DOMAIN Nodes /\ Nodes[j].kind = "serial"
    BY PortMade
  <2>6. CASE \A i, j \in Having("base", e, search) : i = j
    <3>1. IF \E j \in Having("base", e, search) : Nodes[j].unique = e.uniq
          THEN \A j \in Having("base", e, search) : f = SerialLayer(Nodes[j]) ELSE f = NULL
      BY <2>2, <2>6, ChosenAlone
    <3> QED  BY <1>2, <1>3, <2>3, <2>4, <2>5, <3>1
  <2>7. CASE ~(\A i, j \in Having("base", e, search) : i = j)
    <3> DEFINE made == Having("base", e, search)
               list == SerialList("base", e, search)
    <3>1. Cardinality({j \in Ports(e) : Nodes[j].unique = e.uniq}) = 1
      BY <1>4, <1>6, <2>7
    <3>2. k \in present
      <4> DEFINE S == {j \in Ports(e) : Nodes[j].unique = e.uniq}
      <4>1. S # {}
        <5> HIDE DEF S
        <5>1. Cardinality(S) = 1
          BY <3>1 DEF S
        <5>2. Cardinality({}) = 0
          BY FS_EmptySet
        <5> QED  BY <5>1, <5>2
      <4>2. PICK j \in Ports(e) : Nodes[j].unique = e.uniq
        BY <4>1
      <4> QED  BY <2>4, <4>2 DEF Ports
    <3>9. Lists(list, made, Registry, search.keepHidden)
      <4> DEFINE matching == Matching(Registry, "serial", "base", e.dev)
      <4>1. IsFiniteSet(matching) /\ matching \subseteq Nat
        BY HavingPorts
      <4>2. /\ made = Made(Registry, matching, search.keepHidden)
            /\ list = FindMatching(Registry, matching, search.keepHidden)
        BY DEF SerialList, Having
      <4> HIDE DEF made, list, matching
      <4> QED  BY <4>1, <4>2, ListOf
    <3>3. /\ Len(list) = Cardinality(made) /\ DOMAIN list = 1..Cardinality(made)
          /\ Cardinality(made) \in Nat /\ IsFiniteSet(made)
          /\ \A n \in DOMAIN list : /\ Nth(made, n) \in made
                                    /\ list[n] = CreateInterface(Registry, Registry[Nth(made, n)], search.keepHidden)
          /\ \A i \in made : \E n \in DOMAIN list : Nth(made, n) = i
          /\ \A m, n \in DOMAIN list : Nth(made, m) = Nth(made, n) => m = n
      BY <3>9 DEF Lists
    <3> HIDE DEF made, list
    <3>4. Len(list) > 1
      BY <2>7, <3>3, OnlyPort DEF made
    <3>5. PICK n \in DOMAIN list : Nth(made, n) = k
      BY <2>3, <3>2, <3>3 DEF made
    <3>6. \A i \in DOMAIN list : /\ list[i] = SerialLayer(Nodes[Nth(made, i)])
                                 /\ list[i][1].uniq = Nodes[Nth(made, i)].unique
      <4> SUFFICES ASSUME NEW i \in DOMAIN list
                   PROVE  /\ list[i] = SerialLayer(Nodes[Nth(made, i)])
                          /\ list[i][1].uniq = Nodes[Nth(made, i)].unique
        OBVIOUS
      <4> DEFINE j == Nth(made, i)
      <4>1. j \in Having("base", e, search)
            /\ list[i] = CreateInterface(Registry, Registry[j], search.keepHidden)
        BY <3>3 DEF made
      <4> HIDE DEF j
      <4>2. PICK x : /\ CreateInterface(Registry, Nodes[j], search.keepHidden) = <<x>>
                     /\ SerialLayer(Nodes[j]) = <<x>> /\ x.uniq = Nodes[j].unique
        BY <4>1, PortMade
      <4>3. Registry[j] = Nodes[j]
        BY <4>1, PortMade
      <4>4. list[i] = <<x>>
        BY <4>1, <4>2, <4>3
      <4>5. list[i][1] = x
        BY <4>4
      <4> QED  BY <4>2, <4>4, <4>5 DEF j
    <3>7. \A i \in DOMAIN list : (list[i][1].uniq = e.uniq) <=> i = n
      <4> SUFFICES ASSUME NEW i \in DOMAIN list PROVE (list[i][1].uniq = e.uniq) <=> i = n
        OBVIOUS
      <4>1. Nodes[Nth(made, i)].unique = e.uniq => Nth(made, i) = k
        BY <2>4, <2>5, <3>3 DEF made
      <4> QED  BY <1>3, <3>3, <3>5, <3>6, <4>1
    <3>8. Choose(list, virtual, e) = list[n]
      BY <1>8, <3>3, <3>4, <3>7, ChooseAmong
    <3> QED  BY <1>2, <2>2, <3>5, <3>6, <3>8 DEF list
  <2> QED  BY <2>6, <2>7
<1> QED  BY <1>7, <1>8

\* a serial port is found again when it is clear which one is meant
LEMMA PortAnswer ==
    ASSUME FoundInv, NEW l, NEW k, PortLeaf(l, k),
           NEW m, NEW t, Over(m, t, l), m = <<t, l>>, PPPLayer(t, l),
           NEW e, Tells(e, t, l), IsClear(e), NEW search, search.system
    PROVE  \E y : /\ Answer(e, search) = Layered(Owned(<<y>>, e, search), e)
                  /\ Suits(y, l, e)
                  /\ k \in present => Exactly(y, l)
<1>1. /\ IsSerial(e) /\ ~Rejected(e) /\ Type(e) = "PPP"
      /\ e.dev = l.dev /\ e.uniq = l.uniq /\ e.hconf = l.hconf
  BY PortEntity
<1>2. /\ PortFields(l, Nodes[k]) /\ Head(e.dev) \notin {"irda", "irda-ircomm"}
      /\ l.type \in {"Bluetooth", "WWAN", "Modem"}
  BY <1>1, PortShape
<1>3. PICK s : /\ StandIn(virtual, e, search) = <<s>> /\ StandsFor(s, e)
               /\ IsSerial(e) /\ Head(e.dev) \notin {"irda", "irda-ircomm"} => s.type # "IrDA"
  BY <1>1, StandsIn DEF IsSerial
<1>4. Suits([s EXCEPT !.hconf = e.hconf], l, e)
  <2>1. BareWith(s, e) /\ s.type \in {"Bluetooth", "WWAN", "Modem"}
    BY <1>1, <1>2, <1>3 DEF StandsFor
  <2> QED  BY <1>1, <2>1, PortStandInSuits
<1> DEFINE f == Found(Registry, virtual, cache, e, search)
           i == <<l>>
<1>5. /\ f = NULL \/ f = i
      /\ k \in present => f = i
  BY <1>1, SerialFound DEF FoundInv
<1>6. i # NULL
  BY DEF NULL
<1> HIDE DEF i
<1>7. CASE f = i
  <2>1. Answer(e, search) = Layered(Owned(i, e, search), e)
    BY <1>1, <1>6, <1>7, AnswerFound
  <2>2. Suits(l, l, e) /\ Exactly(l, l)
    <3>1. l.type \in DOMAIN PPPSubtype
      BY <1>2, SubtypeTold
    <3> QED  BY <1>1, <1>2, <3>1 DEF Suits, Exactly, PortFields, IsSerial
  <2> QED  BY <2>1, <2>2 DEF i
<1>8. CASE f = NULL
  <2>1. Answer(e, search) = Layered(Owned(<<[s EXCEPT !.hconf = e.hconf]>>, e, search), e)
    BY <1>1, <1>3, <1>8, AnswerStands
  <2> QED  BY <1>4, <1>5, <1>6, <1>8, <2>1
<1> QED  BY <1>5, <1>7, <1>8

-----------------------------------------------------------------------------
(* Interfaces over IPv4. *)

OverIP(type) == CreateWithInterface(IPv4, type)

IPLayer == [Blank EXCEPT !.type = "IPv4", !.key = <<"ipv4">>]

\* the one layer of IPv4
LEMMA IPv4Is ==
    /\ IPv4 = <<IPLayer>> /\ IPv4[1] = IPLayer /\ IPv4 # NULL /\ IPv4 # Loopback
    /\ IPLayer.type = "IPv4" /\ IPLayer.owner = None /\ IPLayer.hconf = FALSE
<1>1. IPv4 = <<IPLayer>>
  BY DEF IPv4, IPLayer
<1>2. /\ DOMAIN IPLayer = DOMAIN Blank
      /\ IPLayer.type = "IPv4" /\ IPLayer.owner = None /\ IPLayer.hconf = FALSE
  BY DEF IPLayer, Blank
<1>3. Loopback[1].type = "Loopback"
  <2> DEFINE l == [Blank EXCEPT !.type = "Loopback", !.etype = "Loopback",
                                !.key = <<"loopback">>, !.dev = <<"lo", "0">>]
  <2>1. l.type = "Loopback"
    BY DEF Blank
  <2> HIDE DEF l
  <2>2. <<l>>[1].type = "Loopback"
    BY <2>1
  <2> QED  BY <2>2 DEF Loopback, l
<1> HIDE DEF IPLayer
<1>4. IPv4[1] = IPLayer /\ IPv4 # NULL
  BY <1>1 DEF NULL
<1> QED  BY <1>1, <1>2, <1>3, <1>4

\* the layer over IPv4, that has no owner
Unowned(x) == [x EXCEPT !.owner = None] = x
IPParent(x, type) ==
    /\ OverIP(type) = <<x, IPLayer>> /\ Unowned(x)
    /\ x.type = type /\ x.etype = type /\ x.esub = "" /\ x.uniq = None
    /\ x.dev = IF type = "6to4" THEN <<"stf", "0">> ELSE None

\* what CreateWithInterface makes over IPv4
LEMMA OverIPIs ==
    ASSUME NEW type \in {"6to4", "L2TP", "PPTP", "IPSec"} \cup Vendors
    PROVE  \E x : IPParent(x, type)
<1> DEFINE keys == [L2TP |-> "l2tp", PPTP |-> "pptp", IPSec |-> "ipsec"]
           dev  == IF type = "6to4" THEN <<"stf", "0">> ELSE None
           key  == IF type = "6to4" THEN "6to4" ELSE keys[type]
           b == Parent(IPv4, type, type, "")
           c == [b EXCEPT !.dev = dev, !.key = <<key>>]
<1>1. \A x : <<x>> \o IPv4 = <<x, IPLayer>>
  BY IPv4Is, Two
<1> DEFINE sort == IPLayer.sort
           hidden == IPLayer.hidden
           script == IPLayer.script
<1>2. b = [Blank EXCEPT !.type = type, !.etype = type, !.esub = "",
              !.hconf = FALSE, !.hidden = hidden, !.script = script, !.owner = None,
              !.sort = sort]
  BY IPv4Is DEF Parent
<1> HIDE DEF b, sort, hidden, script
<1>3. /\ [b EXCEPT !.owner = None] = b /\ b.type = type /\ b.etype = type /\ b.esub = ""
      /\ b.uniq = None /\ b.dev = None /\ DOMAIN b = DOMAIN Blank
  BY <1>2 DEF Blank
<1>4. CASE type \in {"6to4", "L2TP", "PPTP", "IPSec"}
  <2> HIDE DEF key, dev
  <2>1. /\ [c EXCEPT !.owner = None] = c /\ c.type = type /\ c.etype = type /\ c.esub = ""
        /\ c.uniq = None /\ c.dev = dev
    BY <1>2 DEF Blank
  <2>2. type \in Supports(IPv4)
    BY <1>4, IPv4Is DEF Supports
  <2>3. OverIPv4(IPv4, type) = <<c>> \o IPv4
    BY <2>2 DEF OverIPv4, b, dev, key
  <2>4. OverIP(type) = OverIPv4(IPv4, type)
    <3>1. type \notin Vendors \cup {"PPP", "VPN"}
      BY <1>4, VendorsAssumption, SubtypeTold DEF Known
    <3> QED  BY <1>4, <3>1, IPv4Is DEF OverIP, CreateWithInterface
  <2> HIDE DEF c
  <2>5. OverIP(type) = <<c, IPLayer>>
    BY <1>1, <2>3, <2>4
  <2> QED  BY <2>1, <2>5 DEF IPParent, Unowned, dev
<1>5. CASE type \in Vendors
  <2>1. type \notin {"6to4", "L2TP", "PPTP", "IPSec", "PPP", "VPN"}
    BY <1>5, VendorsAssumption, SubtypeTold DEF Known
  <2>2. OverIP(type) = <<b>> \o IPv4
    BY <1>5, <2>1, IPv4Is DEF OverIP, CreateWithInterface, b
  <2> QED  BY <1>1, <1>3, <2>1, <2>2 DEF IPParent, Unowned
<1> QED  BY <1>4, <1>5

\* what the entity of a layer over it tells: the type under it
TellsOver(e, type, sub) ==
    /\ e.type = type /\ e.sub = sub /\ e.name = None
    /\ e.dev = IF type = "6to4" THEN <<"stf", "0">> ELSE None

EntityFrom(m, top) ==
    LET e == CopyInterfaceEntity(m)
    IN  /\ e.type = top.etype /\ e.sub = top.esub /\ e.dev = top.dev /\ e.name = None
        /\ Last(m) = IPLayer

\* the entity of an interface over IPv4 is that of its top layer
LEMMA EntityOverIP ==
    ASSUME NEW x, NEW m, NEW top,
           \/ m = <<x, IPLayer>> /\ top = x
           \/ m = <<top>> \o <<x, IPLayer>>
    PROVE  EntityFrom(m, top)
<1> DEFINE s == <<x, IPLayer>>
<1> DEFINE S == {top, x, IPLayer}
<1>1. s \in Seq(S) /\ Len(s) = 2 /\ s[1] = x /\ s[2] = IPLayer
  OBVIOUS
<1> HIDE DEF S, s
<1>5. \/ m = s /\ top = x
      \/ m = <<top>> \o s
  BY DEF s
<1>2. /\ m[1] = top /\ m[Len(m)] = IPLayer
  <2>1. CASE m = s /\ top = x
    BY <1>1, <2>1
  <2>2. CASE m = <<top>> \o s
    <3>1. <<top>> \in Seq(S) /\ Len(<<top>>) = 1 /\ <<top>>[1] = top
      BY DEF S
    <3> DEFINE one == <<top>>
    <3>3. one \in Seq(S) /\ Len(one) = 1 /\ one[1] = top
      BY <3>1
    <3> HIDE DEF one
    <3>2. Len(one \o s) = 3 /\ (one \o s)[1] = one[1] /\ (one \o s)[3] = s[2]
      BY <1>1, <3>3, ConcatProperties
    <3> QED  BY <1>1, <2>2, <3>1, <3>2 DEF one
  <2> QED  BY <1>5, <2>1, <2>2
<1>3. Last(m) = IPLayer
  BY <1>2 DEF Last
<1>4. CopyInterfaceEntity(m) =
        [Entity EXCEPT !.type = top.etype, !.sub = top.esub, !.dev = top.dev,
                       !.uniq = top.uniq, !.hconf = top.hconf]
  BY <1>2, <1>3, IPv4Is DEF CopyInterfaceEntity
<1> QED  BY <1>3, <1>4 DEF Entity, EntityFrom

\* an interface over IPv4, and what it is told by
OnIPv4(m, type, sub) ==
    \/ m = OverIP(type) /\ sub = "" /\ type \in {"6to4", "IPSec"} \cup Vendors
    \/ m = CreateWithInterface(OverIP(sub), "PPP") /\ type = "PPP" /\ sub \in {"L2TP", "PPTP"} \cup Vendors
    \/ m = CreateWithInterface(OverIP(sub), "VPN") /\ type = "VPN" /\ sub \in Vendors

\* an entity tells an interface over IPv4
LEMMA OnIPv4Entity ==
    ASSUME NEW m, NEW type, NEW sub, OnIPv4(m, type, sub)
    PROVE  TellsOver(CopyInterfaceEntity(m), type, sub) /\ Last(m) = IPLayer
<1>1. CASE m = OverIP(type) /\ sub = "" /\ type \in {"6to4", "IPSec"} \cup Vendors
  <2>1. PICK x : IPParent(x, type)
    BY <1>1, OverIPIs
  <2>2. m = <<x, IPLayer>>
    BY <1>1, <2>1 DEF IPParent
  <2>3. EntityFrom(m, x)
    BY <2>2, EntityOverIP
  <2> QED  BY <1>1, <2>1, <2>3 DEF TellsOver, IPParent, EntityFrom
<1>2. CASE /\ type \in {"PPP", "VPN"} /\ m = CreateWithInterface(OverIP(sub), type)
           /\ sub \in Vendors \cup (IF type = "PPP" THEN {"L2TP", "PPTP"} ELSE {})
  <2>1. PICK x : IPParent(x, sub)
    BY <1>2, OverIPIs
  <2> DEFINE s == OverIP(sub)
  <2>2. s = <<x, IPLayer>> /\ s[1] = x /\ x.type = sub /\ x.etype = sub /\ x.dev = None
    <3>1. sub # "6to4"
      BY <1>2, VendorsAssumption DEF Known
    <3>2. <<x, IPLayer>>[1] = x
      OBVIOUS
    <3>3. s = <<x, IPLayer>> /\ x.type = sub /\ x.etype = sub /\ x.dev = None
      BY <2>1, <3>1 DEF IPParent
    <3> HIDE DEF s
    <3> QED  BY <3>2, <3>3
  <2>3. s # NULL /\ s # Loopback
    <3>1. x.type # "Loopback"
      BY <1>2, <2>2, VendorsAssumption DEF Known
    <3>2. Len(s) = 2 /\ Len(NULL) = 0
      BY <2>2 DEF NULL
    <3>3. Len(Loopback) = 1
      BY DEF Loopback
    <3> HIDE DEF s
    <3> QED  BY <3>2, <3>3
  <2> HIDE DEF s
  <2>4. \E top : /\ m = <<top>> \o s /\ top.etype = type /\ top.esub = sub /\ top.dev = None
    <3>1. CASE type = "PPP"
      <4>1. "PPP" \notin Vendors
        BY VendorsAssumption DEF Known
      <4>2. CreateWithInterface(s, "PPP") = OverPPP(s)
        BY <2>3, <4>1 DEF CreateWithInterface
      <4>3. (IF Known(sub) THEN PPPSubtype[sub] ELSE sub) = sub
            /\ ~(Known(sub) /\ sub \notin DOMAIN PPPSubtype)
        BY <1>2, VendorsAssumption, SubtypeTold DEF Known
      <4> DEFINE b == Parent(s, "PPP", "PPP", sub)
                 top == [b EXCEPT !.dev = x.dev, !.uniq = x.uniq]
      <4>4. OverPPP(s) = <<top>> \o s
        BY <2>2, <4>3 DEF OverPPP
      <4>5. DOMAIN b = DOMAIN Blank /\ b.etype = "PPP" /\ b.esub = sub
        BY DEF Parent, Blank
      <4> HIDE DEF b
      <4>6. top.etype = "PPP" /\ top.esub = sub /\ top.dev = None
        BY <2>2, <4>5 DEF Blank
      <4> HIDE DEF top
      <4> QED  BY <1>2, <3>1, <4>2, <4>4, <4>6 DEF s
    <3>2. CASE type = "VPN"
      <4>1. "VPN" \notin Vendors /\ ~Known(sub)
        BY <1>2, <3>2, VendorsAssumption DEF Known
      <4>2. CreateWithInterface(s, "VPN") = OverVPN(s)
        BY <2>3, <4>1 DEF CreateWithInterface
      <4> DEFINE b == Parent(s, "VPN", "VPN", sub)
                 top == [b EXCEPT !.dev = x.dev, !.key = <<"vpn", sub>>]
      <4>4. OverVPN(s) = <<top>> \o s
        BY <2>2, <4>1 DEF OverVPN
      <4>5. DOMAIN b = DOMAIN Blank /\ b.etype = "VPN" /\ b.esub = sub
        BY DEF Parent, Blank
      <4> HIDE DEF b
      <4>6. top.etype = "VPN" /\ top.esub = sub /\ top.dev = None
        BY <2>2, <4>5 DEF Blank
      <4> HIDE DEF top
      <4> QED  BY <1>2, <3>2, <4>2, <4>4, <4>6 DEF s
    <3> QED  BY <1>2, <3>1, <3>2
  <2>5. PICK top : m = <<top>> \o s /\ top.etype = type /\ top.esub = sub /\ top.dev = None
    BY <2>4
  <2>6. EntityFrom(m, top)
    BY <2>2, <2>5, EntityOverIP
  <2> QED  BY <1>2, <2>5, <2>6 DEF TellsOver, EntityFrom
<1> QED  BY <1>1, <1>2 DEF OnIPv4

\* an interface that no device needs has no name in its service
LEMMA OwnedByNone ==
    ASSUME NEW type \in {"6to4", "L2TP", "PPTP", "IPSec"} \cup Vendors,
           NEW e, e.name = None, NEW search
    PROVE  Owned(OverIP(type), e, search) = OverIP(type) /\ OverIP(type) # NULL
<1>1. PICK x : IPParent(x, type)
  BY OverIPIs
<1> DEFINE i == <<x, IPLayer>>
<1>2. OverIP(type) = i /\ [x EXCEPT !.owner = None] = x
  BY <1>1 DEF IPParent, Unowned
<1>3. i # NULL
  BY DEF NULL
<1>4. [i EXCEPT ![1].owner = None] = i
  <2> DEFINE y == [x EXCEPT !.owner = None]
  <2>1. [i EXCEPT ![1].owner = None] = <<y, IPLayer>>
    OBVIOUS
  <2>2. y = x
    BY <1>2
  <2> HIDE DEF y
  <2> QED  BY <2>1, <2>2
<1> HIDE DEF i
<1> QED  BY <1>2, <1>3, <1>4 DEF Owned

\* an interface over IPv4 is made again rather than looked for
LEMMA FoundOverIP ==
    ASSUME NEW m, NEW type, NEW sub, OnIPv4(m, type, sub), NEW e, TellsOver(e, type, sub),
           NEW search, search.system
    PROVE  /\ ~Rejected(e)
           /\ Found(Registry, virtual, cache, e, search) =
                OverIP(IF type \in {"PPP", "VPN"} THEN sub ELSE type)
<1>1. /\ e.type = type /\ e.sub = sub /\ e.dev = IF type = "6to4" THEN <<"stf", "0">> ELSE None
  BY DEF TellsOver
<1>2. \A v \in Vendors : v \notin {"", "6to4", "L2TP", "PPTP", "IPSec", "PPP", "VPN", "PPPoE",
                                   "PPPSerial", "Ethernet", "FireWire", "Loopback"}
  BY VendorsAssumption, SubtypeTold DEF Known
<1>3. \/ sub = "" /\ type \in {"6to4", "IPSec"} \cup Vendors
      \/ type = "PPP" /\ sub \in {"L2TP", "PPTP"} \cup Vendors
      \/ type = "VPN" /\ sub \in Vendors
  BY DEF OnIPv4
<1>4. ~IsNetwork(e) /\ ~IsSerial(e) /\ ~IsCached(e, search)
  BY <1>1, <1>2, <1>3 DEF IsNetwork, IsSerial, IsCached, Type
<1>5. ~Rejected(e)
  <2>1. <<"stf", "0">> # None
    BY DEF None
  <2> QED  BY <1>1, <1>2, <1>3, <1>4, <2>1 DEF Rejected
<1>6. CASE sub = "" /\ type \in {"6to4", "IPSec"}
  BY <1>1, <1>2, <1>4, <1>5, <1>6 DEF Found, OverIP
<1>7. CASE sub = "" /\ type \in Vendors
  BY <1>1, <1>2, <1>4, <1>5, <1>7 DEF Found, OverIP
<1>8. CASE type = "PPP" /\ sub \in {"L2TP", "PPTP"} \cup Vendors
  BY <1>1, <1>2, <1>4, <1>5, <1>8 DEF Found, OverIP
<1>9. CASE type = "VPN" /\ sub \in Vendors
  BY <1>1, <1>2, <1>4, <1>5, <1>9 DEF Found, OverIP
<1> QED  BY <1>3, <1>6, <1>7, <1>8, <1>9

\* an interface over IPv4 is found as it was made
LEMMA OnIPv4Answer ==
    ASSUME NEW m, NEW type, NEW sub, OnIPv4(m, type, sub), NEW e, TellsOver(e, type, sub),
           NEW search, search.system
    PROVE  Answer(e, search) = m
<1> DEFINE base == IF type \in {"PPP", "VPN"} THEN sub ELSE type
           i == OverIP(base)
<1>1. /\ base \in {"6to4", "L2TP", "PPTP", "IPSec"} \cup Vendors
      /\ m = IF type \in {"PPP", "VPN"} THEN CreateWithInterface(i, type) ELSE i
  <2>1. "PPP" \notin Vendors /\ "VPN" \notin Vendors
    BY VendorsAssumption DEF Known
  <2> QED  BY <2>1 DEF OnIPv4
<1>2. e.type = type /\ e.name = None
  BY DEF TellsOver
<1>3. ~Rejected(e) /\ Found(Registry, virtual, cache, e, search) = i
  BY FoundOverIP
<1>4. Owned(i, e, search) = i /\ i # NULL
  BY <1>1, <1>2, OwnedByNone
<1> HIDE DEF i, base
<1>5. Answer(e, search) = Layered(i, e)
  BY <1>3, <1>4, AnswerFound
<1> QED  BY <1>1, <1>2, <1>5 DEF Layered

-----------------------------------------------------------------------------
(* What a service is made for. *)

\* an interface for a device, and one that is found again
HasDevice(m, t, l) ==
    \/ \E k : NetLeaf(l, k) /\ l.dev # None /\ ~IsHidden(Nodes[k].hidden)
    \/ <<l>> \in Virtuals /\ m = <<l>>
    \/ PANLeaf(l) /\ l.dev # None
    \/ \E k : PortLeaf(l, k) /\ m = <<t, l>> /\ PPPLayer(t, l)

Served(m) ==
    \/ \E type, sub : OnIPv4(m, type, sub)
    \/ \E t, l : Over(m, t, l) /\ HasDevice(m, t, l)

\* the lowest layer
LEMMA LastIs ==
    ASSUME NEW t, NEW l
    PROVE  Last(<<l>>) = l /\ Last(<<t, l>>) = l
  BY DEF Last

\* the device of an attached interface is there
LEMMA DeviceAnswer ==
    ASSUME FoundInv, NEW m, NEW t, NEW l, Over(m, t, l), HasDevice(m, t, l),
           NEW e, Tells(e, t, l), IsClear(e), NEW search, search.system
    PROVE  \E y : /\ Answer(e, search) = Layered(Owned(<<y>>, e, search), e)
                  /\ Suits(y, l, e)
                  /\ ~cache.open /\ Attached(m) => Exactly(y, l)
<1>1. Last(m) = l /\ l.type # "IPv4"
  <2>1. l.type # "IPv4"
    BY SubtypeTold DEF Over
  <2> QED  BY <2>1, LastIs DEF Over
<1>2. Attached(m) => \/ l.path # <<>> /\ \E k \in present : Nodes[k].path = l.path
                     \/ <<l>> \in virtual
  BY <1>1 DEF Attached
<1>3. <<l>> \in virtual => <<l>> \in Virtuals
  BY DEF FoundInv
<1>4. CASE \E k : NetLeaf(l, k) /\ l.dev # None /\ ~IsHidden(Nodes[k].hidden)
  <2>1. PICK k : NetLeaf(l, k) /\ l.dev # None /\ ~IsHidden(Nodes[k].hidden)
    BY <1>4
  <2>2. <<l>> \notin Virtuals
    <3>1. l.type \notin {"Bond", "Bridge", "VLAN"}
      BY <2>1 DEF NetLeaf, NetType
    <3> QED  BY <3>1, VirtualFields
  <2>3. Attached(m) => k \in present
    <3>1. \A j \in present : Nodes[j].path = l.path => j = k
      BY <2>1, NamesAssumption DEF NetLeaf, FoundInv
    <3> QED  BY <1>2, <1>3, <2>2, <3>1
  <2> QED  BY <2>1, <2>3, NetAnswer
<1>5. CASE <<l>> \in Virtuals /\ m = <<l>>
  <2>1. t = l
    <3>1. l.type \in {"Bond", "Bridge", "VLAN"}
      BY <1>5, VirtualFields
    <3>2. Len(<<l>>) = 1 /\ Len(<<t, l>>) = 2
      OBVIOUS
    <3> QED  BY <1>5, <3>2 DEF Over
  <2>2. l.path = <<>>
    BY <1>5, VirtualFields
  <2>3. Tells(e, l, l)
    BY <2>1
  <2> QED  BY <1>2, <1>5, <2>2, <2>3, VirtualAnswer
<1>6. CASE PANLeaf(l) /\ l.dev # None
  <2>1. l.path = <<>> /\ <<l>> \notin Virtuals
    BY <1>6, VirtualFields DEF PANLeaf
  <2>2. ~Attached(m)
    BY <1>2, <1>3, <2>1
  <2> QED  BY <1>6, <2>2, PANAnswer
<1>7. CASE \E k : PortLeaf(l, k) /\ m = <<t, l>> /\ PPPLayer(t, l)
  <2>1. PICK k : PortLeaf(l, k) /\ m = <<t, l>> /\ PPPLayer(t, l)
    BY <1>7
  <2>2. l.type \in {"Bluetooth", "WWAN", "Modem"} /\ l.path = Nodes[k].path /\ k \in DOMAIN Nodes
    BY <2>1, PortShape DEF PortFields, PortLeaf
  <2>3. <<l>> \notin Virtuals
    BY <2>2, VirtualFields
  <2>4. Attached(m) => k \in present
    <3>1. \A j \in present : Nodes[j].path = l.path => j = k
      BY <2>2, NamesAssumption DEF FoundInv
    <3> QED  BY <1>2, <1>3, <2>3, <3>1
  <2> QED  BY <2>1, <2>4, PortAnswer
<1> QED  BY <1>4, <1>5, <1>6, <1>7 DEF HasDevice

\* layers with one type, name, identifier and parts are the same, whatever they are called
LEMMA SameLayers ==
    ASSUME NEW i, NEW j, NEW a, NEW b, i[1] = a, j[1] = b,
           a.type = b.type, a.dev = b.dev, a.uniq = b.uniq, a.parts = b.parts
    PROVE  SameLayer(i, j)
  BY DEF SameLayer

\* equal interfaces of one layer
LEMMA EqualOnes ==
    ASSUME NEW a, NEW b, a.type = b.type, a.dev = b.dev, a.uniq = b.uniq, a.parts = b.parts
    PROVE  Equal(<<a>>, <<b>>)
<1>1. ASSUME NEW x
      PROVE  <<x>>[1] = x /\ Len(<<x>>) = 1 /\ SubSeq(<<x>>, 1, 1) = <<x>>
  <2>1. <<x>> \in Seq({x}) /\ Len(<<x>>) = 1 /\ <<x>>[1] = x
    OBVIOUS
  <2>2. SubSeq(<<x>>, 1, Len(<<x>>)) = <<x>>
    BY <2>1, SubSeqFull
  <2> QED  BY <2>1, <2>2
<1> DEFINE i == <<a>>  j == <<b>>
<1>2. /\ i[1] = a /\ Len(i) = 1 /\ SubSeq(i, 1, 1) = i
      /\ j[1] = b /\ Len(j) = 1 /\ SubSeq(j, 1, 1) = j
  BY <1>1
<1> HIDE DEF i, j
<1>3. SameLayer(i, j)
  BY <1>2, SameLayers
<1>4. \A n \in 1..1 : SameLayer(SubSeq(i, n, 1), SubSeq(j, n, 1))
  <2>1. 1..1 = {1}
    OBVIOUS
  <2> QED  BY <1>2, <1>3, <2>1
<1>5. Equal(i, j)
  BY <1>2, <1>4 DEF Equal
<1> QED  BY <1>5 DEF i, j

\* equal interfaces of two layers
LEMMA EqualTwos ==
    ASSUME NEW a, NEW b, a.type = b.type, a.dev = b.dev, a.uniq = b.uniq, a.parts = b.parts,
           NEW p, NEW q, p.type = q.type, p.dev = q.dev, p.uniq = q.uniq, p.parts = q.parts
    PROVE  Equal(<<p, a>>, <<q, b>>)
<1> DEFINE i == <<p, a>>  j == <<q, b>>
           k == <<a>>  l == <<b>>
<1>1. /\ Len(i) = 2 /\ i[1] = p /\ SubSeq(i, 1, 2) = i /\ SubSeq(i, 2, 2) = k /\ k[1] = a
      /\ Len(j) = 2 /\ j[1] = q /\ SubSeq(j, 1, 2) = j /\ SubSeq(j, 2, 2) = l /\ l[1] = b
  BY Two
<1> HIDE DEF i, j, k, l
<1>2. SameLayer(i, j) /\ SameLayer(k, l)
  BY <1>1, SameLayers
<1>3. \A n \in 1..2 : SameLayer(SubSeq(i, n, 2), SubSeq(j, n, 2))
  <2>1. 1..2 = {1, 2}
    OBVIOUS
  <2> QED  BY <1>1, <1>2, <2>1
<1>4. Equal(i, j)
  BY <1>1, <1>3 DEF Equal
<1> QED  BY <1>4 DEF i, j

\* what an entity is of an answer that suits
TellsSame(now, e) ==
    now.type = e.type /\ now.sub = e.sub /\ now.dev = e.dev /\ now.uniq = e.uniq
    /\ now.hw = e.hw /\ now.hconf = e.hconf

\* an answer that suits is told by the same entity; for the very device it equals the interface
LEMMA SuitsIsKept ==
    ASSUME NEW m, NEW t, NEW l, Over(m, t, l), NEW e, Tells(e, t, l), NEW search,
           NEW y, Suits(y, l, e), NEW now, now = Layered(Owned(<<y>>, e, search), e)
    PROVE  /\ TellsSame(CopyInterfaceEntity(now), e)
           /\ Exactly(y, l) => IsAgain(now, m)
<1>1. CASE m = <<l>> /\ t = l /\ l.etype \notin {"PPP", "VPN"} /\ l.type # "IPv4"
  <2>1. /\ e.type = l.etype /\ e.sub = l.esub /\ e.dev = l.dev /\ e.uniq = l.uniq /\ e.hconf = l.hconf
        /\ e.hw = Hardware(l.type) /\ e.type \notin {"PPP", "VPN"}
    BY <1>1 DEF Tells
  <2>2. PICK z : Like(z, y) /\ z.path = y.path /\ now = <<z>>
    BY <2>1, Dressed DEF Suits
  <2>3. /\ z.type = y.type /\ z.etype = l.etype /\ z.esub = l.esub /\ z.dev = l.dev /\ z.uniq = l.uniq
        /\ z.hconf = l.hconf /\ z.parts = y.parts /\ z.type # "IPv4"
        /\ Hardware(z.type) = Hardware(l.type)
    BY <2>1, <2>2 DEF Like, Suits
  <2>4. Tells(CopyInterfaceEntity(<<z>>), z, z)
    BY <2>3, EntityOfOne
  <2>5. TellsSame(CopyInterfaceEntity(now), e)
    BY <2>1, <2>2, <2>3, <2>4 DEF Tells, TellsSame
  <2>6. ASSUME Exactly(y, l) PROVE IsAgain(now, m)
    <3>1. Equal(<<z>>, <<l>>)
      BY <2>3, <2>6, EqualOnes DEF Exactly
    <3> QED  BY <1>1, <2>2, <2>6, <3>1, LastIs DEF IsAgain, Exactly
  <2> QED  BY <2>5, <2>6
<1>2. CASE m = <<t, l>> /\ PPPLayer(t, l) /\ l.type \in DOMAIN PPPSubtype
  <2>1. /\ e.type = "PPP" /\ e.sub = PPPSubtype[l.type] /\ e.dev = l.dev /\ e.uniq = l.uniq
        /\ e.hconf = l.hconf /\ e.hw = Hardware(l.type)
    BY <1>2 DEF Tells, PPPLayer
  <2>2. PICK z : /\ Like(z, y) /\ z.path = y.path
                 /\ \E p : now = <<p, z>> /\ PPPLayer(p, z)
    BY <2>1, Dressed DEF Suits
  <2>3. PICK p : now = <<p, z>> /\ PPPLayer(p, z)
    BY <2>2
  <2>4. /\ z.type = y.type /\ z.dev = l.dev /\ z.uniq = l.uniq
        /\ z.hconf = l.hconf /\ z.parts = y.parts /\ z.type # "IPv4"
        /\ Hardware(z.type) = Hardware(l.type) /\ PPPSubtype[z.type] = PPPSubtype[l.type]
    BY <2>1, <2>2 DEF Like, Suits
  <2>5. Tells(CopyInterfaceEntity(<<p, z>>), p, z)
    BY <2>4, EntityOfTwo
  <2>6. TellsSame(CopyInterfaceEntity(now), e)
    BY <2>1, <2>3, <2>4, <2>5 DEF Tells, TellsSame, PPPLayer
  <2>7. ASSUME Exactly(y, l) PROVE IsAgain(now, m)
    <3>1. Equal(<<p, z>>, <<t, l>>)
      BY <1>2, <2>3, <2>4, <2>7, EqualTwos DEF Exactly, PPPLayer
    <3>2. Equal(now, m)
      BY <1>2, <2>3, <3>1
    <3>3. Last(now) = z /\ Last(m) = l
      BY <1>2, <2>3, LastIs
    <3>4. z.path = l.path
      BY <2>2, <2>7 DEF Exactly
    <3> QED  BY <3>2, <3>3, <3>4 DEF IsAgain
  <2> QED  BY <2>6, <2>7
<1> QED  BY <1>1, <1>2 DEF Over

-----------------------------------------------------------------------------
(* The interfaces that there are. *)

\* the one layer of an interface of the system
Leaf(l) ==
    \/ \E k : NetLeaf(l, k) /\ ~IsHidden(Nodes[k].hidden)
    \/ <<l>> \in Virtuals
    \/ PANLeaf(l)
    \/ \E k \in DOMAIN Nodes : /\ Nodes[k].kind = "serial" /\ ~IsHidden(Nodes[k].hidden)
                               /\ SerialLayer(Nodes[k]) = <<l>>

\* a node that is listed is not hidden
LEMMA ListedLeaf ==
    ASSUME present \subseteq DOMAIN Nodes, NEW nodes \in SUBSET (Present("network") \cup Present("serial")),
           NEW i \in AllMatching(nodes)
    PROVE  \E l : i = <<l>> /\ Leaf(l)
<1>1. PICK n \in nodes : i = CreateInterface(Registry, n, FALSE) /\ i # NULL
  BY DEF AllMatching
<1>2. PICK k \in present : n = Nodes[k] /\ Nodes[k].kind \in {"network", "serial"}
  BY DEF Present
<1>3. k \in DOMAIN Nodes /\ ~IsHidden(Nodes[k].hidden)
  BY <1>1, <1>2 DEF CreateInterface
<1>4. CASE Nodes[k].kind = "network"
  <2>1. PICK l : i = <<l>> /\ NetLeaf(l, k)
    BY <1>1, <1>2, <1>3, <1>4, NodeLeaf
  <2> QED  BY <1>3, <2>1 DEF Leaf
<1>5. CASE Nodes[k].kind = "serial"
  <2>1. i = SerialLayer(Nodes[k])
    BY <1>1, <1>2, <1>3, <1>5 DEF CreateInterface
  <2>2. PICK l : i = <<l>>
    BY <1>1, <2>1, SerialShape
  <2> QED  BY <1>3, <1>5, <2>1, <2>2 DEF Leaf
<1> QED  BY <1>2, <1>4, <1>5

\* a hidden device is not found by its name, except when hidden ones are kept
LEMMA HiddenAway ==
    ASSUME present \subseteq DOMAIN Nodes, NEW k \in DOMAIN Nodes, Nodes[k].kind = "network",
           Nodes[k].bsd # None, IsHidden(Nodes[k].hidden)
    PROVE  FindMatching(Registry, Matching(Registry, "network", "bsd", Nodes[k].bsd), FALSE) = <<>>
<1>1. ASSUME NEW j \in Matching(Registry, "network", "bsd", Nodes[k].bsd)
      PROVE  CreateInterface(Registry, Registry[j], FALSE) = NULL
  <2>1. /\ j \in DOMAIN Nodes /\ Registry[j] = Nodes[j]
        /\ Nodes[j].kind = "network" /\ Nodes[j].bsd = Nodes[k].bsd
    BY DEF Matching, Registry
  <2>2. j = k
    BY <2>1, NamesAssumption DEF Differ
  <2> QED  BY <2>1, <2>2 DEF CreateInterface
<1>2. Made(Registry, Matching(Registry, "network", "bsd", Nodes[k].bsd), FALSE) = {}
  BY <1>1 DEF Made
<1> QED  BY <1>2, ListOfNone

\* the stand-in for a Bluetooth PAN that has no device
LEMMA PANStandIn ==
    ASSUME NEW v
    PROVE  \E s : StandIn(v, PANEntity, Plain) = <<s>> /\ PANLeaf([s EXCEPT !.hconf = FALSE])
<1> DEFINE e == PANEntity
           b == Bare(e, Plain)
           s == EthernetStandIn(b, e)
<1>1. /\ e.type = "Ethernet" /\ e.sub = "" /\ e.dev = PANName /\ e.uniq = None /\ e.hw = ""
      /\ e.name = BTPAN /\ Type(e) = "Ethernet"
  BY DEF PANEntity, Entity, Type
<1>2. BTPAN # None /\ Head(BTPAN) = "bluetooth-pan-gn" /\ <<Head(BTPAN)>> = BTPAN
  BY DEF BTPAN, None
<1>3. StandIn(v, e, Plain) = <<s>>
  <2>1. ~Plain.service
    BY DEF Plain
  <2>2. EthernetOrVirtual(v, e, Plain) = <<s>>
    BY <2>1 DEF EthernetOrVirtual
  <2> HIDE DEF e, s
  <2>3. StandIn(v, e, Plain) = EthernetOrVirtual(v, e, Plain)
    BY <1>1, StandInOf
  <2> QED  BY <2>2, <2>3
<1>4. /\ DOMAIN b = DOMAIN Blank /\ b.etype = "Ethernet" /\ b.esub = "" /\ b.dev = PANName
      /\ b.uniq = None /\ b.name = None /\ b.parts = <<>> /\ b.path = <<>> /\ b.loc = None
  BY <1>1 DEF Bare, Blank, Plain
<1> DEFINE sort == CHOOSE x \in {"BluetoothPAN_GN", "BluetoothPAN_NAP", "BluetoothPAN_U"} :
                       FixedKeys[x] = Head(e.name)
<1>5. s = [b EXCEPT !.type = "Ethernet", !.key = <<Head(e.name)>>, !.sort = sort, !.builtin = FALSE]
  <2>1. \A key : MatchesName(e.name, key) <=> key = "bluetooth-pan-gn"
    BY <1>1, <1>2 DEF MatchesName
  <2> QED  BY <1>1, <2>1 DEF EthernetStandIn
<1>6. sort = "BluetoothPAN_GN"
  <2>1. /\ FixedKeys["BluetoothPAN_GN"] = "bluetooth-pan-gn"
        /\ FixedKeys["BluetoothPAN_NAP"] # "bluetooth-pan-gn"
        /\ FixedKeys["BluetoothPAN_U"] # "bluetooth-pan-gn"
    BY DEF FixedKeys
  <2> QED  BY <1>1, <1>2, <2>1
<1> HIDE DEF b, s, sort, e
<1>7. PANLeaf([s EXCEPT !.hconf = FALSE])
  <2>1. /\ DOMAIN [s EXCEPT !.hconf = FALSE] = DOMAIN b
    BY <1>5
  <2> QED  BY <1>1, <1>2, <1>4, <1>5, <1>6, <2>1 DEF PANLeaf, Blank
<1> QED  BY <1>3, <1>7 DEF e

\* the Bluetooth PAN, when a thread without a cache looks for it
LEMMA PANListed ==
    ASSUME FoundInv, ~cache.open, PANName # None
    PROVE  \E l : Answer(PANEntity, Plain) = <<l>> /\ Leaf(l) /\ l.dev # None
<1> DEFINE e == PANEntity
           f == Found(Registry, virtual, cache, e, Plain)
           list == NetworkInterfaces(Registry, cache, e, Plain)
<1>1. /\ e.type = "Ethernet" /\ e.dev = PANName /\ e.uniq = None /\ e.without = {}
      /\ e.name = BTPAN /\ e.hconf = FALSE
  BY DEF PANEntity, Entity
<1>2. IsNetwork(e) /\ ~Rejected(e) /\ Type(e) = "Ethernet"
  BY <1>1 DEF IsNetwork, Rejected, Type, IsSerial
<1>3. Plain.system /\ ~Plain.service /\ Plain.keepHidden = FALSE
  BY DEF Plain
<1>4. list = FindMatching(Registry, Matching(Registry, "network", "bsd", PANName), FALSE)
  BY <1>1, <1>3 DEF NetworkInterfaces, FoundInv
<1>5. ASSUME NEW i
      PROVE  Layered(Owned(i, e, Plain), e) = i
  BY <1>1, <1>3 DEF Layered, Owned
<1> HIDE DEF e
<1>6. e.dev \notin {None, <<"lo", "0">>}
  BY <1>1, VirtualsAssumption
<1>7. \/ list = <<>> /\ f = NULL
      \/ \E x, k : NetLeaf(x, k) /\ Nodes[k].bsd = e.dev /\ f = <<x>>
  BY <1>1, <1>2, <1>3, <1>6, NetFound
<1>8. CASE f = NULL
  <2>1. PICK s : StandIn(virtual, e, Plain) = <<s>> /\ PANLeaf([s EXCEPT !.hconf = FALSE])
    BY PANStandIn DEF e
  <2> DEFINE l == [s EXCEPT !.hconf = FALSE]
  <2>2. Answer(e, Plain) = Layered(Owned(<<l>>, e, Plain), e)
    BY <1>1, <1>2, <1>3, <1>8, <2>1, AnswerStands
  <2>3. PANLeaf(l) /\ l.dev # None
    BY <2>1 DEF PANLeaf
  <2> HIDE DEF l
  <2>4. Answer(e, Plain) = <<l>>
    BY <1>5, <2>2
  <2> QED  BY <2>3, <2>4 DEF Leaf, e
<1>9. CASE f # NULL
  <2>1. PICK x, k : NetLeaf(x, k) /\ Nodes[k].bsd = e.dev /\ f = <<x>>
    BY <1>7, <1>9
  <2>2. Answer(e, Plain) = <<x>>
    BY <1>2, <1>3, <1>5, <1>9, <2>1, AnswerFound
  <2>3. ~IsHidden(Nodes[k].hidden)
    <3>1. CASE IsHidden(Nodes[k].hidden)
      <4>1. list = <<>>
        BY <1>1, <1>4, <2>1, <3>1, HiddenAway DEF NetLeaf, FoundInv
      <4>2. f = Choose(list, virtual, e)
        BY <1>2, <1>3, <1>6, FoundIs
      <4>3. f = NULL
        BY <1>1, <4>1, <4>2, ChooseNone
      <4> QED  BY <1>9, <4>3
    <3> QED  BY <3>1
  <2>4. x.dev # None
    BY <1>1, <2>1 DEF NetLeaf
  <2> QED  BY <2>1, <2>2, <2>3, <2>4 DEF Leaf, e
<1> QED  BY <1>8, <1>9

\* every interface of the list is of one layer
LEMMA CopyAllLeaf ==
    ASSUME FoundInv, ~cache.open, NEW i \in CopyAll
    PROVE  \E l : i = <<l>> /\ Leaf(l) /\ l.dev # None
<1> DEFINE serial == UNION {CopyAllSerial(s) : s \in {"modem", "rs232"}}
<1>1. \/ i[1].dev # None /\ i \in CopyAllNetwork \cup serial \cup virtual
      \/ NeedsPAN /\ i = Answer(PANEntity, Plain)
  BY DEF CopyAll
<1>2. ASSUME NEW j, j \in CopyAllNetwork \cup serial \cup virtual, j[1].dev # None
      PROVE  \E l : j = <<l>> /\ Leaf(l) /\ l.dev # None
  <2>1. CASE j \in CopyAllNetwork
    <3>1. PICK l : j = <<l>> /\ Leaf(l)
      BY <2>1, ListedLeaf DEF CopyAllNetwork, FoundInv
    <3> QED  BY <1>2, <3>1
  <2>2. CASE j \in serial
    <3>1. PICK s \in {"modem", "rs232"} : j \in CopyAllSerial(s)
      BY <2>2
    <3>2. PICK l : j = <<l>> /\ Leaf(l)
      BY <3>1, ListedLeaf DEF CopyAllSerial, FoundInv
    <3> QED  BY <1>2, <3>2
  <2>3. CASE j \in virtual
    <3>1. j \in Virtuals
      BY <2>3 DEF FoundInv
    <3>2. PICK l : j = <<l>>
      BY <3>1, VirtualsAssumption DEF VirtualInterface
    <3> QED  BY <1>2, <3>1, <3>2 DEF Leaf
  <2> QED  BY <1>2, <2>1, <2>2, <2>3
<1> HIDE DEF serial
<1>3. NeedsPAN => PANName # None
  BY DEF NeedsPAN
<1> QED  BY <1>1, <1>2, <1>3, PANListed

\* what its layer tells of an interface of the system
LEMMA LeafFields ==
    ASSUME NEW l, Leaf(l), l.dev # None
    PROVE  /\ DOMAIN l = DOMAIN Blank
           /\ l.type \in {"Ethernet", "IEEE80211", "FireWire", "Bond", "Bridge", "VLAN",
                          "Bluetooth", "IrDA", "WWAN", "Modem"}
           /\ l.etype \in {"Ethernet", "FireWire", "Modem"}
<1>1. CASE \E k : NetLeaf(l, k) /\ ~IsHidden(Nodes[k].hidden)
  BY <1>1, NetDevice DEF Device
<1>2. CASE <<l>> \in Virtuals
  BY <1>2, VirtualFields DEF Device
<1>3. CASE PANLeaf(l)
  BY <1>3 DEF PANLeaf
<1>4. CASE \E k \in DOMAIN Nodes : SerialLayer(Nodes[k]) = <<l>>
  <2>1. PICK k \in DOMAIN Nodes : SerialLayer(Nodes[k]) = <<l>>
    BY <1>4
  <2>2. SerialLayer(Nodes[k]) # NULL
    BY <2>1 DEF NULL
  <2>3. PICK x : SerialLayer(Nodes[k]) = <<x>> /\ PortFields(x, Nodes[k])
    BY <2>2, SerialShape
  <2>4. x = l /\ SerialType(Nodes[k]) \in {"Bluetooth", "IrDA", "WWAN", "Modem"}
    BY <2>1, <2>2, <2>3, SerialShape
  <2> QED  BY <2>3, <2>4 DEF PortFields
<1> QED  BY <1>1, <1>2, <1>3, <1>4 DEF Leaf

\* what may be layered over it: PPP
LEMMA LayersOfLeaf ==
    ASSUME NEW l, Leaf(l), l.dev # None, NEW j \in Layers(<<l>>), Expressible(j)
    PROVE  \E p : j = <<p, l>> /\ PPPLayer(p, l) /\ l.type \in DOMAIN PPPSubtype
<1> DEFINE i == <<l>>
<1>1. /\ DOMAIN l = DOMAIN Blank
      /\ l.type \in {"Ethernet", "IEEE80211", "FireWire", "Bond", "Bridge", "VLAN",
                     "Bluetooth", "IrDA", "WWAN", "Modem"}
  BY LeafFields
<1>2. Len(i) = 1 /\ i[1] = l /\ i # NULL
  BY DEF NULL
<1> HIDE DEF i
<1>3. i # IPv4
  BY <1>1, <1>2, IPv4Is
<1>4. SupportedInterfaceTypes(i) \subseteq {"PPP"}
  BY <1>1, <1>2 DEF SupportedInterfaceTypes, Supports, IsOver
<1>5. PICK type : type = "PPP" /\ j = CreateWithInterface(i, type) /\ j # NULL
  BY <1>3, <1>4 DEF Layers, i
<1>6. j = CreateWithInterface(i, "PPP")
  BY <1>5
<1>7. j = OverPPP(i)
  <2>1. "PPP" \notin Vendors
    BY VendorsAssumption, SubtypeTold DEF Known
  <2>2. i # Loopback
    <3>1. Loopback[1].type = "Loopback"
      BY DEF Loopback, Blank
    <3> QED  BY <1>1, <1>2, <3>1
  <2> QED  BY <1>2, <1>6, <2>1, <2>2 DEF CreateWithInterface
<1>8. l.type \in DOMAIN PPPSubtype \/ l.type = "IrDA"
  <2>1. Known(l.type) => l.type \in DOMAIN PPPSubtype
    BY <1>2, <1>5, <1>7 DEF OverPPP
  <2> QED  BY <1>1, <2>1, SubtypeTold DEF Known
<1>9. l.type # "IrDA"
  <2>1. CASE l.type = "IrDA"
    <3>1. ~Known(l.type)
      BY <2>1, SubtypeTold DEF Known
    <3>2. PICK p : OverPPP(i) = <<p>> \o i
      BY <1>2, <3>1 DEF OverPPP
    <3>3. j = <<p, l>>
      BY <1>7, <3>2, Two DEF i
    <3>4. Len(j) = 2 /\ j[2] = l
      BY <3>3
    <3>5. IsOver(j, "IrDA")
      BY <2>1, <3>4 DEF IsOver
    <3> QED  BY <3>5 DEF Expressible
  <2> QED  BY <2>1
<1> QED  BY <1>1, <1>7, <1>8, <1>9, OverPPPIs DEF i

\* an interface of the system is what a service can be found again by
LEMMA LeafServes ==
    ASSUME NEW l, Leaf(l), l.dev # None, NEW j \in {<<l>>} \cup Layers(<<l>>),
           MayServe(j), Expressible(j)
    PROVE  Served(j)
<1>1. /\ DOMAIN l = DOMAIN Blank
      /\ l.type \in {"Ethernet", "IEEE80211", "FireWire", "Bond", "Bridge", "VLAN",
                     "Bluetooth", "IrDA", "WWAN", "Modem"}
      /\ l.etype \in {"Ethernet", "FireWire", "Modem"}
  BY LeafFields
<1>2. CASE j = <<l>>
  <2>1. l.etype # "Modem"
    BY <1>2 DEF MayServe
  <2>2. Over(j, l, l)
    BY <1>1, <1>2 DEF Over
  <2>3. ASSUME NEW k \in DOMAIN Nodes PROVE SerialLayer(Nodes[k]) # <<l>>
    <3>1. SerialLayer(Nodes[k]) = <<l>> => SerialLayer(Nodes[k]) # NULL
      BY DEF NULL
    <3>2. SerialLayer(Nodes[k]) # NULL => \E x : SerialLayer(Nodes[k]) = <<x>> /\ x.etype = "Modem"
      BY SerialShape DEF PortFields
    <3> QED  BY <2>1, <3>1, <3>2
  <2>4. HasDevice(j, l, l)
    <3>1. \/ \E k : NetLeaf(l, k) /\ ~IsHidden(Nodes[k].hidden)
          \/ <<l>> \in Virtuals
          \/ PANLeaf(l)
      BY <2>3 DEF Leaf
    <3> QED  BY <1>2, <3>1 DEF HasDevice
  <2> QED  BY <2>2, <2>4 DEF Served
<1>3. CASE j \in Layers(<<l>>)
  <2>1. PICK p : j = <<p, l>> /\ PPPLayer(p, l) /\ l.type \in DOMAIN PPPSubtype
    BY <1>3, LayersOfLeaf
  <2>2. Over(j, p, l)
    BY <1>1, <2>1 DEF Over, PPPLayer
  <2>3. l.type # "VLAN" /\ l.type # "IrDA"
    <3>1. Len(j) = 2 /\ j[2] = l
      BY <2>1
    <3> QED  BY <3>1 DEF Expressible, IsOver
  <2>4. <<l>> \notin Virtuals
    <3>1. <<l>> \in Virtuals => l.type \in {"Bond", "Bridge", "VLAN"}
      BY VirtualFields
    <3> QED  BY <2>1, <2>3, <3>1, SubtypeTold
  <2>5. HasDevice(j, p, l)
    <3>1. CASE \E k : NetLeaf(l, k) /\ ~IsHidden(Nodes[k].hidden)
      BY <3>1 DEF HasDevice
    <3>2. CASE PANLeaf(l)
      BY <3>2 DEF HasDevice
    <3>3. CASE \E k \in DOMAIN Nodes : /\ Nodes[k].kind = "serial" /\ ~IsHidden(Nodes[k].hidden)
                                       /\ SerialLayer(Nodes[k]) = <<l>>
      <4>1. \E k : PortLeaf(l, k)
        BY <2>3, <3>3 DEF PortLeaf
      <4> QED  BY <2>1, <4>1 DEF HasDevice
    <3> QED  BY <2>4, <3>1, <3>2, <3>3 DEF Leaf
  <2> QED  BY <2>2, <2>5 DEF Served
<1> QED  BY <1>2, <1>3

\* so is an interface over IPv4
LEMMA IPServes ==
    ASSUME NEW i \in Layers(IPv4), NEW j \in {i} \cup Layers(i), MayServe(j)
    PROVE  Served(j)
<1> DEFINE IPTypes == {"6to4", "L2TP", "PPTP", "IPSec"} \cup Vendors
<1>1. PICK type \in IPTypes : i = OverIP(type)
  <2>1. SupportedInterfaceTypes(IPv4) \subseteq IPTypes
    <3>1. Known("IPv4")
      BY DEF Known
    <3> QED  BY <3>1, IPv4Is DEF SupportedInterfaceTypes, Supports
  <2> QED  BY <2>1 DEF Layers, OverIP
<1>2. PICK x : IPParent(x, type)
  BY <1>1, OverIPIs
<1>3. i = <<x, IPLayer>> /\ x.type = type /\ x.etype = type
  BY <1>1, <1>2 DEF IPParent
<1>4. i[1] = x /\ Len(i) = 2 /\ i # IPv4
  <2>1. Len(IPv4) = 1
    BY IPv4Is
  <2>2. Len(<<x, IPLayer>>) = 2 /\ <<x, IPLayer>>[1] = x
    OBVIOUS
  <2> QED  BY <1>3, <2>1, <2>2
<1>5. "PPP" \notin Vendors /\ "VPN" \notin Vendors
  BY VendorsAssumption DEF Known
<1>6. CASE j = i
  <2>1. type \notin {"L2TP", "PPTP"}
    BY <1>3, <1>4, <1>6 DEF MayServe
  <2>2. OnIPv4(j, type, "")
    BY <1>1, <1>6, <2>1 DEF OnIPv4
  <2> QED  BY <2>2 DEF Served
<1>7. CASE j \in Layers(i)
  <2>1. SupportedInterfaceTypes(i) \subseteq {"PPP", "VPN"}
    <3>1. x.type # "IPv4"
      BY <1>1, <1>3, VendorsAssumption DEF Known
    <3> QED  BY <1>4, <3>1 DEF SupportedInterfaceTypes, Supports
  <2>2. PICK over \in {"PPP", "VPN"} : j = CreateWithInterface(i, over) /\ j # NULL
    BY <1>4, <1>7, <2>1 DEF Layers
  <2>3. CASE over = "PPP"
    <3>1. j = CreateWithInterface(i, "PPP")
      BY <2>2, <2>3
    <3>2. j = OverPPP(i)
      BY <1>5, <2>2, <3>1 DEF CreateWithInterface
    <3>3. ~(Known(type) /\ type \notin DOMAIN PPPSubtype)
      BY <1>3, <1>4, <2>2, <3>2 DEF OverPPP
    <3>4. type \in {"L2TP", "PPTP"} \cup Vendors
      BY <1>1, <3>3, SubtypeTold DEF Known
    <3>5. OnIPv4(j, "PPP", type)
      BY <1>1, <3>1, <3>4 DEF OnIPv4
    <3> QED  BY <3>5 DEF Served
  <2>4. CASE over = "VPN"
    <3>1. j = CreateWithInterface(i, "VPN")
      BY <2>2, <2>4
    <3>2. j = OverVPN(i)
      BY <1>5, <2>2, <3>1 DEF CreateWithInterface
    <3>3. ~Known(type)
      BY <1>3, <1>4, <2>2, <3>2 DEF OverVPN
    <3>4. type \in Vendors
      BY <1>1, <3>3, SubtypeTold DEF Known
    <3>5. OnIPv4(j, "VPN", type)
      BY <1>1, <3>1, <3>4 DEF OnIPv4
    <3> QED  BY <3>5 DEF Served
  <2> QED  BY <2>2, <2>3, <2>4
<1> QED  BY <1>6, <1>7

-----------------------------------------------------------------------------
(* The service, and the interface that it gets. *)

\* a service keeps the entity of an interface that can be found again
ServiceInv ==
    service.there =>
        /\ service.entity = CopyInterfaceEntity(service.made)
        /\ Expressible(service.made) => Served(service.made)

GetsInv == FoundInv /\ ServiceInv

\* at first there is no service
LEMMA GetsInit == Init => GetsInv
<1> SUFFICES ASSUME Init PROVE GetsInv
  OBVIOUS
<1>1. FoundInv
  <2>1. present \subseteq DOMAIN Nodes
    BY NodesAssumption DEF Init
  <2>2. virtual \subseteq Virtuals /\ cache = Closed
    BY DEF Init
  <2> QED  BY <2>1, <2>2 DEF FoundInv, Closed
<1>2. ServiceInv
  BY DEF Init, ServiceInv, NoService
<1> QED  BY <1>1, <1>2 DEF GetsInv

\* a search adds a list for a name at most
LEMMA LookFinds ==
    ASSUME FoundInv, NEW e, NEW search, Look(e, search)
    PROVE  FoundInv'
<1> DEFINE list == NetworkInterfaces(Registry, cache, e, search)
<1>1. UNCHANGED <<present, virtual>> /\ cache' = CacheAdd(Registry, cache, e, search)
  BY DEF Look
<1>2. CASE cache.open /\ IsCached(e, search)
  <2>1. cache' = [cache EXCEPT !.found = Added(@, e.dev, list)]
    BY <1>1, <1>2 DEF CacheAdd
  <2>2. cache' = [open |-> cache.open, found |-> Added(cache.found, e.dev, list)]
    BY <2>1 DEF FoundInv
  <2>3. e.dev # None => NetList(list, e.dev)
    BY ListKnown
  <2>4. cache'.found = Added(cache.found, e.dev, list) /\ cache'.open
    BY <1>2, <2>2
  <2> HIDE DEF list
  <2>5. ASSUME NEW d \in DOMAIN cache'.found, NEW x, d # None, x = cache'.found[d]
        PROVE  NetList(x, d)
    <3>1. d \in DOMAIN cache.found \cup {e.dev}
      BY <2>4, <2>5 DEF Added
    <3>2. x = IF d = e.dev THEN list ELSE cache.found[d]
      BY <2>4, <2>5, <3>1 DEF Added
    <3> QED  BY <2>3, <2>5, <3>1, <3>2 DEF FoundInv
  <2>6. cache' = [open |-> cache'.open, found |-> cache'.found]
    BY <2>2
  <2> QED  BY <1>1, <2>4, <2>5, <2>6 DEF FoundInv
<1>3. CASE ~(cache.open /\ IsCached(e, search))
  <2>1. cache' = cache
    BY <1>1, <1>3 DEF CacheAdd
  <2> QED  BY <1>1, <2>1 DEF FoundInv
<1> QED  BY <1>2, <1>3

\* what a service is made for is found again
LEMMA MakeServes ==
    ASSUME FoundInv, MakeService
    PROVE  ServiceInv'
<1>1. ~cache.open
  BY DEF MakeService
<1>2. PICK i \in CopyAll \cup Layers(IPv4) : \E j \in {i} \cup Layers(i) :
         MayServe(j) /\ service' = [there |-> TRUE, entity |-> CopyInterfaceEntity(j), made |-> j]
  BY DEF MakeService
<1>3. PICK j \in {i} \cup Layers(i) :
         MayServe(j) /\ service' = [there |-> TRUE, entity |-> CopyInterfaceEntity(j), made |-> j]
  BY <1>2
<1>4. ASSUME Expressible(j) PROVE Served(j)
  <2>1. CASE i \in CopyAll
    <3>1. PICK l : i = <<l>> /\ Leaf(l) /\ l.dev # None
      BY <1>1, <2>1, CopyAllLeaf
    <3> QED  BY <1>3, <1>4, <3>1, LeafServes
  <2>2. CASE i \in Layers(IPv4)
    BY <1>3, <2>2, IPServes
  <2> QED  BY <2>1, <2>2
<1>5. service'.made = j /\ service'.entity = CopyInterfaceEntity(j)
  BY <1>3
<1> QED  BY <1>4, <1>5 DEF ServiceInv

\* whatever comes and goes, the lists and the service stay sound
LEMMA GetsStep == GetsInv /\ [Next]_vars => GetsInv'
<1> SUFFICES ASSUME GetsInv, [Next]_vars PROVE GetsInv'
  OBVIOUS
<1>1. FoundInv /\ ServiceInv
  BY DEF GetsInv
<1>2. ASSUME cache' = cache, present' \subseteq DOMAIN Nodes, virtual' \subseteq Virtuals
      PROVE  FoundInv'
  BY <1>1, <1>2 DEF FoundInv
<1>3. ASSUME service' = service PROVE ServiceInv'
  BY <1>1, <1>3 DEF ServiceInv
<1>4. present \subseteq DOMAIN Nodes /\ virtual \subseteq Virtuals
  BY <1>1 DEF FoundInv
<1>5. CASE CacheOpen \/ CacheClose
  <2>1. /\ UNCHANGED <<present, virtual, service>>
        /\ cache' \in {Closed, [Closed EXCEPT !.open = TRUE]}
    BY <1>5 DEF CacheOpen, CacheClose
  <2>2. FoundInv'
    BY <1>4, <2>1 DEF FoundInv, Closed
  <2> QED  BY <1>3, <2>1, <2>2 DEF GetsInv
<1>6. CASE LookByName \/ LookForService \/ List
  <2>1. PICK e, search : Look(e, search)
    BY <1>6 DEF LookByName, LookForService, List
  <2>2. FoundInv'
    BY <1>1, <2>1, LookFinds
  <2> QED  BY <1>3, <2>1, <2>2 DEF GetsInv, Look
<1>7. CASE MakeService
  BY <1>1, <1>2, <1>4, <1>7, MakeServes DEF GetsInv, MakeService
<1>8. CASE RemoveService
  <2>1. ServiceInv'
    BY <1>8 DEF RemoveService, ServiceInv, NoService
  <2> QED  BY <1>2, <1>4, <1>8, <2>1 DEF GetsInv, RemoveService
<1>9. CASE Attach \/ Detach \/ Connect \/ EditVirtual
  <2>1. present' \subseteq DOMAIN Nodes /\ virtual' \subseteq Virtuals
    BY <1>4, <1>9 DEF Attach, Detach, Connect, EditVirtual
  <2>2. cache' = cache /\ service' = service
    BY <1>9 DEF Attach, Detach, Connect, EditVirtual
  <2> QED  BY <1>2, <1>3, <2>1, <2>2 DEF GetsInv
<1>10. CASE Save \/ NewUnit \/ Forget
  <2>1. UNCHANGED <<present, virtual, cache, service>>
    BY <1>10 DEF Save, NewUnit, Renumber, Forget
  <2> QED  BY <1>2, <1>3, <1>4, <2>1 DEF GetsInv
<1>11. CASE UNCHANGED vars
  BY <1>2, <1>3, <1>4, <1>11 DEF GetsInv, vars
<1> QED  BY <1>5, <1>6, <1>7, <1>8, <1>9, <1>10, <1>11 DEF Next

\* the lists and the service are always sound
LEMMA Gets == Spec => []GetsInv
  BY GetsInit, GetsStep, PTL DEF Spec

\* the name of a PPP link means the entity of the service
LEMMA WithoutNone ==
    ASSUME NEW m
    PROVE  [CopyInterfaceEntity(m) EXCEPT !.without = {}] = CopyInterfaceEntity(m)
<1> DEFINE own == [Entity EXCEPT !.type = m[1].etype, !.sub = m[1].esub, !.dev = m[1].dev,
                                 !.uniq = m[1].uniq, !.hconf = m[1].hconf]
<1>1. CopyInterfaceEntity(m) = own \/ \E hw, name : CopyInterfaceEntity(m) = [own EXCEPT !.hw = hw, !.name = name]
  BY DEF CopyInterfaceEntity
<1> QED  BY <1>1 DEF Entity

\* the entity of an interface for a device tells that device
LEMMA OverTells ==
    ASSUME NEW m, NEW t, NEW l, Over(m, t, l)
    PROVE  Tells(CopyInterfaceEntity(m), t, l)
<1>1. l.type # "IPv4"
  BY SubtypeTold DEF Over
<1> QED  BY <1>1, EntityOfOne, EntityOfTwo DEF Over

\* an attached service gets its interface, whoever looks for it
LEMMA GetsAttached ==
    ASSUME GetsInv, Watched, ~cache.open, Attached(service.made), NEW search, search.system
    PROVE  IsAgain(Answer(service.entity, search), service.made)
<1> DEFINE m == service.made
           e == service.entity
<1>1. e = CopyInterfaceEntity(m) /\ Served(m) /\ IsClear(e)
  BY DEF GetsInv, ServiceInv, Watched
<1>2. FoundInv
  BY DEF GetsInv
<1> HIDE DEF m, e
<1>3. CASE \E type, sub : OnIPv4(m, type, sub)
  <2>1. PICK type, sub : OnIPv4(m, type, sub)
    BY <1>3
  <2>2. TellsOver(e, type, sub)
    BY <1>1, <2>1, OnIPv4Entity
  <2>3. Answer(e, search) = m
    BY <2>1, <2>2, OnIPv4Answer
  <2> QED  BY <2>3 DEF IsAgain, Equal, m, e
<1>4. CASE \E t, l : Over(m, t, l) /\ HasDevice(m, t, l)
  <2>1. PICK t, l : Over(m, t, l) /\ HasDevice(m, t, l)
    BY <1>4
  <2>2. Tells(e, t, l)
    BY <1>1, <2>1, OverTells
  <2>3. PICK y : /\ Answer(e, search) = Layered(Owned(<<y>>, e, search), e)
                 /\ Suits(y, l, e)
                 /\ ~cache.open /\ Attached(m) => Exactly(y, l)
    BY <1>1, <1>2, <2>1, <2>2, DeviceAnswer
  <2>4. Exactly(y, l)
    BY <2>3 DEF m
  <2> QED  BY <2>1, <2>2, <2>3, <2>4, SuitsIsKept DEF m, e
<1> QED  BY <1>1, <1>3, <1>4 DEF Served

(***************************************************************************)
(* A service whose device is attached gets an interface equal to the one   *)
(* it was made for, from the registry, by the entity that the service      *)
(* keeps and by the name of its PPP link: whatever other devices came and  *)
(* went, of any kind and number, when it is clear which serial port the    *)
(* entity tells (_SCNetworkInterfaceCreateWithEntity,                      *)
(* _SCNetworkInterfaceCreateWithBSDName).                                  *)
(***************************************************************************)
THEOREM FoundAgain == Spec => []FindsAgain
<1>1. ASSUME GetsInv PROVE FindsAgain
  <2> SUFFICES ASSUME Watched, ~cache.open, Attached(service.made)
               PROVE  /\ IsAgain(Answer(service.entity, Service), service.made)
                      /\ linked => IsAgain(Answer(ByName(PPPName, {}), System), service.made)
    BY DEF FindsAgain
  <2>1. Service.system /\ System.system
    BY DEF Service, System
  <2>2. ASSUME linked PROVE ByName(PPPName, {}) = service.entity
    <3>1. service.entity = CopyInterfaceEntity(service.made)
      BY <1>1 DEF GetsInv, ServiceInv, Watched
    <3>2. ByName(PPPName, {}) = [service.entity EXCEPT !.without = {}]
      BY <2>2 DEF ByName
    <3> QED  BY <3>1, <3>2, WithoutNone
  <2> QED  BY <1>1, <2>1, <2>2, GetsAttached
<1> QED  BY <1>1, Gets, PTL

(***************************************************************************)
(* Whatever is attached, and whatever the thread's cache holds, the        *)
(* interface that a service gets has the type, the subtype, the name and   *)
(* the identifier that its entity tells; that of a device that is absent   *)
(* has its hardware and its hidden configuration too                       *)
(* (_SCNetworkInterfaceCreateWithEntity, __SCNetworkInterfaceCopyEntity).  *)
(***************************************************************************)
THEOREM EntitiesStay == Spec => []EntityKept
<1>1. ASSUME GetsInv, Watched
      PROVE  TellsSame(CopyInterfaceEntity(Answer(service.entity, Service)), service.entity)
  <2> DEFINE m == service.made
             e == service.entity
  <2>1. e = CopyInterfaceEntity(m) /\ Served(m) /\ IsClear(e)
    BY <1>1 DEF GetsInv, ServiceInv, Watched
  <2>2. FoundInv /\ Service.system
    BY <1>1 DEF GetsInv, Service
  <2> HIDE DEF m, e
  <2>3. CASE \E type, sub : OnIPv4(m, type, sub)
    <3>1. PICK type, sub : OnIPv4(m, type, sub)
      BY <2>3
    <3>2. TellsOver(e, type, sub)
      BY <2>1, <3>1, OnIPv4Entity
    <3>3. Answer(e, Service) = m
      BY <2>2, <3>1, <3>2, OnIPv4Answer
    <3> QED  BY <2>1, <3>3 DEF TellsSame, m, e
  <2>4. CASE \E t, l : Over(m, t, l) /\ HasDevice(m, t, l)
    <3>1. PICK t, l : Over(m, t, l) /\ HasDevice(m, t, l)
      BY <2>4
    <3>2. Tells(e, t, l)
      BY <2>1, <3>1, OverTells
    <3>3. PICK y : Answer(e, Service) = Layered(Owned(<<y>>, e, Service), e) /\ Suits(y, l, e)
      BY <2>1, <2>2, <3>1, <3>2, DeviceAnswer
    <3> QED  BY <3>1, <3>2, <3>3, SuitsIsKept DEF m, e
  <2> QED  BY <2>1, <2>3, <2>4 DEF Served
<1>2. ASSUME GetsInv PROVE EntityKept
  BY <1>1, <1>2 DEF EntityKept, TellsSame
<1> QED  BY <1>2, Gets, PTL

-----------------------------------------------------------------------------
(* The order of a list of interfaces. *)

\* a set of numbers has a least one
LEMMA LeastIs ==
    ASSUME NEW S, S \subseteq Nat, S # {}
    PROVE  Min(S) \in S /\ \A j \in S : Min(S) <= j
<1>1. PICK m \in S : \A j \in S : ~(<<j, m>> \in OpToRel(<, Nat))
  BY NatLessThanWellFounded, WFMin
<1>2. \A j \in S : ~(j < m)
  BY <1>1 DEF OpToRel
<1>3. \A j \in S : m <= j
  BY <1>2
<1> QED  BY <1>3 DEF Min

\* the first result is that of the least place that is not "equal"
LEMMA FirstIs ==
    ASSUME NEW f, DOMAIN f \subseteq Nat
    PROVE  /\ (\A k \in DOMAIN f : f[k] = 0) => First(f) = 0
           /\ \A k \in DOMAIN f : f[k] # 0 /\ (\A j \in DOMAIN f : j < k => f[j] = 0) => First(f) = f[k]
           /\ \/ \A k \in DOMAIN f : f[k] = 0
              \/ \E k \in DOMAIN f : f[k] # 0 /\ \A j \in DOMAIN f : j < k => f[j] = 0
<1> DEFINE differ == {k \in DOMAIN f : f[k] # 0}
<1>1. First(f) = IF differ = {} THEN 0 ELSE f[Min(differ)]
  BY DEF First
<1>2. differ # {} => Min(differ) \in differ /\ \A j \in differ : Min(differ) <= j
  BY LeastIs
<1>3. ASSUME NEW k \in DOMAIN f, f[k] # 0, \A j \in DOMAIN f : j < k => f[j] = 0
      PROVE  First(f) = f[k]
  <2>1. k \in differ
    BY <1>3
  <2>2. Min(differ) = k
    <3>1. Min(differ) \in differ /\ Min(differ) <= k
      BY <1>2, <2>1
    <3>2. ~(Min(differ) < k)
      BY <1>3, <3>1
    <3> QED  BY <3>1, <3>2
  <2> QED  BY <1>1, <2>1, <2>2
<1>4. CASE differ = {}
  BY <1>1, <1>3, <1>4
<1>5. CASE differ # {}
  <2>1. PICK k \in differ : \A j \in differ : k <= j
    BY <1>2, <1>5
  <2>2. \A j \in DOMAIN f : j < k => f[j] = 0
    BY <2>1
  <2> QED  BY <1>3, <2>1, <2>2
<1> QED  BY <1>4, <1>5

\* results of comparisons
Results == {-1, 0, 1}

\* Of three comparisons, of a with b, b with c and a with c: if a is not after
\* b, and b not after c, then a is not after c, and equal to it only if all are.
Chain(x, y, z) == x <= 0 /\ y <= 0 => z <= 0 /\ (z = 0 <=> x = 0 /\ y = 0)

\* if comparisons chain wherever all before are equal, their first results do
LEMMA FirstChain ==
    ASSUME NEW K, K \subseteq Nat,
           NEW f \in [K -> Results], NEW g \in [K -> Results], NEW h \in [K -> Results],
           \A k \in K : (\A j \in K : j < k => f[j] = 0 /\ g[j] = 0 /\ h[j] = 0) => Chain(f[k], g[k], h[k])
    PROVE  /\ Chain(First(f), First(g), First(h))
           /\ First(f) \in Results
<1>1. /\ DOMAIN f = K /\ DOMAIN g = K /\ DOMAIN h = K
      /\ \A k \in K : f[k] \in Results /\ g[k] \in Results /\ h[k] \in Results
  OBVIOUS
<1> DEFINE some == {k \in K : f[k] # 0 \/ g[k] # 0 \/ h[k] # 0}
<1>2. CASE some = {}
  <2>1. First(f) = 0 /\ First(g) = 0 /\ First(h) = 0
    BY <1>1, <1>2, FirstIs
  <2> QED  BY <2>1 DEF Chain, Results
<1>3. CASE some # {}
  <2>1. PICK p \in some : \A j \in some : p <= j
    BY <1>3, LeastIs
  <2>2. \A j \in K : j < p => f[j] = 0 /\ g[j] = 0 /\ h[j] = 0
    BY <2>1
  <2>3. Chain(f[p], g[p], h[p])
    BY <2>1, <2>2
  <2>4. /\ f[p] # 0 => First(f) = f[p]
        /\ g[p] # 0 => First(g) = g[p]
        /\ h[p] # 0 => First(h) = h[p]
    BY <1>1, <2>1, <2>2, FirstIs
  <2>5. f[p] \in Results /\ g[p] \in Results /\ h[p] \in Results
    BY <1>1, <2>1
  <2>6. ASSUME First(f) <= 0, First(g) <= 0
        PROVE  First(h) < 0 /\ ~(First(f) = 0 /\ First(g) = 0)
    <3>1. f[p] <= 0 /\ g[p] <= 0
      BY <2>4, <2>5, <2>6 DEF Results
    <3>2. h[p] < 0 /\ (f[p] # 0 \/ g[p] # 0)
      BY <2>1, <2>3, <2>5, <3>1 DEF Chain, Results
    <3> QED  BY <2>4, <2>5, <3>2 DEF Results
  <2>7. First(h) \in Results
    BY <1>1, FirstIs DEF Results
  <2>8. First(h) < 0 => First(h) # 0 /\ First(h) <= 0
    BY <2>7 DEF Results
  <2>9. First(f) \in Results
    BY <1>1, FirstIs DEF Results
  <2> QED  BY <2>6, <2>8, <2>9 DEF Chain
<1> QED  BY <1>2, <1>3

\* if comparisons the other way round are opposite, their first results are
LEMMA FirstMirrors ==
    ASSUME NEW K, K \subseteq Nat, NEW f \in [K -> Results], NEW g \in [K -> Results],
           \A k \in K : (\A j \in K : j < k => f[j] = 0 /\ g[j] = 0) => f[k] + g[k] = 0
    PROVE  First(f) + First(g) = 0 /\ First(f) \in Results
<1>1. /\ DOMAIN f = K /\ DOMAIN g = K
      /\ \A k \in K : f[k] \in Results /\ g[k] \in Results
  OBVIOUS
<1> DEFINE some == {k \in K : f[k] # 0 \/ g[k] # 0}
<1>2. CASE some = {}
  <2>1. First(f) = 0 /\ First(g) = 0
    BY <1>1, <1>2, FirstIs
  <2> QED  BY <2>1 DEF Results
<1>3. CASE some # {}
  <2>1. PICK p \in some : \A j \in some : p <= j
    BY <1>3, LeastIs
  <2>2. \A j \in K : j < p => f[j] = 0 /\ g[j] = 0
    BY <2>1
  <2>3. f[p] + g[p] = 0
    BY <2>1, <2>2
  <2>4. f[p] \in Results /\ f[p] # 0 /\ g[p] # 0
    BY <1>1, <2>1, <2>3 DEF Results
  <2>5. First(f) = f[p] /\ First(g) = g[p]
    BY <1>1, <2>1, <2>2, <2>4, FirstIs
  <2> QED  BY <2>3, <2>4, <2>5
<1> QED  BY <1>2, <1>3

\* numbers have one order
LEMMA SignIs ==
    ASSUME NEW a \in Int, NEW b \in Int, NEW c \in Int
    PROVE  /\ Sign(a, b) \in Results /\ Sign(a, b) + Sign(b, a) = 0
           /\ (Sign(a, b) = 0 <=> a = b)
           /\ Chain(Sign(a, b), Sign(b, c), Sign(a, c))
  BY DEF Sign, Results, Chain

-----------------------------------------------------------------------------
(* Texts. *)

\* the place of something that is in a sequence
LEMMA PlaceIs ==
    ASSUME NEW s, Len(s) \in Nat, DOMAIN s = 1..Len(s), NEW x \in ToSet(s)
    PROVE  SelectInSeq(s, LAMBDA y : y = x) \in DOMAIN s /\ s[SelectInSeq(s, LAMBDA y : y = x)] = x
<1> DEFINE places == {i \in 1..Len(s) : s[i] = x}
<1>1. places \subseteq Nat /\ places # {} /\ DOMAIN s = 1..Len(s)
  BY DEF ToSet
<1>2. Min(places) \in places
  BY <1>1, LeastIs
<1>3. SelectInSeq(s, LAMBDA y : y = x) = IF places # {} THEN Min(places) ELSE 0
  BY DEF SelectInSeq
<1> QED  BY <1>1, <1>2, <1>3

\* the tokens of texts have places of their own
LEMMA RankIs ==
    ASSUME NEW x \in ToSet(Alphabet)
    PROVE  Rank(x) \in Nat \ {0} /\ \A y \in ToSet(Alphabet) : Rank(x) = Rank(y) => x = y
<1>1. Len(Alphabet) \in Nat /\ DOMAIN Alphabet = 1..Len(Alphabet)
  BY NodesAssumption
<1>2. \A y \in ToSet(Alphabet) : Rank(y) \in DOMAIN Alphabet /\ Alphabet[Rank(y)] = y
  BY <1>1, PlaceIs DEF Rank
<1> QED  BY <1>1, <1>2

\* the numbers of a text's tokens, 0 where it has ended
Gist(s, k) == IF k \in DOMAIN s THEN Rank(s[k]) ELSE 0
TextResults(s, t) == [k \in Nat |-> Sign(Gist(s, k), Gist(t, k))]

\* the first of two results
LEMMA FirstOfTwo ==
    ASSUME NEW x, NEW y
    PROVE  First(<<x, y>>) = IF x # 0 THEN x ELSE y
<1> DEFINE f == <<x, y>>
<1>1. DOMAIN f = 1..2 /\ f[1] = x /\ f[2] = y /\ 1 \in DOMAIN f /\ 2 \in DOMAIN f
  OBVIOUS
<1> HIDE DEF f
<1>2. CASE x # 0
  <2>1. \A j \in DOMAIN f : ~(j < 1)
    BY <1>1
  <2> QED  BY <1>1, <1>2, <2>1, FirstIs DEF f
<1>3. CASE x = 0 /\ y # 0
  <2>1. \A j \in DOMAIN f : j < 2 => j = 1
    BY <1>1
  <2> QED  BY <1>1, <1>3, <2>1, FirstIs DEF f
<1>4. CASE x = 0 /\ y = 0
  <2>1. \A j \in DOMAIN f : f[j] = 0
    BY <1>1, <1>4
  <2> QED  BY <1>1, <1>4, <2>1, FirstIs DEF f
<1> QED  BY <1>2, <1>3, <1>4

\* a text has tokens up to its end
LEMMA GistIs ==
    ASSUME NEW s \in Text, NEW k \in Nat
    PROVE  Gist(s, k) \in Nat /\ (Gist(s, k) = 0 <=> k \notin 1..Len(s))
<1>1. DOMAIN s = 1..Len(s) /\ \A i \in DOMAIN s : s[i] \in ToSet(Alphabet)
  BY DEF Text
<1> QED  BY <1>1, RankIs DEF Gist

\* CFStringCompare compares the numbers of the tokens, to the end of the longer text
LEMMA TextIs ==
    ASSUME NEW s \in Text, NEW t \in Text
    PROVE  CompareText(s, t) = First(TextResults(s, t))
<1> DEFINE n == IF Len(s) < Len(t) THEN Len(s) ELSE Len(t)
           d == [k \in 1..n |-> Sign(Rank(s[k]), Rank(t[k]))]
           f == TextResults(s, t)
<1>1. CompareText(s, t) = First(<<First(d), Sign(Len(s), Len(t))>>)
  BY DEF CompareText, FirstDifference
<1>2. CompareText(s, t) = IF First(d) # 0 THEN First(d) ELSE Sign(Len(s), Len(t))
  BY <1>1, FirstOfTwo
<1>3. Len(s) \in Nat /\ Len(t) \in Nat /\ DOMAIN s = 1..Len(s) /\ DOMAIN t = 1..Len(t)
  BY DEF Text
<1>4. /\ DOMAIN d = 1..n /\ DOMAIN f = Nat /\ n \in Nat /\ 1..n \subseteq Nat
      /\ \A k \in 1..n : d[k] = f[k]
  BY <1>3 DEF TextResults, Gist
<1>5. \A k \in Nat : f[k] = Sign(Gist(s, k), Gist(t, k))
  BY DEF TextResults
<1>6. \A k \in Nat : /\ Gist(s, k) \in Nat /\ (Gist(s, k) = 0 <=> k \notin 1..Len(s))
                     /\ Gist(t, k) \in Nat /\ (Gist(t, k) = 0 <=> k \notin 1..Len(t))
  BY GistIs
<1>7. Sign(0, 0) = 0
  BY DEF Sign
<1>8. f[0] = 0
  <2>1. 0 \in Nat /\ 0 \notin 1..Len(s) /\ 0 \notin 1..Len(t)
    BY <1>3
  <2> QED  BY <1>5, <1>6, <1>7, <2>1
<1> SUFFICES CompareText(s, t) = First(f)
  OBVIOUS
<1> HIDE DEF f, d
<1>9. CASE \E k \in 1..n : d[k] # 0 /\ \A j \in 1..n : j < k => d[j] = 0
  <2>1. PICK k \in 1..n : d[k] # 0 /\ \A j \in 1..n : j < k => d[j] = 0
    BY <1>9
  <2>2. First(d) = d[k]
    BY <1>4, <2>1, FirstIs
  <2>3. \A j \in Nat : j < k => f[j] = 0
    BY <1>4, <1>8, <2>1
  <2>4. First(f) = d[k]
    BY <1>4, <2>1, <2>3, FirstIs
  <2> QED  BY <1>2, <2>1, <2>2, <2>4
<1>10. CASE \A k \in 1..n : d[k] = 0
  <2>1. CompareText(s, t) = Sign(Len(s), Len(t))
    BY <1>2, <1>4, <1>10, FirstIs
  <2>2. \A j \in 0..n : f[j] = 0
    BY <1>4, <1>8, <1>10
  <2>3. CASE Len(s) = Len(t)
    <3>1. \A k \in Nat : f[k] = 0
      <4> SUFFICES ASSUME NEW k \in Nat, k > n PROVE f[k] = 0
        BY <1>4, <2>2
      <4>1. k \notin 1..Len(s) /\ k \notin 1..Len(t)
        BY <1>3, <2>3
      <4>2. Gist(s, k) = 0 /\ Gist(t, k) = 0
        BY <1>6, <4>1
      <4> QED  BY <1>5, <1>7, <4>2
    <3>2. First(f) = 0
      BY <1>4, <3>1, FirstIs
    <3> QED  BY <1>3, <2>1, <2>3, <3>2 DEF Sign
  <2>4. CASE Len(s) # Len(t)
    <3>1. n + 1 \in Nat /\ \A j \in Nat : j < n + 1 => j \in 0..n
      BY <1>4
    <3>2. Sign(Gist(s, n + 1), Gist(t, n + 1)) = Sign(Len(s), Len(t)) /\ Sign(Len(s), Len(t)) # 0
      <4> DEFINE a == Gist(s, n + 1)
                 b == Gist(t, n + 1)
      <4>1. /\ a \in Nat /\ (a = 0 <=> n + 1 \notin 1..Len(s))
            /\ b \in Nat /\ (b = 0 <=> n + 1 \notin 1..Len(t))
        BY <1>6, <3>1
      <4> HIDE DEF a, b
      <4>2. CASE Len(s) < Len(t)
        <5>1. n + 1 \notin 1..Len(s) /\ n + 1 \in 1..Len(t)
          BY <1>3, <4>2
        <5>2. a < b
          BY <4>1, <5>1
        <5> QED  BY <1>3, <4>1, <4>2, <5>2 DEF Sign, a, b
      <4>3. CASE Len(t) < Len(s)
        <5>1. n + 1 \in 1..Len(s) /\ n + 1 \notin 1..Len(t)
          BY <1>3, <4>3
        <5>2. b < a
          BY <4>1, <5>1
        <5> QED  BY <1>3, <4>1, <4>3, <5>2 DEF Sign, a, b
      <4>4. \A i, j \in Nat : i # j => i < j \/ j < i
        OBVIOUS
      <4>5. Len(s) < Len(t) \/ Len(t) < Len(s)
        BY <1>3, <2>4, <4>4, Zenon
      <4> QED  BY <4>2, <4>3, <4>5, Zenon
    <3>3. First(f) = f[n + 1]
      BY <1>4, <1>5, <2>2, <3>1, <3>2, FirstIs
    <3> QED  BY <1>5, <2>1, <3>1, <3>2, <3>3
  <2> QED  BY <2>3, <2>4
<1> QED  BY <1>4, <1>9, <1>10, FirstIs

\* texts have one order
LEMMA TextChain ==
    ASSUME NEW s \in Text, NEW t \in Text, NEW u \in Text
    PROVE  /\ CompareText(s, t) \in Results /\ CompareText(s, t) + CompareText(t, s) = 0
           /\ (CompareText(s, t) = 0 <=> s = t)
           /\ Chain(CompareText(s, t), CompareText(t, u), CompareText(s, u))
<1> DEFINE F(x, y) == TextResults(x, y)
<1>1. \A x, y \in Text : DOMAIN F(x, y) = Nat
  BY DEF TextResults
<1>2. \A x, y \in Text : \A k \in Nat : F(x, y)[k] = Sign(Gist(x, k), Gist(y, k))
  BY DEF TextResults
<1>3. \A x \in Text : \A k \in Nat : Gist(x, k) \in Int
  BY GistIs
<1>4. \A x, y \in Text : F(x, y) \in [Nat -> Results]
  BY <1>3, SignIs DEF TextResults
<1> HIDE DEF F
<1>5. \A k \in Nat : Chain(F(s, t)[k], F(t, u)[k], F(s, u)[k]) /\ F(s, t)[k] + F(t, s)[k] = 0
  BY <1>2, <1>3, SignIs
<1>6. Chain(First(F(s, t)), First(F(t, u)), First(F(s, u)))
  BY <1>4, <1>5, FirstChain
<1>7. First(F(s, t)) + First(F(t, s)) = 0 /\ First(F(s, t)) \in Results
  BY <1>4, <1>5, FirstMirrors
<1>8. ASSUME First(F(s, t)) = 0 PROVE s = t
  <2>1. \A k \in Nat : F(s, t)[k] = 0
    BY <1>1, <1>8, FirstIs
  <2>2. \A k \in Nat : Gist(s, k) = Gist(t, k)
    BY <1>2, <1>3, <2>1, SignIs
  <2>3. \A k \in Nat : k \in 1..Len(s) <=> k \in 1..Len(t)
    BY <2>2, GistIs
  <2>4. Len(s) \in Nat /\ Len(t) \in Nat /\ s \in Seq(ToSet(Alphabet)) /\ t \in Seq(ToSet(Alphabet))
    BY DEF Text
  <2>5. Len(s) = Len(t)
    BY <2>3, <2>4
  <2>6. \A k \in 1..Len(s) : s[k] = t[k]
    <3> SUFFICES ASSUME NEW k \in 1..Len(s) PROVE s[k] = t[k]
      OBVIOUS
    <3>1. Rank(s[k]) = Rank(t[k])
      BY <2>2, <2>4, <2>5 DEF Gist
    <3>2. s[k] \in ToSet(Alphabet) /\ t[k] \in ToSet(Alphabet)
      BY <2>4, <2>5
    <3> QED  BY <3>1, <3>2, RankIs
  <2> QED  BY <2>4, <2>5, <2>6
<1>9. ASSUME s = t PROVE First(F(s, t)) = 0
  <2>1. \A k \in Nat : F(s, t)[k] = 0
    BY <1>2, <1>3, <1>9, SignIs
  <2> QED  BY <1>1, <2>1, FirstIs
<1>10. \A x, y \in Text : CompareText(x, y) = First(F(x, y))
  BY TextIs DEF F
<1> QED  BY <1>6, <1>7, <1>8, <1>9, <1>10

-----------------------------------------------------------------------------
(* Paths. *)

Paths == {Nodes[k].path : k \in DOMAIN Nodes}
Elements == [hex : Nat \cup {-1}, text : Nat]

\* the elements of two paths at one place
PathResults(p, q) ==
    [k \in Nat |-> IF k \in DOMAIN p \cap DOMAIN q THEN CompareElements(p[k], q[k]) ELSE 0]

\* the comparison of two elements the other way round is opposite
LEMMA ElementsIs ==
    ASSUME NEW e \in Elements, NEW f \in Elements
    PROVE  /\ CompareElements(e, f) \in Results
           /\ CompareElements(e, f) + CompareElements(f, e) = 0
           /\ e = f => CompareElements(e, f) = 0
<1>1. /\ e.hex \in Int /\ e.text \in Int /\ f.hex \in Int /\ f.text \in Int
  BY DEF Elements
<1>2. e.hex >= 0 /\ f.hex >= 0 <=> f.hex >= 0 /\ e.hex >= 0
  OBVIOUS
<1>3. \A a, b \in Int : Sign(a, b) \in Results /\ Sign(a, b) + Sign(b, a) = 0 /\ (a = b => Sign(a, b) = 0)
  BY SignIs
<1> QED  BY <1>1, <1>2, <1>3 DEF CompareElements

\* paths are sequences of elements
LEMMA PathShape ==
    ASSUME NEW p \in Paths
    PROVE  /\ Len(p) \in Nat /\ DOMAIN p = 1..Len(p) /\ p \in Seq(Elements)
           /\ \A k \in DOMAIN p : p[k] \in Elements
<1>1. p \in Seq(Elements)
  BY PathsAssumption DEF Paths, Elements
<1> QED  BY <1>1

\* two paths fork at elements that are told apart
LEMMA Forks ==
    ASSUME NEW p \in Paths, NEW q \in Paths, p # q
    PROVE  \E m \in Nat \ {0} :
              /\ Siblings(p, q, m) /\ PathResults(p, q)[m] # 0
              /\ \A j \in Nat : j < m => PathResults(p, q)[j] = 0
              /\ \A j \in 1..m : Siblings(p, q, j)
<1> DEFINE differ == {k \in DOMAIN p \cap DOMAIN q : p[k] # q[k]}
<1>1. /\ Len(p) \in Nat /\ DOMAIN p = 1..Len(p) /\ Len(q) \in Nat /\ DOMAIN q = 1..Len(q)
      /\ \A k \in DOMAIN p \cap DOMAIN q : p[k] \in Elements /\ q[k] \in Elements
  BY PathShape
<1>2. differ # {}
  BY PathsAssumption DEF Paths
<1>3. PICK m \in differ : \A j \in differ : m <= j
  <2>1. differ \subseteq Nat
    BY <1>1
  <2> QED  BY <1>2, <2>1, LeastIs
<1>4. m \in Nat \ {0} /\ m \in DOMAIN p \cap DOMAIN q /\ p[m] # q[m]
  BY <1>1, <1>3
<1>5. \A j \in 1..(m - 1) : j \in DOMAIN p \cap DOMAIN q /\ p[j] = q[j]
  <2> SUFFICES ASSUME NEW j \in 1..(m - 1) PROVE j \in DOMAIN p \cap DOMAIN q /\ p[j] = q[j]
    OBVIOUS
  <2>1. j \in DOMAIN p \cap DOMAIN q /\ j \in Nat /\ j < m
    BY <1>1, <1>4
  <2>2. j \notin differ
    BY <1>3, <1>4, <2>1
  <2> QED  BY <2>1, <2>2
<1>6. \A j \in 1..m : Siblings(p, q, j)
  <2> SUFFICES ASSUME NEW j \in 1..m PROVE Siblings(p, q, j)
    OBVIOUS
  <2>1. j \in DOMAIN p \cap DOMAIN q
    BY <1>1, <1>4
  <2>2. 1..(j - 1) \subseteq 1..(m - 1)
    BY <1>4
  <2> QED  BY <1>5, <2>1, <2>2 DEF Siblings
<1>7. Siblings(p, q, m)
  BY <1>4, <1>6
<1>8. CompareElements(p[m], q[m]) # 0
  BY <1>4, <1>7, PathsAssumption DEF Paths
<1>9. ASSUME NEW j \in Nat, j < m PROVE PathResults(p, q)[j] = 0
  <2>1. CASE j \in DOMAIN p \cap DOMAIN q
    <3>1. j \in 1..(m - 1)
      BY <1>1, <1>4, <1>9, <2>1
    <3>2. p[j] = q[j]
      BY <1>5, <3>1
    <3>3. CompareElements(p[j], q[j]) = 0
      BY <1>1, <2>1, <3>2, ElementsIs
    <3> QED  BY <2>1, <3>3 DEF PathResults
  <2>2. CASE j \notin DOMAIN p \cap DOMAIN q
    BY <2>2 DEF PathResults
  <2> QED  BY <2>1, <2>2
<1>10. PathResults(p, q)[m] # 0
  BY <1>4, <1>8 DEF PathResults
<1> QED  BY <1>4, <1>6, <1>7, <1>9, <1>10

\* paths that compare as equal up to a place have siblings there
LEMMA SiblingsAt ==
    ASSUME NEW p \in Paths, NEW q \in Paths, p # q, NEW k \in Nat \ {0},
           \A j \in Nat : j < k => PathResults(p, q)[j] = 0
    PROVE  Siblings(p, q, k)
<1>1. PICK m \in Nat \ {0} : PathResults(p, q)[m] # 0 /\ \A j \in 1..m : Siblings(p, q, j)
  BY Forks
<1>2. ~(m < k)
  BY <1>1
<1>3. k \in 1..m
  BY <1>2
<1> QED  BY <1>1, <1>3

\* a path is equal to itself
LEMMA SameResults ==
    ASSUME NEW p \in Paths, NEW k \in Nat
    PROVE  PathResults(p, p)[k] = 0
  BY PathShape, ElementsIs DEF PathResults

\* the results of two paths the other way round are opposite
LEMMA ResultsOfPaths ==
    ASSUME NEW p \in Paths, NEW q \in Paths
    PROVE  /\ PathResults(p, q) \in [Nat -> Results]
           /\ \A k \in Nat : PathResults(p, q)[k] + PathResults(q, p)[k] = 0
<1>1. \A k \in DOMAIN p \cap DOMAIN q : p[k] \in Elements /\ q[k] \in Elements
  BY PathShape
<1>2. 0 \in Results
  BY DEF Results
<1> QED  BY <1>1, <1>2, ElementsIs DEF PathResults

\* the elements of three paths chain at a place before which they are equal,
\* unless they go in a circle there
LEMMA ElementChain ==
    ASSUME NEW p \in Paths, NEW q \in Paths, NEW r \in Paths, NEW k \in Nat, ~Circle(p, q, r),
           \A j \in Nat : j < k => PathResults(p, q)[j] = 0 /\ PathResults(q, r)[j] = 0 /\ PathResults(p, r)[j] = 0
    PROVE  Chain(PathResults(p, q)[k], PathResults(q, r)[k], PathResults(p, r)[k])
<1>1. CASE p = q
  <2>1. PathResults(p, q)[k] = 0
    BY <1>1, SameResults
  <2> QED  BY <1>1, <2>1, ResultsOfPaths DEF Chain
<1>2. CASE q = r
  <2>1. PathResults(q, r)[k] = 0
    BY <1>2, SameResults
  <2> QED  BY <1>2, <2>1, ResultsOfPaths DEF Chain
<1>3. CASE p = r
  <2>1. PathResults(p, r)[k] = 0 /\ PathResults(p, q)[k] + PathResults(q, r)[k] = 0
    BY <1>3, SameResults, ResultsOfPaths
  <2>2. PathResults(p, q)[k] \in Int /\ PathResults(q, r)[k] \in Int
    BY ResultsOfPaths DEF Results
  <2> QED  BY <2>1, <2>2 DEF Chain
<1>4. CASE k = 0
  <2>1. 0 \notin DOMAIN p /\ 0 \notin DOMAIN q
    BY PathShape
  <2>2. PathResults(p, q)[k] = 0 /\ PathResults(q, r)[k] = 0 /\ PathResults(p, r)[k] = 0
    BY <1>4, <2>1 DEF PathResults
  <2> QED  BY <2>2 DEF Chain
<1>5. CASE p # q /\ q # r /\ p # r /\ k # 0
  <2>1. Siblings(p, q, k) /\ Siblings(q, r, k) /\ Siblings(p, r, k)
    BY <1>5, SiblingsAt
  <2> DEFINE C(x, y) == CompareElements(x[k], y[k])
  <2>2. /\ PathResults(p, q)[k] = C(p, q) /\ PathResults(q, r)[k] = C(q, r)
        /\ PathResults(p, r)[k] = C(p, r)
    BY <2>1 DEF PathResults, Siblings
  <2>3. /\ p[k] \in Elements /\ q[k] \in Elements /\ r[k] \in Elements
    BY <2>1, PathShape DEF Siblings
  <2>4. /\ C(p, q) = 0 => p[k] = q[k]
        /\ C(q, r) = 0 => q[k] = r[k]
        /\ C(p, r) = 0 => p[k] = r[k]
    BY <2>1, PathsAssumption DEF Paths, Siblings
  <2>5. /\ C(p, q) \in Results /\ C(q, r) \in Results /\ C(p, r) \in Results
        /\ p[k] = r[k] => C(p, q) + C(q, r) = 0
        /\ p[k] = r[k] => C(p, r) = 0
    BY <2>3, ElementsIs
  <2>6. C(p, q) <= 0 /\ C(q, r) <= 0 => ~(C(p, r) > 0)
    BY <2>1 DEF Circle, Siblings
  <2> HIDE DEF C
  <2>7. C(p, q) <= 0 /\ C(q, r) <= 0 => (C(p, r) = 0 <=> C(p, q) = 0 /\ C(q, r) = 0)
    BY <2>4, <2>5 DEF Results
  <2>8. C(p, q) <= 0 /\ C(q, r) <= 0 => C(p, r) <= 0
    BY <2>5, <2>6 DEF Results
  <2> QED  BY <2>2, <2>7, <2>8 DEF Chain
<1> QED  BY <1>1, <1>2, <1>3, <1>4, <1>5

\* devices compare by their paths
LEMMA ByPathIs ==
    ASSUME NEW a, NEW b, a.path \in Paths, b.path \in Paths
    PROVE  /\ ByPath(a, b) = First(PathResults(a.path, b.path))
           /\ ByPath(a, b) = 0 => a.path = b.path
<1> DEFINE p == a.path
           q == b.path
           n == IF Len(p) < Len(q) THEN Len(p) ELSE Len(q)
           d == [k \in 1..n |-> CompareElements(p[k], q[k])]
           f == PathResults(p, q)
           tie == IF Len(p) < Len(q) THEN -1 ELSE 0
<1>1. p # <<>> /\ q # <<>> /\ p \in Paths /\ q \in Paths
  BY NamesAssumption DEF Paths
<1>2. ByPath(a, b) = IF First(d) # 0 THEN First(d) ELSE tie
  <2>1. ByPath(a, b) = First(<<First(d), tie>>)
    BY <1>1 DEF ByPath, FirstDifference
  <2> QED  BY <2>1, FirstOfTwo
<1>3. Len(p) \in Nat /\ DOMAIN p = 1..Len(p) /\ Len(q) \in Nat /\ DOMAIN q = 1..Len(q)
  BY <1>1, PathShape
<1>4. DOMAIN d = DOMAIN p \cap DOMAIN q /\ DOMAIN d \subseteq Nat /\ DOMAIN f = Nat
  BY <1>3 DEF PathResults
<1>5. \A k \in DOMAIN d : d[k] = f[k]
  BY <1>4 DEF PathResults
<1> SUFFICES ByPath(a, b) = First(f) /\ (ByPath(a, b) = 0 => p = q)
  OBVIOUS
<1> HIDE DEF p, q, d, f
<1>6. CASE p # q
  <2>1. PICK m \in Nat \ {0} : /\ m \in DOMAIN p \cap DOMAIN q /\ f[m] # 0
                               /\ \A j \in Nat : j < m => f[j] = 0
    BY <1>1, <1>6, Forks DEF f, Siblings
  <2>2. First(f) = f[m]
    BY <1>4, <2>1, FirstIs
  <2>3. m \in DOMAIN d /\ d[m] # 0 /\ \A j \in DOMAIN d : j < m => d[j] = 0
    BY <1>4, <1>5, <2>1
  <2>4. First(d) = f[m]
    BY <1>4, <1>5, <2>3, FirstIs
  <2> QED  BY <1>2, <2>1, <2>2, <2>4
<1>7. CASE p = q
  <2>1. \A k \in Nat : f[k] = 0
    BY <1>1, <1>7, SameResults DEF f
  <2>2. First(f) = 0 /\ First(d) = 0
    BY <1>4, <1>5, <2>1, FirstIs
  <2>3. tie = 0
    BY <1>3, <1>7
  <2> QED  BY <1>2, <1>7, <2>2, <2>3
<1> QED  BY <1>6, <1>7

\* the paths of devices have one order, unless they part in a circle
LEMMA PathChain ==
    ASSUME NEW a, NEW b, NEW c, a.path \in Paths, b.path \in Paths, c.path \in Paths
    PROVE  /\ ByPath(a, b) \in Results /\ ByPath(a, b) + ByPath(b, a) = 0
           /\ (ByPath(a, b) = 0 => a.path = b.path)
           /\ ~Circle(a.path, b.path, c.path) => Chain(ByPath(a, b), ByPath(b, c), ByPath(a, c))
<1> DEFINE F(x, y) == PathResults(x.path, y.path)
<1>1. /\ F(a, b) \in [Nat -> Results] /\ F(b, a) \in [Nat -> Results]
      /\ F(b, c) \in [Nat -> Results] /\ F(a, c) \in [Nat -> Results]
  BY ResultsOfPaths
<1>2. \A k \in Nat : F(a, b)[k] + F(b, a)[k] = 0
  BY ResultsOfPaths
<1>3. ~Circle(a.path, b.path, c.path) => \A k \in Nat :
         (\A j \in Nat : j < k => F(a, b)[j] = 0 /\ F(b, c)[j] = 0 /\ F(a, c)[j] = 0)
            => Chain(F(a, b)[k], F(b, c)[k], F(a, c)[k])
  BY ElementChain
<1>4. /\ ByPath(a, b) = First(F(a, b)) /\ ByPath(b, a) = First(F(b, a))
      /\ ByPath(b, c) = First(F(b, c)) /\ ByPath(a, c) = First(F(a, c))
      /\ ByPath(a, b) = 0 => a.path = b.path
  BY ByPathIs
<1> HIDE DEF F
<1>5. First(F(a, b)) + First(F(b, a)) = 0 /\ First(F(a, b)) \in Results
  BY <1>1, <1>2, FirstMirrors
<1>6. ~Circle(a.path, b.path, c.path) => Chain(First(F(a, b)), First(F(b, c)), First(F(a, c)))
  <2> SUFFICES ASSUME ~Circle(a.path, b.path, c.path)
               PROVE  Chain(First(F(a, b)), First(F(b, c)), First(F(a, c)))
    OBVIOUS
  <2> QED  BY <1>1, <1>3, FirstChain
<1> QED  BY <1>4, <1>5, <1>6

-----------------------------------------------------------------------------
(* What the list holds of one sort. *)

ConfigSorts == {"Bond", "Bridge", "VLAN"}
NetSorts == {"AirPort", "Thunderbolt", "BluetoothPAN_GN", "Tethered", "WWANEthernet",
             "BluetoothPAN_NAP", "BluetoothPAN_U", "CarPlay", "OtherWireless", "Ethernet", "FireWire"}
PortSorts == {"InternalModem", "USBModem", "SerialPort", "Bluetooth", "IrDA", "WWAN", "Modem"}

\* the layer of a node
OfNode(l) == \E k \in DOMAIN Nodes :
    CreateInterface(Registry, Nodes[k], FALSE) = <<l>> /\ l.path = Nodes[k].path

\* what compares a layer of the list
Texts(l) == l.loc \in Text /\ l.dev \in Text /\ l.uniq \in Text

\* a layer of the list, by its sort; there is no other of its sort if it is the
\* Bluetooth PAN that was looked for
Listed(l) ==
    /\ l.builtin \in BOOLEAN /\ Texts(l) /\ l.path \in Paths \cup {<<>>}
    /\ \/ l.sort \in ConfigSorts /\ <<l>> \in Virtuals
       \/ l.sort \in NetSorts \cup PortSorts /\ OfNode(l) /\ (l.sort = "BluetoothPAN_GN" => ~NeedsPAN)
       \/ l.sort = "BluetoothPAN_GN" /\ <<l>> = Answer(PANEntity, Plain) /\ NeedsPAN

\* no text is a text
LEMMA NoText == None \in Text
  BY DEF None, Text

\* the sorts of Ethernet devices
LEMMA EthernetSorts ==
    ASSUME NEW n
    PROVE  EthernetSort(n) \in NetSorts
<1>1. CASE n.driver \in DOMAIN Drivers
  <2>1. Drivers[n.driver] \in NetSorts
    BY <1>1 DEF Drivers, NetSorts
  <2> QED  BY <1>1, <2>1 DEF EthernetSort
<1>2. CASE n.driver \notin DOMAIN Drivers /\ n.role \in DOMAIN Roles
  <2>1. Roles[n.role] \in NetSorts
    BY <1>2 DEF Roles, NetSorts
  <2> QED  BY <1>2, <2>1 DEF EthernetSort
<1>3. CASE n.driver \notin DOMAIN Drivers /\ n.role \notin DOMAIN Roles
  BY <1>3 DEF EthernetSort, NetSorts
<1> QED  BY <1>1, <1>2, <1>3

\* the sort of a serial port
LEMMA PortPlace ==
    ASSUME NEW n, NEW l, SerialLayer(n) = <<l>>
    PROVE  l.sort \in PortSorts /\ l.builtin \in BOOLEAN /\ l.loc = None /\ l.path = n.path
           /\ l.dev \in {n.tty, Base(n)} /\ l.uniq = n.unique
<1> DEFINE b == Entry(n)
           As(type, sort, builtin, dev, key, name, script) ==
             [b EXCEPT !.type = type, !.etype = "Modem", !.sort = sort, !.builtin = builtin,
                       !.dev = dev, !.uniq = n.unique, !.key = key, !.name = name, !.script = script]
           dev == IF n.unique = None THEN n.tty ELSE Base(n)
           builtin == IsInternal(n) \/ (SerialType(n) = "Bluetooth" /\ n.appleHCI)
           key == IF SerialType(n) = "IrDA" THEN <<"irda">>
                  ELSE IF SerialType(n) = "Bluetooth" THEN <<"bluetooth">> ELSE None
           sort == SerialSort(n)
           x == As(SerialType(n), sort, builtin, dev, key, SerialName(n), Script(n))
<1>1. SerialLayer(n) = <<x>>
  <2>1. SerialLayer(n) # NULL
    BY DEF NULL
  <2> QED  BY <2>1 DEF SerialLayer
<1>2. DOMAIN b = DOMAIN Blank /\ b.loc = None /\ b.path = n.path
  BY DEF Entry, Blank
<1>3. sort \in PortSorts
  BY DEF SerialSort, SerialType, PortSorts
<1>4. builtin \in BOOLEAN
  OBVIOUS
<1>5. dev \in {n.tty, Base(n)}
  OBVIOUS
<1> HIDE DEF b, builtin, key, sort, dev
<1>6. /\ x.sort = sort /\ x.builtin = builtin /\ x.loc = None /\ x.path = n.path
      /\ x.dev = dev /\ x.uniq = n.unique
  BY <1>2 DEF Blank
<1> HIDE DEF x
<1>7. <<l>>[1] = <<x>>[1]
  BY <1>1
<1> QED  BY <1>3, <1>4, <1>5, <1>6, <1>7

\* the layer of a listed node has its sort and its path
LEMMA ListedNode ==
    ASSUME present \subseteq DOMAIN Nodes, NEW kind \in {"network", "serial"},
           NEW nodes \in SUBSET Present(kind), NEW i \in AllMatching(nodes)
    PROVE  \E l : /\ i = <<l>> /\ OfNode(l) /\ l.builtin \in BOOLEAN /\ Texts(l)
                  /\ l.sort \in IF kind = "network" THEN NetSorts ELSE PortSorts
<1>1. PICK n \in nodes : i = CreateInterface(Registry, n, FALSE) /\ i # NULL
  BY DEF AllMatching
<1>2. PICK k \in DOMAIN Nodes : n = Nodes[k] /\ Nodes[k].kind = kind
  BY DEF Present
<1>3. CASE kind = "network"
  <2>1. PICK l : i = <<l>> /\ NetLeaf(l, k)
    BY <1>1, <1>2, <1>3, NodeLeaf
  <2>2. Texts(l)
    <3>1. Nodes[k].loc \in Text /\ Nodes[k].bsd \in Text
      BY NodesAssumption
    <3> QED  BY <2>1, <3>1, NoText DEF NetLeaf, Texts
  <2>3. l.sort \in NetSorts
    BY <2>1, EthernetSorts DEF NetLeaf, NetSorts
  <2>4. OfNode(l)
    BY <1>1, <1>2, <2>1 DEF OfNode, NetLeaf
  <2>5. l.builtin \in BOOLEAN
    BY <2>1 DEF NetLeaf
  <2> QED  BY <1>3, <2>1, <2>2, <2>3, <2>4, <2>5
<1>4. CASE kind = "serial"
  <2>1. i = SerialLayer(Nodes[k]) /\ i # NULL
    BY <1>1, <1>2, <1>4 DEF CreateInterface
  <2>2. PICK l : i = <<l>>
    BY <2>1, SerialShape
  <2>3. /\ l.sort \in PortSorts /\ l.builtin \in BOOLEAN /\ l.path = Nodes[k].path /\ l.loc = None
        /\ l.dev \in {Nodes[k].tty, Base(Nodes[k])} /\ l.uniq = Nodes[k].unique
    BY <2>1, <2>2, PortPlace
  <2>4. Texts(l)
    <3>1. Nodes[k].tty \in Text /\ Nodes[k].base \in Text /\ Nodes[k].unique \in Text
      BY NodesAssumption
    <3> QED  BY <2>3, <3>1, NoText DEF Texts, Base
  <2>5. OfNode(l)
    BY <1>1, <1>2, <2>2, <2>3 DEF OfNode
  <2> QED  BY <1>4, <2>2, <2>3, <2>4, <2>5
<1> QED  BY <1>3, <1>4

\* the Bluetooth PAN that is looked for is of that sort, whether it is found or not
LEMMA PANSorted ==
    ASSUME FoundInv, PANName # None
    PROVE  \E l : /\ Answer(PANEntity, Plain) = <<l>>
                  /\ l.sort = "BluetoothPAN_GN" /\ l.builtin \in BOOLEAN /\ Texts(l)
                  /\ l.path \in Paths \cup {<<>>}
<1> DEFINE e == PANEntity
           f == Found(Registry, virtual, cache, e, Plain)
<1>1. /\ e.type = "Ethernet" /\ e.dev = PANName /\ e.uniq = None /\ e.without = {}
      /\ e.name = BTPAN /\ e.hconf = FALSE
  BY DEF PANEntity, Entity
<1>2. IsNetwork(e) /\ ~Rejected(e) /\ Type(e) = "Ethernet"
  BY <1>1 DEF IsNetwork, Rejected, Type, IsSerial
<1>3. Plain.system /\ ~Plain.service
  BY DEF Plain
<1>4. ASSUME NEW i
      PROVE  Layered(Owned(i, e, Plain), e) = i
  BY <1>1, <1>3 DEF Layered, Owned
<1> HIDE DEF e
<1>5. e.dev \notin {None, <<"lo", "0">>}
  BY <1>1, VirtualsAssumption
<1>6. f = NULL \/ \E x, k : NetLeaf(x, k) /\ Nodes[k].bsd = e.dev /\ f = <<x>>
  BY <1>1, <1>2, <1>3, <1>5, NetFound
<1>7. CASE f = NULL
  <2>1. PICK s : StandIn(virtual, e, Plain) = <<s>> /\ PANLeaf([s EXCEPT !.hconf = FALSE])
    BY PANStandIn DEF e
  <2> DEFINE l == [s EXCEPT !.hconf = FALSE]
  <2>2. Answer(e, Plain) = Layered(Owned(<<l>>, e, Plain), e)
    BY <1>1, <1>2, <1>3, <1>7, <2>1, AnswerStands
  <2>3. l.sort = "BluetoothPAN_GN" /\ l.builtin = FALSE /\ l.path = <<>> /\ Texts(l)
    BY <2>1, NoText, NodesAssumption DEF PANLeaf, Texts
  <2> HIDE DEF l
  <2>4. Answer(e, Plain) = <<l>>
    BY <1>4, <2>2
  <2> QED  BY <2>3, <2>4 DEF e
<1>8. CASE f # NULL
  <2>1. PICK x, k : NetLeaf(x, k) /\ Nodes[k].bsd = e.dev /\ f = <<x>>
    BY <1>6, <1>8
  <2>2. Answer(e, Plain) = <<x>>
    BY <1>2, <1>3, <1>4, <1>8, <2>1, AnswerFound
  <2>3. Nodes[k].iftype = "ether" /\ EthernetSort(Nodes[k]) = "BluetoothPAN_GN"
    <3>1. k \in DOMAIN Nodes /\ Nodes[k].kind = "network" /\ Nodes[k].bsd = PANName
      BY <1>1, <2>1 DEF NetLeaf
    <3> QED  BY <3>1, VirtualsAssumption, Zenon
  <2>4. Texts(x) /\ x.path \in Paths
    <3>1. k \in DOMAIN Nodes /\ Nodes[k].loc \in Text /\ Nodes[k].bsd \in Text
      BY <2>1, NodesAssumption DEF NetLeaf
    <3> QED  BY <2>1, <3>1, NoText DEF NetLeaf, Texts, Paths
  <2> QED  BY <2>1, <2>2, <2>3, <2>4 DEF NetLeaf, e
<1> QED  BY <1>7, <1>8

\* every interface of the list is one layer of a sort
LEMMA CopyAllListed ==
    ASSUME FoundInv, NEW i \in CopyAll
    PROVE  i = <<i[1]>> /\ Listed(i[1])
<1> DEFINE serial == UNION {CopyAllSerial(s) : s \in {"modem", "rs232"}}
<1>1. \/ i[1].dev # None /\ i \in CopyAllNetwork \cup serial \cup virtual
      \/ NeedsPAN /\ i = Answer(PANEntity, Plain)
  BY DEF CopyAll
<1> SUFFICES \E l : i = <<l>> /\ Listed(l)
  OBVIOUS
<1>2. CASE i \in CopyAllNetwork /\ i[1].dev # None
  <2>1. PICK l : /\ i = <<l>> /\ OfNode(l) /\ l.builtin \in BOOLEAN /\ Texts(l)
                 /\ l.sort \in NetSorts
    BY <1>2, ListedNode DEF CopyAllNetwork, FoundInv
  <2>2. i[1] = l
    BY <2>1
  <2>3. l.sort = "BluetoothPAN_GN" => ~NeedsPAN
    BY <1>2, <2>2 DEF NeedsPAN
  <2> QED  BY <2>1, <2>3 DEF Listed, OfNode, Paths
<1>3. CASE i \in serial
  <2>1. PICK s \in {"modem", "rs232"} : i \in CopyAllSerial(s)
    BY <1>3
  <2>2. PICK l : /\ i = <<l>> /\ OfNode(l) /\ l.builtin \in BOOLEAN /\ Texts(l)
                 /\ l.sort \in PortSorts
    BY <2>1, ListedNode DEF CopyAllSerial, FoundInv
  <2>3. l.sort # "BluetoothPAN_GN"
    BY <2>2 DEF PortSorts
  <2> QED  BY <2>2, <2>3 DEF Listed, OfNode, Paths
<1>4. CASE i \in virtual
  <2>1. i \in Virtuals
    BY <1>4 DEF FoundInv
  <2>2. PICK l : i = <<l>>
    BY <2>1, VirtualsAssumption DEF VirtualInterface
  <2>3. /\ l.sort \in ConfigSorts /\ l.builtin = TRUE /\ l.path = <<>>
        /\ l.loc = None /\ l.uniq = None /\ l.dev \in Text
    BY <2>1, <2>2, VirtualFields, VirtualsAssumption DEF ConfigSorts
  <2> QED  BY <2>1, <2>2, <2>3, NoText DEF Listed, Texts
<1>5. CASE NeedsPAN /\ i = Answer(PANEntity, Plain)
  <2>1. PANName # None
    BY <1>5 DEF NeedsPAN
  <2>2. PICK l : /\ i = <<l>>
                 /\ l.sort = "BluetoothPAN_GN" /\ l.builtin \in BOOLEAN /\ Texts(l)
                 /\ l.path \in Paths \cup {<<>>}
    BY <1>5, <2>1, PANSorted
  <2> QED  BY <1>5, <2>2 DEF Listed
<1> HIDE DEF serial
<1> QED  BY <1>1, <1>2, <1>3, <1>4, <1>5

\* two of one sort are devices or of the configuration, or the same
Alike(l, m) ==
    \/ OfNode(l) /\ OfNode(m)
    \/ <<l>> \in Virtuals /\ <<m>> \in Virtuals
    \/ l = m

LEMMA OneSort ==
    ASSUME NEW l, NEW m, Listed(l), Listed(m), l.sort = m.sort
    PROVE  Alike(l, m)
<1>1. CASE l.sort \in ConfigSorts
  <2>1. l.sort \notin NetSorts \cup PortSorts /\ l.sort # "BluetoothPAN_GN"
    BY <1>1 DEF ConfigSorts, NetSorts, PortSorts
  <2> QED  BY <2>1 DEF Listed, Alike
<1>2. CASE l.sort \notin ConfigSorts /\ l.sort # "BluetoothPAN_GN"
  BY <1>2 DEF Listed, Alike
<1>3. CASE l.sort = "BluetoothPAN_GN" /\ ~NeedsPAN
  BY <1>3 DEF Listed, Alike, ConfigSorts
<1>4. CASE l.sort = "BluetoothPAN_GN" /\ NeedsPAN
  <2>1. <<l>> = <<m>>
    BY <1>4 DEF Listed, ConfigSorts
  <2>2. <<l>>[1] = <<m>>[1]
    BY <2>1
  <2> QED  BY <2>2 DEF Alike
<1> QED  BY <1>1, <1>2, <1>3, <1>4

\* a node is known by its path, a virtual interface by its name
LEMMA ToldApart ==
    ASSUME NEW l, NEW m
    PROVE  /\ OfNode(l) /\ OfNode(m) /\ l.path = m.path => l = m
           /\ <<l>> \in Virtuals /\ <<m>> \in Virtuals /\ l.dev = m.dev => l = m
           /\ OfNode(l) => l.path \in Paths /\ l.path # <<>>
           /\ <<l>> \in Virtuals => l.path = <<>> /\ l.dev # None /\ l.uniq = None
<1>1. <<l>>[1] = l /\ <<m>>[1] = m
  OBVIOUS
<1>2. OfNode(l) /\ OfNode(m) /\ l.path = m.path => l = m
  <2> SUFFICES ASSUME OfNode(l), OfNode(m), l.path = m.path PROVE l = m
    OBVIOUS
  <2>1. PICK j \in DOMAIN Nodes : CreateInterface(Registry, Nodes[j], FALSE) = <<l>> /\ l.path = Nodes[j].path
    BY DEF OfNode
  <2>2. PICK k \in DOMAIN Nodes : CreateInterface(Registry, Nodes[k], FALSE) = <<m>> /\ m.path = Nodes[k].path
    BY DEF OfNode
  <2>3. j = k
    BY <2>1, <2>2, NamesAssumption
  <2>4. <<l>> = <<m>>
    BY <2>1, <2>2, <2>3
  <2> QED  BY <1>1, <2>4
<1>3. <<l>> \in Virtuals /\ <<m>> \in Virtuals /\ l.dev = m.dev => l = m
  <2> SUFFICES ASSUME <<l>> \in Virtuals, <<m>> \in Virtuals, l.dev = m.dev PROVE l = m
    OBVIOUS
  <2> DEFINE v == <<l>>
             w == <<m>>
  <2>1. v[1] = l /\ w[1] = m /\ v \in Virtuals /\ w \in Virtuals
    OBVIOUS
  <2> HIDE DEF v, w
  <2>2. v = w
    BY <2>1, VirtualsAssumption
  <2> QED  BY <2>1, <2>2
<1>4. OfNode(l) => l.path \in Paths /\ l.path # <<>>
  BY NamesAssumption DEF OfNode, Paths
<1>5. <<l>> \in Virtuals => l.path = <<>> /\ l.dev # None /\ l.uniq = None
  BY VirtualFields DEF Device
<1> QED  BY <1>2, <1>3, <1>4, <1>5

\* three of one sort are devices, or of the configuration, or the same
LEMMA ThreeOfOneSort ==
    ASSUME NEW a, NEW b, NEW c, Listed(a), Listed(b), Listed(c), a.sort = b.sort, b.sort = c.sort
    PROVE  \/ OfNode(a) /\ OfNode(b) /\ OfNode(c)
           \/ <<a>> \in Virtuals /\ <<b>> \in Virtuals /\ <<c>> \in Virtuals
           \/ a = b /\ b = c
<1>1. Alike(a, b) /\ Alike(b, c)
  BY OneSort
<1>2. ~(OfNode(b) /\ <<b>> \in Virtuals)
  BY ToldApart
<1> QED  BY <1>1, <1>2 DEF Alike

-----------------------------------------------------------------------------
(* The comparison. *)

SortPlace(sort) == SelectInSeq(SortOrder, LAMBDA x : x = sort)

\* every sort of the list has a place of its own
LEMMA SortPlaces ==
    ASSUME NEW l, NEW m, Listed(l), Listed(m)
    PROVE  /\ SortPlace(l.sort) \in Int
           /\ SortPlace(l.sort) = SortPlace(m.sort) <=> l.sort = m.sort
<1>1. Len(SortOrder) \in Nat /\ DOMAIN SortOrder = 1..Len(SortOrder)
  BY DEF SortOrder
<1>2. \A s \in ConfigSorts \cup NetSorts \cup PortSorts : s \in ToSet(SortOrder)
  BY DEF ConfigSorts, NetSorts, PortSorts, SortOrder, ToSet
<1>3. l.sort \in ToSet(SortOrder) /\ m.sort \in ToSet(SortOrder)
  BY <1>2 DEF Listed, NetSorts
<1>4. \A s \in ToSet(SortOrder) : SortPlace(s) \in DOMAIN SortOrder /\ SortOrder[SortPlace(s)] = s
  BY <1>1, PlaceIs DEF SortPlace
<1>5. DOMAIN SortOrder \subseteq Int
  BY <1>1
<1> QED  BY <1>3, <1>4, <1>5

ByBuiltin(a, b) == IF a.builtin = b.builtin THEN 0 ELSE IF a.builtin THEN -1 ELSE 1

\* what decides, in this order
Levels(a, b) ==
    <<Sign(SortPlace(a.sort), SortPlace(b.sort)), ByBuiltin(a, b),
      ByLocation(a, b), ByPath(a, b), ByText(a.dev, b.dev), ByText(a.uniq, b.uniq)>>

\* _SCNetworkInterfaceCompare is the first of the levels that is not equal
LEMMA CompareIs ==
    ASSUME NEW i, NEW j
    PROVE  Compare(i, j) = First(Levels(i[1], j[1]))
  BY DEF Compare, Levels, SortPlace, ByBuiltin

\* locations have one order, none being the last
LEMMA LocationChain ==
    ASSUME NEW a, NEW b, NEW c, Listed(a), Listed(b), Listed(c)
    PROVE  /\ ByLocation(a, b) \in Results
           /\ a.builtin = b.builtin => ByLocation(a, b) + ByLocation(b, a) = 0
           /\ a.builtin = b.builtin /\ b.builtin = c.builtin =>
                Chain(ByLocation(a, b), ByLocation(b, c), ByLocation(a, c))
<1> DEFINE x == a.loc
           y == b.loc
           z == c.loc
           C(s, t) == CompareText(s, t)
           L(s, t) == IF s = t THEN 0 ELSE IF s = None THEN 1 ELSE IF t = None THEN -1 ELSE C(s, t)
<1>1. x \in Text /\ y \in Text /\ z \in Text
  BY DEF Listed, Texts
<1>2. /\ a.builtin \in BOOLEAN /\ b.builtin \in BOOLEAN /\ c.builtin \in BOOLEAN
  BY DEF Listed
<1>3. /\ C(x, y) \in Results /\ C(y, z) \in Results /\ C(x, z) \in Results
      /\ C(x, y) + C(y, x) = 0
      /\ C(x, y) = 0 <=> x = y
      /\ C(y, z) = 0 <=> y = z
      /\ C(x, z) = 0 <=> x = z
      /\ Chain(C(x, y), C(y, z), C(x, z))
  BY <1>1, TextChain
<1>4. /\ ByLocation(a, b) = IF ~a.builtin THEN 0 ELSE L(x, y)
      /\ ByLocation(b, a) = IF ~b.builtin THEN 0 ELSE L(y, x)
      /\ ByLocation(b, c) = IF ~b.builtin THEN 0 ELSE L(y, z)
      /\ ByLocation(a, c) = IF ~a.builtin THEN 0 ELSE L(x, z)
  BY DEF ByLocation
<1> HIDE DEF x, y, z, C
<1>5. L(x, y) \in Results /\ L(x, y) + L(y, x) = 0
  BY <1>3 DEF Results
<1>6. Chain(L(x, y), L(y, z), L(x, z))
  BY <1>3 DEF Results, Chain
<1> HIDE DEF L
<1>7. 0 \in Results /\ Chain(0, 0, 0) /\ 0 + 0 = 0
  BY DEF Results, Chain
<1> QED  BY <1>2, <1>4, <1>5, <1>6, <1>7

\* texts that there are have one order
LEMMA ByTextIs ==
    ASSUME NEW s \in Text, NEW t \in Text, NEW u \in Text
    PROVE  /\ ByText(s, t) \in Results /\ ByText(s, t) + ByText(t, s) = 0
           /\ ByText(s, s) = 0
           /\ s # None /\ t # None /\ u # None => Chain(ByText(s, t), ByText(t, u), ByText(s, u))
           /\ s # None /\ t # None /\ ByText(s, t) = 0 => s = t
<1>1. 0 \in Results /\ 0 + 0 = 0
  BY DEF Results
<1> QED  BY <1>1, TextChain DEF ByText

\* paths compare as opposite the other way round, if there are any
LEMMA ByPathTypes ==
    ASSUME NEW a, NEW b, Listed(a), Listed(b)
    PROVE  /\ ByPath(a, b) \in Results /\ ByPath(a, b) + ByPath(b, a) = 0
           /\ ByPath(a, a) = 0
<1>1. ASSUME NEW l, NEW m, l.path = <<>> \/ m.path = <<>> PROVE ByPath(l, m) = 0
  BY <1>1 DEF ByPath
<1>2. 0 \in Results /\ 0 + 0 = 0
  BY DEF Results
<1>3. a.path \in Paths \cup {<<>>} /\ b.path \in Paths \cup {<<>>}
  BY DEF Listed
<1>4. ByPath(a, b) \in Results /\ ByPath(a, b) + ByPath(b, a) = 0
  BY <1>1, <1>2, <1>3, PathChain
<1>5. ByPath(a, a) = 0
  <2>1. CASE a.path \in Paths
    <3>1. ByPath(a, a) \in Results /\ ByPath(a, a) + ByPath(a, a) = 0
      BY <2>1, PathChain
    <3> QED  BY <3>1 DEF Results
  <2> QED  BY <1>1, <1>3, <2>1
<1> QED  BY <1>4, <1>5

\* the six levels of the comparison
LEMMA LevelsAre ==
    ASSUME NEW a, NEW b, Listed(a), Listed(b)
    PROVE  /\ Levels(a, b) \in [1..6 -> Results]
           /\ Levels(a, b)[1] = Sign(SortPlace(a.sort), SortPlace(b.sort))
           /\ Levels(a, b)[2] = ByBuiltin(a, b)
           /\ Levels(a, b)[3] = ByLocation(a, b)
           /\ Levels(a, b)[4] = ByPath(a, b)
           /\ Levels(a, b)[5] = ByText(a.dev, b.dev)
           /\ Levels(a, b)[6] = ByText(a.uniq, b.uniq)
           /\ Levels(a, b)[1] = 0 <=> a.sort = b.sort
           /\ Levels(a, b)[2] = 0 <=> a.builtin = b.builtin
<1> DEFINE r1 == Sign(SortPlace(a.sort), SortPlace(b.sort))
           r2 == ByBuiltin(a, b)
           r3 == ByLocation(a, b)
           r4 == ByPath(a, b)
           r5 == ByText(a.dev, b.dev)
           r6 == ByText(a.uniq, b.uniq)
<1>1. r1 \in Results /\ (r1 = 0 <=> a.sort = b.sort)
  BY SortPlaces, SignIs
<1>2. r2 \in Results /\ (r2 = 0 <=> a.builtin = b.builtin)
  BY DEF ByBuiltin, Results
<1>3. r3 \in Results /\ r4 \in Results /\ r5 \in Results /\ r6 \in Results
  BY LocationChain, ByPathTypes, ByTextIs DEF Listed, Texts
<1>4. Levels(a, b) = <<r1, r2, r3, r4, r5, r6>>
  BY DEF Levels
<1> HIDE DEF r1, r2, r3, r4, r5, r6
<1>5. /\ Levels(a, b) \in [1..6 -> Results]
      /\ Levels(a, b)[1] = r1 /\ Levels(a, b)[2] = r2 /\ Levels(a, b)[3] = r3
      /\ Levels(a, b)[4] = r4 /\ Levels(a, b)[5] = r5 /\ Levels(a, b)[6] = r6
  BY <1>1, <1>2, <1>3, <1>4
<1> QED  BY <1>1, <1>2, <1>5 DEF r1, r2, r3, r4, r5, r6

\* the comparison the other way round is opposite
LEMMA CompareMirrors ==
    ASSUME NEW a, NEW b, Listed(a), Listed(b)
    PROVE  /\ First(Levels(a, b)) + First(Levels(b, a)) = 0
           /\ First(Levels(a, b)) \in Results
<1> DEFINE f == Levels(a, b)
           g == Levels(b, a)
<1>1. f \in [1..6 -> Results] /\ g \in [1..6 -> Results]
  BY LevelsAre
<1>2. f[1] + g[1] = 0
  BY LevelsAre, SortPlaces, SignIs
<1>3. f[2] + g[2] = 0
  <2>1. f[2] = ByBuiltin(a, b) /\ g[2] = ByBuiltin(b, a)
    BY LevelsAre
  <2>2. a.builtin \in BOOLEAN /\ b.builtin \in BOOLEAN
    BY DEF Listed
  <2> QED  BY <2>1, <2>2 DEF ByBuiltin
<1>4. f[2] = 0 => f[3] + g[3] = 0
  BY LevelsAre, LocationChain
<1>5. f[4] + g[4] = 0
  BY LevelsAre, ByPathTypes
<1>6. f[5] + g[5] = 0 /\ f[6] + g[6] = 0
  BY LevelsAre, ByTextIs DEF Listed, Texts
<1> HIDE DEF f, g
<1>7. ASSUME NEW k \in 1..6, \A j \in 1..6 : j < k => f[j] = 0 /\ g[j] = 0
      PROVE  f[k] + g[k] = 0
  <2>1. k \in {1, 2, 3, 4, 5, 6}
    OBVIOUS
  <2>2. k = 3 => f[2] = 0
    BY <1>7
  <2> QED  BY <1>2, <1>3, <1>4, <1>5, <1>6, <2>1, <2>2
<1>8. 1..6 \subseteq Nat
  OBVIOUS
<1>9. First(f) + First(g) = 0 /\ First(f) \in Results
  BY <1>1, <1>7, <1>8, FirstMirrors
<1> QED  BY <1>9 DEF f, g

\* and chains, unless three paths part in a circle
LEMMA CompareChain ==
    ASSUME NEW a, NEW b, NEW c, Listed(a), Listed(b), Listed(c), ~Circle(a.path, b.path, c.path)
    PROVE  Chain(First(Levels(a, b)), First(Levels(b, c)), First(Levels(a, c)))
<1> DEFINE f == Levels(a, b)
           g == Levels(b, c)
           h == Levels(a, c)
<1>1. f \in [1..6 -> Results] /\ g \in [1..6 -> Results] /\ h \in [1..6 -> Results]
  BY LevelsAre
<1>2. Chain(f[1], g[1], h[1])
  BY LevelsAre, SortPlaces, SignIs
<1>3. Chain(f[2], g[2], h[2])
  <2>1. f[2] = ByBuiltin(a, b) /\ g[2] = ByBuiltin(b, c) /\ h[2] = ByBuiltin(a, c)
    BY LevelsAre
  <2>2. a.builtin \in BOOLEAN /\ b.builtin \in BOOLEAN /\ c.builtin \in BOOLEAN
    BY DEF Listed
  <2> QED  BY <2>1, <2>2 DEF ByBuiltin, Chain
<1>4. f[2] = 0 /\ g[2] = 0 => Chain(f[3], g[3], h[3])
  BY LevelsAre, LocationChain
<1>5. ASSUME f[1] = 0, g[1] = 0
      PROVE  /\ Chain(f[4], g[4], h[4])
             /\ f[4] = 0 /\ g[4] = 0 => Chain(f[5], g[5], h[5]) /\ Chain(f[6], g[6], h[6])
  <2>1. a.sort = b.sort /\ b.sort = c.sort
    BY <1>5, LevelsAre
  <2>2. /\ f[4] = ByPath(a, b) /\ g[4] = ByPath(b, c) /\ h[4] = ByPath(a, c)
        /\ f[5] = ByText(a.dev, b.dev) /\ g[5] = ByText(b.dev, c.dev) /\ h[5] = ByText(a.dev, c.dev)
        /\ f[6] = ByText(a.uniq, b.uniq) /\ g[6] = ByText(b.uniq, c.uniq) /\ h[6] = ByText(a.uniq, c.uniq)
    BY LevelsAre
  <2> HIDE DEF f, g, h
  <2>3. Chain(0, 0, 0)
    BY DEF Chain
  <2>4. ASSUME a = b, b = c
        PROVE  Chain(f[4], g[4], h[4]) /\ Chain(f[5], g[5], h[5]) /\ Chain(f[6], g[6], h[6])
    <3>1. ByPath(a, a) = 0 /\ ByText(a.dev, a.dev) = 0 /\ ByText(a.uniq, a.uniq) = 0
      BY ByPathTypes, ByTextIs DEF Listed, Texts
    <3> QED  BY <2>2, <2>3, <2>4, <3>1
  <2>5. CASE OfNode(a) /\ OfNode(b) /\ OfNode(c)
    <3>1. a.path \in Paths /\ b.path \in Paths /\ c.path \in Paths
      BY <2>5, ToldApart
    <3>2. Chain(f[4], g[4], h[4])
      BY <2>2, <3>1, PathChain
    <3>3. f[4] = 0 /\ g[4] = 0 => a.path = b.path /\ b.path = c.path
      BY <2>2, <3>1, PathChain
    <3>4. f[4] = 0 /\ g[4] = 0 => a = b /\ b = c
      BY <2>5, <3>3, ToldApart
    <3> QED  BY <2>4, <3>2, <3>4
  <2>6. CASE <<a>> \in Virtuals /\ <<b>> \in Virtuals /\ <<c>> \in Virtuals
    <3>1. /\ a.path = <<>> /\ b.path = <<>> /\ a.uniq = None /\ b.uniq = None
          /\ a.dev # None /\ b.dev # None /\ c.dev # None
      BY <2>6, ToldApart
    <3>2. f[4] = 0 /\ g[4] = 0 /\ h[4] = 0
      BY <2>2, <3>1 DEF ByPath
    <3>3. f[6] = 0 /\ g[6] = 0 /\ h[6] = 0
      BY <2>2, <3>1 DEF ByText
    <3>4. Chain(f[5], g[5], h[5])
      BY <2>2, <3>1, ByTextIs DEF Listed, Texts
    <3> QED  BY <2>3, <3>2, <3>3, <3>4
  <2> QED  BY <2>1, <2>4, <2>5, <2>6, ThreeOfOneSort
<1> HIDE DEF f, g, h
<1>6. ASSUME NEW k \in 1..6, \A j \in 1..6 : j < k => f[j] = 0 /\ g[j] = 0 /\ h[j] = 0
      PROVE  Chain(f[k], g[k], h[k])
  <2>1. k \in {1, 2, 3, 4, 5, 6}
    OBVIOUS
  <2>2. k > 1 => f[1] = 0 /\ g[1] = 0
    BY <1>6
  <2>3. k > 2 => f[2] = 0 /\ g[2] = 0
    BY <1>6
  <2>4. k > 4 => f[4] = 0 /\ g[4] = 0
    BY <1>6
  <2> QED  BY <1>2, <1>3, <1>4, <1>5, <2>1, <2>2, <2>3, <2>4
<1>7. 1..6 \subseteq Nat
  OBVIOUS
<1>8. Chain(First(f), First(g), First(h))
  BY <1>1, <1>6, <1>7, FirstChain
<1> QED  BY <1>8 DEF f, g, h

\* and tells any two apart
LEMMA CompareTells ==
    ASSUME NEW a, NEW b, Listed(a), Listed(b), First(Levels(a, b)) = 0
    PROVE  a = b
<1> DEFINE f == Levels(a, b)
<1>1. f \in [1..6 -> Results] /\ DOMAIN f = 1..6 /\ 1..6 \subseteq Nat
  BY LevelsAre
<1> HIDE DEF f
<1>2. \A k \in 1..6 : f[k] = 0
  BY <1>1, FirstIs DEF f
<1>3. f[1] = 0 /\ f[4] = 0 /\ f[5] = 0
  BY <1>2
<1>4. a.sort = b.sort /\ ByPath(a, b) = 0 /\ ByText(a.dev, b.dev) = 0
  BY <1>3, LevelsAre DEF f
<1>5. CASE OfNode(a) /\ OfNode(b)
  <2>1. a.path \in Paths /\ b.path \in Paths
    BY <1>5, ToldApart
  <2>2. a.path = b.path
    BY <1>4, <2>1, PathChain
  <2> QED  BY <1>5, <2>2, ToldApart
<1>6. CASE <<a>> \in Virtuals /\ <<b>> \in Virtuals
  <2>1. a.dev # None /\ b.dev # None /\ a.dev \in Text /\ b.dev \in Text
    BY <1>6, ToldApart DEF Listed, Texts
  <2>2. a.dev = b.dev
    BY <1>4, <2>1, ByTextIs
  <2> QED  BY <1>6, <2>2, ToldApart
<1> QED  BY <1>4, <1>5, <1>6, OneSort DEF Alike

(***************************************************************************)
(* A list of interfaces has one order, that of _SCNetworkInterfaceCompare, *)
(* but for three devices whose paths part in a circle: whatever devices    *)
(* there are, attached or not, whatever bonds, bridges and VLANs are       *)
(* configured, and whatever the thread's cache tells of the Bluetooth PAN, *)
(* the comparison tells any two of them apart, one way, and is transitive  *)
(* for any three whose paths do not go in a circle.                        *)
(***************************************************************************)
THEOREM OneOrder == Spec => []OrderFixed
<1>1. ASSUME GetsInv PROVE OrderFixed
  <2>1. FoundInv
    BY <1>1 DEF GetsInv
  <2> DEFINE all == CopyAll
  <2>2. \A i \in all : i = <<i[1]>> /\ Listed(i[1])
    BY <2>1, CopyAllListed
  <2>3. ASSUME NEW i \in all, NEW j \in all, i # j
        PROVE  (Compare(i, j) < 0) # (Compare(j, i) < 0)
    <3> DEFINE x == First(Levels(i[1], j[1]))
               y == First(Levels(j[1], i[1]))
    <3>1. i[1] # j[1]
      BY <2>2, <2>3
    <3>2. x + y = 0 /\ x \in Results /\ y \in Results /\ x # 0
      BY <2>2, <3>1, CompareMirrors, CompareTells
    <3>3. Compare(i, j) = x /\ Compare(j, i) = y
      BY CompareIs
    <3> HIDE DEF x, y
    <3>4. (x < 0) # (y < 0)
      BY <3>2 DEF Results
    <3> QED  BY <3>3, <3>4
  <2>4. ASSUME NEW h \in all, NEW i \in all, NEW j \in all, Compare(h, i) < 0, Compare(i, j) < 0,
               ~Circle(h[1].path, i[1].path, j[1].path)
        PROVE  Compare(h, j) < 0
    <3> DEFINE x == First(Levels(h[1], i[1]))
               y == First(Levels(i[1], j[1]))
               z == First(Levels(h[1], j[1]))
    <3>1. Compare(h, i) = x /\ Compare(i, j) = y /\ Compare(h, j) = z
      BY CompareIs
    <3>2. Chain(x, y, z) /\ x \in Results /\ y \in Results /\ z \in Results
      BY <2>2, <2>4, CompareChain, CompareMirrors
    <3> HIDE DEF x, y, z
    <3>3. z < 0
      BY <2>4, <3>1, <3>2 DEF Chain, Results
    <3> QED  BY <3>1, <3>3
  <2> DEFINE before == [i \in all |-> {j \in all : Compare(j, i) < 0}]
  <2>5. ASSUME NEW i \in all, NEW j \in all, i # j
        PROVE  /\ (i \in before[j]) # (j \in before[i])
               /\ i \in before[j] => \A h \in before[i] :
                     h \in before[j] \/ Circle(h[1].path, i[1].path, j[1].path)
    <3> HIDE DEF all
    <3>2. /\ (i \in before[j]) <=> (Compare(i, j) < 0)
          /\ (j \in before[i]) <=> (Compare(j, i) < 0)
      OBVIOUS
    <3>3. (i \in before[j]) # (j \in before[i])
      BY <2>3, <2>5, <3>2
    <3>4. ASSUME i \in before[j], NEW h \in before[i], ~Circle(h[1].path, i[1].path, j[1].path)
          PROVE  h \in before[j]
      BY <2>4, <3>2, <3>4
    <3> QED  BY <3>3, <3>4
  <2> QED  BY <2>5 DEF OrderFixed
<1> QED  BY <1>1, Gets, PTL

=============================================================================
