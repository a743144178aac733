----------------------------- MODULE NetConfig ------------------------------
(***************************************************************************)
(* Network services and the configurations of their interfaces, as the     *)
(* framework's private half keeps them in the preferences.                 *)
(*                                                                         *)
(* A service has an entity (with kSCResvInactive while it is disabled), a  *)
(* protocol, and links from the sets that contain it.  The configuration   *)
(* of an interface is stored with the service, or, for hardware that       *)
(* services share, once in every set that contains the service; while no   *)
(* set does, it is held in the object, as "unsaved".                       *)
(*                                                                         *)
(* A service is made by several calls of the public half, each of which    *)
(* may fail.  The preferences are one object of one thread.                *)
(***************************************************************************)
EXTENDS Naturals, FiniteSets, Sequences

CONSTANTS
    Sets,       \* the sets of the preferences
    Services,   \* service identifiers
    Layers,     \* [Services -> Seq(STRING)]: the types of a service's interface, top first
    Device,     \* [Services -> devices]: the device of the interface
    Extended,   \* extended configuration types that clients use
    Templates,  \* the types of interface with a template, <<type>> or <<type, child type>>
    Values,     \* contents of a configuration
    Sources,    \* services of other preferences that may be migrated: the sets that each
                \* goes to, whether it is enabled, its protocol and its interface's configuration
    Gone,       \* what a user sees of a service that is not there
    MaxSteps,   \* bound on the calls of clients
    MaxFaults   \* bound on the calls that fail without a reason

None   == "none"     \* a NULL configuration
Hollow == "hollow"   \* a dictionary with no key but kSCResvInactive
Null   == "null"     \* kCFNull: an unsaved removal
Init0  == "template" \* the configuration that a template gives

ASSUME NetConfigAssumption ==
    /\ Layers \in [Services -> Seq(STRING)] /\ \A s \in Services : Layers[s] # <<>>
    /\ DOMAIN Device = Services
    /\ Values \cap {None, Hollow, Null} = {}
    /\ MaxSteps \in Nat /\ MaxFaults \in Nat

-----------------------------------------------------------------------------
(* The table of interface types. *)

Hardware == [Ethernet |-> "Ethernet", PPP |-> "PPP", L2TP |-> None, IPSec |-> "IPSec"]

Known(type) == type \in DOMAIN Hardware
PerInterface(type) == type = "Ethernet"

\* the default configuration type of an interface that belongs to a service
DefaultType(type) == IF Known(type) THEN Hardware[type] ELSE type

\* IPSec is an extended type of PPP over L2TP
IsL2TP(s, k, ext) ==
    /\ ext = "IPSec" /\ Layers[s][k] = "PPP"
    /\ k < Len(Layers[s]) /\ Layers[s][k + 1] = "L2TP"

ValidExtended(s, k, ext) ==
    LET type == Layers[s][k] IN
    /\ DefaultType(type) \notin {None, ext}
    /\ Known(type)
    /\ PerInterface(type) \/ IsL2TP(s, k, ext)
    /\ Known(ext) => IsL2TP(s, k, ext)

Types    == {DefaultType(t) : t \in UNION {{Layers[s][k] : k \in DOMAIN Layers[s]} : s \in Services}}
                \cup Extended
Devices  == {Device[s] : s \in Services}
Slots    == (Sets \X Devices \X Types) \cup (Services \X {"service"} \X Types)
Contents == Values \cup {Init0}

VARIABLES
    entities,  \* the services that are stored, and whether they are enabled
    links,     \* the services that each set contains
    proto,     \* each service's protocol entity: its configuration, and kSCResvInactive
    config,    \* what is stored at each path for an interface
    unsaved,   \* configurations held in the interface of each service's object
    job,       \* the call that makes a service, and how far it is
    shown,     \* what its caller saw of the services before (a history)
    mine,      \* what was last accepted for a service that no set contains (a history)
    steps, faults

store == <<entities, links, proto, config, unsaved>>
vars  == <<store, job, shown, mine, steps, faults>>

Absent == [val |-> None, inactive |-> FALSE, there |-> FALSE]
Entity(v, i) == [val |-> v, inactive |-> i, there |-> TRUE]
Entities == {Absent} \cup {Entity(v, i) : v \in Contents \cup {None}, i \in BOOLEAN}

\* What may be migrated is what a service can be; Gone is no service.
ASSUME SourcesAssumption ==
    /\ \A w \in Sources : /\ w.sets \subseteq Sets /\ w.enabled \in BOOLEAN
                          /\ w.proto \in Entities /\ w.config \in Contents \cup {None}
    /\ Gone \notin [sets: SUBSET Sets, enabled: BOOLEAN, config: Contents \cup {None}, active: BOOLEAN]

Stored(s) == entities[s].there
SetsOf(s) == {set \in Sets : s \in links[set]}

\* what a user of the preferences sees of the services
View == [s \in Services |->
    IF Stored(s) THEN [sets    |-> SetsOf(s), enabled |-> ~entities[s].inactive,
                       config  |-> proto[s].val, active |-> ~proto[s].inactive]
    ELSE Gone]

TypeOK ==
    /\ entities \in [Services -> {Absent, Entity(None, FALSE), Entity(None, TRUE)}]
    /\ links \in [Sets -> SUBSET {s \in Services : Stored(s)}]
    /\ proto \in [Services -> Entities]
    /\ config \in [Slots -> Contents \cup {None, Hollow}]
    /\ unsaved \in [Services -> [Types -> Contents \cup {None, Hollow, Null}]]
    /\ job.pc \in {"idle", "name", "enable", "establish", "identify", "current", "join", "sets", "protocols", "copy"}
    /\ job.pc # "idle" => Stored(job.s)
    /\ mine \in [Services -> Contents \cup {None, Hollow}]
    /\ steps \in 0..MaxSteps /\ faults \in 0..MaxFaults

-----------------------------------------------------------------------------
(* One configuration at several paths. *)

\* where the configuration of layer k of the service's interface is
Paths(s, k, type) ==
    IF PerInterface(Layers[s][k]) THEN SetsOf(s) \X {Device[s]} \X {type}
                                  ELSE {<<s, "service", type>>}

\* an effectively empty configuration counts as none
Get(c) == IF c = Hollow THEN None ELSE c

\* what is held in the object, where kCFNull stands for none
Held(s, type) == IF unsaved[s][type] = Null THEN None ELSE Get(unsaved[s][type])

\* the configuration that the set has for the interface, or else what is held
GetDefaultConfiguration(set, s, type) ==
    LET stored == Get(config[<<set, Device[s], type>>])
    IN  IF stored = None THEN Held(s, type) ELSE stored

Write(paths, c) == [p \in Slots |-> IF p \in paths THEN c ELSE config[p]]

\* Mutant of Release: what was stored is still held.
Keep(s, types) == unsaved

\* what was stored is no longer held
Release(s, types) == [unsaved EXCEPT ![s] = [t \in Types |-> IF t \in types THEN None ELSE @[t]]]

Fault   == faults < MaxFaults /\ faults' = faults + 1
NoFault == UNCHANGED faults

\* __SCNetworkInterfaceSetConfiguration of layer k: c is written at every path,
\* up to one that fails; with no path it is held, if that is allowed.
SetConfiguration(s, k, type, c, okToHold) ==
    LET paths == Paths(s, k, type) IN
    \/ /\ paths # {} /\ config' = Write(paths, c)
       /\ unsaved' = Release(s, {type}) /\ NoFault
       /\ mine' = [mine EXCEPT ![s] = IF type = "Ethernet" THEN None ELSE @]
    \/ /\ paths # {} /\ UNCHANGED <<unsaved, mine>> /\ Fault
       /\ \E failed \in paths, written \in SUBSET paths :
             /\ config[failed] # c /\ failed \notin written
             /\ config' = Write(written, c)
    \/ /\ paths = {} /\ okToHold /\ UNCHANGED config /\ NoFault
       /\ unsaved' = [unsaved EXCEPT ![s][type] = IF c = None THEN Null ELSE c]
       /\ mine' = [mine EXCEPT ![s] = IF type = "Ethernet" THEN c ELSE @]
    \/ paths = {} /\ ~okToHold /\ UNCHANGED <<config, unsaved, mine>> /\ NoFault

\* The extended types of a service in set: those stored there and those held.
ExtendedTypes(set, s) == {t \in Types \ {"Ethernet"} :
                            config[<<set, Device[s], t>>] # None \/ unsaved[s][t] # None}

Defaults(s) == {DefaultType(Layers[s][k]) : k \in DOMAIN Layers[s]} \ {None}
Shared(s)   == \E k \in DOMAIN Layers[s] : PerInterface(Layers[s][k])

\* All that the service's interface is configured with, for a set: the default
\* configurations of that set, and the extended ones of a set "from" that has the service.
CopyDeep(set, s, from) ==
    LET extended == IF from = None \/ ~Shared(s) THEN {} ELSE ExtendedTypes(from, s)
    IN  [t \in Types |-> CASE t \in Defaults(s) -> GetDefaultConfiguration(set, s, t)
                            [] t \in extended -> Get(config[<<from, Device[s], t>>])
                            [] OTHER -> None]

\* The same set again for a service that the sets "members" contain.  Types that
\* the copy does not have are cleared.  A default configuration that cannot be
\* stored is only logged.
SetDeep(set, s, deep, from, members) ==
    LET first == {set} \X {Device[s]} \X Defaults(s)
        types == IF Shared(s) THEN ExtendedTypes(from, s) \ Defaults(s) ELSE {}
        rest  == members \X {Device[s]} \X types
        Set(paths) == config' = [p \in Slots |-> IF p \in paths THEN deep[p[3]] ELSE config[p]]
    IN  \/ /\ Set(first \cup rest) /\ unsaved' = Release(s, Defaults(s) \cup types)
           /\ mine' = [mine EXCEPT ![s] = None] /\ NoFault
        \/ /\ \E p \in first : config[p] # deep[p[3]]
           /\ Set(rest) /\ unsaved' = Release(s, types)
           /\ UNCHANGED mine /\ Fault

\* SCNetworkSetAddService: between the copy and setting it again the service
\* becomes a member.  The sets come in the order of a dictionary.
Join(set, s) ==
    /\ links' = [links EXCEPT ![set] = @ \cup {s}]
    /\ \E old \in (IF SetsOf(s) = {} THEN {None} ELSE SetsOf(s)) :
        \E new \in {old, set} \cap Sets :
            SetDeep(set, s, CopyDeep(set, s, old), new, SetsOf(s) \cup {set})

\* __setPrefsEnabled: kSCResvInactive comes and goes, the rest stays.
SetEnabled(e, enabled) ==
    IF e.there THEN Entity(e.val, ~enabled)
    ELSE IF enabled THEN Absent ELSE Entity(None, TRUE)

\* __SCNetworkConfigurationSetValue with keepInactive: the key stays as it was,
\* whatever the new configuration says.
SetProtocol(e, new) == Entity(new.val, e.inactive)

-----------------------------------------------------------------------------
(* Making a service: one call of the public half at a time. *)

Fresh == [t \in Types |-> None]

Idle == [pc |-> "idle", op |-> "none", s |-> None, todo |-> {}, added |-> FALSE, want |-> None]

\* SCNetworkServiceRemove: the entity and every link go, and the object with them.
Remove(s) ==
    /\ entities' = [entities EXCEPT ![s] = Absent]
    /\ links' = [set \in Sets |-> links[set] \ {s}]
    /\ proto' = [proto EXCEPT ![s] = Absent]
    /\ config' = [p \in Slots |-> IF p[1] = s THEN None ELSE config[p]]
    /\ unsaved' = [unsaved EXCEPT ![s] = Fresh]
    /\ mine' = [mine EXCEPT ![s] = None]

\* The call returns: its caller sees the services as they are now.
Return == job' = Idle /\ shown' = View'

Goto(pc) == job' = [job EXCEPT !.pc = pc] /\ UNCHANGED shown

\* Mutant of GiveUp: what was made stays.
LeaveIt == Fault /\ UNCHANGED <<store, mine, steps>> /\ Return

\* A call of the public half fails: what was made is removed.
GiveUp == Fault /\ Remove(job.s) /\ Return /\ UNCHANGED steps

\* SCNetworkServiceCreate, with a copy of an interface: a new one, or another
\* service's, whose unsaved configuration is copied as well.
Create(s) ==
    /\ entities' = [entities EXCEPT ![s] = Entity(None, FALSE)]
    /\ \E o \in Services :
        LET same == Stored(o) /\ Layers[o] = Layers[s] /\ Device[o] = Device[s] IN
        /\ unsaved' = [unsaved EXCEPT ![s] = IF same THEN unsaved[o] ELSE Fresh]
        /\ mine' = [mine EXCEPT ![s] = IF same THEN mine[o] ELSE None]
    /\ UNCHANGED <<links, proto, config>>

\* A call that makes a service begins, unless its first request is refused.
Begin(op, s, pc, want) ==
    /\ job.pc = "idle" /\ ~Stored(s)
    /\ steps < MaxSteps /\ steps' = steps + 1
    /\ \/ Fault /\ UNCHANGED <<store, mine, job, shown>>
       \/ /\ NoFault /\ Create(s) /\ UNCHANGED shown
          /\ job' = [pc |-> pc, op |-> op, s |-> s, want |-> want, added |-> FALSE,
                     todo |-> IF op = "create" THEN {} ELSE want.sets]

\* __SCNetworkServiceCreate
BeginCreate(s) == Begin("create", s, "name", None)

\* __SCNetworkServiceMigrateNew, which stops at a service that is there already
BeginMigrate(s) == \E want \in Sources : Begin("migrate", s, "enable", want)

SetName ==
    /\ job.pc = "name"
    /\ \/ GiveUp
       \/ Goto("establish") /\ NoFault /\ UNCHANGED <<store, mine, steps>>

EnableNew ==
    /\ job.pc = "enable"
    /\ \/ GiveUp
       \/ /\ entities' = [entities EXCEPT ![job.s] = SetEnabled(@, job.want.enabled)]
          /\ Goto("establish") /\ NoFault
          /\ UNCHANGED <<links, proto, config, unsaved, mine, steps>>

\* the template of the interface, by its type and that of the layer below
Template(s) ==
    LET chain == Layers[s]
        below == IF Known(chain[2]) THEN chain[2] ELSE "*"
    IN  IF (IF Len(chain) = 1 THEN <<chain[1]>> ELSE <<chain[1], below>>) \in Templates
        THEN Init0 ELSE None

\* SCNetworkServiceEstablishDefaultConfiguration
Establish ==
    /\ job.pc = "establish"
    /\ \/ GiveUp
       \/ /\ SetConfiguration(job.s, 1, DefaultType(Layers[job.s][1]), Template(job.s), TRUE)
          /\ proto' = [proto EXCEPT ![job.s] = Entity(Init0, FALSE)]
          /\ Goto(IF job.op = "create" THEN "current" ELSE "identify")
          /\ UNCHANGED <<entities, links, steps>>

\* _SCNetworkServiceSetServiceID, of which a failure is ignored.  Nobody has seen
\* the service yet: job.s is the identifier that it has from here on, that of the
\* old service or, after a failure, the one that it was created with.
SetServiceID ==
    /\ job.pc = "identify" /\ Goto("sets")
    /\ NoFault \/ Fault
    /\ UNCHANGED <<store, mine, steps>>

\* The current set is looked up last: without one the service is removed, and
\* the answer is that of the call before.
CurrentSet ==
    /\ job.pc = "current" /\ UNCHANGED steps
    /\ \/ NoFault /\ Remove(job.s) /\ Return
       \/ \E set \in Sets :
            /\ NoFault /\ job' = [job EXCEPT !.pc = "join", !.todo = {set}]
            /\ UNCHANGED <<store, mine, shown>>

JoinCurrent ==
    /\ job.pc = "join" /\ UNCHANGED <<entities, proto, steps>>
    /\ \E set \in job.todo : Join(set, job.s) /\ Return

JoinRefused == job.pc = "join" /\ GiveUp

\* The service is added to each set that has a counterpart; some may refuse it.
JoinMapped ==
    /\ job.pc = "sets" /\ UNCHANGED <<entities, proto, shown, steps>>
    /\ \E set \in job.todo :
        \/ /\ Join(set, job.s)
           /\ job' = [job EXCEPT !.todo = @ \ {set}, !.added = TRUE]
        \/ /\ Fault /\ UNCHANGED <<links, config, unsaved, mine>>
           /\ job' = [job EXCEPT !.todo = @ \ {set}]

\* A service that no set took is removed.
Joined ==
    /\ job.pc = "sets" /\ job.todo = {} /\ NoFault /\ UNCHANGED steps
    /\ \/ job.added /\ Goto("protocols") /\ UNCHANGED <<store, mine>>
       \/ ~job.added /\ Remove(job.s) /\ Return

\* __SCNetworkServiceAddProtocolToService, whose failures are ignored
AddProtocol ==
    /\ job.pc = "protocols" /\ Goto("copy")
    /\ UNCHANGED <<entities, links, config, unsaved, mine, steps>>
    /\ \/ /\ NoFault
          /\ proto' = [proto EXCEPT ![job.s] =
                IF job.want.proto.there
                THEN SetEnabled(SetProtocol(@, job.want.proto), ~job.want.proto.inactive) ELSE @]
       \/ Fault /\ UNCHANGED proto

\* copyInterfaceConfiguration: what the old service has not is cleared in the new
CopyInterface ==
    /\ job.pc = "copy" /\ UNCHANGED <<entities, links, proto, steps>>
    /\ LET s == job.s
           slots(k) == (IF DefaultType(Layers[s][k]) = None THEN {}
                        ELSE Paths(s, k, DefaultType(Layers[s][k])))
                       \cup UNION {Paths(s, k, ext) : ext \in {e \in Extended : ValidExtended(s, k, e)}}
           all == UNION {slots(k) : k \in DOMAIN Layers[s]}
           value(p) == IF p[3] = DefaultType(Layers[s][1]) THEN job.want.config ELSE None
       IN  \E lost \in SUBSET all :
            /\ config' = [p \in Slots |-> IF p \in all \ lost THEN value(p) ELSE config[p]]
            /\ IF lost = {} THEN NoFault ELSE Fault /\ \E t \in Types : \A p \in lost : p[3] = t
            /\ LET saved == {p[3] : p \in all} \ {p[3] : p \in lost}
               IN  /\ unsaved' = Release(s, saved)
                   /\ mine' = [mine EXCEPT ![s] = IF "Ethernet" \in saved THEN None ELSE @]
    /\ Return

-----------------------------------------------------------------------------
(* Requests of clients. *)

Request(s) ==
    /\ job.pc = "idle" /\ Stored(s) /\ UNCHANGED job
    /\ steps < MaxSteps /\ steps' = steps + 1

ConfigureInterface(s) ==
    /\ Request(s)
    /\ \E k \in DOMAIN Layers[s], c \in Values \cup {None, Hollow}, okToHold \in BOOLEAN :
        \E type \in {DefaultType(Layers[s][k])} \cup {e \in Extended : ValidExtended(s, k, e)} :
            type # None /\ SetConfiguration(s, k, type, c, okToHold)
    /\ UNCHANGED <<entities, links, proto>> /\ shown' = View'

AddToSet(s) ==
    /\ Request(s) /\ UNCHANGED <<entities, proto>>
    /\ \E set \in Sets : s \notin links[set] /\ Join(set, s)
    /\ shown' = View'

RemoveFromSet(s) ==
    /\ Request(s) /\ \E set \in SetsOf(s) : links' = [links EXCEPT ![set] = @ \ {s}]
    /\ NoFault /\ UNCHANGED <<entities, proto, config, unsaved, mine>> /\ shown' = View'

RemoveService(s) == Request(s) /\ NoFault /\ Remove(s) /\ shown' = View'

EnableService(s) ==
    /\ Request(s) /\ NoFault
    /\ \E b \in BOOLEAN : entities' = [entities EXCEPT ![s] = SetEnabled(@, b)]
    /\ UNCHANGED <<links, proto, config, unsaved, mine>> /\ shown' = View'

EditProtocol(s) ==
    /\ Request(s) /\ NoFault
    /\ \/ \E b \in BOOLEAN : proto' = [proto EXCEPT ![s] = SetEnabled(@, b)]
       \/ \E new \in {Entity(v, i) : v \in Values \cup {None}, i \in BOOLEAN} :
            proto' = [proto EXCEPT ![s] = SetProtocol(@, new)]
    /\ UNCHANGED <<entities, links, config, unsaved, mine>> /\ shown' = View'

Next ==
    \/ \E s \in Services :
        \/ BeginCreate(s) \/ BeginMigrate(s) \/ ConfigureInterface(s) \/ AddToSet(s)
        \/ RemoveFromSet(s) \/ RemoveService(s) \/ EnableService(s) \/ EditProtocol(s)
    \/ SetName \/ EnableNew \/ Establish \/ SetServiceID \/ CurrentSet \/ JoinCurrent
    \/ JoinRefused \/ JoinMapped \/ Joined \/ AddProtocol \/ CopyInterface

Init ==
    /\ entities = [s \in Services |-> Absent]
    /\ links = [set \in Sets |-> {}]
    /\ proto = [s \in Services |-> Absent]
    /\ config = [p \in Slots |-> None]
    /\ unsaved = [s \in Services |-> Fresh]
    /\ mine = [s \in Services |-> None]
    /\ job = Idle /\ shown = View
    /\ steps = 0 /\ faults = 0

Spec == Init /\ [][Next]_vars

-----------------------------------------------------------------------------
(* Properties. *)

\* Services as their users see them: made whole or not at all, however a call
\* of __SCNetworkServiceCreate or __SCNetworkServiceMigrateNew fails, and
\* changed in one respect by one request: kSCResvInactive and the
\* configuration share a dictionary and do not disturb each other.
Store == INSTANCE ServiceStore WITH
    Configs <- Contents \cup {None}, services <- shown

ImplementsStore == Store!Spec

\* A configuration that was held while no set contained the service
\* (__SCNetworkInterfaceSetConfiguration with okToHold) becomes that of the
\* first set it joins, unless that set has one for the interface, which stays;
\* and it is used once.
HeldIsDelivered ==
    [][\A s \in Services, set \in Sets :
        LET p == <<set, Device[s], "Ethernet">> IN
        (/\ PerInterface(Layers[s][Len(Layers[s])])
         /\ s \notin links[set] /\ s \in links'[set] /\ UNCHANGED faults)
            => Get(config'[p]) = IF Get(config[p]) # None THEN Get(config[p]) ELSE Get(mine[s])]_vars

=============================================================================
