------------------------------ MODULE NetEdit ------------------------------
(***************************************************************************)
(* The network configuration editor "scutil --net": the commands create,   *)
(* select, set, enable, disable, remove, show, clean, update, upgrade,     *)
(* commit, open, close and quit on sets, services and protocols.           *)
(*                                                                         *)
(* The editor holds what is selected (net_set, net_service, net_protocol,  *)
(* net_interface) and the lists that the last lookup or "show" left behind *)
(* (sets, services, protocols) in globals, next to the preferences that    *)
(* they point into.  Each command keeps some of them and drops others.     *)
(*                                                                         *)
(* Names, orders, ranks, enabled flags and the configurations of protocols *)
(* and interfaces are one bit, "other".  A request that the framework      *)
(* refuses changes nothing but the lists, like the "show" of that list.    *)
(*                                                                         *)
(* "set id" gives the selected service another identifier.  An object of a *)
(* list that is not the selected one keeps the old identifier, under which *)
(* there is nothing any more.                                              *)
(***************************************************************************)
EXTENDS Integers

CONSTANTS
    SetIds, ServiceIds, Protocols, \* identifiers, types of protocols
    Files,       \* configurations that a preferences file may hold
    None,        \* a NULL reference
    MaxCommands  \* bound on the number of commands

Configurations ==
    [sets : SUBSET SetIds, current : SetIds \cup {None},
     services : SUBSET ServiceIds, members : [SetIds -> SUBSET ServiceIds],
     protocols : SUBSET (ServiceIds \X Protocols), other : BOOLEAN]

\* a set refers to services that are there
WellFormed(c) == \A t \in SetIds : c.members[t] \subseteq c.services

ASSUME EditAssumption ==
    /\ None \notin SetIds /\ None \notin ServiceIds
    /\ None \notin ServiceIds \X Protocols
    /\ MaxCommands \in Nat
ASSUME FilesAssumption == Files \subseteq {c \in Configurations : WellFormed(c)}

VARIABLES
    open,        \* prefs is not NULL
    conf,        \* the configuration in memory
    saved,       \* the configuration in the file
    ni,          \* ni_prefs: NULL ("closed"), as in its file, or changed
    changed,     \* _prefs_changed
    sel,         \* net_set, net_service, net_protocol, net_interface
    lists,       \* sets, services, protocols; own: net_service is in services
    process,     \* "running", "ended", or the command that used NULL
    quiet,       \* history: an update made a set and reported no change
    replaced,    \* history: clean or upgrade rewrote the configuration
    renamed,     \* identifiers that services gave up for others
    commands     \* number of commands so far

prefs == <<open, conf, saved, ni, changed>>
vars  == <<prefs, sel, lists, process, quiet, replaced, renamed, commands>>

Nothing == [set |-> None, service |-> None, protocol |-> None, interface |-> FALSE]
NoLists == [sets |-> None, services |-> None, protocols |-> None, own |-> FALSE]

Command ==
    /\ process = "running"
    /\ commands < MaxCommands /\ commands' = commands + 1

\* a command that leaves the preferences alone, and one that edits them
Looks == Command /\ UNCHANGED <<prefs, process, quiet, replaced, renamed>>
Edits == Command /\ open /\ UNCHANGED <<open, saved, ni, quiet, replaced, renamed>>
Marks == changed' = TRUE
Runs  == process' = process

Init ==
    /\ open = TRUE /\ saved \in Files /\ conf = saved
    /\ ni = "closed" /\ changed = FALSE
    /\ sel = [Nothing EXCEPT !.set = conf.current]
    /\ lists = NoLists
    /\ process = "running" /\ quiet = FALSE /\ replaced = FALSE /\ renamed = {}
    /\ commands = 0

-----------------------------------------------------------------------------
(* Lookups: the list of an earlier lookup is used as long as there is one. *)

SetList == IF lists.sets # None THEN lists.sets ELSE conf.sets
FoundSet(t) == (open \/ lists.sets # None) /\ t \in SetList

Members == IF sel.set = None THEN {} ELSE conf.members[sel.set]
ServiceList == IF lists.services # None THEN lists.services ELSE Members
FoundService(v) == v \in ServiceList

Supported(v) == {v} \X Protocols
ProtocolsOf(v) == conf.protocols \cap Supported(v)
ProtocolList ==
    IF lists.protocols # None THEN lists.protocols ELSE ProtocolsOf(sel.service)
FoundProtocol(p) == p \in ProtocolList

\* the object of a command is named, or is the selected one
NamedSet(t) == FoundSet(t) \/ t = sel.set
NamedService(v) == FoundService(v) \/ v = sel.service
NamedProtocol(p) == FoundProtocol(p) \/ p = sel.protocol

ShowSets ==
    /\ Looks /\ open
    /\ lists' = [lists EXCEPT !.sets = SetList]
    /\ UNCHANGED sel

ShowServices ==
    /\ Looks /\ open
    /\ \/ lists' = [lists EXCEPT !.services = conf.services, !.own = FALSE]   \* "all"
       \/ sel.set # None /\ lists' = [lists EXCEPT !.services = Members, !.own = FALSE]
    /\ UNCHANGED sel

ShowProtocols ==
    /\ Looks /\ open /\ sel.service # None
    /\ lists' = [lists EXCEPT !.protocols = ProtocolsOf(sel.service)]
    /\ UNCHANGED sel

-----------------------------------------------------------------------------
(* Sets.                                                                   *)

SelectSet(t) ==
    /\ Looks /\ FoundSet(t)
    /\ sel' = [Nothing EXCEPT !.set = t]
    /\ lists' = [lists EXCEPT !.sets = SetList]

CreateSet(t) ==
    /\ Edits /\ Runs /\ t \notin conf.sets
    /\ conf' = [conf EXCEPT !.sets = @ \cup {t}]
    /\ Marks
    /\ sel' = [Nothing EXCEPT !.set = t]
    /\ lists' = [lists EXCEPT !.sets = None]

\* The framework does not remove the current set.  The set that is removed is
\* compared with net_set although that may be NULL.
RemoveSet(t) ==
    /\ Edits /\ NamedSet(t)
    /\ t \in conf.sets /\ t # conf.current
    /\ conf' = [conf EXCEPT !.sets = @ \ {t}, !.members[t] = {}]
    /\ Marks
    /\ process' = IF sel.set = None THEN "remove set" ELSE process
    /\ sel' = IF t = sel.set THEN [Nothing EXCEPT !.set = t] ELSE sel
    /\ lists' = [lists EXCEPT !.sets = None]

\* set set: name and id (below) refresh the list, current does not
SetSet ==
    /\ Edits /\ Runs /\ sel.set \in conf.sets
    /\ \/ /\ conf' = [conf EXCEPT !.other = ~@]
          /\ lists' = [lists EXCEPT !.sets = IF @ = None THEN None ELSE conf.sets]
       \/ conf' = [conf EXCEPT !.current = sel.set] /\ UNCHANGED lists
    /\ Marks
    /\ UNCHANGED sel

\* set set id, to an identifier that no set has
RenameSet(n) ==
    LET old == sel.set
    IN /\ Edits /\ Runs /\ old \in conf.sets /\ n \notin conf.sets
       /\ conf' = [conf EXCEPT !.sets = (@ \ {old}) \cup {n},
                               !.current = IF @ = old THEN n ELSE @,
                               !.members[n] = conf.members[old], !.members[old] = {}]
       /\ Marks
       /\ sel' = [sel EXCEPT !.set = n]
       /\ lists' = [lists EXCEPT !.sets = IF @ = None THEN None ELSE conf'.sets]

-----------------------------------------------------------------------------
(* Services.                                                               *)

\* the identifiers that a new service may get
NewIds(c) == ServiceIds \ (c.services \cup renamed)

\* a new service v with its default protocols in set t
WithService(c, t, v) ==
    [c EXCEPT !.services = @ \cup {v}, !.members[t] = @ \cup {v},
              !.protocols = @ \cup Supported(v)]

\* select service, with the list of protocols that it leaves
Selection(v, list) ==
    /\ Looks /\ FoundService(v)
    /\ sel' = [sel EXCEPT !.service = v, !.protocol = None,
                          !.interface = v \in conf.services]
    /\ lists' = [lists EXCEPT !.services = ServiceList, !.protocols = list, !.own = TRUE]

\* Mutant of SelectService: the list is kept.
SelectServiceListed(v) == Selection(v, lists.protocols)

SelectService(v) == Selection(v, None)

\* over the interface that is selected or named
CreateService(v) ==
    /\ Edits /\ Runs /\ sel.set \in conf.sets /\ v \in NewIds(conf)
    /\ conf' = WithService(conf, sel.set, v)
    /\ Marks
    /\ sel' = [sel EXCEPT !.service = v, !.protocol = None, !.interface = TRUE]
    /\ lists' = [lists EXCEPT !.services = None, !.protocols = None, !.own = FALSE]

\* remove service, with the mark and the list of services that it leaves
Removal(v, mark, list) ==
    /\ Edits /\ Runs /\ NamedService(v) /\ v \in conf.services
    /\ conf' = [conf EXCEPT !.services = @ \ {v},
                            !.members = [t \in SetIds |-> @[t] \ {v}],
                            !.protocols = @ \ Supported(v)]
    /\ changed' = mark
    /\ sel' = IF v = sel.service THEN [Nothing EXCEPT !.set = sel.set] ELSE sel
    /\ lists' = [lists EXCEPT !.services = list, !.own = FALSE,
                              !.protocols = IF v = sel.service THEN None ELSE @]

\* Mutants of RemoveService: the change is not marked; the list is kept.
RemoveServiceSilent(v) == Removal(v, changed, None)
RemoveServiceListed(v) == Removal(v, TRUE, lists.services)

RemoveService(v) == Removal(v, TRUE, None)

\* enable, disable service: what is written to a service that is no longer
\* there makes it none
EnableService(v) ==
    /\ Edits /\ Runs /\ NamedService(v)
    /\ \/ conf' = [conf EXCEPT !.other = ~@]
       \/ v \notin conf.services /\ UNCHANGED conf
    /\ Marks
    /\ lists' = [lists EXCEPT !.services = IF v = sel.service THEN @ ELSE ServiceList]
    /\ UNCHANGED sel

\* set service name, rank and order, which counts the services of net_set
\* before it looks whether there is one
SetService ==
    /\ Edits /\ sel.service # None
    /\ \/ conf' = [conf EXCEPT !.other = ~@] /\ Marks /\ Runs
       \/ /\ sel.set = None /\ process' = "set service order"
          /\ UNCHANGED <<conf, changed>>
    /\ UNCHANGED <<sel, lists>>

\* the protocols ps, those of service old now being those of service n
Moved(ps, old, n) == {<<IF p[1] = old THEN n ELSE p[1], p[2]>> : p \in ps}

\* the sets' members, where n replaces old
Following(members, old, n) == [t \in SetIds |->
    IF old \in members[t] THEN (members[t] \ {old}) \cup {n} ELSE members[t]]

\* set service id, to an identifier under which there is nothing.  The sets
\* follow; in the list of services only net_service itself does.
RenameService(n) ==
    LET old == sel.service
    IN /\ Command /\ open /\ Runs
       /\ old \in conf.services /\ n \notin conf.services /\ ProtocolsOf(n) = {}
       /\ conf' = [conf EXCEPT
                !.services = (@ \ {old}) \cup {n},
                !.members = Following(@, old, n),
                !.protocols = Moved(@, old, n)]
       /\ Marks
       /\ sel' = [sel EXCEPT !.service = n,
                             !.protocol = IF @ = None THEN None ELSE <<n, @[2]>>]
       /\ lists' = [lists EXCEPT
                !.services = IF @ # None /\ lists.own THEN (@ \ {old}) \cup {n} ELSE @,
                !.protocols = IF @ = None THEN None ELSE Moved(@, old, n)]
       /\ renamed' = (renamed \cup {old}) \ {n}
       /\ UNCHANGED <<open, saved, ni, quiet, replaced>>

-----------------------------------------------------------------------------
(* Protocols.                                                              *)

SelectProtocol(p) ==
    /\ Looks /\ FoundProtocol(p)
    /\ sel' = [sel EXCEPT !.protocol = p]
    /\ lists' = [lists EXCEPT !.protocols = ProtocolList]

CreateProtocol(p) ==
    /\ Edits /\ Runs /\ sel.service # None
    /\ p \in Supported(sel.service) \ conf.protocols
    /\ conf' = [conf EXCEPT !.protocols = @ \cup {p}]
    /\ Marks
    /\ sel' = [sel EXCEPT !.protocol = p]
    /\ lists' = [lists EXCEPT !.protocols = None]

\* the type is that of the protocol found, the service the selected one
RemoveProtocol(p) ==
    /\ Edits /\ Runs /\ NamedProtocol(p)
    /\ <<sel.service, p[2]>> \in conf.protocols
    /\ conf' = [conf EXCEPT !.protocols = @ \ {<<sel.service, p[2]>>}]
    /\ Marks
    /\ sel' = [sel EXCEPT !.protocol = IF @ = p THEN None ELSE @]
    /\ lists' = [lists EXCEPT !.protocols = None]

\* enable, disable and set protocol.  A protocol that went with its service
\* stays listed over select set; what is set of it is written back.
SetProtocol(p) ==
    /\ Edits /\ Runs /\ NamedProtocol(p)
    /\ \/ p \in conf.protocols /\ conf' = [conf EXCEPT !.other = ~@]
       \/ p \notin conf.protocols
          /\ conf' \in {conf, [conf EXCEPT !.protocols = @ \cup {p}]}
    /\ Marks
    /\ lists' = [lists EXCEPT !.protocols = IF p = sel.protocol THEN @ ELSE ProtocolList]
    /\ UNCHANGED sel

-----------------------------------------------------------------------------
(* Interfaces.                                                             *)

\* select interface, create interface
SelectInterface ==
    /\ Looks /\ ~sel.interface
    /\ sel' = [sel EXCEPT !.interface = TRUE]
    /\ UNCHANGED lists

\* An interface that belongs to no service is refused.
SetInterface ==
    /\ Edits /\ Runs /\ sel.interface
    /\ conf' = [conf EXCEPT !.other = ~@]
    /\ Marks
    /\ UNCHANGED <<sel, lists>>

\* set sets, set services, ...: the handler of a plural is NULL
SetPlural ==
    /\ Command /\ process' = "set"
    /\ UNCHANGED <<prefs, sel, lists, quiet, replaced, renamed>>

-----------------------------------------------------------------------------
(* The whole configuration.  What clean and upgrade do to it is the        *)
(* framework's; neither drops a list or a selection.                       *)

\* both files may be rewritten in memory; an update of either is reported
Rewritten(nis) ==
    /\ conf' \in {conf} \cup Files
    /\ ni' \in nis
    /\ changed' = (changed \/ conf' # conf \/ (ni' # ni /\ ni' = "dirty"))
    /\ replaced' = (replaced \/ conf' # conf)

Clean ==
    /\ Command /\ open /\ Runs
    /\ Rewritten({"clean", "dirty"})
    /\ ni = "dirty" => ni' = "dirty"
    /\ UNCHANGED <<open, saved, sel, lists, quiet, renamed>>

\* preferences.plist, NetworkInterfaces.plist (which is saved), or both
Upgrade ==
    /\ Command /\ open /\ Runs
    /\ \/ Rewritten({ni})
       \/ ni' = "clean" /\ UNCHANGED <<conf, changed, replaced>>
       \/ Rewritten({"clean", "dirty"}) /\ (ni = "dirty" => ni' = "dirty")
    /\ UNCHANGED <<open, saved, sel, lists, quiet, renamed>>

\* The framework's default configuration adds a service to the set, or finds
\* nothing to do; only then does update report a change.
Establish(c, t) ==
    \/ \E v \in NewIds(c) :
         conf' = WithService(c, t, v) /\ Marks /\ quiet' = quiet
    \/ conf' = c /\ changed' = changed /\ quiet' = (quiet \/ c # conf)

Update ==
    /\ Command /\ open /\ Runs
    /\ LET t == IF sel.set # None THEN sel.set ELSE conf.current
       IN \/ t \in conf.sets /\ Establish(conf, t) /\ UNCHANGED <<sel, lists>>
          \/ /\ t = None
             /\ \E n \in SetIds \ conf.sets :
                  /\ Establish([conf EXCEPT !.sets = @ \cup {n}, !.current = n], n)
                  /\ sel' = [sel EXCEPT !.set = n]
                  /\ lists' = [lists EXCEPT !.sets = None]
    /\ UNCHANGED <<open, saved, ni, replaced, renamed>>

-----------------------------------------------------------------------------
(* The preferences.                                                        *)

\* The file of the companion is not written.
Commit ==
    /\ Command /\ open /\ Runs
    /\ saved' = conf /\ changed' = FALSE /\ quiet' = FALSE
    /\ UNCHANGED <<open, conf, ni, sel, lists, replaced, renamed>>

\* Uncommitted changes are dropped only on "!", or if nobody is at the terminal.
MayClose(forced) == changed => forced

Closed ==
    /\ ni' = "closed" /\ changed' = FALSE
    /\ quiet' = FALSE /\ replaced' = FALSE /\ renamed' = {}

Close(forced) ==
    /\ Command /\ MayClose(forced)
    /\ open' = FALSE /\ conf' = saved /\ Closed
    /\ sel' = Nothing /\ lists' = NoLists
    /\ process' \in {process, "ended"}    \* close, quit
    /\ UNCHANGED saved

\* The old preferences are closed, then opening may fail.
Open(forced) ==
    /\ Command /\ Runs
    /\ open => MayClose(forced)
    /\ open' \in BOOLEAN /\ conf' = saved /\ Closed
    /\ sel' = [(IF open THEN Nothing ELSE sel) EXCEPT
                  !.set = IF open' THEN conf'.current ELSE None]
    /\ lists' = IF open THEN NoLists ELSE lists
    /\ UNCHANGED saved

Next ==
    \/ ShowSets \/ ShowServices \/ ShowProtocols
    \/ \E t \in SetIds : SelectSet(t) \/ CreateSet(t) \/ RemoveSet(t) \/ RenameSet(t)
    \/ SetSet
    \/ \E v \in ServiceIds :
         \/ SelectService(v) \/ CreateService(v) \/ RemoveService(v)
         \/ EnableService(v) \/ RenameService(v)
    \/ SetService
    \/ \E p \in ServiceIds \X Protocols :
         SelectProtocol(p) \/ CreateProtocol(p) \/ RemoveProtocol(p) \/ SetProtocol(p)
    \/ SelectInterface \/ SetInterface \/ SetPlural
    \/ Clean \/ Upgrade \/ Update \/ Commit
    \/ \E forced \in BOOLEAN : Close(forced) \/ Open(forced)

Spec == Init /\ [][Next]_vars

-----------------------------------------------------------------------------
(* Properties.                                                             *)

\* The preferences, the selection and the lists hold what their types say.
TypeOK ==
    /\ conf \in Configurations /\ saved \in Configurations
    /\ ni \in {"closed", "clean", "dirty"}
    /\ open \in BOOLEAN /\ changed \in BOOLEAN
    /\ quiet \in BOOLEAN /\ replaced \in BOOLEAN /\ renamed \subseteq ServiceIds
    /\ sel \in [set : SetIds \cup {None}, service : ServiceIds \cup {None},
                protocol : (ServiceIds \X Protocols) \cup {None},
                interface : BOOLEAN]
    /\ lists \in [sets : (SUBSET SetIds) \cup {None},
                  services : (SUBSET ServiceIds) \cup {None},
                  protocols : (SUBSET (ServiceIds \X Protocols)) \cup {None},
                  own : BOOLEAN]
    /\ process \in {"running", "ended", "remove set", "set service order", "set"}
    /\ commands \in 0..MaxCommands

\* Whatever differs from the file is marked as changed, so that close, quit and
\* open ask before they drop it (_prefs_commitRequired), and every command of
\* the editor has to do so: only an update that makes a set and finds nothing
\* to put into it does not (net.c:1071-1099).
EditsMarked == open /\ conf # saved => changed \/ quiet

\* While a service is selected, the protocols listed and the one selected are
\* its own: remove_protocol takes the type from the one and the service from
\* the other (net_protocol.c:336).
ProtocolOfService ==
    sel.service # None =>
        /\ sel.protocol # None => sel.protocol[1] = sel.service
        /\ lists.protocols # None => lists.protocols \subseteq Supported(sel.service)

\* The service selected, and each one that can be selected from the list of an
\* earlier lookup, has not been removed: the lists and the selection do not
\* outlive remove_service, whichever set it was listed for.  The one exception
\* is "set id" (net_service.c:739), which keeps a list whose entry may still
\* have the identifier that the service gave up.
ServiceExists ==
    ~replaced =>
        /\ sel.service # None => sel.service \in conf.services \cup renamed
        /\ lists.services # None => lists.services \subseteq conf.services \cup renamed

\* What clean and upgrade tell the user to "commit" is saved by commit: a change
\* of the companion preferences stays marked until then (net.c:1038, 1177).
CommitSaves == open /\ ni = "dirty" => changed
=============================================================================
