------------------------------ MODULE DnsInfo ------------------------------
(***************************************************************************)
(* configd_dnsinfo: the daemon that copies the system's DNS configuration  *)
(* to resolv.conf.  It writes the file once when it starts, registers for  *)
(* change notifications, and then writes it again at every notification.   *)
(* The file is removed, its successor is written under another name and    *)
(* renamed: each is a step, may fail (no result is looked at) and may be   *)
(* the last one before the daemon dies; launchd keeps it alive.            *)
(***************************************************************************)
EXTENDS Integers, Sequences

CONSTANTS
    Resolvers,   \* the scoped resolvers that occur
    Configs,     \* the DNS configurations that occur: sequences of resolvers
    NoConfig,    \* dns_configuration_copy() returned NULL
    None,        \* a resolver's field that is absent
    Missing,     \* no such file
    Partial,     \* a file that holds only the beginning of its content
    MaxEvents    \* bound on changes, faults and crashes

\* classes of an IPv4 address, and the natural netmasks that go with them
Classes == {"A", "B", "C", "D", "E"}

ASSUME DnsAssumption ==
    /\ Configs \subseteq Seq(Resolvers) \cup {NoConfig}
    /\ NoConfig \notin Seq(Resolvers)
    /\ None \notin Classes
    /\ \A r \in Resolvers : r.sort # None =>
          r.sort.class \in Classes /\ r.sort.mask \in Classes
    /\ MaxEvents \in Nat

VARIABLES
    dns,         \* the DNS configuration of the system
    pending,     \* a notification is on its way to the daemon
    registered,  \* notify_register_dispatch() was done
    pc,          \* where the daemon is
    conf,        \* the copy that it is writing or wrote last
    idx,         \* index of the resolver that is written
    domain,      \* the local variable Domain
    tmp,         \* the file resolv.conf-
    file,        \* the file resolv.conf
    missed,      \* history: a change came after the copy, before registering
    failed,      \* history: a call failed since the last copy
    events       \* number of bounded events so far

vars == <<dns, pending, registered, pc, conf, idx, domain, tmp, file, missed,
          failed, events>>

Labels == {"start", "write", "open", "fill", "rename", "register", "wait", "down"}

-----------------------------------------------------------------------------
(* What is written for a resolver.                                         *)

\* A sortlist entry is written without its mask if that is the natural one of
\* the address.  For class E the natural mask is never assigned (m is
\* uninitialized), so that the comparison may go either way.
SortText(s, natural) ==
    [class |-> s.class, mask |-> IF s.mask = natural THEN None ELSE s.mask]

SortTexts(s) ==
    IF s = None THEN {None}
    ELSE {SortText(s, m) : m \in IF s.class = "E" THEN Classes ELSE {s.class}}

\* set_dns(): "search" takes the place of "domain".
Contents(r, d) ==
    {[search  |-> r.search,
      domain  |-> IF r.search = None THEN d ELSE None,
      servers |-> r.servers,
      sort    |-> s] : s \in SortTexts(r.sort)}

Domains == {r.domain : r \in Resolvers} \cup {None}

\* A file with something in it is there.
ASSUME FilesAssumption ==
    \A r \in Resolvers, d \in Domains : Missing \notin Contents(r, d)

\* Mutant of Carried: the first domain is kept.
CarriedFirst(d, r) == IF d = None THEN r.domain ELSE d

\* Domain is assigned when a resolver has one and is kept otherwise.
Carried(d, r) == IF r.domain = None THEN d ELSE r.domain

-----------------------------------------------------------------------------
Event   == events < MaxEvents /\ events' = events + 1
Fault   == Event /\ failed' = TRUE
NoFault == UNCHANGED <<failed, events>>

\* A system that boots: nothing is published, any DNS configuration.
Init ==
    /\ dns \in Configs
    /\ pending = FALSE /\ registered = FALSE
    /\ pc = "start" /\ conf = NoConfig /\ idx = 1 /\ domain = None
    /\ tmp = Missing /\ file = Missing
    /\ missed = FALSE /\ failed = FALSE /\ events = 0

\* Mutant of Copy: the handler uses the configuration that main() copied.
CopyCaptured ==
    /\ \/ pc = "start" /\ UNCHANGED pending /\ conf' = dns
       \/ pc = "wait" /\ pending /\ pending' = FALSE /\ conf' = conf
    /\ pc' = "write" /\ idx' = 1 /\ domain' = None
    /\ failed' = FALSE
    /\ UNCHANGED <<dns, registered, tmp, file, missed, events>>

\* dns_configuration_copy() in main() and in the notification's handler, and
\* the first lines of write_dns().
Copy ==
    /\ \/ pc = "start" /\ UNCHANGED pending
       \/ pc = "wait" /\ pending /\ pending' = FALSE
    /\ conf' = dns
    /\ pc' = "write" /\ idx' = 1 /\ domain' = None
    /\ failed' = FALSE
    /\ UNCHANGED <<dns, registered, tmp, file, missed, events>>

Resolver == conf[idx]

\* Mutant of Write: what arrived during a write is thrown away at its end.
WriteDrains ==
    /\ pc = "write"
    /\ \/ /\ conf = NoConfig \/ (conf # NoConfig /\ idx > Len(conf))
          /\ pc' = IF registered THEN "wait" ELSE "register"
          /\ pending' = FALSE
          /\ UNCHANGED <<domain, file>>
       \/ /\ conf # NoConfig /\ idx <= Len(conf)
          /\ domain' = Carried(domain, Resolver)
          /\ file' = Missing
          /\ pc' = "open"
          /\ UNCHANGED pending
    /\ UNCHANGED <<dns, registered, conf, idx, tmp, missed, failed, events>>

\* The end of write_dns(), or its next resolver: empty_dns() removes the file.
Write ==
    /\ pc = "write"
    /\ \/ /\ conf = NoConfig \/ (conf # NoConfig /\ idx > Len(conf))
          /\ pc' = IF registered THEN "wait" ELSE "register"
          /\ UNCHANGED <<domain, file>>
       \/ /\ conf # NoConfig /\ idx <= Len(conf)
          /\ domain' = Carried(domain, Resolver)
          /\ file' = Missing
          /\ pc' = "open"
    /\ UNCHANGED <<dns, pending, registered, conf, idx, tmp, missed, failed, events>>

\* set_dns() opens the other file; if it cannot it does nothing.
Open ==
    /\ pc = "open"
    /\ \/ /\ tmp' = Partial /\ pc' = "fill"
          /\ UNCHANGED idx /\ NoFault
       \/ /\ Fault
          /\ pc' = "write" /\ idx' = idx + 1
          /\ UNCHANGED tmp
    /\ UNCHANGED <<dns, pending, registered, conf, domain, file, missed>>

\* Everything is printed and the file closed; a full disk is not noticed.
Fill ==
    /\ pc = "fill"
    /\ pc' = "rename"
    /\ \/ tmp' \in Contents(Resolver, domain) /\ NoFault
       \/ Fault /\ UNCHANGED tmp
    /\ UNCHANGED <<dns, pending, registered, conf, idx, domain, file, missed>>

\* Mutant of Rename: the names are swapped.
RenameSwapped ==
    /\ pc = "rename"
    /\ UNCHANGED <<file, tmp>> /\ NoFault
    /\ pc' = "write" /\ idx' = idx + 1
    /\ UNCHANGED <<dns, pending, registered, conf, domain, missed>>

Rename ==
    /\ pc = "rename"
    /\ \/ file' = tmp /\ tmp' = Missing /\ NoFault
       \/ Fault /\ UNCHANGED <<file, tmp>>
    /\ pc' = "write" /\ idx' = idx + 1
    /\ UNCHANGED <<dns, pending, registered, conf, domain, missed>>

\* notify_register_dispatch(); exit(1) if that fails.
Register ==
    /\ pc = "register"
    /\ \/ registered' = TRUE /\ pc' = "wait" /\ NoFault
       \/ Fault /\ pc' = "down" /\ UNCHANGED registered
    /\ UNCHANGED <<dns, pending, conf, idx, domain, tmp, file, missed>>

Daemon == Copy \/ Write \/ Open \/ Fill \/ Rename \/ Register

\* The system's DNS configuration changes; notifications are coalesced.
Change ==
    /\ Event
    /\ dns' \in Configs \ {dns}
    /\ pending' = registered
    /\ missed' = (missed \/ (~registered /\ pc \notin {"start", "down"}))
    /\ UNCHANGED <<registered, pc, conf, idx, domain, tmp, file, failed>>

\* The daemon is killed (or aborts, out of memory).
Crash ==
    /\ pc # "down" /\ Event
    /\ pc' = "down" /\ registered' = FALSE /\ pending' = FALSE
    /\ failed' = TRUE
    /\ UNCHANGED <<dns, conf, idx, domain, tmp, file, missed>>

\* launchd's KeepAlive
Restart ==
    /\ pc = "down"
    /\ pc' = "start" /\ missed' = FALSE
    /\ UNCHANGED <<dns, pending, registered, conf, idx, domain, tmp, file,
                   failed, events>>

Next == Daemon \/ Change \/ Crash \/ Restart

Spec == Init /\ [][Next]_vars

\* The daemon runs on, its run loop delivers notifications, launchd restarts it.
FairSpec == Spec /\ WF_vars(Daemon) /\ WF_vars(Restart)

-----------------------------------------------------------------------------
Files == {Missing, Partial} \cup UNION {Contents(r, d) : r \in Resolvers, d \in Domains}

TypeOK ==
    /\ dns \in Configs /\ conf \in Configs \cup {NoConfig}
    /\ pending \in BOOLEAN /\ registered \in BOOLEAN
    /\ pc \in Labels /\ idx \in Nat \ {0}
    /\ tmp \in Files /\ file \in Files
    /\ missed \in BOOLEAN /\ failed \in BOOLEAN
    /\ events \in 0..MaxEvents

\* What the file is to say for a configuration: its last resolver, with the
\* last domain that any of its resolvers has.
LastDomain(c) ==
    LET named == {i \in 1..Len(c) : c[i].domain # None}
    IN  IF named = {} THEN None
        ELSE c[CHOOSE i \in named : \A j \in named : j <= i].domain

HasResolvers(c) == c # NoConfig /\ c # <<>>

Expected(c) == Contents(c[Len(c)], LastDomain(c))

\* A daemon that waits and has nothing pending has seen the last change, unless
\* that came between the first copy and the registration.
NothingLost == pc = "wait" /\ ~pending /\ ~missed => conf = dns

\* When a write is over and no call failed, the file is that of the
\* configuration: whatever an earlier write or a crash left behind is replaced.
\* (With or without the mask of a class E entry: both are Expected.)
Published == pc = "wait" /\ ~failed /\ HasResolvers(conf) => file \in Expected(conf)

\* A daemon whose write succeeded leaves no window without a file behind it: the
\* file is missing only during a write, after a failure, or with nothing to say.
NoGap ==
    file = Missing =>
       \/ failed
       \/ pc \in {"start", "open", "fill", "rename"}
       \/ pc = "write" /\ idx = 1
       \/ ~HasResolvers(conf)

\* A change that the daemon is told of reaches the file, unless a failure, a
\* crash or another change comes first.
Follows ==
    \A c \in Configs : HasResolvers(c) =>
       ((dns = c /\ pending) ~> (file \in Expected(c) \/ dns # c \/ failed))

=============================================================================
