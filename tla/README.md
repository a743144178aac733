# A verification development for configd_extra

configd_extra builds the parts of Apple's `configd` project that a Darwin system without it lacks:
`scutil`, `scselect`, the private half of `SystemConfiguration.framework`, a piece of
`libsystem_configuration` and the daemon `configd_dnsinfo`. The framework's public half, `configd`
itself, the kernel and CoreFoundation are outside the repository; they are modelled from how the code
in `src/` uses them, and marked external in `PROJECT.json`.

This directory holds TLA+ modules translated from the source, the TLC configurations that check them,
and theorems that TLAPS proves. Every definition that models code is listed with its lines in the
`map` of `PROJECT.json`.

## 1. Inventory

| Component | Source | State | Operations | What is hard | What makes it correct |
|---|---|---|---|---|---|
| bond reconfiguration | `SystemConfiguration/BondConfiguration.c` | the stored bonds, two snapshots, one socket, the result | copy configured and active bonds, remove, create, re-order and add by ioctl | every ioctl may fail, the kernel changes meanwhile, the process may die between two of them | the result is true only if the kernel agrees; an update without a fault succeeds; repeating it repairs |
| bond editing | the same file | the stored bonds, the objects that clients hold of them | copy, create, remove, set members, options, mode and name | an object keeps what it read while others change the bond | no interface in two bonds; no change undone through an older object |
| `configd_dnsinfo` | `configd/main.c` | the copied configuration, `resolv.conf`, `resolv.conf-` | write at start, register, write at each notification | order of copy and registration, death between removal and rename, unchecked failures | the file follows the configuration, is never torn by a death, and is missing only during a write |
| `scutil` session and notifications | `scutil/session.c`, `scutil/notifications.c` | `store`, `notifyRl`, `notifyRls`, the watched keys | open, close, n.add, n.remove, n.watch, n.cancel | two threads share globals without a lock | cancel and close end the watcher, changes of watched keys are reported |
| `scutil --net` editor | `scutil/net*.c`, `scutil/prefs.c` | `prefs`, `ni_prefs`, `_prefs_changed`, the selection, three cached lists | create, select, set, enable, disable, remove, show, clean, update, upgrade, commit, open, close, quit | each command keeps some globals and drops others, over long sequences | no edit is lost without a question, no command acts on another or a removed object |
| `scutil --prefs`, `--get`, `--set` | `scutil/prefs.c`, `dictionary.c`, `commands.c`, `scutil.c` | the preferences reference, its changed mark, the lock, the shell's dictionary and input | open, lock, commit, apply, close, synchronize, get, set, remove, list, quit; one change and a save | other programs use the same file and its lock; input may be a terminal, a pipe or a file | nothing dropped without a word, nothing overwritten unread, no lock left behind |
| `scutil` store access | `scutil/cache.c` | one value, the shell's dictionary | list, add, get, set, remove | - | single requests |
| `scutil` one-shot commands | `scutil/tests.c`, `nc.c`, `scutil.c` | none; a registration in `-w` and `--advisory -W` | wait for a key, watch an advisory, queries | the order of looking and registering | the exit status says what was done |
| network interfaces | `SystemConfiguration/SCNetworkInterface.c` | interfaces built from the registry, entities in services, stored interfaces, a cache per thread, unsaved configurations | create from a node, an entity, a name or a stored entity; layer, compare, sort, hash, cache; read and write a configuration at several paths | devices come and go between the making of a service and the search for its interface; a loop over paths fails half-way | a service finds its device again; one order; a cache with one answer; what is read is what was written |
| network services | `SystemConfiguration/SCNetworkService.c`, `SCNetworkConfigurationInternal.c` | stored services, links from sets, protocols, configurations held while no set has the service | create, establish, name, migrate, remove, add to and remove from sets, enable, set protocols | each step may fail and the earlier ones have to be undone; two services share a device | all or nothing; each request changes one thing |
| privileged helper client | `SCHelper_client.c`, `SCPOpen.c` | the cached server port under a lock, a session per preferences | open, exec, close | reading the port without the lock, retries | no use of a port that was given up, retries end |
| control preferences | `Plugins/common/*.c` | two references made on first use | read and set a Boolean, commit, refresh | a copy that is kept while others write | the answer is what the file has; TRUE only if it was saved |
| network state generation | `libsystem_configuration/*.c` | a shared buffer | read a generation | pointer arithmetic only | - |
| helpers, loading, schema, scripts | `SCD*.c`, `SCNetwork.c`, `SCP.c`, `dy_framework.c`, `SCSchemaDefinitions.c`, `get-*-info` | none | keys, constants, `dlsym` | - | - |
| `scselect` | `scselect.tproj/scselect.c` | none | select a set, commit, apply | - | one sequence |

How they interact: `scutil --net` and `scselect` edit preferences through the framework; the stored
bonds they leave there are the input of the bond update, which talks to the kernel. `scutil` and
`configd_dnsinfo` are clients of `configd`, told of changes by notifications (a run loop source, and
notify(3)). No two components of the repository share memory. The kernel and the preferences are shared
with other processes, and the models let others change them where the code can meet it.

The hazards, the places where this code is hard to test, are listed with their lines and the
properties that cover them in `PROJECT.json`. The four without a property say why, and a note says what of a
hazard its properties leave out.

## 2. The modules

### BondUpdate: `_SCBondInterfaceUpdateConfiguration`

| In the model | In `BondConfiguration.c` |
|---|---|
| `prefs`, `config`, `CopyAll` | the stored bonds; `SCBondInterfaceCopyAll` as the update sees it |
| `active`, `CopyActive` | `_SCBondInterfaceCopyActive`: a bond that answers EBUSY is left out, another failure leaves no list |
| `Prune`, `PruneMember`, `Destroy` | the first pass over the active bonds |
| `Apply`, `Change`, `Teardown`, `Add`, `Create`, `NewMode` | the second pass over the configured bonds |
| `OpenSocket`, `Return`, `Forget` | the socket opened at first use, the end of the call |
| `kernel`, `Ioctl`, `CanAdd`, `CanRemove` | the kernel's answer (external) |
| `Crash`, `Plug`, `Unplug`, `Outside`, `Edit` | the process dies; devices come and go; another process; the preferences change between updates |

One ioctl is one step. It succeeds if the kernel can do it, and fails either because the kernel cannot
or as a fault, which counts as a bounded event. `calm` remembers that nobody else touched what the
update had read, and that no unreported request failed; `faulty` that some request failed without a
reason. Both are history variables: no action reads them.

- `FailureReported`: a calm update that returns TRUE leaves the kernel in agreement with the
  preferences, as far as the present devices allow.
- `CleanSucceeds`: without a fault, and with no interface configured twice, it returns TRUE, from any
  kernel and any preferences. This is what the order of the two passes is for.
- `PreferredFirst`: the first configured device is first in the kernel if it can be bonded.
- `StaysBonded`: a bond whose first configured device was in front in the snapshot keeps every member it
  had and shall have, between any two ioctls. The code tears down two bonds more than need be: one whose
  right device has something in front that the first pass removes, and one whose first device cannot be
  bonded (1683). The premise `SameFirst` leaves these out: that is how the code is.
- `Converges` (`BondUpdateLive`): if the stored preferences stay exclusive, some later update always
  finishes with the kernel in agreement. `FairSpec` has weak fairness of the update's steps alone: the
  update is a straight run of ioctls that does not wait for anything. Its caller is outside the
  repository; that it calls again is assumed, and the property says what calling again achieves. Events
  are bounded, so they stop.

Instance: two bonds, three interfaces of which one has no `supportsBond`, the lists `<<>>`, `<<e1>>`,
`<<e0, e1>>`, `<<w0, e0>>`, both modes, two events. Two bonds are what a move of a member needs, three
interfaces and these lists give every relation of two lists the code tells apart (same, other first,
overlapping, disjoint, empty, with a device that cannot join), and two events give a crash or fault
with another one in its recovery. The bonds are symmetric; the liveness run uses no symmetry, two
lists and the two capable interfaces.

### DnsInfo: `configd_dnsinfo`

`Copy` is `dns_configuration_copy()` in `main` and in the handler, `Write` the loop of `write_dns`
with the `unlink` of `empty_dns`, `Open`, `Fill`, `Rename` the three parts of `set_dns`, `Register` the
registration. `Crash` and `Restart` are the death of the daemon and launchd's `KeepAlive`. A resolver is a
record of four fields; a sortlist entry keeps the class of its address and of its mask, since the code
leaves out a natural mask. For class E the code compares with a variable it never assigned, and the
model takes any outcome; `Published` holds with either, and no property says which is meant.

- `Published`: when a write ended without a failed call, the file is that of the configuration.
- `NoGap`: the file is missing only in a write, after a failure (a death counts as one), or with nothing to say.
  That the gap is closed again is in `Published` and `Follows`.
- `NothingLost`, `Follows`: a change of which the daemon is told is written in the end; a change that
  comes before the registration is not, which is how the code is (section 4).

`FairSpec` has weak fairness of the daemon's steps, as nothing in them blocks but the main queue,
which delivers pending notifications, and of `Restart`, because of `KeepAlive` in the daemon's plist.
Instance: seven configurations made of three resolvers (with a domain, with a search list, with
neither), and three events: a change, a failure in its write and a crash in the recovery can meet. The
daemon may wait forever, so deadlock is not checked.

### ScutilWatch: session and watcher threads

The command thread's `n.cancel` and `close` are split where they read and use `notifyRl`; the
watcher thread (`_watcher`) is split at each access of a global. `src` and `loop` say which session a
run loop source belongs to and which run loop has it. With `doDispatch` (`scutil -D`) the watcher asks for
the main dispatch queue instead (`Queue`, `DropQueue`, `QueueRefused`): `queued` has the sessions that
report to it, `notifyRls` is `kCFNull`, and the run loop, which has no source, returns at once.
`refused` remembers that `configd` refused the last list of keys. `Settled` chooses who issues the commands: a user
(TRUE), for whom the threads are done with what they do, or a file (FALSE), where they are not. Even
for a user a watcher can end in the middle of `n.cancel`, because invalidating the source makes
`CFRunLoopRun` return.

- `GlobalsRight`: between two commands the globals describe the one watcher there is, or none. With -D there
  is none by then, and a current session that has the queue is still known by `notifyRls`, so that `n.cancel`
  and `close` take it off.
- `ListReported`: a watcher of the current session reports changes of just the keys that `n.list` shows. It
  is open that has to clear the lists, since a new session watches nothing. After a refused request the list is
  wrong until the next one, which is how the code is (`notifications.c:176, 200`).
- `Cancels`, `Closes`: cancel and close end the watcher, also one that serves a session that open replaced.
- `Watches`: a watcher with a session and no failure gets to report; with -D none does (294, 309): the thread
  ends, and the command loop never drains the main queue.

  With `Settled` FALSE, `Cancels` does not hold: section 4.

`FairSpec` has weak fairness of each thread and of a command that has begun: the operating system
schedules both; nobody has to type a command. Instance: three threads, three sessions, a key and a
pattern, with and without -D, seven commands and one failure: open, add, watch, cancel or close, watch and cancel again
fit. Between the comparison in `n.cancel` or `close` and `CFRunLoopStop` the watcher, whose source was just
invalidated, may clear `notifyRl`: the model lets that happen, and stops (`crashed`).

### NetEdit: `scutil --net`

`sel` is the selection (`net_set`, `net_service`, `net_protocol`, `net_interface`), `lists` the three
arrays that the last lookup or `show` left, `conf` and `saved` the configuration in memory and in the
file, `ni` the companion preferences, `changed` is `_prefs_changed`. One command is one step, since the
editor has one thread. Which globals a command keeps and which it drops is kept exactly; names,
orders, ranks, enabled flags and the contents of protocols and interfaces are the one bit `other`,
which is enough to tell whether something differs from the file. A request that the framework refuses
leaves only the list that the lookup made, which is a `show` of that list. What `clean` and `upgrade`
make of a configuration is the framework's: any configuration of `Files`.
`set id` of a set and of a service moves it to another identifier (`RenameSet`, `RenameService`); `lists.own`
tells whether the selected service is an object of the list, which then follows. A protocol of a service
that is gone can still be listed; disabling or enabling it writes its path again (`SetProtocol`). `process` becomes the
command's name when the code uses NULL: `remove set` and `set service order` without a selected set,
and `set` with a plural, whose handler is NULL (`net.c:970-989`).

- `EditsMarked`: whatever differs from the file is marked, so that close, quit and open ask. The one
  exception in the code, an `update` that makes a set and finds nothing to put into it, is `quiet`.
- `ProtocolOfService`: while a service is selected, the protocols listed and selected are its own:
  `remove_protocol` takes the type from the one and the service from the other.
- `ServiceExists`: no removed service is selected or can be selected from an old list, until `clean`
  or `upgrade` replace the configuration (`replaced`), which keep the lists. An identifier that
  `set service id` replaced (`renamed`) may still be listed and selected: other objects of the
  service in a list keep it (`net_service.c:727-746`).
- `NetCommit` is a finding, see section 4.

Instance: two sets, two services, one protocol, four files, six commands: a selection, a list, a
change of selection, a removal and two more uses of what is stale fit in six; the theorems below
cover every number. Sets and services are symmetric. The violation run needs four commands. The user
may stop typing, so deadlock is not checked.

### HelperClient: preferences through SCHelper

All threads share `_helper_server` (`helperServer`); each uses one preferences object, whose `helper_port` is
its `session`. `_SCHelperOpen()` is split at each access to what is shared: the read without the lock
(`ReadServer`), `helperinit` (`HelperInit`), and within the lock the drop of the port that did not answer
(`CheckServer`) and the lookup of another one (`LookupServer`). Every request within a session is a step. `refs`
counts the task's send rights to each port. A port name is taken to be new each time, since Mach does not
hand a name out again soon. launchd (`Reregister`), the helper (`HelperExits`, `Fault`) and other writers of
the files (`EditFile`) are external and bounded. `excused` has the objects whose access met a lost session
or a refusal. Keys and values, signatures and the notification sessions are left out; the exported
`SCPreferencesSynchronize()` is outside the repository and drops the contents.

- `RefsRight`: the task owns one right to the cached port and none to others.
- `FreshKept`: no thread drops a port that still leads to the helper.
- `NoHalfOpen`: a session is left half-way only by a refused `PREFS_OPEN`, which keeps `helper_port`
  (`SCPOpen.c:286`), unlike every other failure.
- `ReadsFile`: a file that is there is not taken for an empty one because of a stale port.
- `Ends`: once the helper stays registered, every operation ends. `FairSpec` has weak fairness of each thread
  within an operation, as the scheduler gives it; no fairness of the lock is needed, since the
  threads contend for it only while the port is being replaced.

Instance: two threads, one with authorization, two registrations, one fault, one change of a file, two
layouts of the preferences directories: both threads can hold the stale port and replace it at the
same time, which takes two threads and two ports. Objects can always be created again, so that
deadlock is checked.

### BondEdit: the editing interface of bonds

A client copies objects of the stored bonds (`CopyAll`), creates bonds and removes them, and sets
members, name, options and mode of a bond through any object it holds. `stored` is what the preferences
have, `objects` what each object read; every setter looks at its object for what is allowed and writes one
entry of what is stored, then of the object. Interfaces come and go (`Plug`), services are enabled over them
(`Enable`), and any call to the preferences may fail. `tidy` is chosen at the start: a tidy client
holds one object of a bond at a time and lets go of those of a bond that it removes. A list that names a member twice is accepted, as the
code does.

- `ExclusiveIfTidy`: no interface is in two stored bonds, in a bridge or under a VLAN, for a tidy client.
  `BondStale` is the finding that it is not so for others.
- `InStep`: whichever call failed, the objects of a tidy client say what is stored.
- `OneValue`: however old its object, a setter changes one value of one bond; and a bond that was removed
  does not come back with its members.
- `NoServiceTaken`: no interface of an enabled service becomes a member of a bond.

Instance: two bonds, three objects, three interfaces of which one is under a VLAN, five lists, seven
steps: two objects of one bond, a change through each, and a second bond that takes the interface between
them need six. Objects are symmetric.

### ServiceStore and NetConfig: network services and the configuration of interfaces

`ServiceStore` is the abstract specification: a service is in the preferences as a whole, a member of a set,
or not at all, and each request changes one thing of one service. `NetConfig` is the code: `entities`, `links`,
`proto`, `config` and `unsaved` are the dictionaries of the preferences and what an object holds, and the
calls of `__SCNetworkServiceCreate` and `__SCNetworkServiceMigrateNew` are single steps of `job`, each of which
may fail and is then rolled back (`GiveUp`), or is ignored, as the code has it. The configuration of shared
hardware is written at one path in every set of the service, in a loop that stops at the first failure;
without a set it is held in the object, until `Join` delivers it between two deep copies.

- `ImplementsStore`: `Spec => Store!Spec`, where `Store == INSTANCE ServiceStore WITH services <- shown`. `shown` is
  what clients saw of the services when the last call returned. While no call is under way it is `View`, the
  four dictionaries read as services; the proof rests on that.
- `HeldIsDelivered`: the configuration held for a service without a set becomes that of the first set it
  joins, unless that set has one already. It is released only when it was written: a delivery in which the
  write of a type failed keeps what is held of that type (`SCNetworkInterface.c:5759-5770`), so that the next set
  the service joins gets it.

A migrated service gets the identifier of the old one (`SetServiceID`; a failure is ignored, `SCNetworkService.c:987`).
`job.s` stands for the identifier that it will have, since no client sees it before; the move of what is stored
from one identifier to the other is the framework's. Which of several paths were written before one failed is in
no property.

Instance: an Ethernet service and one for PPPoE over the same device, two symmetric sets, services
to migrate from any subset of the sets, four requests and two failures: two services that are made and put into
one set, a configuration of each, and a failure while the second is made, with another one ignored before, fit;
and so does a migration into both sets in which the write of one of them fails. Clients may stop, so deadlock
is not checked.

What the translation showed and no property is about: `__SCNetworkServiceCreate` returns TRUE after it has
removed the service when there is no current set; migration clears the configuration of an interface where
the source has none; adding a second new service to a set clears the extended types that are stored there.

### InterfaceNodes, InterfaceLookup, Interfaces

`InterfaceNodes` has how a node of IOKit's registry becomes an interface (`CreateInterface` by kind, type,
name and location), equality and `_SCNetworkInterfaceCompare`. `InterfaceLookup` has the table of types, what may
be layered over what, the entity that a service keeps of its interface, and the search from an entity, a
name or a stored entity: by unique identifier, by device name, among bonds, bridges and VLANs, or a stand-in
built from the entity. `Interfaces` puts a machine around them: devices are attached and detached, virtual
interfaces edited, a service made and removed, its PPP link brought up, interfaces stored and given other
units by the interface namer, and a thread opens its cache, looks and closes it. An interface is the
sequence of its layers; strings are sequences of tokens in the order of `CFStringCompare`. The registry is a
function from numbers to nodes, and a list has the interfaces of the matching entries in the order of these
numbers (`Nth`).

- `FindsAgain`: a service whose device is attached gets that device, by entity and by link name.
- `EntityKept`: whatever is attached, the interface is for the device its entity tells; the stand-in for
  an absent one tells its hardware and hidden configuration too.
- `CacheStable`: while its cache is open, a thread gets one answer to one question.
- `OrderFixed`: the comparison tells any two interfaces of a list apart, one way, and is transitive, but for
  three devices whose paths part in a circle (`Circle`), of which no sort makes one order.
- `RoundTrip`: what the namer stored is restored as equal, and stored again as it was, also with new units.

`Watched` excludes what the code cannot do: PPP over a VLAN or over IrDA, which is offered but whose entity
does not tell the layer below, and a serial port of which two match and none has the identifier.
Instance: eight devices, one per branch that tells interfaces apart (built in, Wi-Fi, a card in a slot,
Thunderbolt, hidden, modems with and without an identifier, whose three paths do part in a circle), a bond, two units, five
steps: make, detach, attach another, look up, look up again.

Much of `SCNetworkInterface.c` is inside `FULL_COMP`, which this build does not define; it is modelled from the
text. What the translation showed besides: the comparison mixes hexadecimal numbers and strings ("9" < "1C" <
"1C,5" < "9"), and line 1092 repeats `n1 < n2`, so that three devices at such places have no order; a search for a service puts the
service into the object that the cache holds (4273, 4565), so that a later answer without one may name it, while
the model tags the one answer (`Owned`); the cache ignores `keepHidden` (4142); two equal
interfaces may hash differently (615, 668); an inner close drops the cache of the outer open (4000), so that
`CacheStable` speaks of one opening; `__SCNetworkInterfaceCreateWithStorageEntity` uses a NULL when a key is
missing (3967); of several devices with one name the first is taken (4372).

### PrefsFile, PrefsShell, PrefsTools: `scutil --prefs` and other users of one file

`PrefsFile` is a file and a session over it, as `SCPreferences` gives it to scutil (external): the copy read at
first use, its signature, the lock that refuses a stale copy. `PrefsShell` has the commands of
`scutil --prefs` for shells at a terminal, on a pipe or in a file read by `f.read`. `PrefsTools` adds
programs that set or get one preference and exit, and a process with a control preference, which keeps its
session; what the managed preferences say of its key (`managed`, read on iOS only) is asked first. `set` with a
second argument puts a link into the place of a dictionary, of which only that it leads somewhere is known:
what is read through it is any dictionary (`Values`). `ComputerName` and `LocalHostName` are read from the dynamic
store, so that `get` stands for `HostName` and for a key of a named file. A call that has to wait for the lock is `blocked` and goes on in `Wake`.

- `NothingDropped`: changes go to the file or the user is told that they are abandoned; only `synchronize`
  and the end of the input drop them silently.
- `LeftBehind`: only `open !` at a terminal with changes leaves a lock without a session.
- `NothingOverwritten`: a file changes only by a commit (`Commits`) of a session with changes, and that very session's
  copy was made from the content that is replaced, also when it has committed before.
- `AnswersTrue`: exit status 0, the answer of a control preference that is not managed and the result of setting it say what
  the file has.

Instance: two shells, a program each that sets, disables and gets, a client, two files of which one is named `!`, two keys of which
one may be a dictionary, six steps: two programs that read, one that writes, and the other that tries to,
fit. Waiting for a lock may be for ever (`LeftBehind`), so deadlock is not checked.

Not properties but seen: `open !` keeps the lock and the edits of the old session out of reach;
`close !` without preferences and `synchronize` leave the changed mark; the end of the input at a terminal drops
changes in silence; `get` of a path that is not there keeps the older dictionary; the nesting of `f.read` is
never counted down.

## 3. The runs

| Run | Expect | What it shows |
|---|---|---|
| `BondUpdate` | pass | every update of two bonds is truthful, succeeds without faults, and leaves together what is in order |
| `BondUpdateLive` | pass | repeated updates bring the kernel to the preferences |
| `DnsInfo` | pass | the file follows the configuration through failures, crashes and restarts |
| `ScutilWatch` | pass | a user's commands, with and without -D, against the watcher threads |
| `NetEdit` | pass | any six commands of the editor |
| `NetCommit` | violation | a change that commit drops |
| `HelperClient` | pass | two threads with the helper's port, which is registered, replaced or gone |
| `NetConfig` | pass | services are made whole or not at all; NetConfig implements ServiceStore |
| `Interfaces` | pass | services and the namer find their interfaces again among devices that come and go; what has an order |
| `BondEdit` | pass | a tidy client's bonds share nothing; no setter undoes another's |
| `BondStale` | violation | an older object puts an interface into two bonds |
| `PrefsTools` | pass | shells and programs over one file and its lock |

Each property of a passing run has a mutant in `PROJECT.json`: a changed definition of the code with
which TLC finds the property violated. The type invariants of the modules that have proofs are
theorems there.

## 4. Findings

1. `NetCommit`: `commit` saves `preferences.plist` only and clears the mark, so that a change that
   `clean` or `upgrade` made to `NetworkInterfaces.plist` is dropped without a question (`net.c:590`).
2. `BondStale`: the members that an object lists are allowed as "current members" (`BondConfiguration.c:742`),
   even if they have gone to another bond since: an interface ends in two stored bonds, which
   the bond update then cannot apply.

Other places where the code does less than one would expect, which the models follow and
from which the properties are limited in so many words:

- the first member is compared with the snapshot's list, which still holds what the first pass has
  removed: a bond whose first device is right is torn down (`BondConfiguration.c:1683`);
- a change between the first copy (`configd/main.c:254`) and the registration (260) is not written until
  another one comes;
- with -D, `n.watch` reports nothing and leaves the session with a queue that nobody drains (`notifications.c:294`);
- three devices at places like "9", "1C" and "1C,5" compare in a circle (`SCNetworkInterface.c:1066-1081`);
- `n.watch` and `n.cancel` from a file: the cancel finds neither source nor run loop, and the watcher
  goes on (`notifications.c:425`);
- `remove set` with a name and no set selected compares with NULL (`net_set.c:308`), and so does
  `set service order` (`net_service.c:610`);
- when the helper cannot be reached, `__SCPreferencesAccess()` takes a protected file for a new one
  (`SCPOpen.c:523`, 596).

## 5. What is proved

**ScutilProofs**, about two modes of scutil. About NetEdit, from `EditAssumption` (a NULL reference is
no identifier; the bound is a number) and `FilesAssumption` (a file is a configuration whose sets refer to
services that are there), for every set of identifiers, protocols and files and every bound:

- `EditTypes`, `EditsAlwaysMarked`, `ProtocolAlwaysOfService`, `ServiceAlwaysExists`:
  `Spec => []TypeOK`, `[]EditsMarked`, `[]ProtocolOfService`, `[]ServiceExists`.

The inductive invariant is `Inv == TypeOK /\ Linked /\ Emptied /\ EditsMarked /\ ProtocolOfService /\
ServiceExists`. `EditsMarked` and `ProtocolOfService` are inductive given the types. `ServiceExists` is not:
a list of services is filled from a set's members or from the service list, so that members have to
refer to services that are there (`Linked`, for the configuration in memory and for the file that close
and open go back to); and `close` and `open` replace the configuration without `replaced`, so that
nothing may be listed or selected when the preferences are closed (`Emptied`). Each conjunct has its own
step lemma, with one step per action.

About ScutilWatch, from `WatchAssumption` (its bounds are numbers, one session at least), for any number of threads,
sessions, commands and failures:

- `WatchTypes`; `GlobalsDescribe` and `ListIsReported`: `WatchSpec => [](Settled => GlobalsRight)` and the same
  of `ListReported`.

The invariant is that there is one active watcher at most and that globals, source, run loop and the command
thread fit together in a few ways (`Stage`): at no step do the two threads both have a half-done
change of the globals. With -D, `QueueInv` says that the current session has the queue only as long as
`notifyRls` tells; `KeysInv`, which `ListReported` needs, that a session has the listed keys unless the last request was
refused, and that sessions yet to be opened have none.

**BondUpdateProofs**, from `BondAssumption` (what the lists are made of; `NoBond` is no bond), for any
bonds, interfaces, stored lists and events:

- `BondTypes`: `Spec => [](TypeOK /\ KernelOK /\ SnapshotsOK)`: the types, that the kernel never holds an
  interface twice, and which snapshot has the bonds of each pass.
- `UpdateProgress`: `Spec => []UpdateInv`; `ResultIsTrue`: `Spec => []FailureReported`;
  `CleanUpdateSucceeds`: `Spec => []CleanSucceeds`.

`FailureReported` and `CleanSucceeds` speak of the last state of an update, after two loops over bonds with
loops over members inside. They are inductive only together with `Progress`, which says what every bond
of the kernel is at every position: as in the snapshot `active` if it is still to be pruned, without its
stale members between the passes (`Pruned`), a known part of the old or the new list inside a loop, and
as configured once applied (`InSyncBond`). `Progress` is lost with the first failure or interference, so that
it is claimed while `calm /\ ok` only; and an update starts from a fresh snapshot, so that `ok` has to hold
between updates. Hence `Inv2 == Inv1 /\ (calm /\ ok => Progress /\ Firsts) /\ Clean /\ (pc = "idle" => ok)`, where `Inv1`
is the types, `KernelOK` and `SnapshotsOK`, and `Clean` is the promise that only a fault makes `ok` false.

- `FirstStaysFirst`: `Spec => []PreferredFirst`; `NoNeedlessTeardown`: `Spec => []StaysBonded`.

`PreferredFirst` does not follow from `Progress`, which speaks of sets of members, while the update decides by the
first devices of two snapshots whether to re-order. `Firsts` is the argument why it may: the first pass takes out only
what is not configured, so that the snapshot's first device, if it is configured, is still in front when the
bond is changed (`HeadKept`); if it is not the configured one, the bond is emptied and added to from the first
device on; and from then on nothing in front of a bond is taken away (`FirstOK`). `StaysBonded` holds at every step
and after any failure, so it cannot lean on `Progress`: with it goes only that a bond being torn down has
another first device (`Spared`), and that each ioctl of the two passes which takes a member out either takes what is
not configured or is a teardown's (`WantedStep`).

The lemmas come in four layers: what appending to and removing from a member list does to its elements;
that an ioctl the kernel accepts keeps the kernel sound; for each action what it does when it succeeds
(`PruneMemberDone` ...) and what must have been refused when it fails (`PruneMemberFails` ...); that a
success keeps `Progress` (`AddProgress` ...) and that under `Progress` the kernel does not refuse
(`AddAccepted` ...). The last are the argument for the order of the passes: all stale members are out
of every bond before the first one is claimed, so that a member that moves is free when it is added.

**HelperClientProofs**, from `HelperAssumption` (which objects there are; bounds are numbers), for any objects,
files, servers and faults:

- `RightsHeld`, `FreshPortKept`, `SessionsWhole`, `FileIsRead`, `HelperTypes`: `Spec` implies `[]RefsRight`,
  `FreshKept`, `[]NoHalfOpen`, `[]ReadsFile` and `[]TypeOK`.

`IInv` adds to them who is in the critical section (`LockInv`); that no right is held between the drop and the
lookup (`RefsInv`); that a port that a thread gave up, or that was dropped, never leads to the helper again
(`StaleInv`), which is what makes the comparison under the lock enough; which session a thread has where
(`SessionInv`, `OpInv`); and, for `ReadsFile`, that an access that will fail has an excuse and an object has the
file that is there (`ExcuseInv`, `PathInv`).

**DnsInfoProofs**, from `DnsAssumption` and `FilesAssumption` (no resolver's file content is the
mark for a missing file), for any resolvers, classes and configurations:

- `DnsTypes`, `LastChangeSeen`, `FilePublished`, `FileIsThere`: `[]TypeOK`, `[]NothingLost`, `[]Published`,
  `[]NoGap`.

`Published` speaks of the end of a loop over resolvers which carries a domain from one to the next and writes to
one file while the other is still there. `IInv` says how far the loop is (`Progress`), which domain it carries
(`DomainInv`), what the new file has so far (`Written`), what was copied (`Seen`), and that a file that is
down by a failure has `failed` set (`DownFailed`).

**BondEditProofs**, from `BondEditAssumption`, for any bonds, devices, objects and lists:

- `BondEditTypes`, `TidyIsExclusive`, `TidyIsInStep`: `[]TypeOK`, `[]ExclusiveIfTidy`, `[]InStep`;
  `OneValueAtATime`, `ServicesKeepTheirs`: `OneValue` and `NoServiceTaken`.

`ExclusiveIfTidy` is inductive only with `InStep` (what an object lists is allowed unseen) and `OnePerBond`
(no two objects of one bond), which is what the finding `BondStale` does without.

**NetConfigProofs**, from `NetConfigAssumption` and `SourcesAssumption` (what is migrated is a service; `Gone`
is none), for any services, sets, interfaces, templates and sources:

- `WholeOrNotAtAll`: `Spec => ImplementsStore`, the refinement.

`IInv` says that only stored services are linked (`Linked`) and what a call has done (`Works`): between calls
`shown` is `View`; during one it is `View` without the service that is made; the call has added the
service to a set when it says so. Every call's step changes that one service only (`OnlyFor`), so that it is a
stutter of the store until the last one, which is `Add`, or none; each request is the action of its name.

- `NetConfigTypes`: `Spec => []TypeOK`; `HeldGoesToSet`: `Spec => HeldIsDelivered`.

`HeldIsDelivered` compares a delivery with the history `mine`, what the service's owner asked for since nothing is
stored. `HInv` is the types and `Agrees`: what is held for a service and Ethernet is what `mine` says. It is not kept
by an account of the delivery that releases everything held as soon as the service is in a set: that was how the
model had `CopyInterface`, and the proof failed at the copy in which one of the writes is lost. The code removes
from `unsaved` only what it wrote (`SCNetworkInterface.c:5759-5770`); with `Release` of what was saved the
invariant holds, and sources with more sets let TLC see the difference.
The assumptions are that a value is none of the marks `None`, `Hollow` and `Null`, and that a source's
configuration is a content or absent.

**PrefsToolsProofs**, from `PrefsFileAssumption`, `PrefsShellAssumption` and those of `PrefsTools` (which
processes are which; no content is the mark of an unread copy; nobody is no process), for any shells, programs, clients,
files, keys, inputs and number of steps:

- `CopiesStand`: `Spec => []PrefsInv`, the types and the invariant below.
- `NobodyOverwrites`, `ChangesAreToldOf`, `LocksLeftBehind`, `AnswersAreTrue`: `Spec` implies
  `NothingOverwritten`, `NothingDropped`, `LeftBehind` and `AnswersTrue`.

`PrefsInv` says how a session's copy stands to the file (`CopyOK`). Only a copy of the present content has
the present signature; an unmarked copy is what was read; and as long as a session has the lock nobody else
writes, so that its copy is not old. Two processes without the lock may both hold copies that are out of date: what saves
the file is that taking the lock compares signatures. With it come that a shell marks each change that its session
has, since close and quit ask by the mark alone (`Marked`); that a call waits for a lock that it does not have
(`Waiting`); that a program edits what it just read (`OnceOK`); and that a client gives up its copy with each call
(`ClientOK`), which is why a control preference is never answered from an old one. That the managed preferences
do not change during a run of the model is `managed' = managed` (`Fixed`). The proof goes by layers as
the model does: what each operation of a session does to `CopyOK` of its own process and of the others (lemmas
about `PrefsFile`), then the commands of a shell, then the programs and the clients; each lemma about a command
also has what that command promises in its step (`Promised`), so that the action properties
follow without another pass over the actions.

**InterfacesProofs**, from what `NodesAssumption`, `NamesAssumption`, `PathsAssumption` and `VirtualsAssumption`
say of the system around this code (IOKit's texts are strings; BSD names, the names and identifiers of TTY devices
and the paths of the registry tell devices apart; a BSD name is its prefix and unit; a serial port with an IrDA
name is one; bonds, bridges and VLANs have names of their own, and so has the Bluetooth PAN; no device is above
another in the registry, and the places where paths part compare as different) and `VendorsAssumption` (a vendor's type
has a "." in it and is none of the system's), for any devices, bonds, bridges and VLANs, clients and number of
steps. TLC evaluates these assumptions on the instance, which has a device for each branch:

- `OneAnswer`: `Spec => []CacheStable`; `RestoredEqual`: `Spec => []RoundTrip`;
- `FoundAgain`: `Spec => []FindsAgain`; `EntitiesStay`: `Spec => []EntityKept`;
- `OneOrder`: `Spec => []OrderFixed`.

`CacheStable` compares two answers of which the second may be given after devices have gone. `CacheInv` is why
they are equal: every answer that the thread was given while its cache is open can be given again from the
list that the cache has for that name, with no device attached, no bond, and no other list (`Again`); a search adds
lists under new names and never changes one that is there (`KeepsLists`). It holds for names that are no bond's,
bridge's or VLAN's: these are read from the preferences each time, which is why `CacheStable` excludes them.
`RoundTrip` compares a stored entity with an interface of another time, after any number of new units. `StoredInv`
says that the two are one layer of the same type, device and prefix, and that the name is prefix and unit
(`StoredOK`, `LayerOf`). The lemmas follow the code both ways: what `CopyStorageEntity` takes of a node's
interface (`NodeStored`), what the stand-in for an absent device is made of (`StandInFields`), that it is stored
again as the same entity (`StoredAgain`), and what a new unit changes (`RenamedFields`).

`FindsAgain` and `EntityKept` are about a search made long after the entity was written, among other devices.
`GetsInv` has the two facts they rest on. `FoundInv`: the list that a thread has cached for a name holds the one
device of that name, as it was then, or nothing (`NetList`). `ServiceInv`: a service keeps the entity of the
interface it was made for, and that one is of a kind that an entity can tell (`Served`): over IPv4 (`OnIPv4`), or
over a device of the registry, a virtual interface, the Bluetooth PAN or a serial port (`HasDevice`). That the list
of all interfaces has no others is `CopyAllLeaf`, and what may be layered over them `LeafServes` and `IPServes`;
the lists themselves are by `Nth`, which counts the entries that match and so needs no induction (`NthEntry`,
`ListOf`). Then every kind is looked for: an interface over IPv4 is made again as it was (`OnIPv4Answer`), and for
a device the answer is a layer of the device, a layer of another interface under the same name (of the PAN), or the
stand-in, each with the fields that the entity tells (`Suits`), and of the very device when it is attached
(`Exactly`; `NetAnswer`, `VirtualAnswer`, `PANAnswer`, `PortAnswer`). An answer that suits has the same entity
and, when exact, equals the interface (`SuitsIsKept`). Serial ports take most of it, since base names are not unique:
`IsClear` is what makes the choice unique (`SerialFound`).

`OrderFixed` is about any list of interfaces, also one with the Bluetooth PAN that a thread found in its cache, so it
rests on `FoundInv` as well. The comparison is the first of six levels that is not "equal", and so is that of
two texts or of two paths, place by place; `First` takes the least place, which needs no induction (`LeastIs`). One
lemma does for all of them: when three comparisons chain (`Chain`: not after and not after is not after, and equal
only if all are) wherever everything before is equal, then their first results chain (`FirstChain`; `FirstMirrors` for
the comparison the other way round). Texts chain since tokens have places of their own (`TextChain`, with an end that
that is before every token). Of paths `PathsAssumption` asks only that where two part (`Siblings`) their elements
compare as different. Three of them chain unless they part in elements that go round in a circle, as "9", "1C" and
"1C,5" do: that is no assumption but part of what is proved, the exception `Circle` in `OrderFixed`; `Forks` and
`ElementChain` make of it an order of whole paths. The levels do not chain for
any layers: locations are compared only between built-in ones, and paths or names only if both have one. They do
on the list (`CopyAllListed`), as layers of one sort are all devices, all virtual, or the one Bluetooth PAN
(`ThreeOfOneSort`): devices are told apart by their paths, virtual interfaces by their names (`CompareTells`).

Only model-checked: all liveness (`Converges`, `Follows`, `Cancels`, `Closes`, `Watches`, `Ends`), which is
beyond the prover.

## 6. What is left

1. *PrefsSession*: the notification session of a preferences object, its reference count and the run loops
   and queues it is scheduled on (`SCPOpen.c:615-1027`). Its callers are outside the repository.
2. Composition of BondEdit with BondUpdate: BondUpdate takes any stored preferences, exclusive or not, which
   includes all that BondEdit can store.

## 7. What is not modelled

- Formatting and parsing of command lines and values, logging, localised names; the reading of IOKit
  properties; `dlopen` stubs and schema constants; reference counts.
- Commands that make one request and keep nothing: `scutil/nc.c` (requests to the external VPN controller),
  `tests.c` (`-r`, `--dns`, and `-w` and `--advisory`, which wait for one notification), `cache.c`,
  `scselect`, `SCD*.c`, the bond status, media and MTU options. A model of them would restate their lines.
- The kernel's network state (`libsystem_configuration`): pointer arithmetic over a shared buffer.
- In NetEdit: `open` with another file (`open !` takes `!` for its path), so that it has one file; migrate,
  snapshot, apply and the parsing of `set` arguments. In PrefsTools: a link in
  the place of the whole file.
- SetExternalID, primary rank and similar single values of a service.
- The observers of the managed control preferences, which are compiled for iOS only.
