----------------------------- MODULE BondUpdate -----------------------------
(***************************************************************************)
(* _SCBondInterfaceUpdateConfiguration(): bring the bonds of the kernel in *)
(* line with the bonds of the stored preferences.                          *)
(*                                                                         *)
(* The function takes two snapshots, the configured bonds (from the        *)
(* preferences) and the active ones (from the kernel), and then issues     *)
(* ioctls computed from the snapshots alone: a first pass removes what is  *)
(* no longer configured, a second pass creates, re-orders and adds.  Every *)
(* ioctl is a step of its own, may fail, and may find a kernel that has    *)
(* changed since the snapshot.                                             *)
(***************************************************************************)
EXTENDS Integers, Sequences

CONSTANTS
    Bonds,      \* bond interface names: bond0, bond1, ...
    Ifs,        \* names of the interfaces that may be members
    Capable,    \* those whose driver is plain Ethernet: supportsBond if present
    Lists,      \* the member lists that the preferences may hold
    Modes,      \* the values of a bond's mode
    NoBond,     \* no bond of that name
    MaxEvents   \* bound on edits, faults, crashes and outside changes

ASSUME BondAssumption ==
    /\ Capable \subseteq Ifs
    /\ Lists \subseteq Seq(Ifs)
    /\ MaxEvents \in Nat
    /\ NoBond \notin [members : Seq(Ifs), mode : Modes]

VARIABLES
    prefs,      \* stored preferences: the dictionary of each bond, or NoBond
    kernel,     \* the kernel: members (in join order) and mode of each bond
    plugged,    \* the interfaces that are present
    pc,         \* where the updating process is
    config,     \* its snapshot of the configured bonds
    usable,     \* the members that had supportsBond set in that snapshot
    active,     \* its snapshot of the active bonds
    todo,       \* bonds that the current pass has not reached yet
    cur,        \* the bond that it is working on
    idx,        \* the loop index over cur's member list
    gone,       \* a_count was reset: no active member counts any more
    sock,       \* the ioctl socket is open (s != -1)
    ok,         \* the value that will be returned
    calm,       \* history: see below
    faulty,     \* history: some call of this update failed without a reason
    events      \* number of bounded events so far

snapVars == <<config, usable, active>>
loopVars == <<todo, cur, idx, gone>>
vars == <<prefs, kernel, plugged, pc, snapVars, loopVars, sock, ok,
          calm, faulty, events>>

BondDict == [members : Seq(Ifs), mode : Modes]

\* the elements of a list; the members of a bond
Elems(s)   == {s[i] : i \in 1..Len(s)}
Members(d) == IF d = NoBond THEN {} ELSE Elems(d.members)

Labels == {"idle", "copyActive", "prune", "pruneMember", "destroy", "apply",
           "change", "teardown", "add", "create", "newMode", "done"}

-----------------------------------------------------------------------------
(* The kernel's side of the ioctls, modelled from how they are used.       *)

\* the members of a list without interface e, which joined once
Without(s, e) ==
    LET k == CHOOSE i \in 1..Len(s) : s[i] = e
    IN  [i \in 1..(Len(s) - 1) |-> IF i < k THEN s[i] ELSE s[i + 1]]

Owned(e) == \E b \in Bonds : e \in Members(kernel[b])

CanAdd(b, e)    == kernel[b] # NoBond /\ e \in plugged \cap Capable /\ ~Owned(e)
CanRemove(b, e) == e \in Members(kernel[b])

\* the kernel with a bond b that has member list l and mode m
WithBond(b, l, m) == [kernel EXCEPT ![b] = [members |-> l, mode |-> m]]

Added(b, e)   == WithBond(b, Append(kernel[b].members, e), kernel[b].mode)
Removed(b, e) == WithBond(b, Without(kernel[b].members, e), kernel[b].mode)
Moded(b, m)   == WithBond(b, kernel[b].members, m)
Created(b, m) == WithBond(b, <<>>, m)
Destroyed(b)  == [kernel EXCEPT ![b] = NoBond]

\* A fault that no state of the kernel explains (ENOMEM, EINTR, EPERM...).
Fault == events < MaxEvents /\ events' = events + 1 /\ faulty' = TRUE

\* Mutant of Ioctl: a failure never clears ok.
IoctlSilent(accepted, result, reported) ==
    \/ /\ accepted
       /\ kernel' = result
       /\ UNCHANGED <<ok, calm, faulty, events>>
    \/ /\ UNCHANGED <<kernel, ok>>
       /\ calm' = (calm /\ reported)
       /\ IF accepted THEN Fault ELSE UNCHANGED <<faulty, events>>

\* An ioctl that the kernel would accept is done or, with a fault, is not; one
\* that it refuses fails.  "reported" is whether failing clears ok.
Ioctl(accepted, result, reported) ==
    \/ /\ accepted
       /\ kernel' = result
       /\ UNCHANGED <<ok, calm, faulty, events>>
    \/ /\ kernel' = kernel
       /\ ok' = (ok /\ ~reported)
       /\ calm' = (calm /\ reported)
       /\ IF accepted THEN Fault ELSE UNCHANGED <<faulty, events>>

-----------------------------------------------------------------------------
NoBonds == [b \in Bonds |-> NoBond]

\* what the preferences may hold for a bond
Stored == [members : Lists, mode : Modes] \cup {NoBond}

\* Any stored preferences and any set of devices, at boot time.
Init ==
    /\ prefs \in [Bonds -> Stored]
    /\ kernel = NoBonds
    /\ plugged \in SUBSET Ifs
    /\ pc = "idle"
    /\ config = NoBonds /\ usable = {} /\ active = NoBonds
    /\ todo = {} /\ cur \in Bonds /\ idx = 1 /\ gone = FALSE
    /\ sock = FALSE /\ ok = TRUE
    /\ calm = TRUE /\ faulty = FALSE /\ events = 0

\* SCBondInterfaceCopyAll(): the configured bonds.  A member's supportsBond is
\* decided when its interface object is created, that is now.
CopyAll ==
    /\ pc = "idle"
    /\ config' = prefs
    /\ usable' = Capable \cap plugged
    /\ pc' = "copyActive"
    /\ UNCHANGED <<prefs, kernel, plugged, active, loopVars, sock, ok, calm,
                   faulty, events>>

\* _SCBondInterfaceCopyActive(): a bond whose status ioctl reports EBUSY is
\* left out, and any other failure leaves no list at all (nActive is 0).
CopyActive ==
    /\ pc = "copyActive"
    /\ \/ /\ active' = kernel
          /\ UNCHANGED <<calm, events>>
       \/ /\ events < MaxEvents
          /\ events' = events + 1
          /\ calm' = FALSE
          /\ \/ \E b \in Bonds : active' = [kernel EXCEPT ![b] = NoBond]
             \/ active' = [b \in Bonds |-> NoBond]
    /\ todo' = {b \in Bonds : active'[b] # NoBond}
    /\ pc' = "prune"
    /\ UNCHANGED <<prefs, kernel, plugged, config, usable, cur, idx, gone,
                   sock, ok, faulty>>

\* Leave the loop over the active bonds, or take its next bond.
Prune ==
    /\ pc = "prune"
    /\ \/ /\ todo = {}
          /\ todo' = {b \in Bonds : config[b] # NoBond}
          /\ pc' = "apply"
          /\ UNCHANGED <<cur, idx>>
       \/ \E b \in todo :
             /\ cur' = b /\ todo' = todo \ {b} /\ idx' = 1
             /\ pc' = IF config[b] = NoBond THEN "destroy" ELSE "pruneMember"
    /\ UNCHANGED <<prefs, kernel, plugged, snapVars, gone, sock, ok, calm,
                   faulty, events>>

\* Mutant of Configured: no member is ever stale.
ConfiguredAlways(e) == TRUE

Configured(e) == e \in Members(config[cur])

\* "if this device is no longer part of the bond" it is removed
PruneMember ==
    /\ pc = "pruneMember"
    /\ \/ /\ idx > Len(active[cur].members)
          /\ pc' = "prune"
          /\ UNCHANGED <<kernel, idx, ok, calm, faulty, events>>
       \/ /\ idx <= Len(active[cur].members)
          /\ idx' = idx + 1
          /\ pc' = pc
          /\ LET e == active[cur].members[idx] IN
             \/ /\ Configured(e)
                /\ UNCHANGED <<kernel, ok, calm, faulty, events>>
             \/ /\ ~Configured(e) /\ sock
                /\ Ioctl(CanRemove(cur, e), Removed(cur, e), TRUE)
    /\ UNCHANGED <<prefs, plugged, snapVars, todo, cur, gone, sock>>

\* "if this interface is no longer configured" it is destroyed
Destroy ==
    /\ pc = "destroy" /\ sock
    /\ Ioctl(kernel[cur] # NoBond, Destroyed(cur), TRUE)
    /\ pc' = "prune"
    /\ UNCHANGED <<prefs, plugged, snapVars, loopVars, sock>>

ModeChange == active[cur].mode # config[cur].mode
ListChange == active[cur].members # config[cur].members

\* Mutants of FirstDiffers: the order of the members is not looked at; all of
\* the two lists is compared.
NeverDiffers == FALSE
ListsDiffer == config[cur].members # <<>> /\ active[cur].members # <<>> /\ ListChange

\* the first devices of the two lists exist and differ
FirstDiffers ==
    /\ config[cur].members # <<>> /\ active[cur].members # <<>>
    /\ config[cur].members[1] # active[cur].members[1]

\* Take the next configured bond; return when there is none.
Apply ==
    /\ pc = "apply"
    /\ \/ /\ todo = {}
          /\ pc' = "done"
          /\ UNCHANGED <<todo, cur>>
       \/ \E b \in todo :
             /\ cur' = b /\ todo' = todo \ {b}
             /\ pc' = IF active[b] = NoBond THEN "create"
                      ELSE IF active[b] = config[b] THEN "apply" ELSE "change"
    /\ UNCHANGED <<prefs, kernel, plugged, snapVars, idx, gone, sock, ok, calm,
                   faulty, events>>

\* A bond that is active and differs.  The result of setting the mode is not
\* looked at.
Change ==
    /\ pc = "change" /\ sock
    /\ \/ /\ ModeChange
          /\ Ioctl(kernel[cur] # NoBond, Moded(cur, config[cur].mode), FALSE)
       \/ /\ ~ModeChange
          /\ UNCHANGED <<kernel, ok, calm, faulty, events>>
    /\ pc' = IF ~ListChange THEN "apply"
             ELSE IF FirstDiffers THEN "teardown" ELSE "add"
    /\ idx' = 1
    /\ gone' = (active[cur].members = <<>>)
    /\ UNCHANGED <<prefs, plugged, snapVars, todo, cur, sock>>

\* "remove all current devices and add them back in the preferred order";
\* those that are not configured were removed by the first pass.
Teardown ==
    /\ pc = "teardown"
    /\ \/ /\ idx > Len(active[cur].members)
          /\ pc' = "add" /\ idx' = 1 /\ gone' = TRUE
          /\ UNCHANGED <<kernel, ok, calm, faulty, events>>
       \/ /\ idx <= Len(active[cur].members)
          /\ idx' = idx + 1
          /\ UNCHANGED <<pc, gone>>
          /\ LET e == active[cur].members[idx] IN
             \/ /\ ~Configured(e)
                /\ UNCHANGED <<kernel, ok, calm, faulty, events>>
             \/ /\ Configured(e)
                /\ Ioctl(CanRemove(cur, e), Removed(cur, e), TRUE)
    /\ UNCHANGED <<prefs, plugged, snapVars, todo, cur, sock>>

Missing(e) == gone \/ e \notin Members(active[cur])

\* "add any devices which are not currently associated with the bond"; the
\* loop over the members of a bond just created is the same with gone = TRUE.
Add ==
    /\ pc = "add"
    /\ \/ /\ idx > Len(config[cur].members)
          /\ pc' = "apply"
          /\ UNCHANGED <<kernel, idx, ok, calm, faulty, events>>
       \/ /\ idx <= Len(config[cur].members)
          /\ idx' = idx + 1
          /\ pc' = pc
          /\ LET e == config[cur].members[idx] IN
             \/ /\ ~Missing(e) \/ e \notin usable
                /\ UNCHANGED <<kernel, ok, calm, faulty, events>>
             \/ /\ Missing(e) /\ e \in usable
                /\ Ioctl(CanAdd(cur, e), Added(cur, e), TRUE)
    /\ UNCHANGED <<prefs, plugged, snapVars, todo, cur, gone, sock>>

\* "establish the new bond interface"; when that fails the bond is skipped
Create ==
    /\ pc = "create" /\ sock
    /\ \E m \in Modes :          \* the mode that a new bond has
          Ioctl(kernel[cur] = NoBond, Created(cur, m), TRUE)
    /\ pc' = IF kernel' = kernel THEN "apply" ELSE "newMode"
    /\ UNCHANGED <<prefs, plugged, snapVars, loopVars, sock>>

NewMode ==
    /\ pc = "newMode"
    /\ Ioctl(kernel[cur] # NoBond, Moded(cur, config[cur].mode), FALSE)
    /\ pc' = "add" /\ idx' = 1 /\ gone' = TRUE
    /\ UNCHANGED <<prefs, plugged, snapVars, todo, cur, sock>>

\* The ioctl socket is opened at its first use; without it the function
\* returns at once.
NeedsSocket ==
    \/ pc \in {"destroy", "change", "create"}
    \/ /\ pc = "pruneMember"
       /\ idx <= Len(active[cur].members)
       /\ ~Configured(active[cur].members[idx])

OpenSocket ==
    /\ ~sock /\ NeedsSocket
    /\ \/ /\ sock' = TRUE
          /\ UNCHANGED <<pc, ok, faulty, events>>
       \/ /\ Fault
          /\ ok' = FALSE /\ pc' = "done"
          /\ sock' = sock
    /\ UNCHANGED <<prefs, kernel, plugged, snapVars, loopVars, calm>>

\* the variables of the call are gone
Forget ==
    /\ pc' = "idle"
    /\ config' = NoBonds /\ usable' = {} /\ active' = NoBonds
    /\ todo' = {} /\ idx' = 1 /\ gone' = FALSE
    /\ sock' = FALSE /\ ok' = TRUE
    /\ calm' = TRUE /\ faulty' = FALSE
    /\ UNCHANGED cur

Return ==
    /\ pc = "done"
    /\ Forget
    /\ UNCHANGED <<prefs, kernel, plugged, events>>

Update == \/ CopyAll \/ CopyActive \/ Prune \/ PruneMember \/ Destroy \/ Apply
          \/ Change \/ Teardown \/ Add \/ Create \/ NewMode \/ OpenSocket
          \/ Return

-----------------------------------------------------------------------------
(* The environment.                                                        *)

Event == events < MaxEvents /\ events' = events + 1

\* The preferences are edited between updates: the caller passes them in.
Edit ==
    /\ pc = "idle" /\ Event
    /\ \E b \in Bonds, d \in Stored : prefs' = [prefs EXCEPT ![b] = d]
    /\ UNCHANGED <<kernel, plugged, pc, snapVars, loopVars, sock, ok, calm, faulty>>

\* The process dies; the kernel keeps what the ioctls have done so far.
Crash ==
    /\ pc # "idle" /\ Event
    /\ Forget
    /\ UNCHANGED <<prefs, kernel, plugged>>

\* A device is pulled out (it leaves its bond) or comes back.
Unplug(e) ==
    /\ e \in plugged /\ Event
    /\ plugged' = plugged \ {e}
    /\ kernel' = [b \in Bonds |->
                    IF e \in Members(kernel[b])
                    THEN [members |-> Without(kernel[b].members, e),
                          mode    |-> kernel[b].mode]
                    ELSE kernel[b]]
    /\ calm' = (pc = "idle")
    /\ UNCHANGED <<prefs, pc, snapVars, loopVars, sock, ok, faulty>>

Plug(e) ==
    /\ e \notin plugged /\ Event
    /\ plugged' = plugged \cup {e}
    /\ calm' = (pc = "idle")
    /\ UNCHANGED <<prefs, kernel, pc, snapVars, loopVars, sock, ok, faulty>>

\* Somebody else adds a member, or destroys a bond (ifconfig bond0 ...).
Outside ==
    /\ Event
    /\ \/ \E b \in Bonds, e \in Ifs : CanAdd(b, e) /\ kernel' = Added(b, e)
       \/ \E b \in Bonds : kernel[b] # NoBond /\ kernel' = Destroyed(b)
    /\ calm' = (pc = "idle")
    /\ UNCHANGED <<prefs, plugged, pc, snapVars, loopVars, sock, ok, faulty>>

Environment == \/ Edit \/ Crash \/ Outside
               \/ \E e \in Ifs : Unplug(e) \/ Plug(e)

Next == Update \/ Environment

Spec == Init /\ [][Next]_vars

\* The caller updates again and again, and an update once begun runs on.
FairSpec == Spec /\ WF_vars(Update)

-----------------------------------------------------------------------------
TypeOK ==
    /\ prefs  \in [Bonds -> BondDict \cup {NoBond}]
    /\ kernel \in [Bonds -> BondDict \cup {NoBond}]
    /\ config \in [Bonds -> BondDict \cup {NoBond}]
    /\ active \in [Bonds -> BondDict \cup {NoBond}]
    /\ plugged \subseteq Ifs /\ usable \subseteq Ifs
    /\ pc \in Labels
    /\ todo \subseteq Bonds /\ cur \in Bonds /\ idx \in Nat \ {0}
    /\ gone \in BOOLEAN /\ sock \in BOOLEAN /\ ok \in BOOLEAN
    /\ calm \in BOOLEAN /\ faulty \in BOOLEAN
    /\ events \in 0..MaxEvents

InSyncBond(b) ==
    /\ (kernel[b] = NoBond) = (config[b] = NoBond)
    /\ config[b] # NoBond =>
          /\ kernel[b].mode = config[b].mode
          /\ Members(kernel[b]) = Members(config[b]) \cap usable

InSync == \A b \in Bonds : InSyncBond(b)

Injective(s) == \A i, j \in 1..Len(s) : s[i] = s[j] => i = j

\* no interface is configured twice
Exclusive(dicts) ==
    /\ \A b \in Bonds : dicts[b] # NoBond => Injective(dicts[b].members)
    /\ \A b, c \in Bonds :
          b # c => Members(dicts[b]) \cap Members(dicts[c]) = {}

\* An update that returns TRUE has left nothing undone: every failed create,
\* destroy, add and remove is reported in the result even though the update
\* goes on after it.  (A set-mode failure is not reported, and a change of the
\* kernel by others cannot be: both clear calm.)
FailureReported == pc = "done" /\ calm /\ ok => InSync

\* Without a fault the update succeeds whatever it starts from: the passes are
\* ordered so that no ioctl asks for what the kernel must refuse, a member
\* that moves between bonds is released before it is claimed, and what an
\* interrupted or failed earlier update left behind is repaired.
CleanSucceeds == pc = "done" /\ calm /\ ~faulty /\ Exclusive(config) => ok

\* After a successful update the preferred first device is the first one of the
\* bond if it can be a member at all.
PreferredFirst ==
    pc = "done" /\ calm /\ ok =>
       \A b \in Bonds :
          (config[b] # NoBond /\ config[b].members # <<>>
             /\ config[b].members[1] \in usable)
          => kernel[b].members[1] = config[b].members[1]

\* bond b is configured with the first device that it had in the snapshot
SameFirst(b) ==
    /\ config[b] # NoBond /\ active[b] # NoBond
    /\ config[b].members # <<>> /\ active[b].members # <<>>
    /\ config[b].members[1] = active[b].members[1]

\* A bond that had the right first device when the update looked is not
\* interrupted: throughout the update, between any two of its ioctls and after
\* any failures, it has all the members that it had and shall have.  (A bond
\* with another first device is torn down and built again.)
StaysBonded ==
    pc \notin {"idle", "copyActive"} /\ calm =>
       \A b \in Bonds : SameFirst(b) =>
          Members(active[b]) \cap Members(config[b]) \subseteq Members(kernel[b])

\* Once faults, edits and outside changes have stopped, repeated updates keep
\* returning the kernel to what the preferences say.
Converges == <>[]Exclusive(prefs) => []<>(pc = "done" /\ config = prefs /\ InSync)

-----------------------------------------------------------------------------
(* How far an update has come: the invariant behind FailureReported,       *)
(* CleanSucceeds and PreferredFirst.                                       *)

\* the members of list s at positions from..to
Slice(s, from, to) == {s[i] : i \in {j \in 1..Len(s) : from <= j /\ j <= to}}

Intact(b) == kernel[b] = active[b]

\* what the first pass makes of a bond
Pruned(b) ==
    /\ (kernel[b] = NoBond) = (active[b] = NoBond \/ config[b] = NoBond)
    /\ kernel[b] # NoBond =>
          /\ kernel[b].mode = active[b].mode
          /\ Members(kernel[b]) = Members(active[b]) \cap Members(config[b])

\* the active members that an update which does not re-order leaves in place
Kept == IF gone THEN {} ELSE Members(active[cur]) \cap Members(config[cur])

FirstPass  == {"prune", "pruneMember", "destroy"}
SecondPass == {"apply", "change", "teardown", "add", "create", "newMode"}
Between    == {"prune", "apply"}      \* no bond is being worked on

\* which snapshot holds the bonds of a pass
SnapshotsOK ==
    /\ pc \in (FirstPass \cup SecondPass) \ Between => cur \notin todo
    /\ pc \in FirstPass  => \A b \in todo : active[b] # NoBond
    /\ pc \in SecondPass => \A b \in todo : config[b] # NoBond
    /\ pc \in {"pruneMember", "destroy", "change", "teardown"} => active[cur] # NoBond
    /\ pc = "create" => active[cur] = NoBond
    /\ pc \in {"pruneMember", "change", "teardown", "add", "create", "newMode"}
          => config[cur] # NoBond
    /\ pc = "destroy" => config[cur] = NoBond

\* the kernel's side of the bond being worked on
CurProgress ==
    CASE pc = "destroy" -> Intact(cur)
      [] pc = "pruneMember" ->
           /\ kernel[cur] # NoBond /\ kernel[cur].mode = active[cur].mode
           /\ Members(kernel[cur]) =
                 Slice(active[cur].members, idx, Len(active[cur].members))
                   \cup (Members(active[cur]) \cap Members(config[cur]))
      [] pc = "change" -> Pruned(cur)
      [] pc = "teardown" ->
           /\ kernel[cur] # NoBond /\ kernel[cur].mode = config[cur].mode
           /\ Members(kernel[cur]) =
                 Slice(active[cur].members, idx, Len(active[cur].members))
                   \cap Members(config[cur])
      [] pc = "create" -> kernel[cur] = NoBond
      [] pc = "newMode" -> kernel[cur] # NoBond /\ Members(kernel[cur]) = {}
      [] pc = "add" ->
           /\ kernel[cur] # NoBond /\ kernel[cur].mode = config[cur].mode
           /\ Members(kernel[cur]) =
                 Kept \cup (Slice(config[cur].members, 1, idx - 1) \cap usable)
      [] OTHER -> TRUE

\* the bonds that are not being worked on
OthersProgress ==
    /\ pc \in FirstPass => \A b \in Bonds :
          /\ b \in todo => Intact(b)
          /\ b \notin todo /\ (pc = "prune" \/ b # cur) => Pruned(b)
    /\ pc \in SecondPass => \A b \in Bonds :
          /\ b \in todo => Pruned(b)
          /\ b \notin todo /\ (pc = "apply" \/ b # cur) => InSyncBond(b)

Progress ==
    /\ pc # "idle" => usable = Capable \cap plugged
    /\ pc \in FirstPass \cup SecondPass =>
          \A b \in Bonds : Members(active[b]) \subseteq usable
    /\ CurProgress
    /\ OthersProgress
    /\ pc = "done" => InSync

\* a bond with dictionary d has e as its first device
LedBy(d, e) == d # NoBond /\ d.members # <<>> /\ d.members[1] = e

\* The first device of an active bond stays the first one if it is configured:
\* this is why an update that need not re-order may compare the first devices
\* of its two snapshots.
HeadKept(b) ==
    /\ active[b] # NoBond /\ active[b].members # <<>>
    /\ active[b].members[1] \in Members(config[b])
    => LedBy(kernel[b], active[b].members[1])

FirstOK(b) ==
    /\ config[b] # NoBond /\ config[b].members # <<>>
    /\ config[b].members[1] \in usable
    => LedBy(kernel[b], config[b].members[1])

Firsts ==
    /\ pc \in FirstPass => \A b \in Bonds : HeadKept(b)
    /\ pc \in SecondPass => \A b \in Bonds :
          /\ b \in todo => HeadKept(b)
          /\ b \notin todo /\ (pc = "apply" \/ b # cur) => FirstOK(b)
    /\ pc = "change" => HeadKept(cur)
    /\ pc = "add" /\ (idx > 1 \/ ~gone) => FirstOK(cur)
    /\ pc = "done" => \A b \in Bonds : FirstOK(b)

\* What the kernel guarantees, and the snapshot of it that an update works from.
KernelOK ==
    /\ Exclusive(kernel)
    /\ \A b \in Bonds :
          /\ Members(kernel[b]) \subseteq plugged \cap Capable
          /\ active[b] # NoBond => Injective(active[b].members)

\* As long as nothing failed and nobody interfered the update is where the
\* snapshots say; and only a fault makes it fail.
UpdateInv ==
    /\ KernelOK
    /\ SnapshotsOK
    /\ calm /\ ok => Progress /\ Firsts
    /\ calm /\ ~faulty /\ Exclusive(config) => ok

=============================================================================
