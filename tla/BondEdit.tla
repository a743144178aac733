------------------------------ MODULE BondEdit ------------------------------
(***************************************************************************)
(* Ethernet bonds as a client edits them: in one session of the            *)
(* preferences a client copies objects of the stored bonds, and changes a  *)
(* bond through any object that it holds.  An object keeps what it read.   *)
(* The calls to the preferences may fail.  Meanwhile interfaces come and   *)
(* go, and services over them are enabled and disabled.                    *)
(***************************************************************************)
EXTENDS Naturals, FiniteSets, Sequences, Functions

CONSTANTS
    MaxBond,     \* bound on the bonds: bond0, bond1, ... are 0..MaxBond
    Devices,     \* BSD names of Ethernet interfaces
    Capable,     \* those that support bonds
    Taken,       \* those that are in a bridge or under a VLAN
    Names,       \* display names
    Options,     \* dictionaries of options
    Modes,       \* numbers of modes
    Offered,     \* the lists of members that clients ask for
    Objects,     \* the objects a client may hold
    MaxSteps     \* bound on the steps

ASSUME BondEditAssumption ==
    /\ MaxBond \in Nat
    /\ Capable \subseteq Devices /\ Taken \subseteq Devices
    /\ Offered \subseteq Seq(Devices)
    /\ {"LACP", "static"} \subseteq Modes
    /\ MaxSteps \in Nat

VARIABLES
    stored,    \* [bonds -> dictionaries]: the preferences of the session
    objects,   \* [Objects -> what the client holds]
    present,   \* the interfaces of the registry
    used,      \* the interfaces of enabled services
    tidy,      \* the client holds one object of a bond, and none of a removed one
    steps

vars == <<stored, objects, present, used, tidy, steps>>

Bonds == 0..MaxBond
None  == "none"     \* no value, NULL
Fresh == [members |-> <<>>, name |-> None, options |-> None, mode |-> None]
Free  == [bond |-> 0, held |-> FALSE, info |-> Fresh]

\* add_configured_interface: a bond without a mode is an LACP bond
Read(info) == [info EXCEPT !.mode = IF @ = None THEN "LACP" ELSE @]

Held        == {o \in Objects : objects[o].held}
HeldOf(k)   == {o \in Held : objects[o].bond = k}
MembersOf(k) == Range(stored[k].members)

\* Mutant of Available: the members of bonds are not excluded.
AvailableAgain == (Capable \cap present) \ Taken

\* SCBondInterfaceCopyAvailableMemberInterfaces
Available ==
    {d \in Capable \cap present : d \notin Taken /\ \A k \in DOMAIN stored : d \notin MembersOf(k)}

-----------------------------------------------------------------------------
Init ==
    /\ stored = <<>> /\ objects = [o \in Objects |-> Free]
    /\ present = Devices /\ used = {}
    /\ tidy \in BOOLEAN
    /\ steps = 0

\* SCBondInterfaceCopyAll: the client keeps the object of one bond
CopyAll(o, k) ==
    /\ k \in DOMAIN stored /\ ~objects[o].held
    /\ tidy => HeldOf(k) = {}
    /\ objects' = [objects EXCEPT ![o] = [bond |-> k, held |-> TRUE, info |-> Read(stored[k])]]
    /\ UNCHANGED <<stored, present, used>>

\* the client lets an object go
Release(o) ==
    /\ objects[o].held
    /\ objects' = [objects EXCEPT ![o] = Free]
    /\ UNCHANGED <<stored, present, used>>

\* the first name that the preferences do not have
Unused(k) == k \notin DOMAIN stored /\ \A j \in Bonds : j < k => j \in DOMAIN stored

\* SCBondInterfaceCreate
Create(o, ok) == \E k \in Bonds :
    /\ ~objects[o].held /\ Unused(k)
    /\ stored'  = IF ok THEN [j \in DOMAIN stored \cup {k} |-> IF j = k THEN Fresh ELSE stored[j]] ELSE stored
    /\ objects' = IF ok THEN [objects EXCEPT ![o] = [bond |-> k, held |-> TRUE, info |-> Fresh]] ELSE objects
    /\ UNCHANGED <<present, used>>

\* SCBondInterfaceRemove
Remove(o) ==
    LET k == objects[o].bond IN
    /\ objects[o].held
    /\ stored'  = [j \in DOMAIN stored \ {k} |-> stored[j]]
    /\ objects' = IF tidy THEN [objects EXCEPT ![o] = Free] ELSE objects
    /\ UNCHANGED <<present, used>>

-----------------------------------------------------------------------------
(* The setters: first the stored dictionary, then the object.  If the path  *)
(* is gone ("the prefs are confused") nothing changes.                      *)

\* Mutant of Put: the setter writes all that the object knows.
PutAll(o, field, value) == [objects[o].info EXCEPT ![field] = value]

\* the stored dictionary with the new value
Put(o, field, value) == [stored[objects[o].bond] EXCEPT ![field] = value]

\* Mutant of Set: the object is changed even if the preferences were not.
SetAnyway(o, field, value, ok) ==
    LET k == objects[o].bond IN
    /\ objects[o].held
    /\ stored'  = IF k \in DOMAIN stored /\ ok THEN [stored EXCEPT ![k] = Put(o, field, value)] ELSE stored
    /\ objects' = [objects EXCEPT ![o].info[field] = value]
    /\ UNCHANGED <<present, used>>

\* (a path that would not change is not written, and cannot fail)
Set(o, field, value, ok) ==
    LET k    == objects[o].bond
        done == k \in DOMAIN stored /\ (ok \/ Put(o, field, value) = stored[k])
    IN  /\ objects[o].held
        /\ stored'  = IF done THEN [stored EXCEPT ![k] = Put(o, field, value)] ELSE stored
        /\ objects' = IF done THEN [objects EXCEPT ![o].info[field] = value] ELSE objects
        /\ UNCHANGED <<present, used>>

\* Mutant of Allowed: the interfaces of services are not looked at.
AllowAvailable(o, d) == d \in Range(objects[o].info.members) \/ d \in Available

\* what the object lists as members, or an available interface without a service
Allowed(o, d) ==
    \/ d \in Range(objects[o].info.members)
    \/ d \in Available /\ d \notin used

SetMemberInterfaces(o, members, ok) ==
    /\ \A i \in 1..Len(members) : Allowed(o, members[i])
    /\ Set(o, "members", members, ok)

SetLocalizedDisplayName(o, name, ok) == Set(o, "name", name, ok)

SetOptions(o, options, ok) == Set(o, "options", options, ok)

SetMode(o, mode, ok) ==
    /\ mode \in {"LACP", "static"}
    /\ Set(o, "mode", mode, ok)

-----------------------------------------------------------------------------
\* The environment: the registry, and the services of the session.
Plug(d) ==
    /\ present' = IF d \in present THEN present \ {d} ELSE present \cup {d}
    /\ UNCHANGED <<stored, objects, used>>

Enable(d) ==
    /\ used' = IF d \in used THEN used \ {d} ELSE used \cup {d}
    /\ UNCHANGED <<stored, objects, present>>

Next ==
    /\ steps < MaxSteps /\ steps' = steps + 1 /\ UNCHANGED tidy
    /\ \/ \E o \in Objects, k \in Bonds : CopyAll(o, k)
       \/ \E o \in Objects : Release(o) \/ Remove(o)
       \/ \E o \in Objects, ok \in BOOLEAN :
             \/ Create(o, ok)
             \/ \E members \in Offered : SetMemberInterfaces(o, members, ok)
             \/ \E name \in Names \cup {None} : SetLocalizedDisplayName(o, name, ok)
             \/ \E options \in Options \cup {None} : SetOptions(o, options, ok)
             \/ \E mode \in Modes : SetMode(o, mode, ok)
       \/ \E d \in Devices : Plug(d) \/ Enable(d)

Spec == Init /\ [][Next]_vars

-----------------------------------------------------------------------------
(* Properties. *)

Dictionaries ==
    [members : Seq(Devices), name : Names \cup {None}, options : Options \cup {None},
     mode : {None, "LACP", "static"}]

TypeOK ==
    /\ DOMAIN stored \subseteq Bonds /\ stored \in [DOMAIN stored -> Dictionaries]
    /\ objects \in [Objects -> [bond : Bonds, held : BOOLEAN, info : Dictionaries]]
    /\ present \subseteq Devices /\ used \subseteq Devices
    /\ tidy \in BOOLEAN /\ steps \in 0..MaxSteps

\* An interface is in one bond at most, and in none if a bridge or a VLAN has
\* it (SCBondInterfaceCopyAvailableMemberInterfaces excludes "the member
\* interfaces of this bond").  It is not so for a client that keeps an object
\* of a bond while it changes the bond through another one: the members that
\* the older object lists are still allowed as its "current members".
Exclusive ==
    /\ \A j, k \in DOMAIN stored : j # k => MembersOf(j) \cap MembersOf(k) = {}
    /\ \A k \in DOMAIN stored : MembersOf(k) \subseteq Capable \ Taken

ExclusiveIfTidy == tidy => Exclusive

\* An object of a tidy client tells what is stored, whichever call failed:
\* a setter changes the bond and the object, or neither.
InStep == tidy => \A o \in Held :
    /\ objects[o].bond \in DOMAIN stored
    /\ objects[o].info \in {stored[objects[o].bond], Read(stored[objects[o].bond])}

\* A setter changes one value of one bond, so that an older object does not
\* undo what was set through another; and a bond that was removed does not
\* come back through its objects, but is created anew, without members.
OneValue == [][
    /\ \A k \in DOMAIN stored \cap DOMAIN stored' :
            Cardinality({f \in DOMAIN Fresh : stored[k][f] # stored'[k][f]}) <= 1
    /\ \A k \in DOMAIN stored' \ DOMAIN stored : stored'[k] = Fresh]_vars

\* An interface of an enabled service does not become a member of a bond of a
\* tidy client: "available members are allowed but cannot be associated with
\* any other network services" (BondConfiguration.c:751).
NoServiceTaken == [][tidy =>
    \A k \in DOMAIN stored \cap DOMAIN stored' :
        (Range(stored'[k].members) \ MembersOf(k)) \cap used = {}]_vars

=============================================================================
