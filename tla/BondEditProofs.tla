--------------------------- MODULE BondEditProofs ---------------------------
(***************************************************************************)
(* Proofs about BondEdit.  Exclusive is inductive for a tidy client only   *)
(* together with InStep: what an object lists as members is allowed        *)
(* unseen, so it has to be what is stored; and InStep needs that no two    *)
(* objects are held of one bond.                                           *)
(***************************************************************************)
EXTENDS BondEdit, FiniteSetTheorems, TLAPS

OnePerBond == tidy => \A o, p \in Held : objects[o].bond = objects[p].bond => o = p

IInv == TypeOK /\ OnePerBond /\ InStep /\ ExclusiveIfTidy

-----------------------------------------------------------------------------
(* Dictionaries. *)

Fields == {"members", "name", "options", "mode"}

\* What can be set: a field with a value of its type.
Settable(field, value) ==
    /\ field \in Fields
    /\ field = "members" => value \in Seq(Devices)
    /\ field = "name"    => value \in Names \cup {None}
    /\ field = "options" => value \in Options \cup {None}
    /\ field = "mode"    => value \in {"LACP", "static"}

LEMMA FreshType == Fresh \in Dictionaries /\ Range(Fresh.members) = {}
<1>1. Fresh \in Dictionaries  BY SMT DEF Fresh, Dictionaries, None
<1>2. Fresh.members = <<>>  BY DEF Fresh
<1> QED  BY <1>1, <1>2 DEF Range

LEMMA ReadKeeps ==
    ASSUME NEW d \in Dictionaries
    PROVE  Read(d) \in Dictionaries /\ Read(d).members = d.members
BY DEF Read, Dictionaries, None

LEMMA ReadTwice ==
    ASSUME NEW d \in Dictionaries
    PROVE  Read(Read(d)) = Read(d)
BY DEF Read, Dictionaries, None

With(d, field, value) == [d EXCEPT ![field] = value]

\* A dictionary with another value is one, and differs in that field only.
LEMMA Changed ==
    ASSUME NEW d \in Dictionaries, NEW field, NEW value, Settable(field, value)
    PROVE  /\ With(d, field, value) \in Dictionaries
           /\ With(d, field, value)[field] = value
           /\ \A f \in Fields : f # field => With(d, field, value)[f] = d[f]
           /\ field # "members" => With(d, field, value).members = d.members
<1> field \in Fields  BY DEF Settable
<1>1. CASE field = "members"  BY <1>1 DEF Settable, Fields, Dictionaries, With
<1>2. CASE field = "name"  BY <1>2 DEF Settable, Fields, Dictionaries, With
<1>3. CASE field = "options"  BY <1>3 DEF Settable, Fields, Dictionaries, With
<1>4. CASE field = "mode"  BY <1>4 DEF Settable, Fields, Dictionaries, With
<1> QED  BY <1>1, <1>2, <1>3, <1>4 DEF Fields

\* Setting a field and reading a bond commute, and reading does not come back
\* between two objects that agree.
LEMMA ChangedInStep ==
    ASSUME NEW d \in Dictionaries, NEW info \in {d, Read(d)}, NEW field, NEW value,
           Settable(field, value)
    PROVE  With(info, field, value) \in
              {With(d, field, value), Read(With(d, field, value))}
<1> field \in Fields  BY DEF Settable
<1> info \in Dictionaries  BY ReadKeeps
<1>1. CASE info = d  BY <1>1
<1>2. CASE info = Read(d) /\ d.mode # None
      BY <1>2 DEF With, Read, Dictionaries
<1>3. CASE info = Read(d) /\ d.mode = None
  <2>1. CASE field = "mode"
        BY <1>3, <2>1 DEF With, Read, Dictionaries, None
  <2>2. CASE field = "members"
        BY <1>3, <2>2 DEF With, Read, Dictionaries, None, Settable
  <2>3. CASE field = "name"
        BY <1>3, <2>3 DEF With, Read, Dictionaries, None, Settable
  <2>4. CASE field = "options"
        BY <1>3, <2>4 DEF With, Read, Dictionaries, None, Settable
  <2> QED  BY <2>1, <2>2, <2>3, <2>4 DEF Fields
<1> QED  BY <1>1, <1>2, <1>3

-----------------------------------------------------------------------------
(* The steps. *)

LEMMA InitInv == ASSUME BondEditAssumption, Init PROVE IInv
<1>1. DOMAIN stored = {}  BY DEF Init
<1>2. Free \in [bond : Bonds, held : BOOLEAN, info : Dictionaries]
      BY FreshType DEF Free, Bonds, BondEditAssumption
<1>3. TypeOK
  <2>1. stored \in [DOMAIN stored -> Dictionaries]  BY <1>1 DEF Init
  <2> QED  BY <1>1, <1>2, <2>1 DEF Init, TypeOK, BondEditAssumption
<1>4. Held = {}  BY DEF Held, Init, Free
<1> QED  BY <1>1, <1>3, <1>4 DEF IInv, OnePerBond, InStep, ExclusiveIfTidy, Exclusive

\* A setter does nothing, or the same to the bond and to the object.
LEMMA SetInv ==
    ASSUME IInv, UNCHANGED tidy, steps' \in 0..MaxSteps,
           NEW o \in Objects, NEW field, NEW value, NEW ok, Settable(field, value),
           field = "members" => \A i \in 1..Len(value) : Allowed(o, value[i]),
           Set(o, field, value, ok)
    PROVE  IInv'
<1> DEFINE k == objects[o].bond
           d == With(stored[k], field, value)
           info == With(objects[o].info, field, value)
<1> USE DEF IInv
<1>1. objects[o].held /\ UNCHANGED <<present, used>>  BY DEF Set
<1>2. CASE UNCHANGED <<stored, objects>>
      BY <1>1, <1>2 DEF TypeOK, OnePerBond, Held, InStep, ExclusiveIfTidy, Exclusive, MembersOf
<1>3. ASSUME k \in DOMAIN stored, stored' = [stored EXCEPT ![k] = d],
             objects' = [objects EXCEPT ![o].info = info]
      PROVE  IInv'
  <2>1. /\ stored[k] \in Dictionaries /\ objects[o].info \in Dictionaries
        /\ objects[o] \in [bond : Bonds, held : BOOLEAN, info : Dictionaries]
        BY <1>3 DEF TypeOK
  <2>2. d \in Dictionaries /\ info \in Dictionaries  BY <2>1, Changed
  <2> HIDE DEF d, info
  <2>3. /\ DOMAIN stored' = DOMAIN stored /\ stored'[k] = d
        /\ \A j \in DOMAIN stored : j # k => stored'[j] = stored[j]
        BY <1>3 DEF TypeOK
  <2>4. /\ objects'[o].info = info /\ \A p \in Objects : p # o => objects'[p] = objects[p]
        /\ \A p \in Objects : objects'[p].bond = objects[p].bond /\ objects'[p].held = objects[p].held
        BY <1>3, <2>1, <2>2 DEF TypeOK
  <2>5. TypeOK'
    <3>1. stored' \in [DOMAIN stored' -> Dictionaries]  BY <1>3, <2>2, <2>3 DEF TypeOK
    <3>2. objects' \in [Objects -> [bond : Bonds, held : BOOLEAN, info : Dictionaries]]
          BY <1>3, <2>1, <2>2 DEF TypeOK
    <3> QED  BY <1>1, <2>3, <3>1, <3>2 DEF TypeOK
  <2>6. Held' = Held  BY <2>4 DEF Held
  <2>7. OnePerBond'  BY <2>4, <2>6 DEF OnePerBond, Held
  <2>8. InStep'
    <3> SUFFICES ASSUME tidy, NEW p \in Held
                 PROVE  /\ objects'[p].bond \in DOMAIN stored'
                        /\ objects'[p].info \in {stored'[objects'[p].bond], Read(stored'[objects'[p].bond])}
          BY <2>6 DEF InStep
    <3>1. objects[p].bond \in DOMAIN stored /\ objects[p].info \in {stored[objects[p].bond], Read(stored[objects[p].bond])}
          BY DEF InStep
    <3>2. CASE p = o
      <4>1. info \in {d, Read(d)}  BY <2>1, <3>1, <3>2, ChangedInStep DEF d, info
      <4> QED  BY <2>3, <2>4, <3>1, <3>2, <4>1
    <3>3. CASE p # o
      <4>1. objects[p].bond # k  BY <1>1, <3>3 DEF OnePerBond, Held
      <4> QED  BY <2>3, <2>4, <3>1, <3>3, <4>1 DEF Held
    <3> QED  BY <3>2, <3>3
  <2>9. ExclusiveIfTidy'
    <3> SUFFICES ASSUME tidy PROVE Exclusive'  BY DEF ExclusiveIfTidy
    <3>1. Exclusive  BY DEF ExclusiveIfTidy
    <3>2. Range(objects[o].info.members) = MembersOf(k)
          BY <1>1, <2>1, ReadKeeps DEF InStep, Held, MembersOf
    <3>3. Range(d.members) \subseteq MembersOf(k) \cup Available
      <4>1. CASE field # "members"
            BY <2>1, <4>1, Changed DEF d, MembersOf
      <4>2. CASE field = "members"
        <5>1. d.members = value  BY <2>1, <4>2 DEF d, With, Dictionaries, Settable
        <5>2. \A i \in 1..Len(value) : value[i] \in MembersOf(k) \cup Available
              BY <3>2, <4>2 DEF Allowed
        <5> QED  BY <4>2, <5>1, <5>2 DEF Range, Settable
      <4> QED  BY <4>1, <4>2
    <3>4. \A j \in DOMAIN stored :
             MembersOf(j)' = IF j = k THEN Range(d.members) ELSE MembersOf(j)
          BY <2>3 DEF MembersOf
    <3>5. \A j \in DOMAIN stored : j # k => MembersOf(j) \cap Range(d.members) = {}
          BY <1>3, <3>1, <3>3 DEF Exclusive, Available
    <3>6. Range(d.members) \subseteq Capable \ Taken
          BY <1>3, <3>1, <3>3 DEF Exclusive, Available
    <3> QED  BY <1>3, <2>3, <3>1, <3>4, <3>5, <3>6 DEF Exclusive
  <2> QED  BY <2>5, <2>7, <2>8, <2>9
<1>4. \/ UNCHANGED <<stored, objects>>
      \/ /\ k \in DOMAIN stored /\ stored' = [stored EXCEPT ![k] = d]
         /\ objects' = [objects EXCEPT ![o].info = info]
  <2>1. [objects EXCEPT ![o].info[field] = value] = [objects EXCEPT ![o].info = info]
        BY Zenon DEF With
  <2> QED  BY <2>1 DEF Set, Put, With
<1> QED  BY <1>2, <1>3, <1>4

LEMMA CopyAllInv ==
    ASSUME IInv, UNCHANGED tidy, steps' \in 0..MaxSteps,
           NEW o \in Objects, NEW k \in Bonds, CopyAll(o, k)
    PROVE  IInv'
<1> DEFINE copy == [bond |-> k, held |-> TRUE, info |-> Read(stored[k])]
<1> USE DEF IInv, CopyAll
<1>1. copy \in [bond : Bonds, held : BOOLEAN, info : Dictionaries]
      BY ReadKeeps DEF TypeOK
<1>2. /\ objects'[o] = copy /\ \A p \in Objects : p # o => objects'[p] = objects[p]
      /\ objects' \in [Objects -> [bond : Bonds, held : BOOLEAN, info : Dictionaries]]
      BY <1>1 DEF TypeOK
<1>3. TypeOK'  BY <1>2 DEF TypeOK
<1>4. Held' = Held \cup {o}  BY <1>2 DEF Held
<1>5. tidy => \A p \in Held : p # o /\ objects[p].bond # k  BY DEF HeldOf, Held
<1>6. OnePerBond'  BY <1>2, <1>4, <1>5 DEF OnePerBond, Held
<1>7. InStep'  BY <1>2, <1>4, <1>5 DEF InStep, Held
<1>8. ExclusiveIfTidy'  BY DEF ExclusiveIfTidy, Exclusive, MembersOf
<1> QED  BY <1>3, <1>6, <1>7, <1>8

LEMMA ReleaseInv ==
    ASSUME IInv, UNCHANGED tidy, steps' \in 0..MaxSteps, BondEditAssumption,
           NEW o \in Objects, Release(o)
    PROVE  IInv'
<1> USE DEF IInv, Release
<1>1. Free \in [bond : Bonds, held : BOOLEAN, info : Dictionaries]
      BY FreshType DEF Free, Bonds, BondEditAssumption
<1>2. /\ objects'[o] = Free /\ \A p \in Objects : p # o => objects'[p] = objects[p]
      /\ objects' \in [Objects -> [bond : Bonds, held : BOOLEAN, info : Dictionaries]]
      BY <1>1 DEF TypeOK
<1>3. TypeOK'  BY <1>2 DEF TypeOK
<1>4. Held' = Held \ {o}  BY <1>2 DEF Held, Free
<1>5. OnePerBond'  BY <1>2, <1>4 DEF OnePerBond, Held
<1>6. InStep'  BY <1>2, <1>4 DEF InStep, Held
<1>7. ExclusiveIfTidy'  BY DEF ExclusiveIfTidy, Exclusive, MembersOf
<1> QED  BY <1>3, <1>5, <1>6, <1>7

LEMMA CreateInv ==
    ASSUME IInv, UNCHANGED tidy, steps' \in 0..MaxSteps,
           NEW o \in Objects, NEW ok, Create(o, ok)
    PROVE  IInv'
<1> USE DEF IInv
<1> PICK k \in Bonds :
      /\ ~objects[o].held /\ Unused(k)
      /\ stored'  = IF ok THEN [j \in DOMAIN stored \cup {k} |-> IF j = k THEN Fresh ELSE stored[j]] ELSE stored
      /\ objects' = IF ok THEN [objects EXCEPT ![o] = [bond |-> k, held |-> TRUE, info |-> Fresh]] ELSE objects
      /\ UNCHANGED <<present, used>>
    BY DEF Create
<1>1. CASE ~ok
      BY <1>1 DEF TypeOK, OnePerBond, Held, InStep, ExclusiveIfTidy, Exclusive, MembersOf
<1>2. CASE ok
  <2> DEFINE new == [bond |-> k, held |-> TRUE, info |-> Fresh]
  <2>1. new \in [bond : Bonds, held : BOOLEAN, info : Dictionaries]  BY FreshType
  <2>2. /\ objects'[o] = new /\ \A p \in Objects : p # o => objects'[p] = objects[p]
        /\ objects' \in [Objects -> [bond : Bonds, held : BOOLEAN, info : Dictionaries]]
        BY <1>2, <2>1 DEF TypeOK
  <2>3. /\ DOMAIN stored' = DOMAIN stored \cup {k} /\ stored'[k] = Fresh
        /\ k \notin DOMAIN stored /\ \A j \in DOMAIN stored : stored'[j] = stored[j]
        BY <1>2 DEF Unused
  <2>4. TypeOK'
    <3>1. stored' \in [DOMAIN stored' -> Dictionaries]  BY <1>2, <2>3, FreshType DEF TypeOK
    <3> QED  BY <2>2, <2>3, <3>1 DEF TypeOK
  <2>5. Held' = Held \cup {o} /\ o \notin Held  BY <2>2 DEF Held
  <2>6. OnePerBond'  BY <2>2, <2>3, <2>5 DEF OnePerBond, Held, InStep
  <2>7. InStep'  BY <2>2, <2>3, <2>5 DEF InStep, Held
  <2>8. ExclusiveIfTidy'
    <3>1. \A j \in DOMAIN stored' :
             MembersOf(j)' = IF j = k THEN {} ELSE MembersOf(j)
          BY <2>3, FreshType DEF MembersOf
    <3> QED  BY <2>3, <3>1 DEF ExclusiveIfTidy, Exclusive
  <2> QED  BY <2>4, <2>6, <2>7, <2>8
<1> QED  BY <1>1, <1>2

LEMMA RemoveInv ==
    ASSUME IInv, UNCHANGED tidy, steps' \in 0..MaxSteps, BondEditAssumption,
           NEW o \in Objects, Remove(o)
    PROVE  IInv'
<1> DEFINE k == objects[o].bond
<1> USE DEF IInv, Remove
<1>1. Free \in [bond : Bonds, held : BOOLEAN, info : Dictionaries]
      BY FreshType DEF Free, Bonds, BondEditAssumption
<1>2. /\ objects' \in [Objects -> [bond : Bonds, held : BOOLEAN, info : Dictionaries]]
      /\ tidy => objects'[o] = Free /\ \A p \in Objects : p # o => objects'[p] = objects[p]
      BY <1>1 DEF TypeOK
<1>3. DOMAIN stored' = DOMAIN stored \ {k} /\ \A j \in DOMAIN stored' : stored'[j] = stored[j]
      OBVIOUS
<1>4. TypeOK'
  <2>1. stored' \in [DOMAIN stored' -> Dictionaries]  BY <1>3 DEF TypeOK
  <2> QED  BY <1>2, <1>3, <2>1 DEF TypeOK
<1>5. tidy => Held' = Held \ {o}  BY <1>2 DEF Held, Free
<1>6. OnePerBond'  BY <1>2, <1>5 DEF OnePerBond, Held
<1>7. InStep'
  <2>1. tidy => \A p \in Held \ {o} : objects[p].bond # k  BY DEF OnePerBond, Held
  <2> QED  BY <1>2, <1>3, <1>5, <2>1 DEF InStep, Held
<1>8. ExclusiveIfTidy'  BY <1>3 DEF ExclusiveIfTidy, Exclusive, MembersOf
<1> QED  BY <1>4, <1>6, <1>7, <1>8

\* The registry and the services have no part in IInv but their types.
LEMMA EnvironmentInv ==
    ASSUME IInv, UNCHANGED <<tidy, stored, objects>>, steps' \in 0..MaxSteps,
           present' \subseteq Devices, used' \subseteq Devices
    PROVE  IInv'
BY DEF IInv, TypeOK, OnePerBond, Held, InStep, ExclusiveIfTidy, Exclusive, MembersOf

LEMMA NextInv == ASSUME BondEditAssumption, IInv, [Next]_vars PROVE IInv'
<1>1. CASE UNCHANGED vars
      BY <1>1 DEF vars, IInv, TypeOK, OnePerBond, Held, InStep, ExclusiveIfTidy, Exclusive, MembersOf
<1>2. CASE Next
  <2> UNCHANGED tidy /\ steps' \in 0..MaxSteps
      BY <1>2 DEF Next, IInv, TypeOK, BondEditAssumption
  <2>1. ASSUME NEW o \in Objects, NEW k \in Bonds, CopyAll(o, k) PROVE IInv'
        BY <2>1, CopyAllInv
  <2>2. ASSUME NEW o \in Objects, Release(o) PROVE IInv'
        BY <2>2, ReleaseInv
  <2>3. ASSUME NEW o \in Objects, Remove(o) PROVE IInv'
        BY <2>3, RemoveInv
  <2>4. ASSUME NEW o \in Objects, NEW ok \in BOOLEAN, Create(o, ok) PROVE IInv'
        BY <2>4, CreateInv
  <2>5. ASSUME NEW o \in Objects, NEW ok \in BOOLEAN, NEW members \in Offered,
               SetMemberInterfaces(o, members, ok)
        PROVE  IInv'
    <3>1. Settable("members", members)  BY DEF Settable, Fields, BondEditAssumption
    <3> QED  BY <2>5, <3>1, SetInv DEF SetMemberInterfaces
  <2>6. ASSUME NEW o \in Objects, NEW ok \in BOOLEAN, NEW name \in Names \cup {None},
               SetLocalizedDisplayName(o, name, ok)
        PROVE  IInv'
    <3>1. Settable("name", name)  BY DEF Settable, Fields
    <3> QED  BY <2>6, <3>1, SetInv DEF SetLocalizedDisplayName
  <2>7. ASSUME NEW o \in Objects, NEW ok \in BOOLEAN, NEW options \in Options \cup {None},
               SetOptions(o, options, ok)
        PROVE  IInv'
    <3>1. Settable("options", options)  BY DEF Settable, Fields
    <3> QED  BY <2>7, <3>1, SetInv DEF SetOptions
  <2>8. ASSUME NEW o \in Objects, NEW ok \in BOOLEAN, NEW mode \in Modes, SetMode(o, mode, ok)
        PROVE  IInv'
    <3>1. Settable("mode", mode)  BY <2>8 DEF SetMode, Settable, Fields
    <3> QED  BY <2>8, <3>1, SetInv DEF SetMode
  <2>9. ASSUME NEW d \in Devices, Plug(d) \/ Enable(d) PROVE IInv'
        BY <2>9, EnvironmentInv DEF Plug, Enable, IInv, TypeOK
  <2> QED  BY <1>2, <2>1, <2>2, <2>3, <2>4, <2>5, <2>6, <2>7, <2>8, <2>9 DEF Next
<1> QED  BY <1>1, <1>2

LEMMA Invariance == Spec => []IInv
<1>1. Init => IInv  BY InitInv, BondEditAssumption
<1>2. IInv /\ [Next]_vars => IInv'  BY NextInv, BondEditAssumption
<1> QED  BY <1>1, <1>2, PTL DEF Spec

-----------------------------------------------------------------------------
\* Every state of the editing interface is well typed (add_configured_interface,
\* the setters of a bond).
THEOREM BondEditTypes == Spec => []TypeOK
<1>1. IInv => TypeOK  BY DEF IInv
<1> QED  BY <1>1, Invariance, PTL

\* A client with one object of each bond never gets an interface into two bonds
\* (SCBondInterfaceSetMemberInterfaces and what it takes for available).
THEOREM TidyIsExclusive == Spec => []ExclusiveIfTidy
<1>1. IInv => ExclusiveIfTidy  BY DEF IInv
<1> QED  BY <1>1, Invariance, PTL

\* Its objects tell what is stored, whichever call failed (the setters change
\* the stored bond and the object, or neither).
THEOREM TidyIsInStep == Spec => []InStep
<1>1. IInv => InStep  BY DEF IInv
<1> QED  BY <1>1, Invariance, PTL

-----------------------------------------------------------------------------
(* Action properties. *)

\* What two dictionaries that differ in one field are counted for.
LEMMA OneField ==
    ASSUME NEW d \in Dictionaries, NEW e \in Dictionaries, NEW field,
           \A f \in Fields : f # field => d[f] = e[f]
    PROVE  Cardinality({f \in DOMAIN Fresh : d[f] # e[f]}) <= 1
<1> DEFINE S == {f \in DOMAIN Fresh : d[f] # e[f]}
<1>1. S \subseteq {field}  BY DEF Fresh, Fields
<1>2. CASE S = {}
  <2>1. Cardinality(S) = 0  BY <1>2, FS_EmptySet
  <2> QED  BY <2>1
<1>3. CASE S = {field}
  <2>1. Cardinality(S) = 1  BY <1>3, FS_Singleton
  <2> QED  BY <2>1
<1> QED  BY <1>1, <1>2, <1>3

ChangesOneValue ==
    /\ \A k \in DOMAIN stored \cap DOMAIN stored' :
            Cardinality({f \in DOMAIN Fresh : stored[k][f] # stored'[k][f]}) <= 1
    /\ \A k \in DOMAIN stored' \ DOMAIN stored : stored'[k] = Fresh

TakesNoService ==
    tidy => \A k \in DOMAIN stored \cap DOMAIN stored' :
        (Range(stored'[k].members) \ MembersOf(k)) \cap used = {}

\* A step that keeps what it does not add changes no value and takes nothing.
LEMMA KeptBonds ==
    ASSUME TypeOK, \A k \in DOMAIN stored \cap DOMAIN stored' : stored'[k] = stored[k],
           \A k \in DOMAIN stored' \ DOMAIN stored : stored'[k] = Fresh
    PROVE  ChangesOneValue /\ TakesNoService
<1>1. \A k \in DOMAIN stored \cap DOMAIN stored' :
         {f \in DOMAIN Fresh : stored[k][f] # stored'[k][f]} = {}
      OBVIOUS
<1>2. Cardinality({}) <= 1  BY FS_EmptySet
<1> QED  BY <1>1, <1>2 DEF ChangesOneValue, TakesNoService, MembersOf

LEMMA SetChangesOne ==
    ASSUME IInv, NEW o \in Objects, NEW field, NEW value, NEW ok, Settable(field, value),
           field = "members" => \A i \in 1..Len(value) : Allowed(o, value[i]),
           Set(o, field, value, ok)
    PROVE  ChangesOneValue /\ TakesNoService
<1> DEFINE k == objects[o].bond
           d == With(stored[k], field, value)
<1>1. CASE UNCHANGED stored  BY <1>1, KeptBonds DEF IInv
<1>2. ASSUME k \in DOMAIN stored, stored' = [stored EXCEPT ![k] = d]
      PROVE  ChangesOneValue /\ TakesNoService
  <2>1. stored[k] \in Dictionaries  BY <1>2 DEF IInv, TypeOK
  <2>2. d \in Dictionaries /\ \A f \in Fields : f # field => stored[k][f] = d[f]
        BY <2>1, Changed
  <2>3. Cardinality({f \in DOMAIN Fresh : stored[k][f] # d[f]}) <= 1
        BY <2>1, <2>2, OneField
  <2>4. tidy => (Range(d.members) \ MembersOf(k)) \cap used = {}
    <3>1. CASE field # "members"
          BY <2>1, <3>1, Changed DEF MembersOf
    <3>2. CASE field = "members"
      <4>1. d.members = value /\ Range(value) = {value[i] : i \in 1..Len(value)}
            BY <2>1, <3>2 DEF With, Dictionaries, Settable, Range
      <4>2. tidy => Range(objects[o].info.members) = MembersOf(k)
            BY <2>1, ReadKeeps DEF IInv, InStep, Held, MembersOf, Set
      <4> QED  BY <3>2, <4>1, <4>2 DEF Allowed
    <3> QED  BY <3>1, <3>2
  <2> HIDE DEF d
  <2>5. /\ DOMAIN stored' = DOMAIN stored /\ stored'[k] = d
        /\ \A j \in DOMAIN stored : j # k => stored'[j] = stored[j]
        BY <1>2 DEF IInv, TypeOK
  <2>6. \A j \in DOMAIN stored : j # k =>
           Cardinality({f \in DOMAIN Fresh : stored[j][f] # stored'[j][f]}) <= 1
    <3>1. \A j \in DOMAIN stored : j # k =>
             {f \in DOMAIN Fresh : stored[j][f] # stored'[j][f]} = {}
          BY <2>5
    <3>2. Cardinality({}) <= 1  BY FS_EmptySet
    <3> QED  BY <3>1, <3>2
  <2>7. ChangesOneValue  BY <2>3, <2>5, <2>6 DEF ChangesOneValue
  <2>8. TakesNoService  BY <2>4, <2>5 DEF TakesNoService, MembersOf
  <2> QED  BY <2>7, <2>8
<1> QED  BY <1>1, <1>2 DEF Set, Put, With

LEMMA NextChangesOne ==
    ASSUME BondEditAssumption, IInv, [Next]_vars
    PROVE  ChangesOneValue /\ TakesNoService
<1> TypeOK  BY DEF IInv
<1>1. CASE UNCHANGED vars  BY <1>1, KeptBonds DEF vars
<1>2. CASE Next
  <2>1. ASSUME NEW o \in Objects, \/ \E k \in Bonds : CopyAll(o, k)
                                  \/ Release(o) \/ Remove(o)
        PROVE  ChangesOneValue /\ TakesNoService
        BY <2>1, KeptBonds DEF CopyAll, Release, Remove
  <2>2. ASSUME NEW o \in Objects, NEW ok \in BOOLEAN, Create(o, ok)
        PROVE  ChangesOneValue /\ TakesNoService
        BY <2>2, KeptBonds DEF Create, Unused
  <2>3. ASSUME NEW o \in Objects, NEW ok \in BOOLEAN, NEW members \in Offered,
               SetMemberInterfaces(o, members, ok)
        PROVE  ChangesOneValue /\ TakesNoService
    <3>1. Settable("members", members)  BY DEF Settable, Fields, BondEditAssumption
    <3> QED  BY <2>3, <3>1, SetChangesOne DEF SetMemberInterfaces
  <2>4. ASSUME NEW o \in Objects, NEW ok \in BOOLEAN, NEW name \in Names \cup {None},
               SetLocalizedDisplayName(o, name, ok)
        PROVE  ChangesOneValue /\ TakesNoService
    <3>1. Settable("name", name)  BY DEF Settable, Fields
    <3> QED  BY <2>4, <3>1, SetChangesOne DEF SetLocalizedDisplayName
  <2>5. ASSUME NEW o \in Objects, NEW ok \in BOOLEAN, NEW options \in Options \cup {None},
               SetOptions(o, options, ok)
        PROVE  ChangesOneValue /\ TakesNoService
    <3>1. Settable("options", options)  BY DEF Settable, Fields
    <3> QED  BY <2>5, <3>1, SetChangesOne DEF SetOptions
  <2>6. ASSUME NEW o \in Objects, NEW ok \in BOOLEAN, NEW mode \in Modes, SetMode(o, mode, ok)
        PROVE  ChangesOneValue /\ TakesNoService
    <3>1. Settable("mode", mode)  BY <2>6 DEF SetMode, Settable, Fields
    <3> QED  BY <2>6, <3>1, SetChangesOne DEF SetMode
  <2>7. ASSUME NEW d \in Devices, Plug(d) \/ Enable(d)
        PROVE  ChangesOneValue /\ TakesNoService
        BY <2>7, KeptBonds DEF Plug, Enable
  <2> QED  BY <1>2, <2>1, <2>2, <2>3, <2>4, <2>5, <2>6, <2>7 DEF Next
<1> QED  BY <1>1, <1>2

\* A setter changes one value of one bond, whatever object it goes through, and
\* no removed bond comes back with its values (SCBondInterfaceSetOptions etc.).
THEOREM OneValueAtATime == Spec => OneValue
<1>1. IInv /\ [Next]_vars => [ChangesOneValue]_vars  BY NextChangesOne, BondEditAssumption
<1> QED  BY <1>1, Invariance, PTL DEF Spec, OneValue, ChangesOneValue

\* A tidy client does not put the interface of an enabled service into a bond
\* (the test at BondConfiguration.c:751).
THEOREM ServicesKeepTheirs == Spec => NoServiceTaken
<1>1. IInv /\ [Next]_vars => [TakesNoService]_vars  BY NextChangesOne, BondEditAssumption
<1> QED  BY <1>1, Invariance, PTL DEF Spec, NoServiceTaken, TakesNoService
=============================================================================
