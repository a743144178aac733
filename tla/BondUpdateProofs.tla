-------------------------- MODULE BondUpdateProofs --------------------------
(***************************************************************************)
(* Theorems about BondUpdate, for every set of bonds and interfaces, every *)
(* content of the preferences and any number of faults.                    *)
(***************************************************************************)
EXTENDS BondUpdate, TLAPS

(***************************************************************************)
(* Lists.                                                                  *)
(***************************************************************************)

\* The list that remains when the kernel drops a member: the same members but
\* one, still without repetition.
LEMMA WithoutMembers ==
    ASSUME NEW S, NEW s \in Seq(S), NEW e, Injective(s),
           NEW n \in 1..Len(s), s[n] = e
    PROVE  /\ Without(s, e) \in Seq(S)
           /\ Injective(Without(s, e))
           /\ Elems(Without(s, e)) = Elems(s) \ {e}
<1> DEFINE k == CHOOSE i \in 1..Len(s) : s[i] = e
           w == [i \in 1..(Len(s) - 1) |-> IF i < k THEN s[i] ELSE s[i + 1]]
<1>1. k \in 1..Len(s) /\ s[k] = e
  OBVIOUS
<1>2. Without(s, e) = w
  BY DEF Without
<1>3. Len(s) \in Nat /\ Len(s) - 1 \in Nat
  OBVIOUS
<1> HIDE DEF k
<1>4. \A i \in 1..(Len(s) - 1) : w[i] = IF i < k THEN s[i] ELSE s[i + 1]
  BY DEF w
<1>5. w \in Seq(S) /\ Len(w) = Len(s) - 1
  <2>1. w \in [1..(Len(s) - 1) -> S]
    BY <1>3
  <2>2. QED
    BY <2>1, <1>3
<1> HIDE DEF w
<1>6. Injective(w)
  BY <1>1, <1>3, <1>4, <1>5 DEF Injective
<1>7. Elems(w) \subseteq Elems(s) \ {e}
  <2>1. ASSUME NEW i \in 1..(Len(s) - 1)
        PROVE  w[i] \in Elems(s) \ {e}
    <3>1. i \in 1..Len(s) /\ i + 1 \in 1..Len(s)
      BY <1>3
    <3>2. CASE i < k
      BY <3>1, <3>2, <1>1, <1>3, <1>4 DEF Injective, Elems
    <3>3. CASE ~(i < k)
      BY <3>1, <3>3, <1>1, <1>3, <1>4 DEF Injective, Elems
    <3>4. QED
      BY <3>2, <3>3
  <2>2. QED
    BY <2>1, <1>5 DEF Elems
<1>8. ASSUME NEW j \in 1..Len(s), s[j] # e
      PROVE  s[j] \in Elems(w)
  <2>1. CASE j < k
    <3>1. j \in 1..Len(w) /\ w[j] = s[j]
      BY <2>1, <1>1, <1>3, <1>4, <1>5
    <3>2. QED
      BY <3>1 DEF Elems
  <2>2. CASE j > k
    <3>1. j - 1 \in 1..Len(w) /\ w[j - 1] = s[j]
      BY <2>2, <1>1, <1>3, <1>4, <1>5
    <3>2. QED
      BY <3>1 DEF Elems
  <2>3. QED
    BY <2>1, <2>2, <1>1, <1>8
<1>9. Elems(w) = Elems(s) \ {e}
  BY <1>7, <1>8 DEF Elems
<1>10. QED
  BY <1>2, <1>5, <1>6, <1>9

\* Appending a new member keeps a list free of repetitions.
LEMMA AppendMembers ==
    ASSUME NEW S, NEW s \in Seq(S), NEW e \in S, Injective(s),
           e \notin Elems(s)
    PROVE  /\ Append(s, e) \in Seq(S)
           /\ Injective(Append(s, e))
           /\ Elems(Append(s, e)) = Elems(s) \cup {e}
<1> DEFINE a == Append(s, e)
<1>1. a \in Seq(S) /\ Len(a) = Len(s) + 1 /\ a[Len(s) + 1] = e
  OBVIOUS
<1>2. \A i \in 1..Len(s) : a[i] = s[i]
  OBVIOUS
<1>3. Injective(a)
  BY <1>1, <1>2 DEF Injective, Elems
<1>4. Elems(a) \subseteq Elems(s) \cup {e}
  BY <1>1, <1>2 DEF Elems
<1>5. Elems(s) \subseteq Elems(a) /\ e \in Elems(a)
  BY <1>1, <1>2 DEF Elems
<1>6. QED
  BY <1>1, <1>3, <1>4, <1>5

\* One more position of a list.
LEMMA SliceStep ==
    ASSUME NEW S, NEW s \in Seq(S), NEW i \in 1..Len(s)
    PROVE  /\ Slice(s, i, Len(s)) = {s[i]} \cup Slice(s, i + 1, Len(s))
           /\ Slice(s, 1, i) = Slice(s, 1, i - 1) \cup {s[i]}
  BY DEF Slice

\* A slice that covers the whole list, and one that is empty.
LEMMA SliceEnds ==
    ASSUME NEW S, NEW s \in Seq(S), NEW i \in Nat, i > Len(s)
    PROVE  /\ Slice(s, 1, Len(s)) = Elems(s)
           /\ Slice(s, 1, i - 1) = Elems(s)
           /\ Slice(s, i, Len(s)) = {}
           /\ Slice(s, 1, 0) = {}
  BY DEF Slice, Elems

\* In a list without repetition the rest does not hold the member at hand.
LEMMA SliceRest ==
    ASSUME NEW S, NEW s \in Seq(S), NEW i \in 1..Len(s), Injective(s)
    PROVE  s[i] \notin Slice(s, i + 1, Len(s)) /\ s[i] \notin Slice(s, 1, i - 1)
  BY DEF Slice, Injective

(***************************************************************************)
(* What each ioctl does to the kernel.                                     *)
(***************************************************************************)
Dicts == [Bonds -> BondDict \cup {NoBond}]

\* the kernel's own guarantee, for a value k of the kernel and a set of devices
Sound(k, devices) ==
    /\ k \in Dicts
    /\ Exclusive(k)
    /\ \A b \in Bonds : Members(k[b]) \subseteq devices

\* k is the kernel with bond b changed to list set ms and mode m
Changed(k, b, ms, m) ==
    /\ \A c \in Bonds \ {b} : k[c] = kernel[c]
    /\ k[b] # NoBond /\ Members(k[b]) = ms /\ k[b].mode = m

LEMMA DictFacts ==
    ASSUME NEW s \in Seq(Ifs), NEW m \in Modes
    PROVE  /\ [members |-> s, mode |-> m] \in BondDict
           /\ [members |-> s, mode |-> m] # NoBond
           /\ Members([members |-> s, mode |-> m]) = Elems(s)
  BY BondAssumption DEF BondDict, Members

LEMMA KernelDict ==
    ASSUME kernel \in Dicts, NEW b \in Bonds, kernel[b] # NoBond
    PROVE  /\ kernel[b] \in BondDict
           /\ kernel[b].members \in Seq(Ifs) /\ kernel[b].mode \in Modes
           /\ Members(kernel[b]) = Elems(kernel[b].members)
  BY DEF Dicts, BondDict, Members

\* Replacing one bond's dictionary by one with a fresh list keeps a sound kernel
\* sound if no other bond has its members.
LEMMA ReplaceSound ==
    ASSUME NEW devices, Sound(kernel, devices), NEW b \in Bonds,
           NEW s \in Seq(Ifs), NEW m \in Modes, NEW ms,
           Injective(s), ms = Elems(s), ms \subseteq devices,
           \A c \in Bonds \ {b} : Members(kernel[c]) \cap ms = {}
    PROVE  Sound(WithBond(b, s, m), devices) /\ Changed(WithBond(b, s, m), b, ms, m)
<1> DEFINE d == [members |-> s, mode |-> m]
           k == WithBond(b, s, m)
<1>1. d \in BondDict /\ d # NoBond /\ Members(d) = ms /\ d.members = s /\ d.mode = m
  BY DictFacts
<1>2. k = [kernel EXCEPT ![b] = d]
  BY DEF WithBond
<1> HIDE DEF d, k
<1>3. k \in Dicts /\ k[b] = d /\ \A c \in Bonds \ {b} : k[c] = kernel[c]
  BY <1>1, <1>2 DEF Sound, Dicts
<1>4. \A c \in Bonds : Members(k[c]) \subseteq devices
  BY <1>1, <1>3 DEF Sound
<1>5. \A c \in Bonds : k[c] # NoBond => Injective(k[c].members)
  BY <1>1, <1>3 DEF Sound, Exclusive
<1>6. ASSUME NEW c1 \in Bonds, NEW c2 \in Bonds, c1 # c2
      PROVE  Members(k[c1]) \cap Members(k[c2]) = {}
  <2>1. CASE c1 # b /\ c2 # b
    BY <2>1, <1>6, <1>3 DEF Sound, Exclusive
  <2>2. CASE c1 = b
    BY <2>2, <1>6, <1>1, <1>3
  <2>3. CASE c2 = b
    BY <2>3, <1>6, <1>1, <1>3
  <2>4. QED
    BY <2>1, <2>2, <2>3
<1>7. Sound(k, devices)
  BY <1>3, <1>4, <1>5, <1>6 DEF Sound, Exclusive
<1>8. Changed(k, b, ms, m)
  BY <1>1, <1>3 DEF Changed
<1>9. QED
  BY <1>7, <1>8 DEF k

\* A bond of a sound kernel.
LEMMA SoundBond ==
    ASSUME NEW devices, Sound(kernel, devices), NEW b \in Bonds, kernel[b] # NoBond
    PROVE  /\ kernel[b].members \in Seq(Ifs) /\ kernel[b].mode \in Modes
           /\ Members(kernel[b]) = Elems(kernel[b].members)
           /\ Injective(kernel[b].members)
           /\ Members(kernel[b]) \subseteq devices
           /\ \A c \in Bonds \ {b} : Members(kernel[c]) \cap Members(kernel[b]) = {}
  BY DEF Sound, Dicts, BondDict, Members, Exclusive

\* SIOCSIFBOND, IF_BOND_OP_ADD_INTERFACE
LEMMA AddedSound ==
    ASSUME NEW devices, Sound(kernel, devices), NEW b \in Bonds,
           NEW e \in Ifs \cap devices, CanAdd(b, e)
    PROVE  /\ Sound(Added(b, e), devices)
           /\ Changed(Added(b, e), b, Members(kernel[b]) \cup {e}, kernel[b].mode)
<1> DEFINE s == kernel[b].members
           a == Append(s, e)
           ms == Members(kernel[b]) \cup {e}
<1>1. kernel[b] # NoBond
        /\ \A c \in Bonds : e \notin Members(kernel[c])
  BY DEF CanAdd, Owned
<1>0. /\ s \in Seq(Ifs) /\ kernel[b].mode \in Modes
      /\ Members(kernel[b]) = Elems(s)
      /\ Injective(s)
      /\ Members(kernel[b]) \subseteq devices
      /\ \A c \in Bonds \ {b} : Members(kernel[c]) \cap Members(kernel[b]) = {}
  BY <1>1, SoundBond
<1> HIDE DEF s
<1>2. a \in Seq(Ifs) /\ Injective(a) /\ Elems(a) = ms
  BY <1>0, <1>1, AppendMembers
<1>3. ms \subseteq devices
        /\ \A c \in Bonds \ {b} : Members(kernel[c]) \cap ms = {}
  BY <1>0, <1>1
<1>5. Added(b, e) = WithBond(b, a, kernel[b].mode)
  BY DEF Added, s
<1> HIDE DEF a, ms
<1>6. Sound(Added(b, e), devices) /\ Changed(Added(b, e), b, ms, kernel[b].mode)
  BY <1>0, <1>2, <1>3, <1>5, ReplaceSound
<1>7. QED
  BY <1>6 DEF ms

\* SIOCSIFBOND, IF_BOND_OP_REMOVE_INTERFACE
LEMMA RemovedSound ==
    ASSUME NEW devices, Sound(kernel, devices), NEW b \in Bonds, NEW e, CanRemove(b, e)
    PROVE  /\ Sound(Removed(b, e), devices \ {e})
           /\ Changed(Removed(b, e), b, Members(kernel[b]) \ {e}, kernel[b].mode)
<1> DEFINE s == kernel[b].members
           w == Without(s, e)
           ms == Members(kernel[b]) \ {e}
<1>1. kernel[b] # NoBond /\ e \in Members(kernel[b])
  BY DEF CanRemove, Members
<1>0. /\ s \in Seq(Ifs) /\ kernel[b].mode \in Modes
      /\ Members(kernel[b]) = Elems(s)
      /\ Injective(s)
      /\ Members(kernel[b]) \subseteq devices
      /\ \A c \in Bonds \ {b} : Members(kernel[c]) \cap Members(kernel[b]) = {}
  BY <1>1, SoundBond
<1> HIDE DEF s
<1>2. PICK n \in 1..Len(s) : s[n] = e
  BY <1>0, <1>1 DEF Elems
<1>3. w \in Seq(Ifs) /\ Injective(w) /\ Elems(w) = ms
  BY <1>0, <1>2, WithoutMembers
<1>4. Sound(kernel, devices) /\ ms \subseteq devices \ {e}
        /\ \A c \in Bonds \ {b} : Members(kernel[c]) \cap ms = {}
  BY <1>0
<1>6. Removed(b, e) = WithBond(b, w, kernel[b].mode)
  BY DEF Removed, s
<1>7. \A c \in Bonds \ {b} : e \notin Members(kernel[c])
  BY <1>0, <1>1
<1> HIDE DEF w, ms
<1>8. /\ Sound(Removed(b, e), devices)
      /\ Changed(Removed(b, e), b, ms, kernel[b].mode)
  BY <1>0, <1>3, <1>4, <1>6, ReplaceSound
<1>9. \A c \in Bonds : e \notin Members(Removed(b, e)[c])
  BY <1>7, <1>8 DEF Changed, ms
<1>10. QED
  BY <1>8, <1>9 DEF Sound, ms

\* SIOCSIFBOND, IF_BOND_OP_SET_MODE
LEMMA ModedSound ==
    ASSUME NEW devices, Sound(kernel, devices), NEW b \in Bonds, NEW m \in Modes,
           kernel[b] # NoBond
    PROVE  Sound(Moded(b, m), devices) /\ Changed(Moded(b, m), b, Members(kernel[b]), m)
<1>1. /\ kernel[b].members \in Seq(Ifs)
      /\ Members(kernel[b]) = Elems(kernel[b].members)
      /\ Injective(kernel[b].members)
      /\ Members(kernel[b]) \subseteq devices
      /\ \A c \in Bonds \ {b} : Members(kernel[c]) \cap Members(kernel[b]) = {}
  BY SoundBond
<1>2. QED
  BY <1>1, ReplaceSound DEF Moded

\* SIOCIFCREATE
LEMMA CreatedSound ==
    ASSUME NEW devices, Sound(kernel, devices), NEW b \in Bonds, NEW m \in Modes
    PROVE  Sound(Created(b, m), devices) /\ Changed(Created(b, m), b, {}, m)
<1>1. <<>> \in Seq(Ifs) /\ Injective(<<>>) /\ {} = Elems(<<>>)
  BY DEF Injective, Elems
<1>2. QED
  BY <1>1, ReplaceSound DEF Created

\* SIOCIFDESTROY
LEMMA DestroyedSound ==
    ASSUME NEW devices, Sound(kernel, devices), NEW b \in Bonds
    PROVE  /\ Sound(Destroyed(b), devices)
           /\ Destroyed(b)[b] = NoBond
           /\ \A c \in Bonds \ {b} : Destroyed(b)[c] = kernel[c]
<1>1. Destroyed(b) \in Dicts /\ Destroyed(b)[b] = NoBond
        /\ \A c \in Bonds \ {b} : Destroyed(b)[c] = kernel[c]
  BY DEF Sound, Dicts, Destroyed
<1>2. Members(Destroyed(b)[b]) = {}
  BY <1>1 DEF Members
<1>3. \A c \in Bonds : Members(Destroyed(b)[c]) \subseteq devices
  BY <1>1, <1>2 DEF Sound
<1>4. Exclusive(Destroyed(b))
  BY <1>1, <1>2 DEF Sound, Exclusive
<1>5. QED
  BY <1>1, <1>3, <1>4 DEF Sound

(***************************************************************************)
(* Types, and the kernel's own guarantees.                                 *)
(***************************************************************************)
LEMMA KernelSound ==
    ASSUME TypeOK, KernelOK PROVE Sound(kernel, plugged \cap Capable)
  BY DEF TypeOK, KernelOK, Sound, Dicts

\* a member of a list of the snapshots is an interface
LEMMA ListMember ==
    ASSUME NEW d \in Dicts, NEW b \in Bonds, d[b] # NoBond
    PROVE  /\ d[b].members \in Seq(Ifs) /\ d[b].mode \in Modes
           /\ Members(d[b]) = Elems(d[b].members)
           /\ Len(d[b].members) \in Nat
           /\ \A i \in 1..Len(d[b].members) : d[b].members[i] \in Members(d[b]) \cap Ifs
  BY DEF Dicts, BondDict, Members, Elems

\* Every step of the system leaves a sound kernel behind.
LEMMA KernelStep ==
    ASSUME TypeOK, KernelOK, SnapshotsOK, [Next]_vars
    PROVE  Sound(kernel', plugged' \cap Capable)
<1> DEFINE S == Sound(kernel', plugged' \cap Capable)
           devices == plugged \cap Capable
<1>1. Sound(kernel, devices)
  BY KernelSound
<1>2. ASSUME kernel' = kernel, plugged' = plugged PROVE S
  BY <1>1, <1>2
<1>3. config \in Dicts /\ active \in Dicts /\ cur \in Bonds /\ Capable \subseteq Ifs
  BY BondAssumption DEF TypeOK, Dicts
<1>4. CASE PruneMember
  <2>1. SUFFICES ASSUME kernel' # kernel PROVE S
    BY <1>4, <1>2 DEF PruneMember
  <2>2. PICK e : CanRemove(cur, e) /\ kernel' = Removed(cur, e)
    BY <2>1, <1>4 DEF PruneMember, Ioctl
  <2>3. Sound(Removed(cur, e), devices \ {e})
    BY <2>2, <1>1, <1>3, RemovedSound
  <2>4. QED
    BY <2>2, <2>3, <1>4 DEF PruneMember, Sound
<1>5. CASE Teardown
  <2>1. SUFFICES ASSUME kernel' # kernel PROVE S
    BY <1>5, <1>2 DEF Teardown
  <2>2. PICK e : CanRemove(cur, e) /\ kernel' = Removed(cur, e)
    BY <2>1, <1>5 DEF Teardown, Ioctl
  <2>3. Sound(Removed(cur, e), devices \ {e})
    BY <2>2, <1>1, <1>3, RemovedSound
  <2>4. QED
    BY <2>2, <2>3, <1>5 DEF Teardown, Sound
<1>6. CASE Add
  <2>1. SUFFICES ASSUME kernel' # kernel PROVE S
    BY <1>6, <1>2 DEF Add
  <2>2. PICK e : CanAdd(cur, e) /\ kernel' = Added(cur, e)
    BY <2>1, <1>6 DEF Add, Ioctl
  <2>3. e \in Ifs \cap devices
    BY <2>2, <1>3 DEF CanAdd
  <2>4. Sound(Added(cur, e), devices)
    BY <2>2, <2>3, <1>1, <1>3, AddedSound
  <2>5. QED
    BY <2>2, <2>4, <1>6 DEF Add
<1>7. CASE Destroy
  <2>1. SUFFICES ASSUME kernel' # kernel PROVE S
    BY <1>7, <1>2 DEF Destroy
  <2>2. kernel' = Destroyed(cur)
    BY <2>1, <1>7 DEF Destroy, Ioctl
  <2>3. Sound(Destroyed(cur), devices)
    BY <1>1, <1>3, DestroyedSound
  <2>4. QED
    BY <2>2, <2>3, <1>7 DEF Destroy
<1>8. CASE Change \/ NewMode
  <2>1. SUFFICES ASSUME kernel' # kernel PROVE S
    BY <1>8, <1>2 DEF Change, NewMode
  <2>2. kernel' = Moded(cur, config[cur].mode) /\ kernel[cur] # NoBond
    BY <2>1, <1>8 DEF Change, NewMode, Ioctl
  <2>3. config[cur].mode \in Modes
    BY <1>3, <1>8, ListMember DEF SnapshotsOK, Change, NewMode
  <2>4. Sound(Moded(cur, config[cur].mode), devices)
    BY <2>2, <2>3, <1>1, <1>3, ModedSound
  <2>5. QED
    BY <2>2, <2>4, <1>8 DEF Change, NewMode
<1>9. CASE Create
  <2>1. SUFFICES ASSUME kernel' # kernel PROVE S
    BY <1>9, <1>2 DEF Create
  <2>2. PICK m \in Modes : kernel' = Created(cur, m)
    BY <2>1, <1>9 DEF Create, Ioctl
  <2>3. Sound(Created(cur, m), devices)
    BY <1>1, <1>3, CreatedSound
  <2>4. QED
    BY <2>2, <2>3, <1>9 DEF Create
<1>10. ASSUME NEW e \in Ifs, Unplug(e) PROVE S
  <2>1. CASE \A b \in Bonds : e \notin Members(kernel[b])
    <3>1. kernel' = kernel
      BY <2>1, <1>10 DEF Unplug, TypeOK
    <3>2. QED
      BY <3>1, <2>1, <1>1, <1>10 DEF Unplug, Sound
  <2>2. CASE \E b \in Bonds : e \in Members(kernel[b])
    <3>1. PICK b \in Bonds : CanRemove(b, e)
      BY <2>2 DEF CanRemove
    <3>2. \A c \in Bonds \ {b} : e \notin Members(kernel[c])
      BY <3>1, <1>1 DEF Sound, Exclusive, CanRemove
    <3>3. kernel' = Removed(b, e)
      BY <3>1, <3>2, <1>10 DEF Unplug, Removed, WithBond, CanRemove, TypeOK
    <3>4. Sound(Removed(b, e), devices \ {e})
      BY <3>1, <1>1, RemovedSound
    <3>5. QED
      BY <3>3, <3>4, <1>10 DEF Unplug, Sound
  <2>3. QED
    BY <2>1, <2>2
<1>11. ASSUME NEW e \in Ifs, Plug(e) PROVE S
  BY <1>1, <1>11 DEF Plug, Sound
<1>12. CASE Outside
  <2>1. CASE \E b \in Bonds : kernel' = Destroyed(b)
    BY <2>1, <1>1, <1>12, DestroyedSound DEF Outside
  <2>2. CASE \E b \in Bonds, e \in Ifs : CanAdd(b, e) /\ kernel' = Added(b, e)
    <3>1. PICK b \in Bonds, e \in Ifs : CanAdd(b, e) /\ kernel' = Added(b, e)
      BY <2>2
    <3>2. Sound(Added(b, e), devices)
      BY <3>1, <1>1, AddedSound DEF CanAdd
    <3>3. QED
      BY <3>1, <3>2, <1>12 DEF Outside
  <2>3. QED
    BY <2>1, <2>2, <1>12 DEF Outside
<1>13. CASE CopyAll \/ CopyActive \/ Prune \/ Apply \/ OpenSocket \/ Return
              \/ Edit \/ Crash \/ UNCHANGED vars
  BY <1>13, <1>2 DEF CopyAll, CopyActive, Prune, Apply, OpenSocket, Return, Edit,
     Crash, vars
<1>14. QED
  BY <1>4, <1>5, <1>6, <1>7, <1>8, <1>9, <1>10, <1>11, <1>12, <1>13
     DEF Next, Update, Environment

\* the preferences hold dictionaries
LEMMA StoredDicts == Stored \subseteq BondDict \cup {NoBond}
  BY BondAssumption DEF Stored, BondDict

\* Types and the snapshots' part of the invariant.
Inv1 == TypeOK /\ KernelOK /\ SnapshotsOK

\* the types of everything but the kernel
Data ==
    /\ prefs  \in Dicts /\ config \in Dicts /\ active \in Dicts
    /\ plugged \subseteq Ifs /\ usable \subseteq Ifs
    /\ pc \in Labels
    /\ todo \subseteq Bonds /\ cur \in Bonds /\ idx \in Nat \ {0}
    /\ events \in 0..MaxEvents

Flags ==
    /\ gone \in BOOLEAN /\ sock \in BOOLEAN /\ ok \in BOOLEAN
    /\ calm \in BOOLEAN /\ faulty \in BOOLEAN

LEMMA Init1 == Init => Inv1
<1> SUFFICES ASSUME Init PROVE Inv1
  OBVIOUS
<1>1. kernel \in Dicts /\ Data
  BY StoredDicts, BondAssumption DEF Init, Data, NoBonds, Labels, Dicts
<1>2. Flags
  BY Zenon DEF Init, Flags
<1>3. TypeOK
  BY <1>1, <1>2 DEF TypeOK, Data, Flags, Dicts
<1>4. KernelOK
  BY DEF Init, KernelOK, NoBonds, Exclusive, Members
<1>5. SnapshotsOK
  BY DEF Init, SnapshotsOK, FirstPass, SecondPass
<1>6. QED
  BY <1>3, <1>4, <1>5 DEF Inv1

LEMMA FlagStep ==
    ASSUME TypeOK, [Next]_vars PROVE Flags'
<1>1. Flags
  BY DEF TypeOK, Flags
<1>2. CASE PruneMember
  BY <1>1, <1>2, Zenon DEF Flags, PruneMember, Ioctl, Fault
<1>3. CASE Add
  BY <1>1, <1>3, Zenon DEF Flags, Add, Ioctl, Fault
<1>4. CASE Teardown
  BY <1>1, <1>4, Zenon DEF Flags, Teardown, Ioctl, Fault
<1>5. CASE Destroy
  BY <1>1, <1>5, Zenon DEF Flags, Destroy, Ioctl, Fault, loopVars
<1>6. CASE Create
  BY <1>1, <1>6, Zenon DEF Flags, Create, Ioctl, Fault, loopVars
<1>7. CASE Change
  BY <1>1, <1>7, Zenon DEF Flags, Change, Ioctl, Fault
<1>8. CASE NewMode
  BY <1>1, <1>8, Zenon DEF Flags, NewMode, Ioctl, Fault
<1>9. CASE CopyAll \/ CopyActive \/ Prune \/ Apply \/ OpenSocket
  BY <1>1, <1>9, Zenon DEF Flags, CopyAll, CopyActive, Prune, Apply, OpenSocket,
     Fault, snapVars, loopVars
<1>10. CASE Return \/ Crash
  BY <1>10, Zenon DEF Flags, Return, Crash, Forget
<1>11. CASE Edit \/ Outside \/ (\E e \in Ifs : Unplug(e) \/ Plug(e)) \/ UNCHANGED vars
  BY <1>1, <1>11, Zenon DEF Flags, Edit, Outside, Unplug, Plug, vars, loopVars
<1>12. QED
  BY <1>2, <1>3, <1>4, <1>5, <1>6, <1>7, <1>8, <1>9, <1>10, <1>11
     DEF Next, Update, Environment

LEMMA DataStep ==
    ASSUME TypeOK, [Next]_vars PROVE Data'
<1> USE BondAssumption
<1>1. Data
  BY DEF TypeOK, Data, Dicts
<1>2. /\ kernel \in Dicts /\ NoBonds \in Dicts
      /\ \A b \in Bonds : [kernel EXCEPT ![b] = NoBond] \in Dicts
  BY DEF TypeOK, Dicts, NoBonds
<1>3. CASE CopyAll \/ CopyActive \/ Prune \/ Apply
  <2>1. CASE CopyAll
    BY <1>1, <2>1 DEF Data, CopyAll, Labels, loopVars
  <2>2. CASE CopyActive
    <3>1. active' \in Dicts
      BY <1>2, <2>2 DEF CopyActive, NoBonds
    <3>2. events' \in 0..MaxEvents
      BY <1>1, <2>2 DEF Data, CopyActive
    <3>3. QED
      BY <1>1, <2>2, <3>1, <3>2 DEF Data, CopyActive, Labels
  <2>3. CASE Prune
    BY <1>1, <2>3 DEF Data, Prune, Labels, snapVars
  <2>4. CASE Apply
    BY <1>1, <2>4 DEF Data, Apply, Labels, snapVars
  <2>5. QED
    BY <1>3, <2>1, <2>2, <2>3, <2>4
<1>4. CASE PruneMember
  BY <1>1, <1>4 DEF Data, PruneMember, Ioctl, Fault, snapVars, Labels
<1>5. CASE Teardown
  BY <1>1, <1>5 DEF Data, Teardown, Ioctl, Fault, snapVars, Labels
<1>6. CASE Add
  BY <1>1, <1>6 DEF Data, Add, Ioctl, Fault, snapVars, Labels
<1>7. CASE Destroy
  BY <1>1, <1>7 DEF Data, Destroy, Ioctl, Fault, snapVars, loopVars, Labels
<1>8. CASE Create
  BY <1>1, <1>8 DEF Data, Create, Ioctl, Fault, snapVars, loopVars, Labels
<1>9. CASE Change
  BY <1>1, <1>9 DEF Data, Change, Ioctl, Fault, snapVars, Labels
<1>10. CASE NewMode
  BY <1>1, <1>10 DEF Data, NewMode, Ioctl, Fault, snapVars, Labels
<1>11. CASE OpenSocket \/ Return \/ Crash
  BY <1>1, <1>2, <1>11 DEF Data, OpenSocket, Return, Crash, Forget, Event, Fault,
     snapVars, loopVars, Labels
<1>12. CASE Edit
  BY <1>1, <1>12, StoredDicts DEF Data, Edit, Event, snapVars, loopVars, Dicts
<1>13. CASE Outside
  BY <1>1, <1>13 DEF Data, Outside, Event, snapVars, loopVars
<1>14. CASE \E e \in Ifs : Unplug(e) \/ Plug(e)
  BY <1>1, <1>14 DEF Data, Unplug, Plug, Event, snapVars, loopVars
<1>15. CASE UNCHANGED vars
  BY <1>1, <1>15 DEF Data, vars, snapVars, loopVars
<1>16. QED
  BY <1>3, <1>4, <1>5, <1>6, <1>7, <1>8, <1>9, <1>10, <1>11, <1>12, <1>13,
     <1>14, <1>15 DEF Next, Update, Environment

\* The snapshots stay the right ones for the bonds at hand.
LEMMA SnapshotStep ==
    ASSUME Inv1, [Next]_vars
    PROVE  SnapshotsOK' /\ (\A b \in Bonds : active'[b] # NoBond => Injective(active'[b].members))
<1> USE DEF Inv1, FirstPass, SecondPass, Between, SnapshotsOK
<1> DEFINE A == \A b \in Bonds : active'[b] # NoBond => Injective(active'[b].members)
<1>1. CASE CopyActive
  <2>1. A
    BY <1>1 DEF CopyActive, KernelOK, Exclusive, TypeOK
  <2>2. QED
    BY <1>1, <2>1 DEF CopyActive
<1>2. CASE CopyAll \/ Prune \/ Apply
  BY <1>2 DEF CopyAll, Prune, Apply, snapVars, loopVars, KernelOK, TypeOK
<1>3. CASE PruneMember \/ Teardown \/ Add
  BY <1>3 DEF PruneMember, Teardown, Add, snapVars, KernelOK
<1>4. CASE Destroy \/ Change \/ Create \/ NewMode \/ OpenSocket
  BY <1>4 DEF Destroy, Change, Create, NewMode, OpenSocket, snapVars, loopVars, KernelOK
<1>5. CASE Return \/ Crash
  BY <1>5 DEF Return, Crash, Forget, NoBonds
<1>6. CASE Edit \/ Outside \/ UNCHANGED vars \/ \E e \in Ifs : Unplug(e) \/ Plug(e)
  BY <1>6 DEF Edit, Outside, Unplug, Plug, vars, snapVars, loopVars, KernelOK
<1>7. QED
  BY <1>1, <1>2, <1>3, <1>4, <1>5, <1>6 DEF Next, Update, Environment

LEMMA Step1 == Inv1 /\ [Next]_vars => Inv1'
<1> SUFFICES ASSUME Inv1, [Next]_vars PROVE Inv1'
  OBVIOUS
<1>1. Sound(kernel', plugged' \cap Capable)
  BY KernelStep DEF Inv1
<1>2. Flags' /\ Data'
  BY FlagStep, DataStep DEF Inv1
<1>3. SnapshotsOK' /\ (\A b \in Bonds : active'[b] # NoBond => Injective(active'[b].members))
  BY SnapshotStep
<1>4. TypeOK'
  BY <1>1, <1>2 DEF TypeOK, Flags, Data, Sound, Dicts
<1>5. KernelOK'
  BY <1>1, <1>3 DEF KernelOK, Sound, Exclusive
<1>6. QED
  BY <1>3, <1>4, <1>5 DEF Inv1

\* The variables keep their types, and no interface ever is in two bonds or in
\* one bond twice, whatever fails.
THEOREM BondTypes == Spec => [](TypeOK /\ KernelOK /\ SnapshotsOK)
<1>1. Spec => []Inv1
  BY Init1, Step1, PTL DEF Spec
<1>2. QED
  BY <1>1, PTL DEF Inv1

(***************************************************************************)
(* What each action does: its ioctl is done, or it is refused or fails and *)
(* the result is FALSE, or it fails without that.                          *)
(***************************************************************************)
Working == \/ PruneMember \/ Teardown \/ Add \/ Destroy \/ Create \/ Change \/ NewMode

Fixed ==
    /\ prefs' = prefs /\ plugged' = plugged /\ todo' = todo /\ cur' = cur
    /\ config' = config /\ usable' = usable /\ active' = active

\* nothing is forgotten, reported or not
Recorded == (calm' => calm) /\ (ok' => ok) /\ (~faulty' => ~faulty)

LEMMA WorkingEffect == ASSUME Working PROVE Fixed /\ Recorded
<1>1. CASE PruneMember
  <2>1. Fixed
    BY <1>1, Zenon DEF PruneMember, Fixed, snapVars
  <2>2. calm' => calm
    BY <1>1, Zenon DEF PruneMember, Ioctl
  <2>3. ok' => ok
    BY <1>1, Zenon DEF PruneMember, Ioctl
  <2>4. ~faulty' => ~faulty
    BY <1>1, Zenon DEF PruneMember, Ioctl, Fault
  <2>5. QED
    BY <2>1, <2>2, <2>3, <2>4 DEF Recorded
<1>2. CASE Teardown
  <2>1. Fixed
    BY <1>2, Zenon DEF Teardown, Fixed, snapVars
  <2>2. calm' => calm
    BY <1>2, Zenon DEF Teardown, Ioctl
  <2>3. ok' => ok
    BY <1>2, Zenon DEF Teardown, Ioctl
  <2>4. ~faulty' => ~faulty
    BY <1>2, Zenon DEF Teardown, Ioctl, Fault
  <2>5. QED
    BY <2>1, <2>2, <2>3, <2>4 DEF Recorded
<1>3. CASE Add
  <2>1. Fixed
    BY <1>3, Zenon DEF Add, Fixed, snapVars
  <2>2. calm' => calm
    BY <1>3, Zenon DEF Add, Ioctl
  <2>3. ok' => ok
    BY <1>3, Zenon DEF Add, Ioctl
  <2>4. ~faulty' => ~faulty
    BY <1>3, Zenon DEF Add, Ioctl, Fault
  <2>5. QED
    BY <2>1, <2>2, <2>3, <2>4 DEF Recorded
<1>4. CASE Destroy
  <2>1. Fixed
    BY <1>4, Zenon DEF Destroy, Fixed, snapVars, loopVars
  <2>2. calm' => calm
    BY <1>4, Zenon DEF Destroy, Ioctl
  <2>3. ok' => ok
    BY <1>4, Zenon DEF Destroy, Ioctl
  <2>4. ~faulty' => ~faulty
    BY <1>4, Zenon DEF Destroy, Ioctl, Fault
  <2>5. QED
    BY <2>1, <2>2, <2>3, <2>4 DEF Recorded
<1>5. CASE Create
  <2>1. Fixed
    BY <1>5, Zenon DEF Create, Fixed, snapVars, loopVars
  <2>2. calm' => calm
    BY <1>5, Zenon DEF Create, Ioctl
  <2>3. ok' => ok
    BY <1>5, Zenon DEF Create, Ioctl
  <2>4. ~faulty' => ~faulty
    BY <1>5, Zenon DEF Create, Ioctl, Fault
  <2>5. QED
    BY <2>1, <2>2, <2>3, <2>4 DEF Recorded
<1>6. CASE Change
  <2>1. Fixed
    BY <1>6, Zenon DEF Change, Fixed, snapVars
  <2>2. calm' => calm
    BY <1>6, Zenon DEF Change, Ioctl
  <2>3. ok' => ok
    BY <1>6, Zenon DEF Change, Ioctl
  <2>4. ~faulty' => ~faulty
    BY <1>6, Zenon DEF Change, Ioctl, Fault
  <2>5. QED
    BY <2>1, <2>2, <2>3, <2>4 DEF Recorded
<1>7. CASE NewMode
  <2>1. Fixed
    BY <1>7, Zenon DEF NewMode, Fixed, snapVars
  <2>2. calm' => calm
    BY <1>7, Zenon DEF NewMode, Ioctl
  <2>3. ok' => ok
    BY <1>7, Zenon DEF NewMode, Ioctl
  <2>4. ~faulty' => ~faulty
    BY <1>7, Zenon DEF NewMode, Ioctl, Fault
  <2>5. QED
    BY <2>1, <2>2, <2>3, <2>4 DEF Recorded
<1>8. QED
  BY <1>1, <1>2, <1>3, <1>4, <1>5, <1>6, <1>7 DEF Working

LEMMA PruneMemberDone ==
    ASSUME PruneMember, ok'
    PROVE  /\ pc = "pruneMember"
           /\ \/ idx > Len(active[cur].members) /\ pc' = "prune" /\ kernel' = kernel
              \/ /\ idx <= Len(active[cur].members)
                 /\ pc' = "pruneMember" /\ idx' = idx + 1
                 /\ \/ (Configured(active[cur].members[idx])) /\ kernel' = kernel
                    \/ /\ ~Configured(active[cur].members[idx])
                       /\ CanRemove(cur, active[cur].members[idx])
                       /\ kernel' = Removed(cur, active[cur].members[idx])
  BY Zenon DEF PruneMember, Ioctl

LEMMA PruneMemberFails ==
    ASSUME PruneMember, ok, ~ok', ~faulty'
    PROVE  /\ pc = "pruneMember" /\ idx <= Len(active[cur].members)
           /\ ~Configured(active[cur].members[idx])
           /\ ~CanRemove(cur, active[cur].members[idx])
  BY Zenon DEF PruneMember, Ioctl, Fault

LEMMA TeardownDone ==
    ASSUME Teardown, ok'
    PROVE  /\ pc = "teardown"
           /\ \/ idx > Len(active[cur].members) /\ pc' = "add" /\ idx' = 1
                 /\ gone' /\ kernel' = kernel
              \/ /\ idx <= Len(active[cur].members)
                 /\ pc' = "teardown" /\ idx' = idx + 1
                 /\ \/ (~Configured(active[cur].members[idx])) /\ kernel' = kernel
                    \/ /\ Configured(active[cur].members[idx])
                       /\ CanRemove(cur, active[cur].members[idx])
                       /\ kernel' = Removed(cur, active[cur].members[idx])
  BY Zenon DEF Teardown, Ioctl

LEMMA TeardownFails ==
    ASSUME Teardown, ok, ~ok', ~faulty'
    PROVE  /\ pc = "teardown" /\ idx <= Len(active[cur].members)
           /\ Configured(active[cur].members[idx])
           /\ ~CanRemove(cur, active[cur].members[idx])
  BY Zenon DEF Teardown, Ioctl, Fault

LEMMA AddDone ==
    ASSUME Add, ok'
    PROVE  /\ pc = "add" /\ gone' = gone
           /\ \/ idx > Len(config[cur].members) /\ pc' = "apply" /\ kernel' = kernel
              \/ /\ idx <= Len(config[cur].members)
                 /\ pc' = "add" /\ idx' = idx + 1
                 /\ \/ (~Missing(config[cur].members[idx]) \/ config[cur].members[idx] \notin usable) /\ kernel' = kernel
                    \/ /\ Missing(config[cur].members[idx]) /\ config[cur].members[idx] \in usable
                       /\ CanAdd(cur, config[cur].members[idx])
                       /\ kernel' = Added(cur, config[cur].members[idx])
  BY Zenon DEF Add, Ioctl

LEMMA AddFails ==
    ASSUME Add, ok, ~ok', ~faulty'
    PROVE  /\ pc = "add" /\ idx <= Len(config[cur].members)
           /\ Missing(config[cur].members[idx]) /\ config[cur].members[idx] \in usable
           /\ ~CanAdd(cur, config[cur].members[idx])
  BY Zenon DEF Add, Ioctl, Fault

LEMMA DestroyDone ==
    ASSUME Destroy, ok'
    PROVE  pc = "destroy" /\ pc' = "prune" /\ kernel' = Destroyed(cur)
  BY Zenon DEF Destroy, Ioctl

LEMMA DestroyFails ==
    ASSUME Destroy, ok, ~ok', ~faulty'
    PROVE  pc = "destroy" /\ kernel[cur] = NoBond
  BY Zenon DEF Destroy, Ioctl, Fault

LEMMA CreateDone ==
    ASSUME Create, ok'
    PROVE  /\ pc = "create" /\ kernel[cur] = NoBond
           /\ \E m \in Modes : kernel' = Created(cur, m)
           /\ kernel' # kernel => pc' = "newMode"
<1>1. pc = "create" /\ (kernel' # kernel => pc' = "newMode")
  BY DEF Create
<1>2. kernel[cur] = NoBond /\ \E m \in Modes : kernel' = Created(cur, m)
  BY Zenon DEF Create, Ioctl
<1>3. QED
  BY <1>1, <1>2

LEMMA CreateFails ==
    ASSUME Create, ok, ~ok', ~faulty'
    PROVE  pc = "create" /\ kernel[cur] # NoBond
  BY Zenon DEF Create, Ioctl, Fault

\* A failed change of the mode does not clear ok, but calm.
LEMMA ChangeDone ==
    ASSUME Change, calm'
    PROVE  /\ pc = "change"
           /\ idx' = 1 /\ gone' = (active[cur].members = <<>>)
           /\ \/ /\ ModeChange /\ kernel[cur] # NoBond
                 /\ kernel' = Moded(cur, config[cur].mode)
              \/ ~ModeChange /\ kernel' = kernel
  BY Zenon DEF Change, Ioctl

LEMMA NewModeDone ==
    ASSUME NewMode, calm'
    PROVE  /\ pc = "newMode" /\ pc' = "add" /\ idx' = 1 /\ gone' = TRUE
           /\ kernel[cur] # NoBond /\ kernel' = Moded(cur, config[cur].mode)
  BY Zenon DEF NewMode, Ioctl

LEMMA ModeNeverFails ==
    ASSUME Change \/ NewMode, ok PROVE ok'
  BY Zenon DEF Change, NewMode, Ioctl

(***************************************************************************)
(* The progress of an update that nothing disturbs.                        *)
(***************************************************************************)

\* Bonds other than the current one stay what they were.
LEMMA Frame ==
    ASSUME Fixed, NEW b \in Bonds, kernel'[b] = kernel[b]
    PROVE  /\ Intact(b) => Intact(b)'
           /\ Pruned(b) => Pruned(b)'
           /\ InSyncBond(b) => InSyncBond(b)'
  BY DEF Fixed, Intact, Pruned, InSyncBond

\* A step inside the work on one bond: only the current bond's part is to show.
LEMMA FrameProgress ==
    ASSUME Inv1, Progress, Fixed,
           pc \in FirstPass \cup SecondPass, pc' \in FirstPass \cup SecondPass,
           (pc \in FirstPass) = (pc' \in FirstPass),
           pc \notin Between, CurProgress',
           \A c \in Bonds \ {cur} : kernel'[c] = kernel[c],
           pc' = "prune" => Pruned(cur)',
           pc' = "apply" => InSyncBond(cur)'
    PROVE  Progress'
<1> USE DEF FirstPass, SecondPass, Between
<1>1. cur \notin todo /\ cur \in Bonds
  BY DEF Inv1, SnapshotsOK, TypeOK
<1>2. /\ \A b \in Bonds \ {cur} : Intact(b) => Intact(b)'
      /\ \A b \in Bonds \ {cur} : Pruned(b) => Pruned(b)'
      /\ \A b \in Bonds \ {cur} : InSyncBond(b) => InSyncBond(b)'
  BY Frame
<1>3. OthersProgress'
  BY <1>1, <1>2 DEF Progress, OthersProgress, Fixed
<1>5. QED
  BY <1>3 DEF Progress, Fixed

\* The lists of the bond at hand.
LEMMA CurLists ==
    ASSUME Inv1
    PROVE  /\ cur \in Bonds /\ idx \in Nat \ {0}
           /\ kernel \in Dicts /\ config \in Dicts /\ active \in Dicts
           /\ Sound(kernel, plugged \cap Capable)
           /\ active[cur] # NoBond =>
                 /\ active[cur].members \in Seq(Ifs) /\ Injective(active[cur].members)
                 /\ Members(active[cur]) = Elems(active[cur].members)
                 /\ Len(active[cur].members) \in Nat
           /\ config[cur] # NoBond =>
                 /\ config[cur].members \in Seq(Ifs) /\ config[cur].mode \in Modes
                 /\ Members(config[cur]) = Elems(config[cur].members)
                 /\ Len(config[cur].members) \in Nat
<1>1. cur \in Bonds /\ idx \in Nat \ {0}
        /\ kernel \in Dicts /\ config \in Dicts /\ active \in Dicts
  BY DEF Inv1, TypeOK, Dicts
<1>2. active[cur] # NoBond => Injective(active[cur].members)
  BY <1>1 DEF Inv1, KernelOK
<1>3. QED
  BY <1>1, <1>2, KernelSound, ListMember DEF Inv1

\* The position of a loop over a list that is not at its end.
LEMMA Position ==
    ASSUME NEW s \in Seq(Ifs), idx \in Nat \ {0}, idx <= Len(s)
    PROVE  /\ idx \in 1..Len(s) /\ s[idx] \in Elems(s)
           /\ Slice(s, idx, Len(s)) = {s[idx]} \cup Slice(s, idx + 1, Len(s))
           /\ Slice(s, 1, (idx + 1) - 1) = Slice(s, 1, idx - 1) \cup {s[idx]}
           /\ Injective(s) => /\ s[idx] \notin Slice(s, idx + 1, Len(s))
                              /\ s[idx] \notin Slice(s, 1, idx - 1)
<1>1. idx \in 1..Len(s) /\ (idx + 1) - 1 = idx
  OBVIOUS
<1>2. s[idx] \in Elems(s)
  BY <1>1 DEF Elems
<1>3. QED
  BY <1>1, <1>2, SliceStep, SliceRest

LEMMA PruneMemberProgress ==
    ASSUME Inv1, Progress, PruneMember, ok'
    PROVE  Progress'
<1> DEFINE a == active[cur].members
           e == a[idx]
           both == Members(active[cur]) \cap Members(config[cur])
<1>1. Fixed
  BY WorkingEffect DEF Working
<1>2. pc = "pruneMember"
  BY PruneMemberDone
<1>3. active[cur] # NoBond /\ config[cur] # NoBond
  BY <1>2 DEF Inv1, SnapshotsOK, FirstPass, SecondPass, Between
<1>4. /\ kernel[cur] # NoBond /\ kernel[cur].mode = active[cur].mode
      /\ Members(kernel[cur]) = Slice(a, idx, Len(a)) \cup both
  BY <1>2 DEF Progress, CurProgress
<1>5. /\ a \in Seq(Ifs) /\ Injective(a) /\ Len(a) \in Nat /\ idx \in Nat \ {0}
      /\ Members(active[cur]) = Elems(a)
  BY <1>3, CurLists
<1>6. CASE idx > Len(a)
  <2>1. pc' = "prune" /\ kernel' = kernel
    BY <1>6, <1>5, PruneMemberDone
  <2>2. Members(kernel[cur]) = both
    BY <1>4, <1>5, <1>6, SliceEnds
  <2>3. Pruned(cur)'
    BY <2>1, <2>2, <1>1, <1>3, <1>4 DEF Pruned, Fixed
  <2>4. CurProgress'
    BY <2>1 DEF CurProgress
  <2>5. QED
    BY <2>1, <2>3, <2>4, <1>1, <1>2, FrameProgress DEF FirstPass, SecondPass, Between
<1>7. CASE idx <= Len(a)
  <2>1. pc' = "pruneMember" /\ idx' = idx + 1
    BY <1>7, <1>5, PruneMemberDone
  <2>2. /\ Slice(a, idx, Len(a)) = {e} \cup Slice(a, idx + 1, Len(a))
        /\ e \notin Slice(a, idx + 1, Len(a)) /\ e \in Members(active[cur])
    BY <1>7, <1>5, Position
  <2>3. CASE Configured(e)
    <3>1. kernel' = kernel
      BY <2>3, <1>7, <1>5, PruneMemberDone
    <3>2. Members(kernel[cur]) = Slice(a, idx + 1, Len(a)) \cup both
      BY <2>2, <2>3, <1>4 DEF Configured
    <3>3. CurProgress'
      BY <3>1, <3>2, <2>1, <1>1, <1>4 DEF CurProgress, Fixed
    <3>4. QED
      BY <3>1, <3>3, <2>1, <1>1, <1>2, FrameProgress DEF FirstPass, SecondPass, Between
  <2>4. CASE ~Configured(e)
    <3>1. CanRemove(cur, e) /\ kernel' = Removed(cur, e)
      BY <2>4, <1>7, <1>5, PruneMemberDone
    <3>2. Changed(kernel', cur, Members(kernel[cur]) \ {e}, kernel[cur].mode)
      BY <3>1, CurLists, RemovedSound
    <3>3. Members(kernel[cur]) \ {e} = Slice(a, idx + 1, Len(a)) \cup both
      BY <2>2, <2>4, <1>4 DEF Configured
    <3>4. CurProgress'
      BY <3>2, <3>3, <2>1, <1>1, <1>4 DEF CurProgress, Changed, Fixed
    <3>5. QED
      BY <3>2, <3>4, <2>1, <1>1, <1>2, FrameProgress
         DEF FirstPass, SecondPass, Between, Changed
  <2>5. QED
    BY <2>3, <2>4
<1>8. QED
  BY <1>5, <1>6, <1>7

LEMMA DestroyProgress ==
    ASSUME Inv1, Progress, Destroy, ok'
    PROVE  Progress'
<1>1. Fixed
  BY WorkingEffect DEF Working
<1>2. pc = "destroy" /\ pc' = "prune" /\ kernel' = Destroyed(cur)
  BY DestroyDone
<1>3. /\ kernel'[cur] = NoBond
      /\ \A c \in Bonds \ {cur} : kernel'[c] = kernel[c]
  BY <1>2, CurLists, DestroyedSound
<1>4. config[cur] = NoBond
  BY <1>2 DEF Inv1, SnapshotsOK
<1>5. Pruned(cur)'
  BY <1>1, <1>3, <1>4 DEF Pruned, Fixed
<1>6. CurProgress'
  BY <1>2 DEF CurProgress
<1>7. QED
  BY <1>1, <1>2, <1>3, <1>5, <1>6, FrameProgress DEF FirstPass, SecondPass, Between

LEMMA ChangeProgress ==
    ASSUME Inv1, Progress, Change, calm'
    PROVE  Progress'
<1> DEFINE a == active[cur].members
           both == Members(active[cur]) \cap Members(config[cur])
<1>1. Fixed
  BY WorkingEffect DEF Working
<1>2. pc = "change" /\ idx' = 1 /\ gone' = (a = <<>>)
  BY ChangeDone
<1>3. active[cur] # NoBond /\ config[cur] # NoBond
  BY <1>2 DEF Inv1, SnapshotsOK, FirstPass, SecondPass, Between
<1>4. kernel[cur] # NoBond /\ kernel[cur].mode = active[cur].mode
        /\ Members(kernel[cur]) = both
  BY <1>2, <1>3 DEF Progress, CurProgress, Pruned
<1>5. /\ a \in Seq(Ifs) /\ Len(a) \in Nat /\ Members(active[cur]) = Elems(a)
      /\ config[cur].members \in Seq(Ifs) /\ config[cur].mode \in Modes
      /\ Members(config[cur]) = Elems(config[cur].members)
      /\ cur \in Bonds
  BY <1>3, CurLists
<1>6. Changed(kernel', cur, both, config[cur].mode)
  <2>1. CASE ModeChange /\ kernel' = Moded(cur, config[cur].mode)
    BY <2>1, <1>4, <1>5, CurLists, ModedSound
  <2>2. CASE ~ModeChange /\ kernel' = kernel
    BY <2>2, <1>4 DEF ModeChange, Changed
  <2>3. QED
    BY <2>1, <2>2, ChangeDone
<1>7. Members(active[cur]) \subseteq usable
  BY <1>2, <1>5 DEF Progress, FirstPass, SecondPass
<1>8. /\ Slice(a, 1, Len(a)) = Elems(a)
      /\ Slice(config[cur].members, 1, 0) = {}
  BY <1>5 DEF Slice, Elems
<1>9. CASE ~ListChange
  <2>1. pc' = "apply"
    BY <1>9 DEF Change
  <2>2. both = Members(config[cur]) \cap usable
    BY <1>9, <1>3, <1>7 DEF ListChange, Members
  <2>3. InSyncBond(cur)'
    BY <2>2, <1>1, <1>3, <1>6 DEF InSyncBond, Changed, Fixed
  <2>4. CurProgress'
    BY <2>1 DEF CurProgress
  <2>5. QED
    BY <2>1, <2>3, <2>4, <1>1, <1>2, <1>6, FrameProgress
       DEF FirstPass, SecondPass, Between, Changed
<1>10. CASE ListChange /\ FirstDiffers
  <2>1. pc' = "teardown"
    BY <1>10 DEF Change
  <2>2. CurProgress'
    BY <2>1, <1>1, <1>2, <1>5, <1>6, <1>8 DEF CurProgress, Changed, Fixed
  <2>3. QED
    BY <2>1, <2>2, <1>1, <1>2, <1>6, FrameProgress
       DEF FirstPass, SecondPass, Between, Changed
<1>11. CASE ListChange /\ ~FirstDiffers
  <2>1. pc' = "add"
    BY <1>11 DEF Change
  <2>2. a = <<>> => Members(active[cur]) = {}
    BY <1>5 DEF Elems
  <2>3. Kept' = both
    BY <2>2, <1>1, <1>2 DEF Kept, Fixed
  <2>4. (idx - 1)' = 0
    BY <1>2
  <2>5. CurProgress'
    BY <2>1, <2>3, <2>4, <1>1, <1>6, <1>8 DEF CurProgress, Changed, Fixed
  <2>6. QED
    BY <2>1, <2>5, <1>1, <1>2, <1>6, FrameProgress
       DEF FirstPass, SecondPass, Between, Changed
<1>12. QED
  BY <1>9, <1>10, <1>11

LEMMA TeardownProgress ==
    ASSUME Inv1, Progress, Teardown, ok'
    PROVE  Progress'
<1> DEFINE a == active[cur].members
           e == a[idx]
<1>1. Fixed
  BY WorkingEffect DEF Working
<1>2. pc = "teardown"
  BY TeardownDone
<1>3. active[cur] # NoBond /\ config[cur] # NoBond
  BY <1>2 DEF Inv1, SnapshotsOK, FirstPass, SecondPass, Between
<1>4. /\ kernel[cur] # NoBond /\ kernel[cur].mode = config[cur].mode
      /\ Members(kernel[cur]) = Slice(a, idx, Len(a)) \cap Members(config[cur])
  BY <1>2 DEF Progress, CurProgress
<1>5. /\ a \in Seq(Ifs) /\ Injective(a) /\ Len(a) \in Nat /\ idx \in Nat \ {0}
      /\ config[cur].members \in Seq(Ifs)
  BY <1>3, CurLists
<1>6. CASE idx > Len(a)
  <2>1. pc' = "add" /\ idx' = 1 /\ gone' /\ kernel' = kernel
    BY <1>6, <1>5, TeardownDone
  <2>2. Members(kernel[cur]) = {} /\ Slice(config[cur].members, 1, 0) = {}
    BY <1>4, <1>5, <1>6 DEF Slice
  <2>3. (idx - 1)' = 0 /\ Kept' = {}
    BY <2>1 DEF Kept
  <2>4. CurProgress'
    BY <2>1, <2>2, <2>3, <1>1, <1>4 DEF CurProgress, Fixed
  <2>5. QED
    BY <2>1, <2>4, <1>1, <1>2, FrameProgress DEF FirstPass, SecondPass, Between
<1>7. CASE idx <= Len(a)
  <2>1. pc' = "teardown" /\ idx' = idx + 1
    BY <1>7, <1>5, TeardownDone
  <2>2. /\ Slice(a, idx, Len(a)) = {e} \cup Slice(a, idx + 1, Len(a))
        /\ e \notin Slice(a, idx + 1, Len(a))
    BY <1>7, <1>5, Position
  <2>3. CASE ~Configured(e)
    <3>1. kernel' = kernel
      BY <2>3, <1>7, <1>5, TeardownDone
    <3>2. Members(kernel[cur]) = Slice(a, idx + 1, Len(a)) \cap Members(config[cur])
      BY <2>2, <2>3, <1>4 DEF Configured
    <3>3. CurProgress'
      BY <3>1, <3>2, <2>1, <1>1, <1>4 DEF CurProgress, Fixed
    <3>4. QED
      BY <3>1, <3>3, <2>1, <1>1, <1>2, FrameProgress DEF FirstPass, SecondPass, Between
  <2>4. CASE Configured(e)
    <3>1. CanRemove(cur, e) /\ kernel' = Removed(cur, e)
      BY <2>4, <1>7, <1>5, TeardownDone
    <3>2. Changed(kernel', cur, Members(kernel[cur]) \ {e}, kernel[cur].mode)
      BY <3>1, CurLists, RemovedSound
    <3>3. Members(kernel[cur]) \ {e}
            = Slice(a, idx + 1, Len(a)) \cap Members(config[cur])
      BY <2>2, <2>4, <1>4 DEF Configured
    <3>4. CurProgress'
      BY <3>2, <3>3, <2>1, <1>1, <1>4 DEF CurProgress, Changed, Fixed
    <3>5. QED
      BY <3>2, <3>4, <2>1, <1>1, <1>2, FrameProgress
         DEF FirstPass, SecondPass, Between, Changed
  <2>5. QED
    BY <2>3, <2>4
<1>8. QED
  BY <1>5, <1>6, <1>7

LEMMA AddProgress ==
    ASSUME Inv1, Progress, Add, ok'
    PROVE  Progress'
<1> DEFINE l == config[cur].members
           e == l[idx]
           had == Kept \cup (Slice(l, 1, idx - 1) \cap usable)
<1>1. Fixed
  BY WorkingEffect DEF Working
<1>2. pc = "add" /\ gone' = gone
  BY AddDone DEF Add
<1>3. config[cur] # NoBond /\ cur \in Bonds
  BY <1>2, CurLists DEF Inv1, SnapshotsOK, FirstPass, SecondPass, Between
<1>4. /\ kernel[cur] # NoBond /\ kernel[cur].mode = config[cur].mode
      /\ Members(kernel[cur]) = had
  BY <1>2 DEF Progress, CurProgress
<1>5. /\ l \in Seq(Ifs) /\ Len(l) \in Nat /\ idx \in Nat \ {0}
      /\ Members(config[cur]) = Elems(l)
  BY <1>3, CurLists
<1>6. Kept' = Kept
  BY <1>1, <1>2 DEF Kept, Fixed
<1>7. CASE idx > Len(l)
  <2>1. pc' = "apply" /\ kernel' = kernel
    BY <1>7, <1>5, AddDone
  <2>2. Slice(l, 1, idx - 1) = Elems(l)
    BY <1>5, <1>7, SliceEnds
  <2>3. Kept \subseteq Members(config[cur]) \cap usable
    BY <1>2, <1>3 DEF Kept, Progress, FirstPass, SecondPass
  <2>4. InSyncBond(cur)'
    BY <2>1, <2>2, <2>3, <1>1, <1>3, <1>4, <1>5 DEF InSyncBond, Fixed
  <2>5. CurProgress'
    BY <2>1 DEF CurProgress
  <2>6. QED
    BY <2>1, <2>4, <2>5, <1>1, <1>2, FrameProgress DEF FirstPass, SecondPass, Between
<1>8. CASE idx <= Len(l)
  <2>1. pc' = "add" /\ idx' = idx + 1
    BY <1>8, <1>5, AddDone
  <2>2. Slice(l, 1, idx' - 1) = Slice(l, 1, idx - 1) \cup {e} /\ e \in Members(config[cur])
    BY <2>1, <1>8, <1>5, Position
  <2>3. CASE ~Missing(e) \/ e \notin usable
    <3>1. kernel' = kernel
      BY <2>3, <1>8, <1>5, AddDone
    <3>2. had = Kept \cup (Slice(l, 1, idx' - 1) \cap usable)
      BY <2>2, <2>3 DEF Missing, Kept
    <3>3. CurProgress'
      BY <3>1, <3>2, <2>1, <1>1, <1>4, <1>6 DEF CurProgress, Fixed
    <3>4. QED
      BY <3>1, <3>3, <2>1, <1>1, <1>2, FrameProgress DEF FirstPass, SecondPass, Between
  <2>4. CASE Missing(e) /\ e \in usable
    <3>1. CanAdd(cur, e) /\ kernel' = Added(cur, e)
      BY <2>4, <1>8, <1>5, AddDone
    <3>2. e \in Ifs \cap (plugged \cap Capable)
      BY <3>1, BondAssumption DEF CanAdd
    <3>3. Changed(kernel', cur, had \cup {e}, config[cur].mode)
      BY <3>1, <3>2, <1>4, CurLists, AddedSound
    <3>4. had \cup {e} = Kept \cup (Slice(l, 1, idx' - 1) \cap usable)
      BY <2>2, <2>4
    <3>5. CurProgress'
      BY <3>3, <3>4, <2>1, <1>1, <1>6 DEF CurProgress, Changed, Fixed
    <3>6. QED
      BY <3>3, <3>5, <2>1, <1>1, <1>2, FrameProgress
         DEF FirstPass, SecondPass, Between, Changed
  <2>5. QED
    BY <2>3, <2>4
<1>9. QED
  BY <1>5, <1>7, <1>8

LEMMA CreateProgress ==
    ASSUME Inv1, Progress, Create, ok'
    PROVE  Progress'
<1>1. Fixed
  BY WorkingEffect DEF Working
<1>2. pc = "create" /\ kernel[cur] = NoBond
  BY CreateDone
<1>3. PICK m \in Modes : kernel' = Created(cur, m)
  BY CreateDone
<1>4. Changed(kernel', cur, {}, m)
  BY <1>3, CurLists, CreatedSound
<1>5. pc' = "newMode"
  BY <1>2, <1>4, CreateDone DEF Changed
<1>6. CurProgress'
  BY <1>1, <1>4, <1>5 DEF CurProgress, Changed, Fixed
<1>7. QED
  BY <1>1, <1>2, <1>4, <1>5, <1>6, FrameProgress
     DEF FirstPass, SecondPass, Between, Changed

LEMMA NewModeProgress ==
    ASSUME Inv1, Progress, NewMode, calm'
    PROVE  Progress'
<1>1. Fixed
  BY WorkingEffect DEF Working
<1>2. /\ pc = "newMode" /\ pc' = "add" /\ idx' = 1 /\ gone' = TRUE
      /\ kernel[cur] # NoBond /\ kernel' = Moded(cur, config[cur].mode)
  BY NewModeDone
<1>3. config[cur] # NoBond
  BY <1>2 DEF Inv1, SnapshotsOK, FirstPass, SecondPass, Between
<1>4. Members(kernel[cur]) = {}
  BY <1>2 DEF Progress, CurProgress
<1>5. Changed(kernel', cur, {}, config[cur].mode)
  BY <1>2, <1>3, <1>4, CurLists, ModedSound
<1>6. (idx - 1)' = 0 /\ Kept' = {} /\ Slice(config[cur].members, 1, 0) = {}
  <2>1. (idx - 1)' = 0 /\ Kept' = {}
    BY <1>2 DEF Kept
  <2>2. QED
    BY <2>1, <1>3, CurLists DEF Slice
<1>7. CurProgress'
  BY <1>1, <1>2, <1>5, <1>6 DEF CurProgress, Changed, Fixed
<1>8. QED
  BY <1>1, <1>2, <1>5, <1>7, FrameProgress
     DEF FirstPass, SecondPass, Between, Changed

LEMMA PruneProgress ==
    ASSUME Inv1, Progress, Prune
    PROVE  Progress'
<1> USE DEF FirstPass, SecondPass, Between
<1>1. /\ pc = "prune" /\ kernel' = kernel /\ plugged' = plugged
      /\ config' = config /\ usable' = usable /\ active' = active
  BY DEF Prune, snapVars
<1>2. \A b \in Bonds : (b \in todo => Intact(b)) /\ (b \notin todo => Pruned(b))
  BY <1>1 DEF Progress, OthersProgress
<1>3. \A b \in Bonds : (Intact(b) => Intact(b)') /\ (Pruned(b) => Pruned(b)')
  BY <1>1 DEF Intact, Pruned
<1>4. usable' = Capable \cap plugged'
        /\ \A b \in Bonds : Members(active'[b]) \subseteq usable'
  BY <1>1 DEF Progress
<1>5. CASE todo = {}
  <2>1. pc' = "apply" /\ todo' = {b \in Bonds : config[b] # NoBond}
    BY <1>5 DEF Prune
  <2>2. \A b \in Bonds : Pruned(b)'
    BY <1>2, <1>3, <1>5
  <2>3. \A b \in Bonds : b \notin todo' => InSyncBond(b)'
    BY <2>1, <2>2, <1>1 DEF Pruned, InSyncBond
  <2>4. OthersProgress'
    BY <2>1, <2>2, <2>3 DEF OthersProgress
  <2>5. CurProgress'
    BY <2>1 DEF CurProgress
  <2>6. QED
    BY <2>1, <2>4, <2>5, <1>4 DEF Progress
<1>6. CASE todo # {}
  <2>1. PICK b \in todo : /\ cur' = b /\ todo' = todo \ {b} /\ idx' = 1
                          /\ pc' = IF config[b] = NoBond THEN "destroy" ELSE "pruneMember"
    BY <1>6 DEF Prune
  <2>2. b \in Bonds /\ active[b] # NoBond /\ active \in Dicts
    BY <1>1 DEF Inv1, TypeOK, SnapshotsOK, Dicts
  <2>3. kernel[b] = active[b] /\ Members(active[b]) = Elems(active[b].members)
          /\ active[b].members \in Seq(Ifs)
    BY <2>2, <1>2, ListMember DEF Intact
  <2>4. Slice(active[b].members, 1, Len(active[b].members)) = Elems(active[b].members)
    BY <2>3 DEF Slice, Elems
  <2>5. CurProgress'
    <3>1. CASE config[b] = NoBond
      BY <3>1, <2>1, <2>3, <1>1 DEF CurProgress, Intact
    <3>2. CASE config[b] # NoBond
      BY <3>2, <2>1, <2>2, <2>3, <2>4, <1>1 DEF CurProgress
    <3>3. QED
      BY <3>1, <3>2
  <2>6. OthersProgress'
    BY <2>1, <1>2, <1>3 DEF OthersProgress
  <2>7. QED
    BY <2>1, <2>5, <2>6, <1>4 DEF Progress
<1>7. QED
  BY <1>5, <1>6

LEMMA ApplyProgress ==
    ASSUME Inv1, Progress, Apply
    PROVE  Progress'
<1> USE DEF FirstPass, SecondPass, Between
<1>1. /\ pc = "apply" /\ kernel' = kernel /\ plugged' = plugged
      /\ config' = config /\ usable' = usable /\ active' = active
  BY DEF Apply, snapVars
<1>2. \A b \in Bonds : (b \in todo => Pruned(b)) /\ (b \notin todo => InSyncBond(b))
  BY <1>1 DEF Progress, OthersProgress
<1>3. \A b \in Bonds : (InSyncBond(b) => InSyncBond(b)') /\ (Pruned(b) => Pruned(b)')
  BY <1>1 DEF InSyncBond, Pruned
<1>4. usable' = Capable \cap plugged'
        /\ \A b \in Bonds : Members(active'[b]) \subseteq usable'
  BY <1>1 DEF Progress
<1>5. CASE todo = {}
  <2>1. pc' = "done"
    BY <1>5 DEF Apply
  <2>2. InSync'
    BY <1>2, <1>3, <1>5 DEF InSync
  <2>3. OthersProgress' /\ CurProgress'
    BY <2>1 DEF OthersProgress, CurProgress
  <2>4. QED
    BY <2>1, <2>2, <2>3, <1>4 DEF Progress
<1>6. CASE todo # {}
  <2>1. PICK b \in todo : /\ cur' = b /\ todo' = todo \ {b}
                          /\ pc' = IF active[b] = NoBond THEN "create"
                                   ELSE IF active[b] = config[b] THEN "apply" ELSE "change"
    BY <1>6 DEF Apply
  <2>2. b \in Bonds /\ config[b] # NoBond /\ Pruned(b)
    BY <1>1, <1>2 DEF Inv1, TypeOK, SnapshotsOK
  <2>3. CASE active[b] = NoBond
    <3>1. pc' = "create" /\ kernel'[b] = NoBond
      BY <2>1, <2>2, <2>3, <1>1 DEF Pruned
    <3>2. CurProgress'
      BY <3>1, <2>1 DEF CurProgress
    <3>3. OthersProgress'
      BY <3>1, <2>1, <1>2, <1>3 DEF OthersProgress
    <3>4. QED
      BY <3>1, <3>2, <3>3, <1>4 DEF Progress
  <2>4. CASE active[b] # NoBond /\ active[b] = config[b]
    <3>1. pc' = "apply"
      BY <2>1, <2>4
    <3>2. Members(active[b]) \subseteq usable
      BY <2>2, <1>1 DEF Progress
    <3>3. InSyncBond(b)
      BY <3>2, <2>2, <2>4 DEF Pruned, InSyncBond
    <3>4. CurProgress'
      BY <3>1 DEF CurProgress
    <3>5. OthersProgress'
      BY <3>1, <3>3, <2>1, <1>2, <1>3 DEF OthersProgress
    <3>6. QED
      BY <3>1, <3>4, <3>5, <1>4 DEF Progress
  <2>5. CASE active[b] # NoBond /\ active[b] # config[b]
    <3>1. pc' = "change"
      BY <2>1, <2>5
    <3>2. CurProgress'
      BY <3>1, <2>1, <2>2, <1>3 DEF CurProgress
    <3>3. OthersProgress'
      BY <3>1, <2>1, <1>2, <1>3 DEF OthersProgress
    <3>4. QED
      BY <3>1, <3>2, <3>3, <1>4 DEF Progress
  <2>6. QED
    BY <2>3, <2>4, <2>5
<1>7. QED
  BY <1>5, <1>6

\* The snapshot of the kernel, if none of its bonds was left out.
LEMMA CopyActiveProgress ==
    ASSUME Inv1, Progress, CopyActive, active' = kernel
    PROVE  Progress'
<1> USE DEF FirstPass, SecondPass, Between
<1>1. /\ pc = "copyActive" /\ pc' = "prune" /\ kernel' = kernel /\ plugged' = plugged
      /\ config' = config /\ usable' = usable
      /\ todo' = {b \in Bonds : active'[b] # NoBond}
  BY DEF CopyActive
<1>2. usable' = Capable \cap plugged'
        /\ \A b \in Bonds : Members(active'[b]) \subseteq usable'
  BY <1>1 DEF Progress, Inv1, KernelOK
<1>3. \A b \in Bonds : Intact(b)'
  BY <1>1 DEF Intact
<1>4. \A b \in Bonds : b \notin todo' => Pruned(b)'
  BY <1>1 DEF Pruned
<1>5. CurProgress' /\ OthersProgress'
  BY <1>1, <1>3, <1>4 DEF CurProgress, OthersProgress
<1>6. QED
  BY <1>1, <1>2, <1>5 DEF Progress

\* Whatever is not part of the work on a bond.
Resting == pc' \in {"idle", "copyActive"}

LEMMA RestProgress ==
    ASSUME Resting, pc' = "copyActive" => usable' = Capable \cap plugged'
    PROVE  Progress'
<1> USE DEF FirstPass, SecondPass, Between
<1>1. CurProgress' /\ OthersProgress'
  BY DEF Resting, CurProgress, OthersProgress
<1>2. QED
  BY <1>1 DEF Resting, Progress

\* A step that changes nothing that matters for the progress.
LEMMA SameProgress ==
    ASSUME Progress, pc' = pc, UNCHANGED <<kernel, plugged, snapVars, loopVars>>
    PROVE  Progress'
<1>1. /\ kernel' = kernel /\ plugged' = plugged /\ config' = config
      /\ usable' = usable /\ active' = active /\ todo' = todo /\ cur' = cur
      /\ idx' = idx /\ (gone' <=> gone)
  BY DEF snapVars, loopVars
<1>2. \A b \in Bonds : /\ Intact(b) => Intact(b)'
                       /\ Pruned(b) => Pruned(b)'
                       /\ InSyncBond(b) => InSyncBond(b)'
  BY <1>1 DEF Intact, Pruned, InSyncBond
<1>3. OthersProgress'
  BY <1>1, <1>2 DEF Progress, OthersProgress
<1>4. Kept' = Kept
  BY <1>1 DEF Kept
<1>5. CurProgress'
  BY <1>1, <1>4 DEF Progress, CurProgress, Intact, Pruned
<1>6. InSync => InSync'
  BY <1>2 DEF InSync
<1>7. QED
  BY <1>1, <1>3, <1>5, <1>6 DEF Progress

LEMMA ProgressStep ==
    ASSUME Inv1, calm /\ ok => Progress, [Next]_vars, calm', ok'
    PROVE  Progress'
<1>1. CASE Working
  <2>1. calm /\ ok
    BY <1>1, WorkingEffect, Zenon DEF Recorded
  <2>2. QED
    BY <2>1, <1>1, PruneMemberProgress, TeardownProgress, AddProgress,
       DestroyProgress, CreateProgress, ChangeProgress, NewModeProgress, Zenon
       DEF Working
<1>2. CASE Prune \/ Apply
  <2>1. calm /\ ok
    BY <1>2, Zenon DEF Prune, Apply
  <2>2. QED
    BY <2>1, <1>2, PruneProgress, ApplyProgress
<1>3. CASE CopyActive
  <2>1. calm /\ ok /\ active' = kernel
    BY <1>3, Zenon DEF CopyActive
  <2>2. QED
    BY <2>1, <1>3, CopyActiveProgress
<1>4. CASE CopyAll
  <2>1. Resting /\ usable' = Capable \cap plugged'
    BY <1>4 DEF CopyAll, Resting
  <2>2. QED
    BY <2>1, RestProgress
<1>5. CASE OpenSocket
  <2>1. calm /\ ok /\ pc' = pc /\ UNCHANGED <<kernel, plugged, snapVars, loopVars>>
    BY <1>5, Zenon DEF OpenSocket
  <2>2. QED
    BY <2>1, SameProgress
<1>6. CASE Return \/ Crash
  <2>1. Resting /\ pc' # "copyActive"
    BY <1>6 DEF Return, Crash, Forget, Resting
  <2>2. QED
    BY <2>1, RestProgress
<1>7. CASE Environment /\ ~Crash
  <2>1. pc = "idle" /\ pc' = "idle"
    BY <1>7, Zenon DEF Environment, Edit, Outside, Unplug, Plug
  <2>2. Resting /\ pc' # "copyActive"
    BY <2>1 DEF Resting
  <2>3. QED
    BY <2>2, RestProgress
<1>8. CASE UNCHANGED vars
  <2>1. calm /\ ok /\ pc' = pc
    BY <1>8, Zenon DEF vars
  <2>2. UNCHANGED <<kernel, plugged, snapVars, loopVars>>
    BY <1>8 DEF vars
  <2>3. QED
    BY <2>1, <2>2, SameProgress
<1>9. QED
  BY <1>1, <1>2, <1>3, <1>4, <1>5, <1>6, <1>7, <1>8 DEF Next, Update, Working, Environment

(***************************************************************************)
(* Without a fault the kernel refuses nothing.                             *)
(***************************************************************************)

\* What the first pass removes, and what a re-ordering removes, is a member.
LEMMA PruneMemberAccepted ==
    ASSUME Inv1, Progress, pc = "pruneMember", idx <= Len(active[cur].members)
    PROVE  CanRemove(cur, active[cur].members[idx])
<1> DEFINE a == active[cur].members
<1>1. active[cur] # NoBond
  BY DEF Inv1, SnapshotsOK
<1>2. a \in Seq(Ifs) /\ idx \in Nat \ {0}
  BY <1>1, CurLists
<1>3. a[idx] \in Slice(a, idx, Len(a))
  BY <1>2, Position
<1>4. QED
  BY <1>3 DEF Progress, CurProgress, CanRemove

LEMMA TeardownAccepted ==
    ASSUME Inv1, Progress, pc = "teardown", idx <= Len(active[cur].members),
           Configured(active[cur].members[idx])
    PROVE  CanRemove(cur, active[cur].members[idx])
<1> DEFINE a == active[cur].members
<1>1. active[cur] # NoBond
  BY DEF Inv1, SnapshotsOK
<1>2. a \in Seq(Ifs) /\ idx \in Nat \ {0}
  BY <1>1, CurLists
<1>3. a[idx] \in Slice(a, idx, Len(a))
  BY <1>2, Position
<1>4. QED
  BY <1>3 DEF Progress, CurProgress, CanRemove, Configured

\* What is added has left every other bond, and was not added before.
LEMMA AddAccepted ==
    ASSUME Inv1, Progress, pc = "add", idx <= Len(config[cur].members),
           Exclusive(config),
           Missing(config[cur].members[idx]), config[cur].members[idx] \in usable
    PROVE  CanAdd(cur, config[cur].members[idx])
<1> DEFINE l == config[cur].members
           e == l[idx]
<1> USE DEF FirstPass, SecondPass, Between
<1>1. config[cur] # NoBond /\ cur \in Bonds /\ todo \subseteq Bonds
  BY DEF Inv1, SnapshotsOK, TypeOK
<1>2. l \in Seq(Ifs) /\ idx \in Nat \ {0} /\ Members(config[cur]) = Elems(l)
  BY <1>1, CurLists
<1>3. Injective(l)
  BY <1>1 DEF Exclusive
<1>4. e \in Members(config[cur]) /\ e \notin Slice(l, 1, idx - 1)
  BY <1>2, <1>3, Position
<1>5. kernel[cur] # NoBond /\ Members(kernel[cur]) = Kept \cup (Slice(l, 1, idx - 1) \cap usable)
  BY DEF Progress, CurProgress
<1>6. e \notin Members(kernel[cur])
  BY <1>4, <1>5 DEF Missing, Kept
<1>7. ASSUME NEW b \in Bonds, b # cur PROVE e \notin Members(kernel[b])
  <2>1. Members(kernel[b]) \subseteq Members(config[b])
    <3>1. CASE b \in todo
      BY <3>1 DEF Progress, OthersProgress, Pruned, Members
    <3>2. CASE b \notin todo
      BY <3>2, <1>7 DEF Progress, OthersProgress, InSyncBond, Members
    <3>3. QED
      BY <3>1, <3>2
  <2>2. QED
    BY <2>1, <1>1, <1>4, <1>7 DEF Exclusive
<1>8. usable = Capable \cap plugged
  BY DEF Progress
<1>9. QED
  BY <1>5, <1>6, <1>7, <1>8 DEF CanAdd, Owned

LEMMA DestroyAccepted ==
    ASSUME Inv1, Progress, pc = "destroy" PROVE kernel[cur] # NoBond
  BY DEF Inv1, SnapshotsOK, Progress, CurProgress, Intact

LEMMA CreateAccepted ==
    ASSUME Progress, pc = "create" PROVE kernel[cur] = NoBond
  BY DEF Progress, CurProgress

\* the promise of an update that meets no fault
Clean == calm /\ ~faulty /\ Exclusive(config) => ok

\* The environment does not touch the update, and is noticed during it.
LEMMA EnvironmentKeeps ==
    ASSUME Environment, ~Crash
    PROVE  pc' = pc /\ (ok => ok') /\ (calm' => pc = "idle")
<1>1. CASE Edit
  BY <1>1, Zenon DEF Edit
<1>2. CASE Outside
  BY <1>2, Zenon DEF Outside
<1>3. ASSUME NEW e \in Ifs, Unplug(e)
      PROVE  pc' = pc /\ (ok => ok') /\ (calm' => pc = "idle")
  BY <1>3, Zenon DEF Unplug
<1>4. ASSUME NEW e \in Ifs, Plug(e)
      PROVE  pc' = pc /\ (ok => ok') /\ (calm' => pc = "idle")
  BY <1>4, Zenon DEF Plug
<1>5. QED
  BY <1>1, <1>2, <1>3, <1>4, Zenon DEF Environment

LEMMA CleanStep ==
    ASSUME Inv1, calm /\ ok => Progress, Clean, pc = "idle" => ok, [Next]_vars,
           calm', ~faulty', Exclusive(config')
    PROVE  ok'
<1>1. CASE Working
  <2>1. Fixed /\ calm /\ ~faulty
    BY <1>1, WorkingEffect, Zenon DEF Recorded
  <2>2. Exclusive(config)
    BY <2>1 DEF Fixed
  <2>3. ok /\ Progress
    BY <2>1, <2>2, Zenon DEF Clean
  <2>4. SUFFICES ASSUME ~ok' PROVE FALSE
    OBVIOUS
  <2>5. CASE PruneMember
    BY <2>3, <2>4, <2>5, PruneMemberFails, PruneMemberAccepted
  <2>6. CASE Teardown
    BY <2>3, <2>4, <2>6, TeardownFails, TeardownAccepted
  <2>7. CASE Add
    BY <2>2, <2>3, <2>4, <2>7, AddFails, AddAccepted
  <2>8. CASE Destroy
    BY <2>3, <2>4, <2>8, DestroyFails, DestroyAccepted
  <2>9. CASE Create
    BY <2>3, <2>4, <2>9, CreateFails, CreateAccepted
  <2>10. CASE Change \/ NewMode
    BY <2>3, <2>4, <2>10, ModeNeverFails, Zenon
  <2>11. QED
    BY <1>1, <2>5, <2>6, <2>7, <2>8, <2>9, <2>10 DEF Working
<1>2. CASE Prune \/ Apply \/ CopyActive
  <2>1. config' = config
    BY <1>2 DEF Prune, Apply, CopyActive, snapVars
  <2>2. calm /\ ~faulty
    <3>1. calm
      BY <1>2, Zenon DEF Prune, Apply, CopyActive
    <3>2. ~faulty
      BY <1>2, Zenon DEF Prune, Apply, CopyActive
    <3>3. QED
      BY <3>1, <3>2, Zenon
  <2>3. ok
    BY <2>1, <2>2, Zenon DEF Clean
  <2>4. QED
    BY <2>3, <1>2, Zenon DEF Prune, Apply, CopyActive
<1>3. CASE CopyAll
  BY <1>3, Zenon DEF CopyAll
<1>4. CASE OpenSocket
  <2>1. config' = config
    BY <1>4 DEF OpenSocket, snapVars
  <2>2. calm /\ ~faulty
    <3>1. calm
      BY <1>4, Zenon DEF OpenSocket, Fault
    <3>2. ~faulty
      BY <1>4, Zenon DEF OpenSocket, Fault
    <3>3. QED
      BY <3>1, <3>2, Zenon
  <2>3. ok
    BY <2>1, <2>2, Zenon DEF Clean
  <2>4. QED
    BY <2>3, <1>4, Zenon DEF OpenSocket, Fault
<1>5. CASE Return \/ Crash
  BY <1>5, Zenon DEF Return, Crash, Forget
<1>6. CASE Environment /\ ~Crash
  BY <1>6, EnvironmentKeeps, Zenon
<1>7. CASE UNCHANGED vars
  <2>1. config' = config
    BY <1>7 DEF vars, snapVars
  <2>2. calm /\ ~faulty
    BY <1>7, Zenon DEF vars
  <2>3. ok
    BY <2>1, <2>2, Zenon DEF Clean
  <2>4. QED
    BY <2>3, <1>7, Zenon DEF vars
<1>8. QED
  BY <1>1, <1>2, <1>3, <1>4, <1>5, <1>6, <1>7 DEF Next, Update, Working, Environment

\* Between two updates the result is TRUE again.
LEMMA IdleStep ==
    ASSUME pc = "idle" => ok, [Next]_vars, pc' = "idle" PROVE ok'
<1>1. CASE Return \/ Crash
  BY <1>1, Zenon DEF Return, Crash, Forget
<1>2. CASE Environment /\ ~Crash
  BY <1>2, EnvironmentKeeps, Zenon
<1>3. CASE UNCHANGED vars
  BY <1>3, Zenon DEF vars
<1>4. ~(PruneMember \/ Teardown \/ Add \/ Destroy \/ Create \/ Change \/ NewMode)
  BY DEF PruneMember, Teardown, Add, Destroy, Create, Change, NewMode
<1>5. ~(CopyAll \/ CopyActive \/ Prune \/ Apply \/ OpenSocket)
  BY DEF CopyAll, CopyActive, Prune, Apply, OpenSocket, NeedsSocket
<1>6. QED
  BY <1>1, <1>2, <1>3, <1>4, <1>5 DEF Next, Update, Environment

(***************************************************************************)
(* The first device of a bond.                                             *)
(***************************************************************************)

\* Dropping another member than the first leaves the first one where it is.
LEMMA WithoutFirst ==
    ASSUME NEW S, NEW s \in Seq(S), NEW e, NEW n \in 1..Len(s), s[n] = e, e # s[1]
    PROVE  Without(s, e) # <<>> /\ Without(s, e)[1] = s[1]
<1> DEFINE k == CHOOSE i \in 1..Len(s) : s[i] = e
           w == [i \in 1..(Len(s) - 1) |-> IF i < k THEN s[i] ELSE s[i + 1]]
<1>1. k \in 1..Len(s) /\ s[k] = e
  OBVIOUS
<1>2. Without(s, e) = w
  BY DEF Without
<1> HIDE DEF k
<1>3. Len(s) \in Nat /\ 1 < k /\ 1 \in 1..(Len(s) - 1)
  BY <1>1
<1>4. w[1] = s[1]
  BY <1>3 DEF w
<1>5. w # <<>>
  <2>1. w \in [1..(Len(s) - 1) -> S]
    BY <1>1, <1>3
  <2>2. w \in Seq(S) /\ Len(w) = Len(s) - 1
    BY <2>1, <1>3
  <2> HIDE DEF w
  <2> QED
    BY <2>2, <1>3
<1>6. QED
  BY <1>2, <1>4, <1>5

LEMMA RemovedLed ==
    ASSUME NEW devices, Sound(kernel, devices), NEW b \in Bonds, NEW e,
           CanRemove(b, e), NEW h, LedBy(kernel[b], h), h # e
    PROVE  LedBy(Removed(b, e)[b], h)
<1> DEFINE s == kernel[b].members
<1>1. /\ kernel[b] # NoBond /\ s \in Seq(Ifs) /\ kernel[b].mode \in Modes
      /\ Members(kernel[b]) = Elems(s) /\ s # <<>> /\ s[1] = h
      /\ Injective(s) /\ kernel \in Dicts
  BY SoundBond DEF LedBy, Sound
<1>2. PICK n \in 1..Len(s) : s[n] = e
  BY <1>1 DEF CanRemove, Elems
<1>3. Without(s, e) # <<>> /\ Without(s, e)[1] = h /\ Without(s, e) \in Seq(Ifs)
  BY <1>1, <1>2, WithoutFirst, WithoutMembers
<1>4. Removed(b, e)[b] = [members |-> Without(s, e), mode |-> kernel[b].mode]
  BY <1>1 DEF Removed, WithBond, Dicts
<1>5. QED
  BY <1>1, <1>3, <1>4, DictFacts DEF LedBy

\* A device that joins becomes the last one; in an empty bond it is the first.
LEMMA AddedLed ==
    ASSUME NEW devices, Sound(kernel, devices), NEW b \in Bonds, NEW e \in Ifs,
           CanAdd(b, e)
    PROVE  /\ \A h : LedBy(kernel[b], h) => LedBy(Added(b, e)[b], h)
           /\ Members(kernel[b]) = {} => LedBy(Added(b, e)[b], e)
<1> DEFINE s == kernel[b].members
<1>1. /\ kernel[b] # NoBond /\ s \in Seq(Ifs) /\ kernel[b].mode \in Modes
      /\ Members(kernel[b]) = Elems(s) /\ kernel \in Dicts
  BY SoundBond DEF CanAdd, Sound
<1>2. Added(b, e)[b] = [members |-> Append(s, e), mode |-> kernel[b].mode]
  BY <1>1 DEF Added, WithBond, Dicts
<1>3. Append(s, e) \in Seq(Ifs) /\ Append(s, e) # <<>>
  BY <1>1
<1> HIDE DEF s
<1>4. /\ s # <<>> => Append(s, e)[1] = s[1]
      /\ Elems(s) = {} => Append(s, e)[1] = e
  <2>1. Len(s) \in Nat /\ (Len(s) = 0 <=> s = <<>>)
    BY <1>1
  <2>2. CASE Len(s) = 0
    BY <2>1, <2>2
  <2>3. CASE Len(s) > 0
    <3>1. 1 \in 1..Len(s) /\ Append(s, e)[1] = s[1]
      BY <2>1, <2>3, <1>1
    <3>2. Elems(s) # {}
      BY <3>1 DEF Elems
    <3> QED
      BY <3>1, <3>2, <2>1, <2>3
  <2> QED
    BY <2>1, <2>2, <2>3
<1>5. Added(b, e)[b] # NoBond
  BY <1>1, <1>2, <1>3, DictFacts
<1>6. QED
  BY <1>1, <1>2, <1>3, <1>4, <1>5 DEF LedBy, s

LEMMA ModedLed ==
    ASSUME kernel \in Dicts, NEW b \in Bonds, NEW m \in Modes, NEW h,
           LedBy(kernel[b], h)
    PROVE  LedBy(Moded(b, m)[b], h)
<1>1. kernel[b] # NoBond /\ kernel[b].members \in Seq(Ifs)
  BY KernelDict DEF LedBy
<1>2. Moded(b, m)[b] = [members |-> kernel[b].members, mode |-> m]
  BY DEF Moded, WithBond, Dicts
<1>3. QED
  BY <1>1, <1>2, DictFacts DEF LedBy

\* Bonds that an ioctl does not touch keep their first device.
LEMMA FrameFirst ==
    ASSUME Fixed, NEW b \in Bonds, kernel'[b] = kernel[b]
    PROVE  /\ HeadKept(b) => HeadKept(b)'
           /\ FirstOK(b) => FirstOK(b)'
  BY DEF Fixed, HeadKept, FirstOK

\* A step inside the work on one bond of the second pass.
LEMMA FrameFirsts ==
    ASSUME Inv1, Firsts, Fixed,
           pc \in SecondPass \ Between, pc' \in SecondPass,
           \A c \in Bonds \ {cur} : kernel'[c] = kernel[c],
           pc' = "change" => HeadKept(cur)',
           pc' = "add" /\ (idx' > 1 \/ ~gone') => FirstOK(cur)',
           pc' = "apply" => FirstOK(cur)'
    PROVE  Firsts'
<1> USE DEF FirstPass, SecondPass, Between
<1>1. cur \notin todo /\ cur \in Bonds /\ cur' = cur /\ todo' = todo
  BY DEF Inv1, SnapshotsOK, TypeOK, Fixed
<1>2. \A b \in Bonds \ {cur} : /\ HeadKept(b) => HeadKept(b)'
                               /\ FirstOK(b) => FirstOK(b)'
  BY FrameFirst
<1>3. \A b \in Bonds : /\ b \in todo => HeadKept(b)
                       /\ b \notin todo /\ b # cur => FirstOK(b)
  BY DEF Firsts
<1>4. \A b \in Bonds : /\ b \in todo' => HeadKept(b)'
                       /\ b \notin todo' /\ (pc' = "apply" \/ b # cur') => FirstOK(b)'
  BY <1>1, <1>2, <1>3
<1>5. pc' = "change" => HeadKept(cur)'
  OBVIOUS
<1>6. pc' \notin FirstPass \cup {"done"}
  OBVIOUS
<1>7. QED
  BY <1>4, <1>6 DEF Firsts

LEMMA PruneMemberFirsts ==
    ASSUME Inv1, Firsts, PruneMember, ok'
    PROVE  Firsts'
<1> USE DEF FirstPass, SecondPass
<1>1. Fixed
  BY WorkingEffect DEF Working
<1>2. pc = "pruneMember" /\ pc' \in FirstPass
  BY PruneMemberDone
<1>3. active[cur] # NoBond /\ cur \in Bonds
  BY <1>2, CurLists DEF Inv1, SnapshotsOK, Between
<1>4. \A b \in Bonds : HeadKept(b)
  BY <1>2 DEF Firsts
<1>5. ASSUME kernel' # kernel
      PROVE  \A b \in Bonds : HeadKept(b)'
  <2>1. PICK e : /\ ~Configured(e) /\ CanRemove(cur, e) /\ kernel' = Removed(cur, e)
    BY <1>5, PruneMemberDone
  <2>2. Changed(kernel', cur, Members(kernel[cur]) \ {e}, kernel[cur].mode)
    BY <2>1, CurLists, RemovedSound
  <2>3. HeadKept(cur)'
    <3>1. SUFFICES ASSUME active[cur].members # <<>>,
                          active[cur].members[1] \in Members(config[cur])
                   PROVE  LedBy(kernel'[cur], active[cur].members[1])
      BY <1>1 DEF HeadKept, Fixed
    <3>2. LedBy(kernel[cur], active[cur].members[1])
      BY <3>1, <1>3, <1>4 DEF HeadKept
    <3>3. active[cur].members[1] # e
      BY <3>1, <2>1 DEF Configured
    <3>4. QED
      BY <3>2, <3>3, <2>1, CurLists, RemovedLed
  <2>4. QED
    <3>1. cur' = cur /\ \A c \in Bonds \ {cur} : HeadKept(c)'
      BY <2>2, <1>1, <1>4, FrameFirst DEF Changed, Fixed
    <3>2. QED
      BY <3>1, <2>3
<1>6. \A b \in Bonds : HeadKept(b)'
  BY <1>1, <1>4, <1>5, FrameFirst
<1>7. QED
  BY <1>2, <1>6 DEF Firsts

LEMMA DestroyFirsts ==
    ASSUME Inv1, Firsts, Destroy, ok'
    PROVE  Firsts'
<1> USE DEF FirstPass, SecondPass
<1>1. Fixed
  BY WorkingEffect DEF Working
<1>2. pc = "destroy" /\ pc' = "prune" /\ kernel' = Destroyed(cur)
  BY DestroyDone
<1>3. config[cur] = NoBond /\ \A c \in Bonds \ {cur} : kernel'[c] = kernel[c]
  BY <1>2, CurLists, DestroyedSound DEF Inv1, SnapshotsOK
<1>4. HeadKept(cur)'
  BY <1>1, <1>3 DEF HeadKept, Fixed, Members
<1>5. \A b \in Bonds : HeadKept(b)'
  <2>1. \A b \in Bonds : HeadKept(b)
    BY <1>2 DEF Firsts
  <2>2. cur' = cur /\ \A b \in Bonds \ {cur} : HeadKept(b)'
    BY <2>1, <1>1, <1>3, FrameFirst DEF Fixed
  <2>3. QED
    BY <2>2, <1>4
<1>6. QED
  BY <1>2, <1>5 DEF Firsts

LEMMA ChangeFirsts ==
    ASSUME Inv1, Firsts, Change, calm'
    PROVE  Firsts'
<1> DEFINE a == active[cur].members
           l == config[cur].members
<1> USE DEF FirstPass, SecondPass, Between
<1>1. Fixed
  BY WorkingEffect DEF Working
<1>2. pc = "change" /\ idx' = 1 /\ gone' = (a = <<>>)
  BY ChangeDone
<1>3. active[cur] # NoBond /\ config[cur] # NoBond
  BY <1>2 DEF Inv1, SnapshotsOK
<1>4. /\ a \in Seq(Ifs) /\ l \in Seq(Ifs) /\ config[cur].mode \in Modes
      /\ Members(config[cur]) = Elems(l) /\ cur \in Bonds /\ kernel \in Dicts
      /\ Sound(kernel, plugged \cap Capable)
  BY <1>3, CurLists
<1>5. /\ \A c \in Bonds \ {cur} : kernel'[c] = kernel[c]
      /\ \A h : LedBy(kernel[cur], h) => LedBy(kernel'[cur], h)
  <2>1. CASE kernel[cur] # NoBond /\ kernel' = Moded(cur, config[cur].mode)
    BY <2>1, <1>4, ModedSound, ModedLed DEF Changed
  <2>2. CASE kernel' = kernel
    BY <2>2
  <2>3. QED
    BY <2>1, <2>2, ChangeDone
<1>6. a # <<>> /\ a[1] \in Members(config[cur]) => LedBy(kernel'[cur], a[1])
  BY <1>2, <1>3, <1>5 DEF Firsts, HeadKept
<1>7. ASSUME a = l \/ (l # <<>> /\ a # <<>> /\ a[1] = l[1]) \/ l = <<>>
      PROVE  FirstOK(cur)'
  <2>1. SUFFICES ASSUME l # <<>> PROVE LedBy(kernel'[cur], l[1])
    BY <1>1 DEF FirstOK, Fixed
  <2>2. l[1] \in Members(config[cur])
    BY <2>1, <1>4 DEF Elems
  <2>3. QED
    BY <2>1, <2>2, <1>6, <1>7
<1>8. CASE ~ListChange
  <2>1. pc' = "apply" /\ FirstOK(cur)'
    BY <1>8, <1>7 DEF Change, ListChange
  <2>2. QED
    BY <2>1, <1>1, <1>2, <1>5, FrameFirsts
<1>9. CASE ListChange /\ FirstDiffers
  <2>1. pc' = "teardown"
    BY <1>9 DEF Change
  <2>2. QED
    BY <2>1, <1>1, <1>2, <1>5, FrameFirsts
<1>10. CASE ListChange /\ ~FirstDiffers
  <2>1. pc' = "add"
    BY <1>10 DEF Change
  <2>2. ~gone' => FirstOK(cur)'
    BY <1>10, <1>2, <1>7 DEF FirstDiffers
  <2>3. ~(idx' > 1)
    BY <1>2
  <2>4. QED
    BY <2>1, <2>2, <2>3, <1>1, <1>2, <1>5, FrameFirsts
<1>11. QED
  BY <1>8, <1>9, <1>10

LEMMA TeardownFirsts ==
    ASSUME Inv1, Firsts, Teardown, ok'
    PROVE  Firsts'
<1> USE DEF FirstPass, SecondPass, Between
<1>1. Fixed
  BY WorkingEffect DEF Working
<1>2. pc = "teardown" /\ (pc' = "teardown" \/ (pc' = "add" /\ idx' = 1 /\ gone'))
  BY TeardownDone
<1>3. kernel' = kernel \/ \E e : CanRemove(cur, e) /\ kernel' = Removed(cur, e)
  BY TeardownDone
<1>4. \A c \in Bonds \ {cur} : kernel'[c] = kernel[c]
  <2>1. CASE kernel' = kernel
    BY <2>1
  <2>2. ASSUME NEW e, CanRemove(cur, e), kernel' = Removed(cur, e)
        PROVE  \A c \in Bonds \ {cur} : kernel'[c] = kernel[c]
    <3>1. Changed(Removed(cur, e), cur, Members(kernel[cur]) \ {e}, kernel[cur].mode)
      BY <2>2, CurLists, RemovedSound
    <3>2. QED
      BY <2>2, <3>1 DEF Changed
  <2>3. QED
    BY <2>1, <2>2, <1>3
<1>5. ~(pc' = "add" /\ (idx' > 1 \/ ~gone'))
  BY <1>2
<1>6. QED
  BY <1>1, <1>2, <1>4, <1>5, FrameFirsts

LEMMA AddFirsts ==
    ASSUME Inv1, Progress, Firsts, Add, ok'
    PROVE  Firsts'
<1> DEFINE l == config[cur].members
<1> USE DEF FirstPass, SecondPass, Between
<1>1. Fixed
  BY WorkingEffect DEF Working
<1>2. pc = "add" /\ gone' = gone
  BY AddDone DEF Add
<1>3. config[cur] # NoBond /\ cur \in Bonds /\ idx \in Nat \ {0}
  BY <1>2, CurLists DEF Inv1, SnapshotsOK
<1>4. l \in Seq(Ifs) /\ Sound(kernel, plugged \cap Capable)
  BY <1>3, CurLists
<1>5. (idx > 1 \/ ~gone) => FirstOK(cur)
  BY <1>2 DEF Firsts
\* a device joins behind the ones that are there
<1>6. /\ \A c \in Bonds \ {cur} : kernel'[c] = kernel[c]
      /\ \A h : LedBy(kernel[cur], h) => LedBy(kernel'[cur], h)
  <2>1. CASE kernel' = kernel
    BY <2>1
  <2>2. ASSUME NEW e, CanAdd(cur, e), kernel' = Added(cur, e)
        PROVE  /\ \A c \in Bonds \ {cur} : kernel'[c] = kernel[c]
               /\ \A h : LedBy(kernel[cur], h) => LedBy(kernel'[cur], h)
    <3>1. e \in Ifs \cap (plugged \cap Capable)
      BY <2>2, BondAssumption DEF CanAdd
    <3>2. Changed(Added(cur, e), cur, Members(kernel[cur]) \cup {e}, kernel[cur].mode)
      BY <3>1, <2>2, <1>3, <1>4, AddedSound
    <3>3. \A h : LedBy(kernel[cur], h) => LedBy(Added(cur, e)[cur], h)
      BY <3>1, <2>2, <1>3, <1>4, AddedLed
    <3>4. QED
      BY <3>2, <3>3, <2>2 DEF Changed
  <2>3. QED
    BY <2>1, <2>2, AddDone
<1>7. FirstOK(cur) => FirstOK(cur)'
  BY <1>1, <1>6 DEF FirstOK, Fixed
\* the first device of the configuration joins an empty bond
<1>8. ASSUME ~(idx > 1 \/ ~gone) PROVE FirstOK(cur)'
  <2>1. SUFFICES ASSUME l # <<>>, l[1] \in usable PROVE LedBy(kernel'[cur], l[1])
    BY <1>1 DEF FirstOK, Fixed
  <2>2. idx = 1 /\ gone /\ idx <= Len(l)
    BY <1>3, <1>4, <1>8, <2>1
  <2>3. CanAdd(cur, l[1]) /\ kernel' = Added(cur, l[1])
    BY <2>1, <2>2, AddDone DEF Missing
  <2>4. Members(kernel[cur]) = {}
    BY <1>2, <2>2 DEF Progress, CurProgress, Kept, Slice
  <2>5. l[1] \in Ifs
    BY <1>4, <2>1
  <2>6. QED
    BY <2>3, <2>4, <2>5, <1>3, <1>4, AddedLed
<1>9. FirstOK(cur)'
  BY <1>5, <1>7, <1>8
<1>10. pc' \in {"add", "apply"}
  BY AddDone
<1>11. QED
  BY <1>1, <1>2, <1>6, <1>9, <1>10, FrameFirsts

LEMMA CreateFirsts ==
    ASSUME Inv1, Firsts, Create, ok'
    PROVE  Firsts'
<1>1. Fixed
  BY WorkingEffect DEF Working
<1>2. PICK m \in Modes : pc = "create" /\ kernel[cur] = NoBond /\ kernel' = Created(cur, m)
  BY CreateDone
<1>3. Changed(kernel', cur, {}, m)
  BY <1>2, CurLists, CreatedSound
<1>4. pc' = "newMode"
  BY <1>2, <1>3, CreateDone DEF Changed
<1>5. QED
  BY <1>1, <1>2, <1>3, <1>4, FrameFirsts DEF FirstPass, SecondPass, Between, Changed

LEMMA NewModeFirsts ==
    ASSUME Inv1, Firsts, NewMode, calm'
    PROVE  Firsts'
<1>1. Fixed
  BY WorkingEffect DEF Working
<1>2. /\ pc = "newMode" /\ pc' = "add" /\ idx' = 1 /\ gone'
      /\ kernel[cur] # NoBond /\ kernel' = Moded(cur, config[cur].mode)
  BY NewModeDone
<1>3. config[cur] # NoBond
  BY <1>2 DEF Inv1, SnapshotsOK, FirstPass, SecondPass, Between
<1>4. Changed(kernel', cur, Members(kernel[cur]), config[cur].mode)
  BY <1>2, <1>3, CurLists, ModedSound
<1>5. ~(idx' > 1 \/ ~gone')
  BY <1>2
<1>6. QED
  BY <1>1, <1>2, <1>4, <1>5, FrameFirsts DEF FirstPass, SecondPass, Between, Changed

\* The first pass hands over every bond that it has not destroyed.
LEMMA PruneFirsts ==
    ASSUME Inv1, Firsts, Prune
    PROVE  Firsts'
<1> USE DEF FirstPass, SecondPass, Between
<1>1. /\ pc = "prune" /\ kernel' = kernel
      /\ config' = config /\ usable' = usable /\ active' = active
  BY DEF Prune, snapVars
<1>2. \A b \in Bonds : HeadKept(b)'
  BY <1>1 DEF Firsts, HeadKept
<1>3. CASE todo = {}
  <2>1. pc' = "apply" /\ todo' = {b \in Bonds : config[b] # NoBond}
    BY <1>3 DEF Prune
  <2>2. \A b \in Bonds : b \notin todo' => FirstOK(b)'
    BY <2>1, <1>1 DEF FirstOK
  <2>3. QED
    BY <2>1, <2>2, <1>2 DEF Firsts
<1>4. CASE todo # {}
  <2>1. pc' \in FirstPass
    BY <1>4 DEF Prune
  <2>2. QED
    BY <2>1, <1>2 DEF Firsts
<1>5. QED
  BY <1>3, <1>4

LEMMA ApplyFirsts ==
    ASSUME Inv1, Firsts, Apply
    PROVE  Firsts'
<1> USE DEF FirstPass, SecondPass, Between
<1>1. /\ pc = "apply" /\ kernel' = kernel
      /\ config' = config /\ usable' = usable /\ active' = active
  BY DEF Apply, snapVars
<1>2. \A b \in Bonds : (b \in todo => HeadKept(b)) /\ (b \notin todo => FirstOK(b))
  BY <1>1 DEF Firsts
<1>3. \A b \in Bonds : (HeadKept(b) => HeadKept(b)') /\ (FirstOK(b) => FirstOK(b)')
  BY <1>1 DEF HeadKept, FirstOK
<1>4. CASE todo = {}
  <2>1. pc' = "done"
    BY <1>4 DEF Apply
  <2>2. QED
    BY <2>1, <1>2, <1>3, <1>4 DEF Firsts
<1>5. CASE todo # {}
  <2>1. PICK b \in todo : /\ cur' = b /\ todo' = todo \ {b}
                          /\ pc' = IF active[b] = NoBond THEN "create"
                                   ELSE IF active[b] = config[b] THEN "apply" ELSE "change"
    BY <1>5 DEF Apply
  <2>2. b \in Bonds /\ config[b] # NoBond /\ HeadKept(b) /\ config \in Dicts
    BY <1>1, <1>2 DEF Inv1, TypeOK, SnapshotsOK, Dicts
  <2>3. active[b] = config[b] => FirstOK(b)
    <3>1. config[b].members \in Seq(Ifs) /\ Members(config[b]) = Elems(config[b].members)
      BY <2>2, ListMember
    <3>2. config[b].members # <<>> => config[b].members[1] \in Members(config[b])
      BY <3>1 DEF Elems
    <3>3. QED
      BY <3>2, <2>2 DEF HeadKept, FirstOK
  <2>4. \A c \in Bonds : c \in todo' => HeadKept(c)'
    BY <2>1, <1>2, <1>3
  <2>5. \A c \in Bonds : c \notin todo' /\ c # b => FirstOK(c)'
    BY <2>1, <1>2, <1>3
  <2>6. CASE active[b] = NoBond
    <3>1. pc' = "create"
      BY <2>1, <2>6
    <3>2. QED
      BY <3>1, <2>1, <2>4, <2>5 DEF Firsts
  <2>7. CASE active[b] # NoBond /\ active[b] = config[b]
    <3>1. pc' = "apply"
      BY <2>1, <2>7
    <3>2. FirstOK(b)'
      BY <2>2, <2>3, <2>7, <1>3
    <3>3. QED
      BY <3>1, <3>2, <2>4, <2>5 DEF Firsts
  <2>8. CASE active[b] # NoBond /\ active[b] # config[b]
    <3>1. pc' = "change"
      BY <2>1, <2>8
    <3>2. HeadKept(b)'
      BY <2>2, <1>3
    <3>3. QED
      BY <3>1, <3>2, <2>1, <2>4, <2>5 DEF Firsts
  <2>9. QED
    BY <2>6, <2>7, <2>8
<1>6. QED
  BY <1>4, <1>5

LEMMA FirstsStep ==
    ASSUME Inv1, calm /\ ok => Progress /\ Firsts, [Next]_vars, calm', ok'
    PROVE  Firsts'
<1>1. CASE Working
  <2>1. calm /\ ok
    BY <1>1, WorkingEffect, Zenon DEF Recorded
  <2>2. QED
    BY <2>1, <1>1, PruneMemberFirsts, TeardownFirsts, AddFirsts, DestroyFirsts,
       CreateFirsts, ChangeFirsts, NewModeFirsts, Zenon DEF Working
<1>2. CASE Prune \/ Apply
  <2>1. calm /\ ok
    BY <1>2, Zenon DEF Prune, Apply
  <2>2. QED
    BY <2>1, <1>2, PruneFirsts, ApplyFirsts
<1>3. CASE CopyActive
  <2>1. active' = kernel
    BY <1>3, Zenon DEF CopyActive
  <2>2. pc' = "prune" /\ kernel' = kernel
    BY <1>3 DEF CopyActive
  <2>3. \A b \in Bonds : HeadKept(b)'
    BY <2>1, <2>2 DEF HeadKept, LedBy
  <2>4. QED
    BY <2>2, <2>3 DEF Firsts, FirstPass, SecondPass
<1>4. CASE OpenSocket \/ UNCHANGED vars
  <2>1. calm /\ ok /\ pc' = pc /\ UNCHANGED <<kernel, snapVars, loopVars>>
    BY <1>4, Zenon DEF OpenSocket, vars
  <2>2. /\ kernel' = kernel /\ config' = config /\ usable' = usable
        /\ active' = active /\ todo' = todo /\ cur' = cur /\ idx' = idx
        /\ (gone' <=> gone)
    BY <2>1 DEF snapVars, loopVars
  <2>3. \A b \in Bonds : (HeadKept(b) => HeadKept(b)') /\ (FirstOK(b) => FirstOK(b)')
    BY <2>2 DEF HeadKept, FirstOK
  <2>4. /\ HeadKept(cur) => HeadKept(cur)'
        /\ FirstOK(cur) => FirstOK(cur)'
    BY <2>2 DEF HeadKept, FirstOK
  <2>5. Firsts
    BY <2>1
  <2>6. QED
    BY <2>1, <2>2, <2>3, <2>4, <2>5 DEF Firsts
<1>5. CASE CopyAll \/ Return \/ Crash \/ (Environment /\ ~Crash)
  <2>1. pc' \in {"idle", "copyActive"}
    <3>1. CASE Environment /\ ~Crash
      BY <3>1, EnvironmentKeeps, Zenon
    <3>2. QED
      BY <1>5, <3>1 DEF CopyAll, Return, Crash, Forget
  <2>2. QED
    BY <2>1 DEF Firsts, FirstPass, SecondPass
<1>6. QED
  BY <1>1, <1>2, <1>3, <1>4, <1>5 DEF Next, Update, Working, Environment

(***************************************************************************)
(* The result of an update is true, and it is TRUE unless something failed.*)
(***************************************************************************)
Inv2 ==
    Inv1 /\ (calm /\ ok => Progress /\ Firsts) /\ Clean /\ (pc = "idle" => ok)

LEMMA Init2 == Init => Inv2
<1> SUFFICES ASSUME Init PROVE Inv2
  OBVIOUS
<1>1. Inv1
  BY Init1
<1>2. pc = "idle"
  BY DEF Init
<1>3. Progress /\ Firsts
  BY <1>2 DEF Progress, CurProgress, OthersProgress, Firsts, FirstPass, SecondPass
<1>4. ok
  BY Zenon DEF Init
<1>5. QED
  BY <1>1, <1>3, <1>4, Zenon DEF Inv2, Clean

LEMMA Step2 == Inv2 /\ [Next]_vars => Inv2'
<1> SUFFICES ASSUME Inv2, [Next]_vars PROVE Inv2'
  OBVIOUS
<1>1. Inv1 /\ (calm /\ ok => Progress /\ Firsts) /\ Clean /\ (pc = "idle" => ok)
  BY Zenon DEF Inv2
<1>2. Inv1'
  BY <1>1, Step1
<1>3. calm' /\ ok' => Progress' /\ Firsts'
  BY <1>1, ProgressStep, FirstsStep, Zenon
<1>4. calm' /\ ~faulty' /\ Exclusive(config') => ok'
  BY <1>1, CleanStep, Zenon
<1>5. pc' = "idle" => ok'
  BY <1>1, IdleStep, Zenon
<1>6. QED
  BY <1>2, <1>3, <1>4, <1>5, Zenon DEF Inv2, Clean

LEMMA Always2 == Spec => []Inv2
  BY Init2, Step2, PTL DEF Spec

\* At every step of every update the kernel is where the snapshots and the
\* position in the two passes say, unless something failed or interfered.
THEOREM UpdateProgress == Spec => []UpdateInv
<1>1. Inv2 => UpdateInv
  BY Zenon DEF Inv2, Inv1, Clean, UpdateInv
<1>2. QED
  BY <1>1, Always2, PTL

\* _SCBondInterfaceUpdateConfiguration() returns TRUE only when the kernel has
\* what the preferences say, but for an unreported failure of a set-mode.
THEOREM ResultIsTrue == Spec => []FailureReported
<1>1. Inv2 => FailureReported
  <2>1. Progress /\ pc = "done" => InSync
    BY DEF Progress
  <2>2. QED
    BY <2>1, Zenon DEF Inv2, FailureReported
<1>2. QED
  BY <1>1, Always2, PTL

\* Without a fault it returns TRUE: the order of its two passes never asks the
\* kernel for what it must refuse, whatever bonds there are to begin with.
THEOREM CleanUpdateSucceeds == Spec => []CleanSucceeds
<1>1. Inv2 => CleanSucceeds
  BY Zenon DEF Inv2, Clean, CleanSucceeds
<1>2. QED
  BY <1>1, Always2, PTL

\* After a successful update the first configured device that can be a member
\* is the first one of its bond, so that the bond has that device's address:
\* the comparison of the first devices of two snapshots decides the re-ordering
\* correctly although the first pass has changed the kernel since.
THEOREM FirstStaysFirst == Spec => []PreferredFirst
<1>1. Inv2 => PreferredFirst
  <2>1. Firsts /\ pc = "done" => \A b \in Bonds : FirstOK(b)
    BY DEF Firsts
  <2>2. (\A b \in Bonds : FirstOK(b)) /\ pc = "done" => PreferredFirst
    BY DEF FirstOK, LedBy, PreferredFirst
  <2>3. Inv2 /\ pc = "done" /\ calm /\ ok => Firsts
    BY Zenon DEF Inv2
  <2>4. ~(pc = "done" /\ calm /\ ok) => PreferredFirst
    BY Zenon DEF PreferredFirst
  <2>5. QED
    BY <2>1, <2>2, <2>3, <2>4, Zenon
<1>2. QED
  BY <1>1, Always2, PTL

(***************************************************************************)
(* Members that are still wanted.                                          *)
(***************************************************************************)

\* a bond keeps its members in this step but, perhaps, those that its snapshot
\* of the configuration does not list
Wanted(b) == Members(kernel[b]) \cap Members(config[b]) \subseteq Members(kernel'[b])

LEMMA WantedStep ==
    ASSUME Inv1, Update, NEW b \in Bonds
    PROVE  Wanted(b) \/ (pc = "teardown" /\ cur = b)
<1> USE DEF Wanted
<1>1. cur \in Bonds /\ Sound(kernel, plugged \cap Capable)
  BY CurLists
<1>2. CASE kernel' = kernel
  BY <1>2
<1>3. CASE kernel' # kernel
  <2>1. CASE PruneMember
    <3>1. PICK e : ~Configured(e) /\ CanRemove(cur, e) /\ kernel' = Removed(cur, e)
      BY <2>1, <1>3 DEF PruneMember, Ioctl
    <3>2. Changed(kernel', cur, Members(kernel[cur]) \ {e}, kernel[cur].mode)
      BY <3>1, <1>1, RemovedSound
    <3>3. QED
      BY <3>1, <3>2 DEF Changed, Configured
  <2>2. CASE Teardown
    <3>1. PICK e : CanRemove(cur, e) /\ kernel' = Removed(cur, e)
      BY <2>2, <1>3 DEF Teardown, Ioctl
    <3>2. Changed(kernel', cur, Members(kernel[cur]) \ {e}, kernel[cur].mode)
      BY <3>1, <1>1, RemovedSound
    <3>3. QED
      BY <3>2, <2>2 DEF Changed, Teardown
  <2>3. CASE Add
    <3>1. PICK e : CanAdd(cur, e) /\ kernel' = Added(cur, e)
      BY <2>3, <1>3 DEF Add, Ioctl
    <3>2. e \in Ifs \cap (plugged \cap Capable)
      BY <3>1, BondAssumption DEF CanAdd
    <3>3. Changed(kernel', cur, Members(kernel[cur]) \cup {e}, kernel[cur].mode)
      BY <3>1, <3>2, <1>1, AddedSound
    <3>4. QED
      BY <3>3 DEF Changed
  <2>4. CASE Destroy
    <3>1. kernel' = Destroyed(cur) /\ config[cur] = NoBond
      BY <2>4, <1>3 DEF Destroy, Ioctl, Inv1, SnapshotsOK
    <3>2. \A c \in Bonds \ {cur} : kernel'[c] = kernel[c]
      BY <3>1, <1>1, DestroyedSound
    <3>3. QED
      BY <3>1, <3>2 DEF Members
  <2>5. CASE Change \/ NewMode
    <3>1. kernel[cur] # NoBond /\ kernel' = Moded(cur, config[cur].mode)
      BY <2>5, <1>3 DEF Change, NewMode, Ioctl
    <3>2. config[cur].mode \in Modes
      BY <2>5, CurLists DEF Inv1, SnapshotsOK, Change, NewMode, FirstPass, SecondPass, Between
    <3>3. Changed(kernel', cur, Members(kernel[cur]), config[cur].mode)
      BY <3>1, <3>2, <1>1, ModedSound
    <3>4. QED
      BY <3>3 DEF Changed
  <2>6. CASE Create
    <3>1. PICK m \in Modes : kernel[cur] = NoBond /\ kernel' = Created(cur, m)
      BY <2>6, <1>3 DEF Create, Ioctl
    <3>2. Changed(kernel', cur, {}, m) /\ Members(kernel[cur]) = {}
      BY <3>1, <1>1, CreatedSound DEF Members
    <3>3. QED
      BY <3>2 DEF Changed
  <2>7. ~(CopyAll \/ CopyActive \/ Prune \/ Apply \/ OpenSocket \/ Return)
    BY <1>3 DEF CopyAll, CopyActive, Prune, Apply, OpenSocket, Return
  <2>8. QED
    BY <2>1, <2>2, <2>3, <2>4, <2>5, <2>6, <2>7 DEF Update
<1>4. QED
  BY <1>2, <1>3

\* A bond is torn down only if its first device differs; what has the right
\* one keeps its members.
Spared == pc = "teardown" => FirstDiffers

LEMMA StaysStep ==
    ASSUME Inv1, Spared, StaysBonded, [Next]_vars
    PROVE  Spared' /\ StaysBonded'
<1>1. CASE Working
  <2>1. UNCHANGED <<config, active>> /\ (calm' => calm)
    BY <1>1, WorkingEffect DEF Fixed, Recorded, snapVars
  <2>2. pc \notin {"idle", "copyActive"}
    BY <1>1 DEF Working, PruneMember, Teardown, Add, Destroy, Create, Change, NewMode
  <2>3. Spared'
    <3>1. CASE Change
      BY <3>1, <2>1 DEF Change, Spared, FirstDiffers
    <3>2. CASE Teardown
      BY <3>2, <2>1 DEF Teardown, Spared, FirstDiffers
    <3>3. CASE PruneMember \/ Add \/ Destroy \/ Create \/ NewMode
      BY <3>3 DEF PruneMember, Add, Destroy, Create, NewMode, Spared
    <3>4. QED
      BY <3>1, <3>2, <3>3, <1>1 DEF Working
  <2>4. ASSUME NEW b \in Bonds, SameFirst(b), calm,
               NEW e \in Members(active[b]) \cap Members(config[b])
        PROVE  e \in Members(kernel'[b])
    <3>1. e \in Members(kernel[b])
      BY <2>2, <2>4 DEF StaysBonded
    <3>2. ~(pc = "teardown" /\ cur = b)
      BY <2>4 DEF Spared, FirstDiffers, SameFirst
    <3>3. Update
      BY <1>1 DEF Working, Update
    <3>4. QED
      BY <3>1, <3>2, <3>3, <2>4, WantedStep DEF Wanted
  <2>5. StaysBonded'
    BY <2>1, <2>4 DEF StaysBonded, SameFirst, Members
  <2>6. QED
    BY <2>3, <2>5
<1>2. CASE CopyActive
  BY <1>2 DEF CopyActive, Spared, StaysBonded, Members
<1>3. CASE CopyAll \/ Return \/ Edit \/ Crash
  BY <1>3 DEF CopyAll, Return, Edit, Crash, Forget, Spared, StaysBonded
<1>4. CASE Prune \/ Apply \/ OpenSocket \/ UNCHANGED vars
  <2>1. UNCHANGED <<config, active, kernel, calm>>
    BY <1>4 DEF Prune, Apply, OpenSocket, vars, snapVars
  <2>2. pc \in {"idle", "copyActive"} <=> pc' \in {"idle", "copyActive"}
    BY <1>4 DEF Prune, Apply, OpenSocket, NeedsSocket, vars
  <2>3. Spared'
    BY <1>4, <2>1 DEF Prune, Apply, OpenSocket, vars, loopVars, Spared, FirstDiffers
  <2>4. StaysBonded'
    BY <2>1, <2>2 DEF StaysBonded, SameFirst, Members
  <2>5. QED
    BY <2>3, <2>4
<1>5. CASE Outside \/ \E e \in Ifs : Unplug(e) \/ Plug(e)
  <2>1. /\ pc' = pc /\ calm' = (pc = "idle")
        /\ UNCHANGED <<config, active, cur>>
    BY <1>5 DEF Outside, Unplug, Plug, snapVars, loopVars
  <2>2. QED
    BY <2>1 DEF Spared, FirstDiffers, StaysBonded
<1>6. QED
  BY <1>1, <1>2, <1>3, <1>4, <1>5 DEF Next, Update, Environment, Working

\* An update never interrupts a bond that has the right first device, for any
\* lists and any failures of its requests.
THEOREM NoNeedlessTeardown == Spec => []StaysBonded
<1>1. Init => Spared /\ StaysBonded
  BY DEF Init, Spared, StaysBonded
<1>2. Inv2 => Inv1
  BY Zenon DEF Inv2
<1>3. Inv1 /\ (Spared /\ StaysBonded) /\ [Next]_vars => (Spared /\ StaysBonded)'
  BY StaysStep
<1>4. QED
  BY <1>1, <1>2, <1>3, Always2, PTL DEF Spec
=============================================================================
