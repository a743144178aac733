-------------------------- MODULE PrefsToolsProofs --------------------------
(***************************************************************************)
(* Theorems about PrefsTools, for any number of shells, programs, files    *)
(* and keys: no program overwrites what it has not read, nothing that was  *)
(* edited is dropped in silence, and what a program says is so.            *)
(***************************************************************************)
EXTENDS PrefsTools, TLAPS

USE PrefsFileAssumption, PrefsShellAssumption, PrefsToolsAssumption

(***************************************************************************)
(* Sessions, and what the calls of SCPreferences make of one.              *)
(***************************************************************************)
SessionSet ==
    [file : Files \cup {NoFile}, tree : {Unread} \cup Tree,
     base : {Unread} \cup Tree, signature : Nat,
     changed : BOOLEAN, locked : BOOLEAN]

LEMMA OpenedFields ==
    ASSUME NEW f \in Files \cup {NoFile}
    PROVE  /\ Opened(f) \in SessionSet
           /\ Opened(f).file = f
           /\ Opened(f).tree = Unread /\ Opened(f).base = Unread
           /\ ~Opened(f).changed /\ ~Opened(f).locked
  BY DEF Opened, SessionSet

LEMMA ClosedFields ==
    /\ Closed \in SessionSet
    /\ Closed.file = NoFile
    /\ Closed.tree = Unread /\ Closed.base = Unread
    /\ ~Closed.changed /\ ~Closed.locked
  BY OpenedFields DEF Closed

LEMMA AccessedFields ==
    ASSUME NEW x \in SessionSet, NEW t \in Tree, NEW n \in Nat
    PROVE  /\ Accessed(x, t, n) \in SessionSet
           /\ Accessed(x, t, n).file = x.file
           /\ Accessed(x, t, n).changed <=> x.changed
           /\ Accessed(x, t, n).locked <=> x.locked
           /\ Accessed(x, t, n).tree \in Tree
           /\ x.tree = Unread => /\ Accessed(x, t, n).tree = t
                                 /\ Accessed(x, t, n).base = t
                                 /\ Accessed(x, t, n).signature = n
           /\ x.tree # Unread => Accessed(x, t, n) = x
  BY DEF Accessed, SessionSet

LEMMA EditedFields ==
    ASSUME NEW x \in SessionSet, NEW t \in Tree
    PROVE  /\ Edited(x, t) \in SessionSet
           /\ Edited(x, t).file = x.file
           /\ Edited(x, t).tree = t /\ Edited(x, t).base = x.base
           /\ Edited(x, t).signature = x.signature
           /\ Edited(x, t).changed
           /\ Edited(x, t).locked <=> x.locked
  BY DEF Edited, SessionSet

LEMMA SynchronizedFields ==
    ASSUME NEW x \in SessionSet
    PROVE  /\ Synchronized(x) \in SessionSet
           /\ Synchronized(x).file = x.file
           /\ Synchronized(x).tree = Unread /\ Synchronized(x).base = Unread
           /\ ~Synchronized(x).changed
           /\ Synchronized(x).locked <=> x.locked
  BY DEF Synchronized, SessionSet

LEMMA WrittenFields ==
    ASSUME NEW x \in SessionSet, NEW n \in Nat
    PROVE  /\ Written(x, n) \in SessionSet
           /\ Written(x, n).file = x.file
           /\ Written(x, n).tree = x.tree /\ Written(x, n).base = x.tree
           /\ Written(x, n).signature = n
           /\ ~Written(x, n).changed
           /\ Written(x, n).locked <=> x.locked
  BY DEF Written, SessionSet

\* the session with or without the lock
WithLock(x, held) == [x EXCEPT !.locked = held]

LEMMA WithLockFields ==
    ASSUME NEW x \in SessionSet, NEW held \in BOOLEAN
    PROVE  /\ WithLock(x, held) \in SessionSet
           /\ WithLock(x, held).file = x.file
           /\ WithLock(x, held).tree = x.tree /\ WithLock(x, held).base = x.base
           /\ WithLock(x, held).signature = x.signature
           /\ WithLock(x, held).changed <=> x.changed
           /\ WithLock(x, held).locked <=> held
  BY DEF WithLock, SessionSet

(***************************************************************************)
(* The files and the sessions of all processes.                            *)
(***************************************************************************)
Store(d, g, o) ==
    d \in [Files -> Tree] /\ g \in [Files -> Nat] /\ o \in [Files -> Processes \cup {Nobody}]

Core ==
    /\ Store(disk, signature, owner)
    /\ session \in [Processes -> SessionSet]
    /\ \A p \in Processes : CopyOK(p, session[p], disk, signature, owner)

\* Process p's session becomes y, and no other session changes.
Becomes(p, y) == session' = [session EXCEPT ![p] = y]

\* The lock of a file goes from nobody to p, or from p.
OwnLocks(p) ==
    /\ owner' \in [Files -> Processes \cup {Nobody}]
    /\ \A f \in Files : \/ owner'[f] = owner[f]
                        \/ owner[f] \in {p, Nobody} /\ owner'[f] \in {p, Nobody}

LEMMA SessionFacts ==
    ASSUME Core, NEW p \in Processes
    PROVE  /\ session[p] \in SessionSet
           /\ CopyOK(p, session[p], disk, signature, owner)
           /\ session[p].file \in Files \cup {NoFile}
           /\ session[p].tree \in {Unread} \cup Tree
           /\ session[p].base \in {Unread} \cup Tree
           /\ session[p].signature \in Nat
  BY DEF Core, SessionSet

\* A step of p that writes no file.
LEMMA QuietStep ==
    ASSUME Core, NEW p \in Processes, NEW y \in SessionSet, Becomes(p, y),
           disk' = disk, signature' = signature, OwnLocks(p),
           CopyOK(p, y, disk, signature, owner')
    PROVE  Core'
<1>1. Store(disk', signature', owner')
  BY DEF Core, Store, OwnLocks
<1>2. /\ session' \in [Processes -> SessionSet] /\ session'[p] = y
      /\ \A q \in Processes \ {p} : session'[q] = session[q]
  BY DEF Core, Becomes
<1>3. ASSUME NEW q \in Processes, q # p
      PROVE  CopyOK(q, session[q], disk, signature, owner')
  <2>1. CopyOK(q, session[q], disk, signature, owner) /\ session[q].file \in Files \cup {NoFile}
    BY SessionFacts
  <2>2. session[q].locked => session[q].file \in Files /\ owner'[session[q].file] = q
    BY <2>1, <1>3 DEF CopyOK, OwnLocks
  <2>3. QED
    BY <2>1, <2>2 DEF CopyOK
<1>4. \A q \in Processes : CopyOK(q, session'[q], disk', signature', owner')
  BY <1>2, <1>3
<1>5. QED
  BY <1>1, <1>2, <1>4 DEF Core

\* The content that p sees is that of its copy, or of the file.
LEMMA ReadingFacts ==
    ASSUME Core, NEW p \in Processes
    PROVE  /\ Reading(p) \in SessionSet
           /\ Reading(p).file = session[p].file
           /\ Reading(p).changed <=> session[p].changed
           /\ Reading(p).locked <=> session[p].locked
           /\ session[p].file # NoFile => /\ Reading(p).tree \in Tree
                                          /\ Content(p) \in Tree
           /\ Content(p) = Reading(p).tree
           /\ session[p].tree # Unread => Reading(p) = session[p]
           /\ session[p].tree = Unread /\ session[p].file # NoFile =>
                 Content(p) = disk[session[p].file]
           /\ CopyOK(p, Reading(p), disk, signature, owner)
<1> DEFINE x == session[p]
           f == x.file
           r == Accessed(x, disk[f], signature[f])
<1>1. x \in SessionSet /\ CopyOK(p, x, disk, signature, owner) /\ f \in Files \cup {NoFile}
        /\ x.tree \in {Unread} \cup Tree
  BY SessionFacts
<1>2. CASE f = NoFile
  <2>1. Reading(p) = x /\ Content(p) = x.tree /\ x.tree = Unread
    BY <1>1, <1>2 DEF Reading, Content, CopyOK
  <2>2. QED
    BY <1>1, <1>2, <2>1
<1>3. CASE f # NoFile
  <2>1. disk[f] \in Tree /\ signature[f] \in Nat
    BY <1>1, <1>3 DEF Core, Store
  <2>2. Reading(p) = r /\ Content(p) = r.tree
    BY <1>3 DEF Reading, Content
  <2>3. /\ r \in SessionSet /\ r.file = f /\ r.tree \in Tree
        /\ r.changed <=> x.changed
        /\ r.locked <=> x.locked
        /\ x.tree = Unread => r.tree = disk[f] /\ r.base = disk[f] /\ r.signature = signature[f]
        /\ x.tree # Unread => r = x
    BY <1>1, <2>1, AccessedFields
  <2> HIDE DEF r, x
  <2>4. CASE x.tree = Unread
    <3>1. r.base = disk[f] /\ r.tree = disk[f] /\ r.signature = signature[f] /\ r.tree # Unread
      BY <2>1, <2>3, <2>4
    <3>2. CopyOK(p, r, disk, signature, owner)
      BY <3>1, <2>1, <2>3, <2>4, <1>1, <1>3 DEF CopyOK
    <3>3. QED
      BY <3>1, <3>2, <2>2, <2>3, <2>4, <1>3 DEF x
  <2>5. CASE x.tree # Unread
    BY <2>2, <2>3, <2>5, <1>1, <1>3 DEF x
  <2>6. QED
    BY <2>4, <2>5
<1>4. QED
  BY <1>2, <1>3

\* A copy that is not stale was made from what the file holds.
LEMMA Fresh ==
    ASSUME Core, NEW p \in Processes, session[p].file # NoFile, ~IsStale(p),
           session[p].tree # Unread
    PROVE  /\ session[p].signature = signature[session[p].file]
           /\ session[p].base = disk[session[p].file]
  BY SessionFacts DEF IsStale, Stale, CopyOK

\* A session with no copy: opened, closed or synchronized.
LEMMA RestedOK ==
    ASSUME NEW p \in Processes, NEW y \in SessionSet,
           y.tree = Unread, y.base = Unread, ~y.changed,
           y.locked => y.file # NoFile /\ owner'[y.file] = p
    PROVE  CopyOK(p, y, disk, signature, owner')
  BY DEF CopyOK

LEMMA EditedOK ==
    ASSUME Core, NEW p \in Processes, session[p].file # NoFile, NEW t \in Tree
    PROVE  /\ Edited(Reading(p), t) \in SessionSet
           /\ CopyOK(p, Edited(Reading(p), t), disk, signature, owner)
<1>1. /\ Reading(p) \in SessionSet /\ Reading(p).tree \in Tree
      /\ Reading(p).file = session[p].file
      /\ CopyOK(p, Reading(p), disk, signature, owner)
  BY ReadingFacts
<1> DEFINE r == Reading(p)
           y == Edited(r, t)
<1>2. /\ y \in SessionSet /\ y.file = r.file /\ y.tree = t /\ y.base = r.base
      /\ y.signature = r.signature /\ y.changed
      /\ y.locked <=> r.locked
  BY <1>1, EditedFields
<1>3. r.tree # Unread /\ t # Unread /\ r.file # NoFile
  BY <1>1
<1> HIDE DEF y, r
<1>4. CopyOK(p, y, disk, signature, owner)
  BY <1>1, <1>2, <1>3 DEF CopyOK, r
<1>5. QED
  BY <1>2, <1>4 DEF y, r

\* A step of p that writes its copy to the file, and keeps it or forgets it.
LEMMA WriteStep ==
    ASSUME Core, NEW p \in Processes, session[p].file # NoFile,
           session[p].changed, LockFree(p), ~IsStale(p),
           NEW y \in SessionSet, Becomes(p, y), owner' = owner,
           disk' = [disk EXCEPT ![session[p].file] = session[p].tree],
           signature' = [signature EXCEPT ![session[p].file] = @ + 1],
           y.file = session[p].file, y.locked <=> session[p].locked, ~y.changed,
           \/ y.tree = Unread /\ y.base = Unread
           \/ /\ y.tree = session[p].tree /\ y.base = session[p].tree
              /\ y.signature = signature[session[p].file] + 1
    PROVE  Core'
<1> DEFINE x == session[p]
           f == x.file
<1>1. /\ x \in SessionSet /\ CopyOK(p, x, disk, signature, owner)
      /\ f \in Files /\ x.tree \in {Unread} \cup Tree
  BY SessionFacts
<1>2. x.tree \in Tree
  BY <1>1 DEF CopyOK
<1>3. /\ Store(disk', signature', owner')
      /\ disk'[f] = x.tree /\ signature'[f] = signature[f] + 1
      /\ \A h \in Files \ {f} : disk'[h] = disk[h] /\ signature'[h] = signature[h]
      /\ signature[f] \in Nat
  BY <1>1, <1>2 DEF Core, Store
<1>4. /\ session' \in [Processes -> SessionSet] /\ session'[p] = y
      /\ \A q \in Processes \ {p} : session'[q] = session[q]
  BY DEF Core, Becomes
<1> HIDE DEF f
<1>5. ASSUME NEW q \in Processes, q # p
      PROVE  CopyOK(q, session[q], disk', signature', owner')
  <2>1. /\ CopyOK(q, session[q], disk, signature, owner)
        /\ session[q].file \in Files \cup {NoFile} /\ session[q].signature \in Nat
    BY SessionFacts
  <2>2. CASE session[q].file = f
    <3>1. ~session[q].locked
      <4>1. x.locked => owner[f] = p
        BY <1>1 DEF CopyOK, f
      <4>2. owner[f] \in {p, Nobody}
        BY <4>1 DEF LockFree, f
      <4>3. session[q].locked => owner[f] = q
        BY <2>1, <2>2 DEF CopyOK
      <4>4. QED
        BY <4>2, <4>3, <1>5
    <3>2. session[q].tree # Unread => session[q].signature <= signature[f]
      BY <2>1, <2>2 DEF CopyOK
    <3>3. session[q].tree # Unread => session[q].signature < signature'[f]
      BY <3>2, <2>1, <1>3
    <3>4. QED
      BY <3>1, <3>3, <2>1, <2>2, <1>3 DEF CopyOK
  <2>3. CASE session[q].file \in Files \ {f}
    BY <2>1, <2>3, <1>3 DEF CopyOK
  <2>4. CASE session[q].file = NoFile
    BY <2>1, <2>4 DEF CopyOK
  <2>5. QED
    BY <2>1, <2>2, <2>3, <2>4
<1>6. CopyOK(p, y, disk', signature', owner')
  <2>1. y.locked => owner'[y.file] = p
    BY <1>1 DEF CopyOK, f
  <2>2. QED
    BY <2>1, <1>1, <1>2, <1>3 DEF CopyOK, f
<1>7. \A q \in Processes : CopyOK(q, session'[q], disk', signature', owner')
  BY <1>4, <1>5, <1>6
<1>8. QED
  BY <1>3, <1>4, <1>7 DEF Core

\* SCPreferencesCommitChanges, once the lock is there and the copy is fresh.
LEMMA CommitStep ==
    ASSUME Core, NEW p \in Processes, session[p].file # NoFile,
           LockFree(p), ~IsStale(p), Commit(p), owner' = owner
    PROVE  /\ Core'
           /\ \A q \in Processes \ {p} : session'[q] = session[q]
           /\ session'[p].file = session[p].file
           /\ session'[p].tree = session[p].tree
           /\ ~session'[p].changed
           /\ session'[p].locked <=> session[p].locked
           /\ session[p].changed =>
                 /\ disk' = [disk EXCEPT ![session[p].file] = session[p].tree]
                 /\ signature' = [signature EXCEPT ![session[p].file] = @ + 1]
           /\ ~session[p].changed => disk' = disk /\ signature' = signature
<1> DEFINE x == session[p]
           n == signature[x.file] + 1
<1>1. x \in SessionSet /\ session \in [Processes -> SessionSet] /\ x.file \in Files
        /\ n \in Nat
  BY SessionFacts DEF Core, Store
<1>2. CASE x.changed
  <2>1. Becomes(p, Written(x, n))
    BY <1>1, <1>2 DEF Commit, Becomes
  <2>2. /\ disk' = [disk EXCEPT ![x.file] = x.tree]
        /\ signature' = [signature EXCEPT ![x.file] = @ + 1]
    BY <1>2 DEF Commit, Write
  <2>3. /\ Written(x, n) \in SessionSet /\ Written(x, n).file = x.file
        /\ Written(x, n).tree = x.tree /\ Written(x, n).base = x.tree
        /\ Written(x, n).signature = n /\ ~Written(x, n).changed
        /\ Written(x, n).locked <=> x.locked
    <3> HIDE DEF x, n
    <3> QED
      BY <1>1, WrittenFields
  <2>4. Core'
    BY <1>2, <2>1, <2>2, <2>3, WriteStep
  <2>5. session'[p] = Written(x, n) /\ \A q \in Processes \ {p} : session'[q] = session[q]
    BY <1>1, <2>1 DEF Becomes
  <2>6. QED
    BY <1>2, <2>2, <2>3, <2>4, <2>5
<1>3. CASE ~x.changed
  <2>1. session' = session /\ disk' = disk /\ signature' = signature
    BY <1>1, <1>3 DEF Commit, Write
  <2>2. Core'
    BY <2>1 DEF Core
  <2>3. QED
    BY <2>1, <2>2, <1>3
<1>4. QED
  BY <1>2, <1>3

(***************************************************************************)
(* The commands of a shell.                                                *)
(***************************************************************************)

\* the types of the other variables
ShellTypes ==
    /\ changed \in [Shells -> BOOLEAN] /\ value \in [Shells -> SUBSET Keys]
    /\ input \in [Shells -> {"tty", "pipe", "file", "ended"}]
    /\ blocked \in [Shells -> {"no", "lock", "commit"}]
    /\ said \in [Shells -> SUBSET {"refused", "abandoned", "failed"}]

\* What is promised of a step of shell s about s itself.
Tells(s) ==
    session[s].changed /\ ~session'[s].changed =>
       \/ disk'[session[s].file] = session[s].tree
       \/ said'[s] \cap {"abandoned"} # {}
       \/ DoSynchronize(s) \/ InputEnds(s)

KeepsLock(s) ==
    Orphans(s)' \ Orphans(s) # {} => changed[s] /\ input[s] = "tty" /\ DoOpen(s, Bang)

\* A process writes its own changes, and only over what its copy was made from.
Overwrites(p) ==
    \A f \in Files : signature'[f] # signature[f] \/ disk'[f] # disk[f] =>
       Commits(p, f) /\ session[p].base = disk[f]

Alone(p) == \A q \in Processes \ {p} : session'[q] = session[q]

\* Everything about a step of shell s.
Served(s) ==
    /\ Core' /\ Alone(s) /\ OwnLocks(s) /\ Overwrites(s)
    /\ session'[s].changed => changed'[s]
    /\ \A q \in Shells \ {s} : changed'[q] = changed[q]
    /\ Tells(s) /\ KeepsLock(s)

\* What a lemma about a command of shell s starts from.
Serving(s) == Core /\ ShellTypes /\ Marked(s) /\ Waiting(s)

LEMMA ShellProcess == \A s \in Shells : s \in Processes
  BY DEF Processes

\* The session is the same but, perhaps, for its lock.
LEMMA SameContent ==
    ASSUME NEW s \in Shells, session'[s].changed <=> session[s].changed
    PROVE  Tells(s)
  BY DEF Tells

\* The locks are where they were, and the session still knows its own.
LEMMA SameLocks ==
    ASSUME NEW s \in Shells, owner' = owner,
           session'[s].file = session[s].file, session'[s].locked <=> session[s].locked
    PROVE  KeepsLock(s)
<1>1. Orphans(s)' = Orphans(s)
  BY DEF Orphans
<1>2. QED
  BY <1>1 DEF KeepsLock

LEMMA SameOwner == ASSUME Core, owner' = owner, NEW p PROVE OwnLocks(p)
  BY DEF Core, Store, OwnLocks

\* A command that changes nothing of the session.
LEMMA NothingServed ==
    ASSUME NEW s \in Shells, Serving(s), disk' = disk, signature' = signature,
           owner' = owner, session' = session, changed' = changed
    PROVE  Served(s)
<1>1. Core' /\ Alone(s) /\ Overwrites(s) /\ OwnLocks(s)
  BY SameOwner DEF Serving, Core, Alone, Overwrites
<1>2. Tells(s) /\ KeepsLock(s)
  BY SameContent, SameLocks DEF Serving
<1>3. session'[s].changed => changed'[s]
  BY DEF Serving, Marked
<1>4. QED
  BY <1>1, <1>2, <1>3 DEF Served

\* A command that reads the file, if that has not been done.
LEMMA ReadServed ==
    ASSUME NEW s \in Shells, Serving(s), disk' = disk, signature' = signature,
           owner' = owner, session' = [session EXCEPT ![s] = Reading(s)],
           changed' = changed
    PROVE  Served(s)
<1>1. /\ s \in Processes /\ Core /\ session \in [Processes -> SessionSet]
      /\ Becomes(s, Reading(s))
  BY ShellProcess DEF Serving, Core, Becomes
<1>2. /\ Reading(s) \in SessionSet /\ Reading(s).file = session[s].file
      /\ Reading(s).changed <=> session[s].changed
      /\ Reading(s).locked <=> session[s].locked
      /\ Content(s) = Reading(s).tree
      /\ CopyOK(s, Reading(s), disk, signature, owner)
  BY <1>1, ReadingFacts
<1>3. session'[s] = Reading(s) /\ Alone(s)
  BY <1>1 DEF Alone
<1>4. OwnLocks(s)
  BY <1>1, SameOwner
<1>5. Core' /\ Overwrites(s)
  BY <1>1, <1>2, <1>4, QuietStep DEF Overwrites
<1>6. Tells(s)
  BY <1>2, <1>3 DEF Tells
<1>7. KeepsLock(s)
  BY <1>2, <1>3, SameLocks
<1>8. session'[s].changed => changed'[s]
  BY <1>2, <1>3 DEF Serving, Marked
<1>9. QED
  BY <1>3, <1>4, <1>5, <1>6, <1>7, <1>8 DEF Served

\* A command that edits the copy.
LEMMA EditServed ==
    ASSUME NEW s \in Shells, Serving(s), disk' = disk, signature' = signature,
           owner' = owner, session[s].file # NoFile, NEW t \in Tree, Edit(s, t)
    PROVE  Served(s)
<1> DEFINE y == Edited(Reading(s), t)
<1>1. /\ s \in Processes /\ Core /\ session \in [Processes -> SessionSet]
      /\ Becomes(s, y) /\ changed \in [Shells -> BOOLEAN]
      /\ changed' = [changed EXCEPT ![s] = TRUE]
  BY ShellProcess DEF Serving, Core, Becomes, Edit, ShellTypes
<1>2. /\ Reading(s) \in SessionSet /\ Reading(s).file = session[s].file
      /\ Reading(s).locked <=> session[s].locked
  BY <1>1, ReadingFacts
<1>3. /\ y \in SessionSet /\ y.file = session[s].file /\ y.tree = t /\ y.changed
      /\ y.locked <=> session[s].locked
  BY <1>2, EditedFields
<1>4. CopyOK(s, y, disk, signature, owner)
  BY <1>1, EditedOK
<1> HIDE DEF y
<1>5. session'[s] = y /\ Alone(s)
  BY <1>1 DEF Alone, Becomes
<1>6. OwnLocks(s)
  BY <1>1, SameOwner
<1>7. Core' /\ Overwrites(s)
  BY <1>1, <1>3, <1>4, <1>6, QuietStep DEF Overwrites
<1>8. Tells(s)
  BY <1>3, <1>5 DEF Tells
<1>9. KeepsLock(s)
  BY <1>3, <1>5, SameLocks
<1>10. changed'[s] /\ \A q \in Shells \ {s} : changed'[q] = changed[q]
  BY <1>1
<1>11. QED
  BY <1>5, <1>6, <1>7, <1>8, <1>9, <1>10 DEF Served

\* The session goes, or its copy.
LEMMA DropServed ==
    ASSUME NEW s \in Shells, Serving(s), disk' = disk, signature' = signature,
           OwnLocks(s), NEW y \in SessionSet, Becomes(s, y),
           y.tree = Unread, y.base = Unread, ~y.changed,
           y.locked => y.file # NoFile /\ owner'[y.file] = s,
           \A q \in Shells \ {s} : changed'[q] = changed[q],
           session[s].changed =>
              said'[s] \cap {"abandoned"} # {} \/ DoSynchronize(s) \/ InputEnds(s),
           KeepsLock(s)
    PROVE  Served(s)
<1>1. /\ s \in Processes /\ Core /\ session \in [Processes -> SessionSet]
  BY ShellProcess DEF Serving, Core
<1>2. session'[s] = y /\ Alone(s)
  BY <1>1 DEF Alone, Becomes
<1>3. CopyOK(s, y, disk, signature, owner')
  BY <1>1, RestedOK
<1>4. Core' /\ Overwrites(s)
  BY <1>1, <1>3, QuietStep DEF Overwrites
<1>5. Tells(s)
  BY <1>2 DEF Tells
<1>6. QED
  BY <1>2, <1>4, <1>5 DEF Served

\* A command that commits.
LEMMA CommitServed ==
    ASSUME NEW s \in Shells, Serving(s), session[s].file # NoFile, LockFree(s),
           ~IsStale(s), Commit(s), owner' = owner,
           changed' = [changed EXCEPT ![s] = FALSE]
    PROVE  Served(s)
<1> DEFINE f == session[s].file
<1>1. /\ s \in Processes /\ Core
      /\ CopyOK(s, session[s], disk, signature, owner) /\ f \in Files
  BY ShellProcess, SessionFacts DEF Serving
<1>2. /\ Core' /\ Alone(s)
      /\ session'[s].file = f
      /\ ~session'[s].changed
      /\ session'[s].locked <=> session[s].locked
      /\ session[s].changed => /\ disk' = [disk EXCEPT ![f] = session[s].tree]
                               /\ signature' = [signature EXCEPT ![f] = @ + 1]
      /\ ~session[s].changed => disk' = disk /\ signature' = signature
  BY <1>1, CommitStep DEF Alone
<1>3. session[s].changed => session[s].base = disk[f]
  BY <1>1, Fresh DEF CopyOK
<1>4. Overwrites(s)
  BY <1>1, <1>2, <1>3 DEF Overwrites, Commits, Core, Store
<1>5. Tells(s)
  BY <1>1, <1>2 DEF Tells, Core, Store
<1>6. KeepsLock(s) /\ OwnLocks(s)
  BY <1>1, <1>2, SameLocks, SameOwner
<1>7. \A q \in Shells \ {s} : changed'[q] = changed[q]
  BY DEF Serving, ShellTypes
<1>8. QED
  BY <1>2, <1>4, <1>5, <1>6, <1>7 DEF Served

\* What Release does to the locks of the process.
LEMMA Released ==
    ASSUME Core, NEW p \in Processes, Release(p)
    PROVE  /\ OwnLocks(p)
           /\ \A f \in Files : owner'[f] = p => f \in Orphans(p)
<1>1. /\ CopyOK(p, session[p], disk, signature, owner)
      /\ session[p].file \in Files \cup {NoFile}
      /\ owner \in [Files -> Processes \cup {Nobody}]
  BY SessionFacts DEF Core, Store
<1>2. CASE session[p].locked
  <2>1. session[p].file \in Files /\ owner[session[p].file] = p
    BY <1>1, <1>2 DEF CopyOK
  <2>2. owner' = [owner EXCEPT ![session[p].file] = Nobody]
    BY <1>2 DEF Release
  <2>3. QED
    BY <1>1, <2>1, <2>2 DEF OwnLocks, Orphans
<1>3. CASE ~session[p].locked
  <2>1. owner' = owner
    BY <1>3 DEF Release
  <2>2. QED
    BY <1>1, <1>3, <2>1 DEF OwnLocks, Orphans
<1>4. QED
  BY <1>2, <1>3

\* No lock is new to the process.
LEMMA OldLocks ==
    ASSUME NEW s \in Shells, \A f \in Files : owner'[f] = s => f \in Orphans(s)
    PROVE  KeepsLock(s)
  BY DEF KeepsLock, Orphans

LEMMA LockServed ==
    ASSUME NEW s \in Shells, Serving(s), disk' = disk, signature' = signature,
           changed' = changed, session[s].file # NoFile, ~session[s].locked,
           LockFree(s), ~IsStale(s),
           owner' = [owner EXCEPT ![session[s].file] = s],
           session' = [session EXCEPT ![s].locked = TRUE]
    PROVE  Served(s)
<1> DEFINE y == WithLock(session[s], TRUE)
           f == session[s].file
<1>1. /\ s \in Processes /\ Core /\ session \in [Processes -> SessionSet]
      /\ session[s] \in SessionSet /\ f \in Files
      /\ CopyOK(s, session[s], disk, signature, owner)
      /\ owner \in [Files -> Processes \cup {Nobody}]
  BY ShellProcess, SessionFacts DEF Serving, Core, Store
<1>2. /\ y \in SessionSet /\ y.file = f /\ y.tree = session[s].tree
      /\ y.base = session[s].base /\ y.signature = session[s].signature
      /\ y.changed <=> session[s].changed
      /\ y.locked
  BY <1>1, WithLockFields
<1>3. Becomes(s, y)
  BY <1>1 DEF Becomes, WithLock
<1> HIDE DEF y
<1>4. session'[s] = y /\ Alone(s)
  BY <1>1, <1>3 DEF Alone, Becomes
<1>5. owner'[f] = s /\ owner[f] = Nobody
  BY <1>1 DEF LockFree
<1>6. OwnLocks(s)
  BY <1>1, <1>5 DEF OwnLocks
<1>7. session[s].tree # Unread => session[s].signature = signature[f]
  BY <1>1, Fresh
<1>8. CopyOK(s, y, disk, signature, owner')
  BY <1>1, <1>2, <1>5, <1>7 DEF CopyOK
<1>9. Core' /\ Overwrites(s)
  BY <1>1, <1>2, <1>3, <1>6, <1>8, QuietStep DEF Overwrites
<1>10. Tells(s)
  BY <1>1, <1>2, <1>4, SameContent
<1>11. KeepsLock(s)
  <2>1. \A h \in Files : h \in Orphans(s)' => h \in Orphans(s)
    BY <1>1, <1>2, <1>4 DEF Orphans
  <2>2. QED
    BY <2>1 DEF KeepsLock, Orphans
<1>12. session'[s].changed => changed'[s]
  BY <1>2, <1>4 DEF Serving, Marked
<1>13. QED
  BY <1>4, <1>6, <1>9, <1>10, <1>11, <1>12 DEF Served

LEMMA UnlockServed ==
    ASSUME NEW s \in Shells, Serving(s), DoUnlock(s)
    PROVE  Served(s)
<1> DEFINE y == WithLock(session[s], FALSE)
<1>1. /\ s \in Processes /\ Core /\ session \in [Processes -> SessionSet]
      /\ session[s] \in SessionSet
      /\ CopyOK(s, session[s], disk, signature, owner)
  BY ShellProcess, SessionFacts DEF Serving, Core
<1>2. /\ y \in SessionSet /\ y.file = session[s].file /\ y.tree = session[s].tree
      /\ y.base = session[s].base /\ y.signature = session[s].signature
      /\ y.changed <=> session[s].changed
      /\ ~y.locked
  BY <1>1, WithLockFields
<1>3. /\ Becomes(s, y) /\ Release(s)
      /\ disk' = disk /\ signature' = signature /\ changed' = changed
  BY <1>1 DEF Becomes, WithLock, DoUnlock
<1> HIDE DEF y
<1>4. session'[s] = y /\ Alone(s)
  BY <1>1, <1>3 DEF Alone, Becomes
<1>5. OwnLocks(s) /\ KeepsLock(s)
  BY <1>1, <1>3, Released, OldLocks
<1>6. CopyOK(s, y, disk, signature, owner')
  BY <1>1, <1>2 DEF CopyOK
<1>7. Core' /\ Overwrites(s)
  BY <1>1, <1>2, <1>3, <1>5, <1>6, QuietStep DEF Overwrites
<1>8. Tells(s)
  BY <1>1, <1>2, <1>4, SameContent
<1>9. session'[s].changed => changed'[s]
  BY <1>2, <1>3, <1>4 DEF Serving, Marked
<1>10. QED
  BY <1>3, <1>4, <1>5, <1>7, <1>8, <1>9 DEF Served

LEMMA CommittedServed ==
    ASSUME NEW s \in Shells, Serving(s), Committed(s), LockFree(s), owner' = owner
    PROVE  Served(s)
<1>1. CASE session[s].file = NoFile \/ IsStale(s)
  BY <1>1, NothingServed DEF Committed
<1>2. CASE ~(session[s].file = NoFile \/ IsStale(s))
  BY <1>2, CommitServed DEF Committed
<1>3. QED
  BY <1>1, <1>2

\* Commands that make, set or forget the lock, or wait for it.
LEMMA LockingServed ==
    ASSUME NEW s \in Shells, Serving(s),
           (\E wait \in BOOLEAN : DoLock(s, wait)) \/ DoCommit(s) \/ Wake(s)
    PROVE  Served(s)
<1>1. ASSUME NEW wait \in BOOLEAN, DoLock(s, wait) PROVE Served(s)
  <2>1. disk' = disk /\ signature' = signature /\ changed' = changed
    BY <1>1 DEF DoLock
  <2>2. CASE owner' = owner /\ session' = session
    BY <2>1, <2>2, NothingServed
  <2>3. CASE ~(owner' = owner /\ session' = session)
    <3>1. /\ session[s].file # NoFile /\ ~session[s].locked /\ LockFree(s) /\ ~IsStale(s)
          /\ owner' = [owner EXCEPT ![session[s].file] = s]
          /\ session' = [session EXCEPT ![s].locked = TRUE]
      BY <1>1, <2>3 DEF DoLock
    <3>2. QED
      BY <2>1, <3>1, LockServed
  <2>4. QED
    BY <2>2, <2>3
<1>2. CASE DoCommit(s)
  <2>1. CASE LockFree(s)
    BY <1>2, <2>1, CommittedServed DEF DoCommit
  <2>2. CASE ~LockFree(s)
    BY <1>2, <2>2, NothingServed DEF DoCommit
  <2>3. QED
    BY <2>1, <2>2
<1>3. CASE Wake(s)
  <2>1. LockFree(s)
    BY <1>3 DEF Wake
  <2>2. CASE Committed(s) /\ UNCHANGED owner
    BY <2>1, <2>2, CommittedServed
  <2>3. CASE UNCHANGED <<disk, signature, owner, session, changed>>
    BY <2>3, NothingServed
  <2>4. CASE blocked[s] = "lock" /\ ~IsStale(s)
              /\ owner' = [owner EXCEPT ![session[s].file] = s]
              /\ session' = [session EXCEPT ![s].locked = TRUE]
              /\ UNCHANGED <<disk, signature, changed>>
    <3>1. session[s].file # NoFile /\ ~session[s].locked
      BY <2>4 DEF Serving, Waiting
    <3>2. QED
      BY <3>1, <2>1, <2>4, LockServed
  <2>5. QED
    BY <1>3, <2>2, <2>3, <2>4 DEF Wake
<1>4. QED
  BY <1>1, <1>2, <1>3

LEMMA SaysFacts ==
    ASSUME NEW s \in Shells, ShellTypes, NEW m, Says(s, m)
    PROVE  said'[s] = m
  BY DEF ShellTypes, Says

\* do_prefs_open
LEMMA OpenServed ==
    ASSUME NEW s \in Shells, Serving(s), NEW f \in Files, DoOpen(s, f)
    PROVE  Served(s)
<1>1. disk' = disk /\ signature' = signature
  BY DEF DoOpen
<1>2. CASE session[s].file # NoFile /\ CommitRequired(s, f) /\ Refuse(s)
  BY <1>1, <1>2, NothingServed DEF Refuse
<1>3. ASSUME session[s].file = NoFile \/ ~CommitRequired(s, f),
             NEW opened \in {Opened(f), Closed}, Replaced(s, opened),
             changed' = [changed EXCEPT ![s] =
                           /\ opened = Closed
                           /\ @ /\ (session[s].file = NoFile
                                    \/ CommitRequired(s, NoArgument))],
             Says(s, (IF session[s].file # NoFile THEN Abandons(s) ELSE {})
                      \cup {m \in {"failed"} : opened = Closed})
      PROVE  Served(s)
  <2>1. /\ s \in Processes /\ Core /\ ShellTypes
        /\ CopyOK(s, session[s], disk, signature, owner)
    BY ShellProcess, SessionFacts DEF Serving
  <2>2. /\ opened \in SessionSet /\ opened.tree = Unread /\ opened.base = Unread
        /\ ~opened.changed /\ ~opened.locked
    BY OpenedFields, ClosedFields
  <2>3. Becomes(s, opened)
    BY <1>3 DEF Replaced, Becomes
  <2>4. OwnLocks(s) /\ KeepsLock(s)
    <3>1. CASE CommitRequired(s, NoArgument)
      <4>1. owner' = owner
        BY <1>3, <3>1 DEF Replaced
      <4>2. OwnLocks(s)
        BY <2>1, <4>1, SameOwner
      <4>3. CASE session[s].file = NoFile
        <5>1. ~session[s].locked
          BY <2>1, <4>3 DEF CopyOK
        <5>2. \A h \in Files : owner'[h] = s => h \in Orphans(s)
          BY <4>1, <5>1 DEF Orphans
        <5>3. QED
          BY <4>2, <5>2, OldLocks
      <4>4. CASE ~CommitRequired(s, f)
        <5>1. f = Bang /\ changed[s] /\ input[s] = "tty"
          BY <3>1, <4>4 DEF CommitRequired
        <5>2. QED
          BY <4>2, <5>1 DEF KeepsLock
      <4>5. QED
        BY <1>3, <4>3, <4>4
    <3>2. CASE ~CommitRequired(s, NoArgument)
      <4>1. Release(s)
        BY <1>3, <3>2 DEF Replaced
      <4>2. QED
        BY <2>1, <4>1, Released, OldLocks
    <3>3. QED
      BY <3>1, <3>2
  <2>5. session[s].changed => said'[s] \cap {"abandoned"} # {}
    <3>1. SUFFICES ASSUME session[s].changed PROVE said'[s] \cap {"abandoned"} # {}
      OBVIOUS
    <3>2. session[s].file # NoFile /\ changed[s]
      BY <2>1, <3>1 DEF CopyOK, Serving, Marked
    <3>3. "abandoned" \in said'[s]
      BY <1>3, <2>1, <3>2, SaysFacts DEF Abandons
    <3>4. QED
      BY <3>3
  <2>6. \A q \in Shells \ {s} : changed'[q] = changed[q]
    BY <1>3, <2>1 DEF ShellTypes
  <2>7. QED
    BY <1>1, <2>2, <2>3, <2>4, <2>5, <2>6, DropServed
<1>4. QED
  BY <1>2, <1>3 DEF DoOpen

\* What a command that drops the changes of a session tells the user.
LEMMA AbandonsTold ==
    ASSUME NEW s \in Shells, Serving(s), session[s].changed, Says(s, Abandons(s))
    PROVE  said'[s] \cap {"abandoned"} # {}
<1>1. changed[s] /\ ShellTypes
  BY DEF Serving, Marked
<1>2. "abandoned" \in said'[s]
  BY <1>1, SaysFacts DEF Abandons
<1>3. QED
  BY <1>2

\* The process exits.
LEMMA ExitServed ==
    ASSUME NEW s \in Shells, Serving(s), Exit(s), disk' = disk,
           signature' = signature, changed' = changed,
           session[s].changed => said'[s] \cap {"abandoned"} # {} \/ InputEnds(s)
    PROVE  Served(s)
<1>1. /\ s \in Processes /\ Core
      /\ owner \in [Files -> Processes \cup {Nobody}]
  BY ShellProcess DEF Serving, Core, Store
<1>2. Becomes(s, Closed)
  BY DEF Exit, Becomes
<1>3. \A f \in Files : owner'[f] = IF owner[f] = s THEN Nobody ELSE owner[f]
  BY DEF Exit
<1>4. owner' \in [Files -> Processes \cup {Nobody}]
  BY <1>1 DEF Exit
<1>5. OwnLocks(s) /\ \A f \in Files : owner'[f] # s
  BY <1>1, <1>3, <1>4 DEF OwnLocks
<1>6. KeepsLock(s)
  BY <1>5, OldLocks
<1>7. QED
  BY <1>2, <1>5, <1>6, ClosedFields, DropServed

LEMMA LeavingServed ==
    ASSUME NEW s \in Shells, Serving(s), NEW argument,
           DoClose(s, argument) \/ DoQuit(s, argument) \/ InputEnds(s)
    PROVE  Served(s)
<1>1. CASE DoClose(s, argument)
  <2>1. disk' = disk /\ signature' = signature
    BY <1>1 DEF DoClose
  <2>2. CASE Refuse(s)
    BY <2>1, <2>2, NothingServed DEF Refuse
  <2>3. CASE Close(s) /\ Says(s, Abandons(s))
    <3>1. Becomes(s, Closed) /\ Release(s)
      BY <2>3 DEF Close, Becomes
    <3>2. OwnLocks(s) /\ KeepsLock(s)
      BY <3>1, ShellProcess, Released, OldLocks DEF Serving
    <3>3. session[s].changed => said'[s] \cap {"abandoned"} # {}
      BY <2>3, AbandonsTold
    <3>4. \A q \in Shells \ {s} : changed'[q] = changed[q]
      BY <2>3 DEF Close, Serving, ShellTypes
    <3>5. QED
      BY <2>1, <3>1, <3>2, <3>3, <3>4, ClosedFields, DropServed
  <2>4. QED
    BY <1>1, <2>2, <2>3 DEF DoClose
<1>2. CASE DoQuit(s, argument)
  <2>1. disk' = disk /\ signature' = signature /\ changed' = changed
    BY <1>2 DEF DoQuit
  <2>2. CASE owner' = owner /\ session' = session
    BY <2>1, <2>2, NothingServed
  <2>3. CASE Exit(s) /\ Says(s, Abandons(s))
    <3>1. session[s].changed => said'[s] \cap {"abandoned"} # {}
      BY <2>3, AbandonsTold
    <3>2. QED
      BY <2>1, <2>3, <3>1, ExitServed
  <2>4. QED
    BY <1>2, <2>2, <2>3 DEF DoQuit
<1>3. CASE InputEnds(s)
  <2>1. Exit(s) /\ disk' = disk /\ signature' = signature /\ changed' = changed
    BY <1>3 DEF InputEnds
  <2>2. QED
    BY <1>3, <2>1, ExitServed
<1>4. QED
  BY <1>1, <1>2, <1>3

\* do_prefs_synchronize
LEMMA SynchronizeServed ==
    ASSUME NEW s \in Shells, Serving(s), DoSynchronize(s)
    PROVE  Served(s)
<1> DEFINE y == Synchronized(session[s])
<1>1. /\ s \in Processes /\ Core /\ session[s] \in SessionSet
      /\ CopyOK(s, session[s], disk, signature, owner)
  BY ShellProcess, SessionFacts DEF Serving
<1>2. /\ y \in SessionSet /\ y.file = session[s].file
      /\ y.tree = Unread /\ y.base = Unread /\ ~y.changed
      /\ y.locked <=> session[s].locked
  BY <1>1, SynchronizedFields
<1>3. /\ Becomes(s, y)
      /\ disk' = disk /\ signature' = signature /\ owner' = owner /\ changed' = changed
  BY DEF Becomes, DoSynchronize
<1> HIDE DEF y
<1>4. session'[s] = y
  BY <1>1, <1>3 DEF Becomes, Core
<1>5. OwnLocks(s) /\ KeepsLock(s)
  BY <1>1, <1>2, <1>3, <1>4, SameOwner, SameLocks
<1>6. y.locked => y.file # NoFile /\ owner'[y.file] = s
  BY <1>1, <1>2, <1>3 DEF CopyOK
<1>7. QED
  BY <1>2, <1>3, <1>5, <1>6, DropServed

\* What do_prefs_set puts in the place of the tree
LEMMA WithValueFacts ==
    ASSUME NEW t \in Tree, NEW path \in Paths, NEW v \in SUBSET Keys
    PROVE  /\ WithValue(t, path, v) \in Tree
           /\ [t EXCEPT !.child = Link] \in Tree
<1>1. CASE path = "/"
  BY <1>1 DEF WithValue, Tree
<1>2. CASE path = "/child"
  BY <1>2 DEF WithValue, Tree
<1>3. QED
  BY <1>1, <1>2 DEF Paths

LEMMA SetServed ==
    ASSUME NEW s \in Shells, Serving(s), NEW path \in Paths, DoSet(s, path)
    PROVE  Served(s)
<1>1. /\ session[s].file # NoFile
      /\ disk' = disk /\ signature' = signature /\ owner' = owner
  BY DEF DoSet
<1>2. Content(s) \in Tree /\ value[s] \in SUBSET Keys
  BY <1>1, ShellProcess, ReadingFacts DEF Serving, ShellTypes
<1>3. CASE NoEdit(s)
  BY <1>1, <1>3, ReadServed DEF NoEdit
<1>4. CASE \E t \in Tree : Edit(s, t)
  BY <1>1, <1>4, EditServed
<1>5. QED
  BY <1>2, <1>3, <1>4, WithValueFacts DEF DoSet

LEMMA RemoveServed ==
    ASSUME NEW s \in Shells, Serving(s), DoRemove(s)
    PROVE  Served(s)
<1>1. /\ session[s].file # NoFile
      /\ disk' = disk /\ signature' = signature /\ owner' = owner
  BY DEF DoRemove
<1>2. Content(s) \in Tree
  BY <1>1, ShellProcess, ReadingFacts DEF Serving
<1>3. CASE NoEdit(s)
  BY <1>1, <1>3, ReadServed DEF NoEdit
<1>4. CASE \E t \in Tree : Edit(s, t)
  BY <1>1, <1>4, EditServed
<1>5. [Content(s) EXCEPT !.child = Missing] \in Tree
        /\ [Content(s) EXCEPT !.top = @ \ {Child}] \in Tree
  BY <1>2 DEF Tree
<1>6. QED
  BY <1>3, <1>4, <1>5 DEF DoRemove

LEMMA ShellServed ==
    ASSUME NEW s \in Shells, Serving(s), ShellNext(s)
    PROVE  Served(s)
<1>1. CASE DoApply(s) \/ (\E v \in SUBSET Keys : DoDictionary(s, v))
              \/ DoReadFile(s) \/ FileEnds(s)
  BY <1>1, NothingServed DEF DoApply, DoDictionary, DoReadFile, FileEnds
<1>2. CASE DoList(s) \/ \E path \in Paths : DoGet(s, path)
  BY <1>2, ReadServed DEF DoList, DoGet
<1>3. QED
  BY <1>1, <1>2, OpenServed, LockingServed, UnlockServed, LeavingServed,
     SynchronizeServed, SetServed, RemoveServed DEF ShellNext

\* While a call waits the shell does nothing else.
LEMMA WaitingStep ==
    ASSUME NEW s \in Shells, Serving(s), ShellNext(s)
    PROVE  Waiting(s)'
<1>1. blocked \in [Shells -> {"no", "lock", "commit"}]
  BY DEF Serving, ShellTypes
<1>2. CASE blocked'[s] = "no"
  BY <1>2 DEF Waiting
<1>3. CASE session' = session /\ ~LockFree(s)
  BY <1>3 DEF Waiting, LockFree
<1>4. ASSUME NEW wait \in BOOLEAN, DoLock(s, wait) PROVE Waiting(s)'
  <2>1. blocked' = blocked \/ (session' = session /\ ~LockFree(s))
    BY <1>4 DEF DoLock
  <2>2. QED
    BY <2>1, <1>2, <1>3, <1>4 DEF DoLock, Ready
<1>5. CASE DoCommit(s)
  <2>1. blocked' = blocked \/ (session' = session /\ ~LockFree(s))
    BY <1>5 DEF DoCommit
  <2>2. QED
    BY <2>1, <1>2, <1>3, <1>5 DEF DoCommit, Ready
<1>6. CASE Wake(s)
  BY <1>1, <1>2, <1>6 DEF Wake
<1>7. CASE blocked' = blocked /\ Ready(s)
  BY <1>2, <1>7 DEF Ready
<1>8. QED
  BY <1>4, <1>5, <1>6, <1>7 DEF ShellNext, DoOpen, DoUnlock, DoApply, DoClose, DoQuit,
     DoSynchronize, DoList, DoGet, DoSet, DoRemove, DoDictionary, DoReadFile,
     FileEnds, InputEnds

(***************************************************************************)
(* The other programs.                                                     *)
(***************************************************************************)

\* Everything about a step of process p that is no shell.
Used(p) ==
    /\ Core' /\ Alone(p) /\ owner' = owner /\ Overwrites(p)
    /\ ~session'[p].locked

LEMMA ToolProcess == \A p \in Tools : p \in Processes /\ p \notin Shells
  BY DEF Processes

LEMMA ToolQuiet ==
    ASSUME Core, NEW p \in Tools, NEW y \in SessionSet, Becomes(p, y), ~y.locked,
           disk' = disk, signature' = signature, owner' = owner,
           CopyOK(p, y, disk, signature, owner)
    PROVE  Used(p) /\ session'[p] = y
<1>1. p \in Processes /\ session \in [Processes -> SessionSet]
  BY ToolProcess DEF Core
<1>2. OwnLocks(p)
  BY SameOwner
<1>3. Core'
  BY <1>1, <1>2, QuietStep
<1>4. session'[p] = y /\ Alone(p)
  BY <1>1 DEF Becomes, Alone
<1>5. QED
  BY <1>3, <1>4 DEF Used, Overwrites

\* A session that is opened or closed.
LEMMA ToolRests ==
    ASSUME Core, NEW p \in Tools, NEW y \in SessionSet, Becomes(p, y),
           y.tree = Unread, y.base = Unread, ~y.changed, ~y.locked,
           disk' = disk, signature' = signature, owner' = owner
    PROVE  Used(p) /\ session'[p] = y
<1>1. p \in Processes
  BY ToolProcess
<1>2. CopyOK(p, y, disk, signature, owner')
  BY <1>1, RestedOK
<1>3. QED
  BY <1>2, ToolQuiet

OnceTypes ==
    at \in [Once -> {"start", "open", "asking", "edited", "saved", "ok", "error"}]

\* What is promised of the exit status of program j.
SavedTrue(j) ==
    (at'[j] = "saved" /\ at[j] # "saved")
       => (Flag \in disk'[Main].top) = (Does[j] # "clear")

FoundTrue(j) ==
    (at'[j] = "ok" /\ at[j] # "ok") =>
       \/ at[j] = "saved"
       \/ Does[j] = "get" /\ Flag \in disk[Main].top

\* Everything about a step of program j.
Ran(j) ==
    /\ Used(j) /\ OnceOK(j)' /\ SavedTrue(j) /\ FoundTrue(j)
    /\ \A k \in Once \ {j} : at'[k] = at[k]

\* What a lemma about a step of program j starts from.
Running(j) == Core /\ OnceTypes /\ OnceOK(j) /\ ~session[j].locked

LEMMA EndsRan ==
    ASSUME NEW j \in Once, Running(j), NEW status \in {"ok", "error"}, Ends(j, status),
           disk' = disk, signature' = signature, owner' = owner,
           status = "ok" => \/ at[j] = "saved"
                            \/ Does[j] = "get" /\ Flag \in disk[Main].top
    PROVE  Ran(j)
<1>1. Becomes(j, Closed) /\ Core /\ j \in Tools
  BY DEF Ends, Becomes, Running
<1>2. Used(j)
  BY <1>1, ClosedFields, ToolRests
<1>3. at'[j] = status /\ \A k \in Once \ {j} : at'[k] = at[k]
  BY DEF Ends, Goes, Running, OnceTypes
<1>4. OnceOK(j)'
  BY <1>3 DEF OnceOK
<1>5. SavedTrue(j) /\ FoundTrue(j)
  BY <1>3 DEF SavedTrue, FoundTrue
<1>6. QED
  BY <1>2, <1>3, <1>4, <1>5 DEF Ran

LEMMA OpenRan ==
    ASSUME NEW j \in Once, Running(j), Open(j)
    PROVE  Ran(j)
<1>1. disk' = disk /\ signature' = signature /\ owner' = owner
  BY DEF Open
<1>2. CASE Ends(j, "error")
  BY <1>1, <1>2, EndsRan
<1>3. CASE session' = [session EXCEPT ![j] = Opened(Main)] /\ Goes(j, "open")
  <2>1. Becomes(j, Opened(Main)) /\ Core /\ j \in Tools
    BY <1>3 DEF Becomes, Running
  <2>2. /\ Opened(Main) \in SessionSet /\ Opened(Main).file = Main
        /\ Opened(Main).tree = Unread /\ Opened(Main).base = Unread
        /\ ~Opened(Main).changed /\ ~Opened(Main).locked
    BY OpenedFields
  <2>3. Used(j) /\ session'[j] = Opened(Main)
    BY <1>1, <2>1, <2>2, ToolRests
  <2>4. at'[j] = "open" /\ \A k \in Once \ {j} : at'[k] = at[k]
    BY <1>3 DEF Goes, Running, OnceTypes
  <2>5. OnceOK(j)'
    BY <2>2, <2>3, <2>4 DEF OnceOK
  <2>6. SavedTrue(j) /\ FoundTrue(j)
    BY <2>4 DEF SavedTrue, FoundTrue
  <2>7. QED
    BY <2>3, <2>4, <2>5, <2>6 DEF Ran
<1>4. QED
  BY <1>2, <1>3 DEF Open

LEMMA AskRan ==
    ASSUME NEW j \in Once, Running(j), Ask(j)
    PROVE  Ran(j)
<1>1. /\ disk' = disk /\ signature' = signature /\ owner' = owner
      /\ Core /\ j \in Tools /\ j \in Processes /\ at[j] = "open"
  BY ToolProcess DEF Ask, Running
<1>2. /\ session[j] \in SessionSet /\ CopyOK(j, session[j], disk, signature, owner)
      /\ session[j].file = Main /\ ~session[j].changed /\ ~session[j].locked
  BY <1>1, SessionFacts DEF Running, OnceOK, CopyOK
<1>3. /\ Reading(j) \in SessionSet /\ Reading(j).file = Main
      /\ ~Reading(j).changed /\ ~Reading(j).locked
      /\ CopyOK(j, Reading(j), disk, signature, owner)
  BY <1>1, <1>2, ReadingFacts
<1>4. PICK y \in {session[j], Reading(j)} : Becomes(j, y)
  BY <1>1 DEF Ask, Becomes, Core
<1>5. /\ y \in SessionSet /\ y.file = Main /\ ~y.changed /\ ~y.locked
      /\ CopyOK(j, y, disk, signature, owner)
  BY <1>2, <1>3, <1>4
<1>6. Used(j) /\ session'[j] = y
  BY <1>1, <1>4, <1>5, ToolQuiet
<1>7. at'[j] = "asking" /\ \A k \in Once \ {j} : at'[k] = at[k]
  BY DEF Ask, Goes, Running, OnceTypes
<1>8. OnceOK(j)'
  BY <1>5, <1>6, <1>7 DEF OnceOK
<1>9. SavedTrue(j) /\ FoundTrue(j)
  BY <1>7 DEF SavedTrue, FoundTrue
<1>10. QED
  BY <1>6, <1>7, <1>8, <1>9 DEF Ran

LEMMA WithFlagFacts ==
    ASSUME NEW t \in Tree, NEW on \in BOOLEAN
    PROVE  /\ WithFlag(t, on) \in Tree
           /\ Flag \in WithFlag(t, on).top <=> on
<1>1. CASE on
  BY <1>1 DEF WithFlag, Tree
<1>2. CASE ~on
  BY <1>2 DEF WithFlag, Tree
<1>3. QED
  BY <1>1, <1>2

LEMMA EditsRan ==
    ASSUME NEW j \in Once, Running(j), at[j] \in {"open", "asking"},
           NEW on \in BOOLEAN, Edits(j, on), on <=> Does[j] # "clear",
           disk' = disk, signature' = signature, owner' = owner
    PROVE  Ran(j)
<1>1. /\ Core /\ j \in Tools /\ j \in Processes /\ session[j].file = Main
      /\ ~session[j].locked /\ Main # NoFile
  BY ToolProcess DEF Running, OnceOK
<1>2. /\ Content(j) \in Tree /\ Reading(j) \in SessionSet /\ Reading(j).file = Main
      /\ ~Reading(j).locked
  BY <1>1, ReadingFacts
<1>3. PICK t : t = WithFlag(Content(j), on)
  OBVIOUS
<1>4. t \in Tree /\ (Flag \in t.top <=> on)
  BY <1>2, <1>3, WithFlagFacts
<1> DEFINE y == Edited(Reading(j), t)
<1>5. /\ y \in SessionSet /\ y.file = Main /\ y.tree = t /\ y.changed /\ ~y.locked
  BY <1>2, <1>4, EditedFields
<1>6. CopyOK(j, y, disk, signature, owner)
  BY <1>1, <1>4, EditedOK
<1>7. Becomes(j, y) /\ at' = [at EXCEPT ![j] = "edited"]
  BY <1>3 DEF Edits, Becomes, Goes
<1> HIDE DEF y
<1>8. Used(j) /\ session'[j] = y
  BY <1>1, <1>5, <1>6, <1>7, ToolQuiet
<1>9. at'[j] = "edited" /\ \A k \in Once \ {j} : at'[k] = at[k]
  BY <1>7 DEF Running, OnceTypes
<1>10. OnceOK(j)'
  BY <1>4, <1>5, <1>8, <1>9 DEF OnceOK
<1>11. SavedTrue(j) /\ FoundTrue(j)
  BY <1>9 DEF SavedTrue, FoundTrue
<1>12. QED
  BY <1>8, <1>9, <1>10, <1>11 DEF Ran

\* _prefs_save writes what was edited, and exits if somebody else has written.
LEMMA SaveRan ==
    ASSUME NEW j \in Once, Running(j), Save(j)
    PROVE  Ran(j)
<1>1. /\ Core /\ j \in Tools /\ j \in Processes /\ session[j].file = Main
      /\ ~session[j].locked /\ Main # NoFile /\ at[j] = "edited" /\ LockFree(j)
      /\ session[j].changed /\ (Flag \in session[j].tree.top <=> Does[j] # "clear")
      /\ owner' = owner
  BY ToolProcess DEF Running, OnceOK, Save
<1>2. CASE IsStale(j)
  <2>1. Ends(j, "error") /\ disk' = disk /\ signature' = signature
    BY <1>2 DEF Save
  <2>2. QED
    BY <1>1, <2>1, EndsRan
<1>3. CASE ~IsStale(j)
  <2>1. Commit(j) /\ Goes(j, "saved")
    BY <1>3 DEF Save
  <2>2. /\ Core' /\ Alone(j)
        /\ session'[j].locked <=> session[j].locked
        /\ ~session'[j].changed
        /\ disk' = [disk EXCEPT ![Main] = session[j].tree]
        /\ signature' = [signature EXCEPT ![Main] = @ + 1]
    BY <1>1, <1>3, <2>1, CommitStep DEF Alone
  <2>3. session[j].tree # Unread
    BY <1>1, SessionFacts DEF CopyOK
  <2>4. session[j].base = disk[Main]
    BY <1>1, <1>3, <2>3, Fresh
  <2>5. Overwrites(j)
    BY <1>1, <2>2, <2>4 DEF Overwrites, Commits, Core, Store
  <2>6. Used(j)
    BY <1>1, <2>2, <2>5 DEF Used
  <2>7. at'[j] = "saved" /\ \A k \in Once \ {j} : at'[k] = at[k]
    BY <2>1 DEF Goes, Running, OnceTypes
  <2>8. disk'[Main] = session[j].tree
    BY <1>1, <2>2 DEF Core, Store
  <2>9. OnceOK(j)' /\ FoundTrue(j)
    BY <2>7 DEF OnceOK, FoundTrue
  <2>10. SavedTrue(j)
    BY <1>1, <2>8 DEF SavedTrue
  <2>11. QED
    BY <2>6, <2>7, <2>9, <2>10 DEF Ran
<1>4. QED
  BY <1>2, <1>3

\* A value is found in the session that has just been opened, so in the file.
LEMMA GetRan ==
    ASSUME NEW j \in Once, Running(j), Get(j)
    PROVE  Ran(j)
<1>1. /\ Core /\ j \in Tools /\ j \in Processes /\ session[j].file = Main
      /\ session[j].tree = Unread /\ Main # NoFile
      /\ disk' = disk /\ signature' = signature /\ owner' = owner
  BY ToolProcess DEF Running, OnceOK, Get
<1>2. Content(j) = disk[Main]
  BY <1>1, ReadingFacts
<1>3. CASE HasValue(j)
  <2>1. Ends(j, "ok") /\ Does[j] = "get" /\ Flag \in disk[Main].top
    BY <1>2, <1>3 DEF Get, HasValue
  <2>2. QED
    BY <1>1, <2>1, EndsRan
<1>4. CASE ~HasValue(j)
  <2>1. Ends(j, "error")
    BY <1>4 DEF Get
  <2>2. QED
    BY <1>1, <2>1, EndsRan
<1>5. QED
  BY <1>3, <1>4

LEMMA OnceRan ==
    ASSUME NEW j \in Once, Running(j),
           \/ Open(j) \/ Ask(j) \/ Set(j) \/ DisableUntilNeeded(j)
           \/ Save(j) \/ Apply(j) \/ Get(j)
    PROVE  Ran(j)
<1>1. CASE Set(j)
  <2>1. disk' = disk /\ signature' = signature /\ owner' = owner
          /\ at[j] \in {"open", "asking"}
          /\ ((Does[j] = "set") <=> (Does[j] # "clear")) /\ (Does[j] = "set") \in BOOLEAN
    BY <1>1 DEF Set
  <2>2. CASE Edits(j, Does[j] = "set")
    BY <2>1, <2>2, EditsRan, Zenon
  <2>3. CASE Ends(j, "error")
    BY <2>1, <2>3, EndsRan
  <2>4. QED
    BY <1>1, <2>2, <2>3 DEF Set
<1>2. CASE DisableUntilNeeded(j)
  <2>1. disk' = disk /\ signature' = signature /\ owner' = owner
          /\ at[j] \in {"open", "asking"} /\ Does[j] # "clear"
    BY <1>2 DEF DisableUntilNeeded
  <2>2. CASE Edits(j, TRUE)
    BY <2>1, <2>2, EditsRan
  <2>3. CASE Ends(j, "error")
    BY <2>1, <2>3, EndsRan
  <2>4. QED
    BY <1>2, <2>2, <2>3 DEF DisableUntilNeeded
<1>3. CASE Apply(j)
  BY <1>3, EndsRan DEF Apply
<1>4. QED
  BY <1>1, <1>2, <1>3, OpenRan, AskRan, SaveRan, GetRan

(***************************************************************************)
(* The clients of a control preference.                                    *)
(***************************************************************************)
ClientTypes ==
    call \in [Clients -> {"none", "on", "off"}] /\ answer \in [Clients -> BOOLEAN]

\* Everything about a step of client c.
Called(c) ==
    /\ Used(c) /\ ClientOK(c)'
    /\ \A k \in Clients \ {c} : call'[k] = call[k]

\* What a lemma about a step of client c starts from.
Calling(c) == Core /\ ClientTypes /\ ClientOK(c) /\ ~session[c].locked

\* The file is read at every call, in the session that there is or a new one.
LEMMA CallReads ==
    ASSUME NEW c \in Clients, Calling(c), call[c] = "none", NEW p \in Sessions(c)
    PROVE  \/ p = Closed /\ session[c].file = NoFile
           \/ /\ p # Closed /\ p \in SessionSet
              /\ ReadingOf(p) \in SessionSet /\ ReadingOf(p).file = Main
              /\ ReadingOf(p).tree = disk[Main] /\ ReadingOf(p).base = disk[Main]
              /\ ReadingOf(p).signature = signature[Main]
              /\ ~ReadingOf(p).changed /\ ~ReadingOf(p).locked
              /\ disk[Main] \in Tree
<1>1. /\ c \in Processes /\ session[c] \in SessionSet
      /\ CopyOK(c, session[c], disk, signature, owner)
      /\ session[c].tree = Unread /\ session[c].file \in {NoFile, Main}
      /\ ~session[c].locked
  BY ToolProcess, SessionFacts DEF Calling, ClientOK
<1>2. ~session[c].changed
  BY <1>1 DEF CopyOK
<1>3. disk[Main] \in Tree /\ signature[Main] \in Nat
  BY DEF Calling, Core, Store
<1>4. CASE p = Closed
  <2>1. session[c].file = NoFile
    BY <1>4, ClosedFields DEF Sessions
  <2>2. QED
    BY <1>4, <2>1
<1>5. CASE p # Closed
  <2>1. p \in SessionSet /\ p.file = Main /\ p.tree = Unread /\ ~p.changed /\ ~p.locked
    <3>1. CASE session[c].file = NoFile
      <4>1. p = Opened(Main)
        BY <1>5, <3>1 DEF Sessions
      <4>2. QED
        BY <4>1, OpenedFields
    <3>2. CASE session[c].file # NoFile
      BY <1>1, <1>2, <3>2 DEF Sessions
    <3>3. QED
      BY <3>1, <3>2
  <2>2. PICK t \in Tree, n \in Nat : t = disk[Main] /\ n = signature[Main]
    BY <1>3
  <2>3. /\ Accessed(p, t, n) \in SessionSet /\ Accessed(p, t, n).file = Main
        /\ Accessed(p, t, n).tree = t /\ Accessed(p, t, n).base = t
        /\ Accessed(p, t, n).signature = n
        /\ ~Accessed(p, t, n).changed /\ ~Accessed(p, t, n).locked
    BY <2>1, AccessedFields
  <2>4. ReadingOf(p) = Accessed(p, t, n)
    BY <2>2 DEF ReadingOf
  <2>5. QED
    BY <1>3, <1>5, <2>1, <2>2, <2>3, <2>4
<1>6. QED
  BY <1>4, <1>5

\* A call that has read nothing, or that forgets what it has read
LEMMA ForgetCalled ==
    ASSUME NEW c \in Clients, Calling(c), call[c] = "none", call' = call,
           disk' = disk, signature' = signature, owner' = owner,
           NEW x \in SessionSet, x.file \in {NoFile, Main}, ~x.locked,
           Becomes(c, Synchronized(x))
    PROVE  Called(c) /\ session'[c].file = x.file
<1>1. Core /\ c \in Tools /\ c \in Processes
  BY ToolProcess DEF Calling
<1>2. PICK y : y = Synchronized(x)
  OBVIOUS
<1>3. /\ y \in SessionSet /\ y.file = x.file
      /\ y.tree = Unread /\ y.base = Unread
      /\ ~y.changed /\ ~y.locked
  BY <1>2, SynchronizedFields
<1>4. Used(c) /\ session'[c] = y
  BY <1>1, <1>2, <1>3, ToolRests
<1>5. ClientOK(c)'
  BY <1>3, <1>4 DEF ClientOK
<1>6. QED
  BY <1>3, <1>4, <1>5 DEF Called

LEMMA IsVerboseCalled ==
    ASSUME NEW c \in Clients, Calling(c), IsVerbose(c)
    PROVE  /\ Called(c)
           /\ ~IsManaged(c) /\ session'[c].file # NoFile =>
                 (answer'[c] <=> Flag \in disk[Main].top)
<1>1. /\ call[c] = "none" /\ call' = call
      /\ disk' = disk /\ signature' = signature /\ owner' = owner
      /\ Core /\ c \in Tools /\ c \in Processes
      /\ answer \in [Clients -> BOOLEAN]
  BY ToolProcess DEF IsVerbose, Calling, ClientTypes
<1>2. CASE IsManaged(c)
  <2>1. Becomes(c, Synchronized(session[c]))
    BY <1>2 DEF IsVerbose, Becomes
  <2>2. session[c] \in SessionSet /\ session[c].file \in {NoFile, Main} /\ ~session[c].locked
    BY <1>1, SessionFacts DEF Calling, ClientOK
  <2>3. QED
    BY <1>1, <1>2, <2>1, <2>2, ForgetCalled
<1>3. CASE ~IsManaged(c)
  <2>1. PICK p \in Sessions(c) :
            IF p = Closed
            THEN Answers(c, FALSE) /\ UNCHANGED session
            ELSE /\ Answers(c, Flag \in ReadingOf(p).tree.top)
                 /\ session' = [session EXCEPT ![c] = Synchronized(ReadingOf(p))]
    BY <1>3 DEF IsVerbose
  <2>2. CASE p = Closed
    <3>1. session' = session /\ session[c].file = NoFile
      BY <1>1, <2>1, <2>2, CallReads
    <3>2. Used(c)
      BY <1>1, <3>1 DEF Used, Alone, Overwrites, Core, Calling
    <3>3. ClientOK(c)'
      BY <1>1, <3>1 DEF Calling, ClientOK
    <3>4. QED
      BY <1>1, <3>1, <3>2, <3>3 DEF Called
  <2>3. CASE p # Closed
    <3>1. PICK r : r = ReadingOf(p)
      OBVIOUS
    <3>2. r \in SessionSet /\ r.file = Main /\ r.tree = disk[Main] /\ ~r.locked
      BY <1>1, <2>3, <3>1, CallReads
    <3>3. Becomes(c, Synchronized(r)) /\ Answers(c, Flag \in r.tree.top)
      BY <2>1, <2>3, <3>1 DEF Becomes
    <3>4. Called(c)
      BY <1>1, <3>2, <3>3, ForgetCalled
    <3>5. answer'[c] <=> Flag \in disk[Main].top
      BY <1>1, <3>2, <3>3 DEF Answers
    <3>6. QED
      BY <3>4, <3>5
  <2>4. QED
    BY <2>2, <2>3
<1>4. QED
  BY <1>2, <1>3

LEMMA SetVerboseCalled ==
    ASSUME NEW c \in Clients, Calling(c), NEW on \in BOOLEAN, SetVerbose(c, on)
    PROVE  Called(c)
<1>1. /\ call[c] = "none"
      /\ disk' = disk /\ signature' = signature /\ owner' = owner
      /\ Core /\ c \in Tools /\ c \in Processes
      /\ call \in [Clients -> {"none", "on", "off"}]
  BY ToolProcess DEF SetVerbose, Calling, ClientTypes
<1>2. PICK p \in Sessions(c) :
          IF p = Closed
          THEN Answers(c, FALSE) /\ UNCHANGED <<session, call>>
          ELSE /\ session' = [session EXCEPT ![c] =
                     IF on \/ Flag \in ReadingOf(p).tree.top
                     THEN Edited(ReadingOf(p), WithFlag(ReadingOf(p).tree, on))
                     ELSE ReadingOf(p)]
               /\ call' = [call EXCEPT ![c] = IF on THEN "on" ELSE "off"]
               /\ UNCHANGED answer
  BY DEF SetVerbose
<1>3. CASE p = Closed
  <2>1. session' = session /\ call' = call
    BY <1>2, <1>3
  <2>2. Used(c)
    BY <1>1, <2>1 DEF Used, Alone, Overwrites, Core, Calling
  <2>3. ClientOK(c)'
    BY <1>1, <2>1 DEF Calling, ClientOK
  <2>4. QED
    BY <2>1, <2>2, <2>3 DEF Called
<1>4. CASE p # Closed
  <2>1. PICK r : r = ReadingOf(p)
    OBVIOUS
  <2>2. /\ r \in SessionSet /\ r.file = Main /\ r.tree = disk[Main] /\ r.base = disk[Main]
        /\ r.signature = signature[Main] /\ ~r.changed /\ ~r.locked
        /\ disk[Main] \in Tree
    BY <1>1, <1>4, <2>1, CallReads
  <2>3. PICK t : t = WithFlag(r.tree, on)
    OBVIOUS
  <2>4. t \in Tree /\ (Flag \in t.top <=> on)
    BY <2>2, <2>3, WithFlagFacts
  <2>5. PICK y : y = IF on \/ Flag \in r.tree.top THEN Edited(r, t) ELSE r
    OBVIOUS
  <2>6. /\ y \in SessionSet /\ y.file = Main /\ y.tree \in Tree /\ y.base = disk[Main]
        /\ y.signature = signature[Main] /\ ~y.locked
        /\ Flag \in y.tree.top <=> on
        /\ ~y.changed => y.tree = y.base
    <3>1. CASE on \/ Flag \in r.tree.top
      <4>1. /\ Edited(r, t) \in SessionSet /\ Edited(r, t).file = Main
            /\ Edited(r, t).tree = t /\ Edited(r, t).base = disk[Main]
            /\ Edited(r, t).signature = signature[Main]
            /\ Edited(r, t).changed /\ ~Edited(r, t).locked
        BY <2>2, <2>4, EditedFields
      <4>2. QED
        BY <3>1, <4>1, <2>4, <2>5
    <3>2. CASE ~(on \/ Flag \in r.tree.top)
      BY <3>2, <2>2, <2>5
    <3>3. QED
      BY <3>1, <3>2
  <2>7. CopyOK(c, y, disk, signature, owner)
    BY <2>2, <2>6, <1>1 DEF CopyOK, Core, Store
  <2>8. /\ Becomes(c, y)
        /\ call' = [call EXCEPT ![c] = IF on THEN "on" ELSE "off"]
    BY <1>2, <1>4, <2>1, <2>3, <2>5 DEF Becomes
  <2>9. Used(c) /\ session'[c] = y
    BY <1>1, <2>6, <2>7, <2>8, ToolQuiet
  <2>10. call'[c] = (IF on THEN "on" ELSE "off")
           /\ \A k \in Clients \ {c} : call'[k] = call[k]
    BY <1>1, <2>8
  <2>11. ClientOK(c)'
    BY <2>6, <2>9, <2>10 DEF ClientOK
  <2>12. QED
    BY <2>9, <2>10, <2>11 DEF Called
<1>5. QED
  BY <1>3, <1>4

LEMMA SaveVerboseCalled ==
    ASSUME NEW c \in Clients, Calling(c), SaveVerbose(c)
    PROVE  /\ Called(c)
           /\ answer'[c] => (Flag \in disk'[Main].top <=> call[c] = "on")
<1> DEFINE y == Synchronized(session[c])
           x == session[c]
<1>1. /\ call[c] # "none" /\ LockFree(c) /\ owner' = owner
      /\ Core /\ c \in Tools /\ c \in Processes
      /\ x.file = Main /\ Main # NoFile /\ x.tree # Unread /\ ~x.locked
      /\ Flag \in x.tree.top <=> call[c] = "on"
      /\ x \in SessionSet /\ CopyOK(c, x, disk, signature, owner)
  BY ToolProcess, SessionFacts DEF SaveVerbose, Calling, ClientOK
<1>2. /\ call'[c] = "none" /\ \A k \in Clients \ {c} : call'[k] = call[k]
      /\ answer'[c] <=> ~IsStale(c)
  BY DEF SaveVerbose, Calling, ClientTypes, Answers
<1>3. /\ y \in SessionSet /\ y.file = Main /\ y.tree = Unread /\ y.base = Unread
      /\ ~y.changed /\ ~y.locked
  BY <1>1, SynchronizedFields
<1>4. Becomes(c, y)
  BY DEF SaveVerbose, Becomes
<1>5. session'[c] = y /\ Alone(c)
  BY <1>1, <1>4 DEF Becomes, Core, Alone
<1>6. ClientOK(c)'
  BY <1>2, <1>3, <1>5 DEF ClientOK
<1> HIDE DEF y
<1>7. CASE IsStale(c)
  <2>1. disk' = disk /\ signature' = signature
    BY <1>7 DEF SaveVerbose
  <2>2. Used(c)
    BY <1>1, <1>3, <1>4, <2>1, ToolRests
  <2>3. QED
    BY <1>2, <1>6, <1>7, <2>2 DEF Called
<1>8. CASE ~IsStale(c) /\ x.changed
  <2>1. /\ disk' = [disk EXCEPT ![Main] = x.tree]
        /\ signature' = [signature EXCEPT ![Main] = @ + 1]
    BY <1>1, <1>8 DEF SaveVerbose, Write
  <2>2. Core'
    BY <1>1, <1>3, <1>4, <1>8, <2>1, WriteStep
  <2>3. x.base = disk[Main]
    BY <1>1, <1>8, Fresh
  <2>4. Overwrites(c) /\ disk'[Main] = x.tree
    BY <1>1, <1>3, <1>5, <1>8, <2>1, <2>3 DEF Overwrites, Commits, Core, Store
  <2>5. Used(c)
    BY <1>1, <1>3, <1>5, <2>2, <2>4 DEF Used
  <2>6. QED
    BY <1>1, <1>2, <1>6, <2>4, <2>5 DEF Called
<1>9. CASE ~IsStale(c) /\ ~x.changed
  <2>1. disk' = disk /\ signature' = signature
    BY <1>9 DEF SaveVerbose, Write
  <2>2. Used(c)
    BY <1>1, <1>3, <1>4, <2>1, ToolRests
  <2>3. x.tree = disk[Main]
    BY <1>1, <1>9, Fresh DEF CopyOK
  <2>4. QED
    BY <1>1, <1>2, <1>6, <2>1, <2>2, <2>3 DEF Called
<1>10. QED
  BY <1>7, <1>8, <1>9

(***************************************************************************)
(* Steps of all the processes: the types, and those that do not move.      *)
(***************************************************************************)
LEMMA ExceptType ==
    ASSUME NEW S, NEW T, NEW f \in [S -> T], NEW x \in S, NEW g,
           g = f \/ \E t \in T : g = [f EXCEPT ![x] = t]
    PROVE  g \in [S -> T]
  OBVIOUS

LEMMA ShellTypesStep ==
    ASSUME NEW s \in Shells, Serving(s), ShellNext(s)
    PROVE  ShellTypes'
<1>1. /\ changed \in [Shells -> BOOLEAN] /\ value \in [Shells -> SUBSET Keys]
      /\ input \in [Shells -> {"tty", "pipe", "file", "ended"}]
      /\ blocked \in [Shells -> {"no", "lock", "commit"}]
      /\ said \in [Shells -> SUBSET {"refused", "abandoned", "failed"}]
  BY DEF Serving, ShellTypes
<1>2. changed' = changed \/ \E b \in BOOLEAN : changed' = [changed EXCEPT ![s] = b]
  BY <1>1 DEF ShellNext, DoOpen, DoLock, DoUnlock, DoCommit, DoApply, Wake, DoClose, DoQuit,
     DoSynchronize, DoList, DoGet, DoSet, DoRemove, DoDictionary, DoReadFile, FileEnds,
     InputEnds, Committed, Edit, NoEdit, Refuse, Close, Exit
<1>3. value' = value \/ \E v \in SUBSET Keys : value' = [value EXCEPT ![s] = v]
  <2>1. ASSUME NEW path \in Paths, DoGet(s, path), value' # value
        PROVE  \E v \in SUBSET Keys : value' = [value EXCEPT ![s] = v]
    <3>1. (path = "/" \/ Content(s).child # Missing) /\ session[s].file # NoFile
      BY <2>1 DEF DoGet, Found, Linked
    <3>2. Content(s) \in Tree
      BY <3>1, ShellProcess, ReadingFacts DEF Serving
    <3>3. PICK v \in Values(Content(s), path) : value' = [value EXCEPT ![s] = v]
      BY <2>1 DEF DoGet
    <3>4. v \in SUBSET Keys
      <4>1. PICK t : t = Content(s)
        OBVIOUS
      <4>2. /\ t.top \in SUBSET Keys
            /\ t.child \in SUBSET Keys \/ t.child = Link \/ t.child = Missing
        BY <3>2, <4>1 DEF Tree
      <4>3. CASE path = "/"
        BY <3>3, <4>1, <4>2, <4>3 DEF Values
      <4>4. CASE path = "/child" /\ t.child = Link
        BY <3>3, <4>1, <4>4 DEF Values, Linked
      <4>5. CASE path = "/child" /\ t.child # Link
        BY <3>1, <3>3, <4>1, <4>2, <4>5 DEF Values, Linked
      <4>6. QED
        BY <4>3, <4>4, <4>5 DEF Paths
    <3>5. QED
      BY <3>3, <3>4
  <2>2. QED
    BY <2>1 DEF ShellNext, DoOpen, DoLock, DoUnlock, DoCommit, DoApply, Wake, DoClose, DoQuit,
       DoSynchronize, DoList, DoSet, DoRemove, DoDictionary, DoReadFile, FileEnds, InputEnds
<1>4. \/ input' = input
      \/ \E i \in {"tty", "pipe", "file", "ended"} : input' = [input EXCEPT ![s] = i]
  BY DEF ShellNext, DoOpen, DoLock, DoUnlock, DoCommit, DoApply, Wake, DoClose, DoQuit,
     DoSynchronize, DoList, DoGet, DoSet, DoRemove, DoDictionary, DoReadFile, FileEnds,
     InputEnds, Exit, Stdin
<1>5. \/ blocked' = blocked
      \/ \E b \in {"no", "lock", "commit"} : blocked' = [blocked EXCEPT ![s] = b]
  BY DEF ShellNext, DoOpen, DoLock, DoUnlock, DoCommit, DoApply, Wake, DoClose, DoQuit,
     DoSynchronize, DoList, DoGet, DoSet, DoRemove, DoDictionary, DoReadFile, FileEnds,
     InputEnds
<1>6. said' = said \/ \E m \in SUBSET {"refused", "abandoned", "failed"} : Says(s, m)
  <2>1. /\ Abandons(s) \in SUBSET {"refused", "abandoned", "failed"}
        /\ \A P, Q \in SUBSET {"refused", "abandoned", "failed"} :
              P \cup Q \in SUBSET {"refused", "abandoned", "failed"}
    BY DEF Abandons
  <2>2. QED
    BY <2>1 DEF ShellNext, DoOpen, DoLock, DoUnlock, DoCommit, DoApply, Wake, DoClose, DoQuit,
       DoSynchronize, DoList, DoGet, DoSet, DoRemove, DoDictionary, DoReadFile, FileEnds,
       InputEnds, Committed, Edit, NoEdit, Refuse
<1>7. /\ changed' \in [Shells -> BOOLEAN]
      /\ value' \in [Shells -> SUBSET Keys]
  BY <1>1, <1>2, <1>3, ExceptType, Zenon
<1>8. /\ input' \in [Shells -> {"tty", "pipe", "file", "ended"}]
      /\ blocked' \in [Shells -> {"no", "lock", "commit"}]
  BY <1>1, <1>4, <1>5, ExceptType, Zenon
<1>9. said' \in [Shells -> SUBSET {"refused", "abandoned", "failed"}]
  BY <1>1, <1>6, ExceptType, Zenon DEF Says
<1>10. QED
  BY <1>7, <1>8, <1>9 DEF ShellTypes

\* Nobody else's call waits, or is woken.
LEMMA OneBlocked ==
    ASSUME NEW s \in Shells, ShellTypes, ShellNext(s), NEW q \in Shells, q # s
    PROVE  blocked'[q] = blocked[q]
<1>1. \/ blocked' = blocked
      \/ \E b \in {"no", "lock", "commit"} : blocked' = [blocked EXCEPT ![s] = b]
  BY DEF ShellNext, DoOpen, DoLock, DoUnlock, DoCommit, DoApply, Wake, DoClose, DoQuit,
     DoSynchronize, DoList, DoGet, DoSet, DoRemove, DoDictionary, DoReadFile, FileEnds,
     InputEnds
<1>2. QED
  BY <1>1 DEF ShellTypes

LEMMA OnceTypesStep ==
    ASSUME OnceTypes, NEW j \in Once,
           \/ Open(j) \/ Ask(j) \/ Set(j) \/ DisableUntilNeeded(j)
           \/ Save(j) \/ Apply(j) \/ Get(j)
    PROVE  OnceTypes'
<1>1. \E place \in {"open", "asking", "edited", "saved", "ok", "error"} : Goes(j, place)
  BY DEF Open, Ask, Set, DisableUntilNeeded, Save, Apply, Get, Ends, Edits
<1>2. QED
  BY <1>1 DEF OnceTypes, Goes

LEMMA ClientTypesStep ==
    ASSUME ClientTypes, NEW c \in Clients,
           IsVerbose(c) \/ SaveVerbose(c) \/ \E on \in BOOLEAN : SetVerbose(c, on)
    PROVE  ClientTypes'
<1>1. answer' = answer \/ \E b \in BOOLEAN : Answers(c, b)
  <2>1. /\ FALSE \in BOOLEAN /\ (~IsStale(c)) \in BOOLEAN
        /\ \A p : (Flag \in ReadingOf(p).tree.top) \in BOOLEAN
        /\ (managed[c] = "on") \in BOOLEAN
    OBVIOUS
  <2>2. CASE IsVerbose(c)
    BY <2>1, <2>2, Zenon DEF IsVerbose
  <2>3. CASE SaveVerbose(c)
    BY <2>1, <2>3, Zenon DEF SaveVerbose
  <2>4. CASE \E on \in BOOLEAN : SetVerbose(c, on)
    BY <2>1, <2>4, Zenon DEF SetVerbose
  <2>5. QED
    BY <2>2, <2>3, <2>4
<1>2. \/ call' = call
      \/ \E k \in {"none", "on", "off"} : call' = [call EXCEPT ![c] = k]
  BY DEF IsVerbose, SaveVerbose, SetVerbose
<1>3. answer' \in [Clients -> BOOLEAN]
  BY <1>1, ExceptType, Zenon DEF ClientTypes, Answers
<1>4. call' \in [Clients -> {"none", "on", "off"}]
  BY <1>2, ExceptType, Zenon DEF ClientTypes
<1>5. QED
  BY <1>3, <1>4 DEF ClientTypes

\* A step of another process does nothing to what shell s has.
LEMMA OtherStep ==
    ASSUME Core, NEW s \in Shells, NEW p \in Processes, p # s, Alone(p), OwnLocks(p)
    PROVE  Tells(s) /\ KeepsLock(s)
<1>1. s \in Processes /\ session'[s] = session[s] /\ s # Nobody
  BY ShellProcess DEF Alone
<1>2. Tells(s)
  BY <1>1, SameContent
<1>3. \A f \in Files : owner'[f] = s => owner[f] = s
  BY <1>1 DEF OwnLocks
<1>4. Orphans(s)' \ Orphans(s) = {}
  BY <1>1, <1>3 DEF Orphans
<1>5. QED
  BY <1>2, <1>4 DEF KeepsLock

(***************************************************************************)
(* The invariant.                                                          *)
(***************************************************************************)

\* PrefsInv but for what no process changes, and the number of steps
Sound ==
    /\ Core /\ ShellTypes /\ OnceTypes /\ ClientTypes
    /\ \A p \in Tools : ~session[p].locked
    /\ \A s \in Shells : Marked(s) /\ Waiting(s)
    /\ \A j \in Once : OnceOK(j)
    /\ \A c \in Clients : ClientOK(c)

Fixed == managed \in [Clients -> Managed]

LEMMA SoundInv == PrefsInv <=> Sound /\ Fixed /\ steps \in 0..MaxSteps
<1>1. TypeOK <=> /\ Store(disk, signature, owner)
                 /\ session \in [Processes -> SessionSet]
                 /\ ShellTypes /\ OnceTypes /\ ClientTypes
                 /\ Fixed /\ steps \in 0..MaxSteps
  BY DEF Fixed, TypeOK, ShellTypeOK, Store, SessionSet, ShellTypes, OnceTypes, ClientTypes
<1>2. QED
  BY <1>1 DEF PrefsInv, Sound, Core

\* What every step does, to be read off for each of the promises
Promised ==
    /\ \A s \in Shells : Tells(s) /\ KeepsLock(s)
    /\ \E p \in Processes : Overwrites(p)
    /\ \A j \in Once : SavedTrue(j) /\ FoundTrue(j)

LEMMA InitSound == Init => Sound
<1> SUFFICES ASSUME Init PROVE Sound
  OBVIOUS
<1>1. /\ disk = [f \in Files |-> Empty] /\ signature = [f \in Files |-> 0]
      /\ owner = [f \in Files |-> Nobody]
      /\ session = [p \in Processes |-> Closed]
      /\ changed = [s \in Shells |-> FALSE] /\ value = [s \in Shells |-> {}]
      /\ input = [s \in Shells |-> Stdin(s)]
      /\ blocked = [s \in Shells |-> "no"] /\ said = [s \in Shells |-> {}]
      /\ at = [j \in Once |-> "start"] /\ call = [c \in Clients |-> "none"]
      /\ answer = [c \in Clients |-> FALSE]
  BY DEF Init, ShellInit
<1>2. Empty \in Tree
  BY DEF Empty, Tree
<1>3. Store(disk, signature, owner)
  BY <1>1, <1>2 DEF Store
<1>4. \A p \in Processes : session[p] = Closed
  BY <1>1
<1>5. session \in [Processes -> SessionSet]
  BY <1>1, ClosedFields
<1>6. \A p \in Processes : CopyOK(p, session[p], disk, signature, owner)
  BY <1>4, ClosedFields DEF CopyOK
<1>7. ShellTypes
  BY <1>1 DEF ShellTypes, Stdin
<1>8. OnceTypes /\ ClientTypes
  BY <1>1 DEF OnceTypes, ClientTypes
<1>9. \A p \in Tools : ~session[p].locked
  BY <1>4, ToolProcess, ClosedFields
<1>10. \A s \in Shells : Marked(s) /\ Waiting(s)
  BY <1>1, <1>4, ShellProcess, ClosedFields DEF Marked, Waiting
<1>11. \A j \in Once : OnceOK(j)
  BY <1>1 DEF OnceOK
<1>12. \A c \in Clients : ClientOK(c)
  <2>1. \A c \in Clients : c \in Processes
    BY ToolProcess
  <2>2. QED
    BY <1>1, <1>4, <2>1, ClosedFields DEF ClientOK
<1>13. QED
  BY <1>3, <1>5, <1>6, <1>7, <1>8, <1>9, <1>10, <1>11, <1>12 DEF Sound, Core

\* A step of one process leaves the others as they are.
LEMMA ShellsRest ==
    ASSUME Sound, NEW p \in Processes, Alone(p), UNCHANGED shellVars
    PROVE  \A s \in Shells \ {p} : Marked(s)' /\ Waiting(s)'
  BY ShellProcess DEF Sound, Alone, shellVars, Marked, Waiting

LEMMA OnceRest ==
    ASSUME Sound, NEW p \in Processes, Alone(p), NEW j \in Once, j # p, at'[j] = at[j]
    PROVE  OnceOK(j)' /\ SavedTrue(j) /\ FoundTrue(j)
<1>1. session'[j] = session[j]
  BY ToolProcess DEF Alone
<1>2. OnceOK(j)
  BY DEF Sound
<1>3. QED
  BY <1>1, <1>2 DEF OnceOK, SavedTrue, FoundTrue

LEMMA ClientRest ==
    ASSUME Sound, NEW p \in Processes, Alone(p), NEW c \in Clients, c # p,
           call'[c] = call[c]
    PROVE  ClientOK(c)'
<1>1. session'[c] = session[c]
  BY ToolProcess DEF Alone
<1>2. QED
  BY <1>1 DEF Sound, ClientOK

LEMMA ToolsUnlocked ==
    ASSUME Sound, NEW p \in Processes, Alone(p), p \in Tools => ~session'[p].locked
    PROVE  \A q \in Tools : ~session'[q].locked
  BY ToolProcess DEF Sound, Alone

LEMMA ShellStep ==
    ASSUME Sound, NEW s \in Shells, ShellNext(s), UNCHANGED <<at, call, answer>>
    PROVE  Sound' /\ Promised
<1>1. Serving(s) /\ s \in Processes /\ s \notin Tools
  BY ShellProcess, ToolProcess DEF Sound, Serving
<1>2. Served(s)
  BY <1>1, ShellServed
<1>3. Core' /\ Alone(s) /\ OwnLocks(s) /\ ShellTypes' /\ Waiting(s)'
  BY <1>1, <1>2, ShellTypesStep, WaitingStep DEF Served
<1>4. OnceTypes' /\ ClientTypes'
  BY DEF Sound, OnceTypes, ClientTypes
<1>5. \A p \in Tools : ~session'[p].locked
  BY <1>1, <1>3, ToolsUnlocked
<1>6. ASSUME NEW q \in Shells PROVE Marked(q)' /\ Waiting(q)'
  <2>1. CASE q = s
    BY <1>2, <1>3, <2>1 DEF Served, Marked
  <2>2. CASE q # s
    <3>1. session'[q] = session[q] /\ changed'[q] = changed[q]
      BY <1>2, <1>3, <2>2, ShellProcess DEF Served, Alone
    <3>2. blocked'[q] = blocked[q]
      BY <2>2, OneBlocked DEF Sound
    <3>3. Marked(q) /\ Waiting(q)
      BY DEF Sound
    <3>4. QED
      BY <3>1, <3>2, <3>3 DEF Marked, Waiting
  <2>3. QED
    BY <2>1, <2>2
<1>7. \A j \in Once : OnceOK(j)' /\ SavedTrue(j) /\ FoundTrue(j)
  BY <1>1, <1>3, OnceRest
<1>8. \A c \in Clients : ClientOK(c)'
  BY <1>1, <1>3, ClientRest
<1>9. Sound'
  BY <1>3, <1>4, <1>5, <1>6, <1>7, <1>8 DEF Sound
<1>10. \A q \in Shells : Tells(q) /\ KeepsLock(q)
  BY <1>1, <1>2, <1>3, OtherStep DEF Served, Sound
<1>11. Overwrites(s)
  BY <1>2 DEF Served
<1>12. QED
  BY <1>1, <1>7, <1>9, <1>10, <1>11 DEF Promised

LEMMA OnceStep ==
    ASSUME Sound, NEW j \in Once, UNCHANGED <<shellVars, call, answer>>,
           \/ Open(j) \/ Ask(j) \/ Set(j) \/ DisableUntilNeeded(j)
           \/ Save(j) \/ Apply(j) \/ Get(j)
    PROVE  Sound' /\ Promised
<1>1. Running(j) /\ j \in Processes /\ j \notin Shells /\ j \notin Clients /\ j \in Tools
  BY ToolProcess DEF Sound, Running
<1>2. Ran(j)
  BY <1>1, OnceRan
<1>3. Core' /\ Alone(j) /\ OwnLocks(j) /\ Overwrites(j) /\ ~session'[j].locked
  BY <1>1, <1>2, SameOwner DEF Ran, Used, Running
<1>4. ShellTypes' /\ OnceTypes' /\ ClientTypes'
  BY OnceTypesStep DEF Sound, shellVars, ShellTypes, ClientTypes
<1>5. \A p \in Tools : ~session'[p].locked
  BY <1>1, <1>3, ToolsUnlocked
<1>6. \A s \in Shells : Marked(s)' /\ Waiting(s)'
  BY <1>1, <1>3, ShellsRest
<1>7. \A k \in Once : OnceOK(k)' /\ SavedTrue(k) /\ FoundTrue(k)
  BY <1>1, <1>2, <1>3, OnceRest DEF Ran
<1>8. \A c \in Clients : ClientOK(c)'
  BY <1>1, <1>3, ClientRest
<1>9. Sound'
  BY <1>3, <1>4, <1>5, <1>6, <1>7, <1>8 DEF Sound
<1>10. \A q \in Shells : Tells(q) /\ KeepsLock(q)
  BY <1>1, <1>3, OtherStep DEF Sound
<1>11. QED
  BY <1>1, <1>3, <1>7, <1>9, <1>10 DEF Promised

LEMMA ClientStep ==
    ASSUME Sound, NEW c \in Clients, UNCHANGED <<shellVars, at>>,
           IsVerbose(c) \/ SaveVerbose(c) \/ \E on \in BOOLEAN : SetVerbose(c, on)
    PROVE  Sound' /\ Promised
<1>1. Calling(c) /\ c \in Processes /\ c \notin Shells /\ c \notin Once /\ c \in Tools
  BY ToolProcess DEF Sound, Calling
<1>2. Called(c)
  BY <1>1, IsVerboseCalled, SetVerboseCalled, SaveVerboseCalled
<1>3. Core' /\ Alone(c) /\ OwnLocks(c) /\ Overwrites(c) /\ ~session'[c].locked
  BY <1>1, <1>2, SameOwner DEF Called, Used, Calling
<1>4. ShellTypes' /\ OnceTypes' /\ ClientTypes'
  BY ClientTypesStep DEF Sound, shellVars, ShellTypes, OnceTypes
<1>5. \A p \in Tools : ~session'[p].locked
  BY <1>1, <1>3, ToolsUnlocked
<1>6. \A s \in Shells : Marked(s)' /\ Waiting(s)'
  BY <1>1, <1>3, ShellsRest
<1>7. \A k \in Once : OnceOK(k)' /\ SavedTrue(k) /\ FoundTrue(k)
  BY <1>1, <1>3, OnceRest
<1>8. \A k \in Clients : ClientOK(k)'
  BY <1>1, <1>2, <1>3, ClientRest DEF Called
<1>9. Sound'
  BY <1>3, <1>4, <1>5, <1>6, <1>7, <1>8 DEF Sound
<1>10. \A q \in Shells : Tells(q) /\ KeepsLock(q)
  BY <1>1, <1>3, OtherStep DEF Sound
<1>11. QED
  BY <1>1, <1>3, <1>7, <1>9, <1>10 DEF Promised

LEMMA NextStep ==
    ASSUME PrefsInv, Next
    PROVE  PrefsInv' /\ Promised
<1>1. Sound /\ Fixed /\ steps \in 0..MaxSteps
  BY SoundInv
<1>2. Fixed' /\ (steps \in 0..MaxSteps)'
  BY <1>1 DEF Next, Step, Fixed
<1>3. ASSUME NEW s \in Shells, ShellNext(s), UNCHANGED <<at, call, answer>>
      PROVE  Sound' /\ Promised
  BY <1>1, <1>3, ShellStep
<1>4. ASSUME NEW j \in Once,
             \/ Open(j) \/ Ask(j) \/ Set(j) \/ DisableUntilNeeded(j)
             \/ Save(j) \/ Apply(j) \/ Get(j)
      PROVE  Sound' /\ Promised
  <2>1. UNCHANGED <<shellVars, call, answer>>
    BY <1>4 DEF Open, Ask, Set, DisableUntilNeeded, Save, Apply, Get
  <2>2. QED
    BY <1>1, <1>4, <2>1, OnceStep
<1>5. ASSUME NEW c \in Clients,
             IsVerbose(c) \/ SaveVerbose(c) \/ \E on \in BOOLEAN : SetVerbose(c, on)
      PROVE  Sound' /\ Promised
  <2>1. UNCHANGED <<shellVars, at>>
    BY <1>5 DEF IsVerbose, SaveVerbose, SetVerbose
  <2>2. QED
    BY <1>1, <1>5, <2>1, ClientStep
<1>6. Sound' /\ Promised
  BY <1>3, <1>4, <1>5 DEF Next, ToolNext
<1>7. Sound'
  BY <1>6
<1>8. PrefsInv'
  BY <1>2, <1>7, SoundInv, PTL
<1>9. QED
  BY <1>6, <1>8

\* Whatever the shells, the programs and the clients do, and in whatever order:
\* a copy of the present content has its signature, a session with the lock has
\* a copy that is not old, a shell marks every change, and a client comes
\* between two calls without a copy.
THEOREM CopiesStand == Spec => []PrefsInv
<1>1. Init => PrefsInv
  <2>1. Init => Fixed /\ steps \in 0..MaxSteps
    BY DEF Init, Fixed
  <2>2. QED
    BY <2>1, InitSound, SoundInv
<1>2. PrefsInv /\ [Next]_vars => PrefsInv'
  <2>1. PrefsInv /\ Next => PrefsInv'
    BY NextStep
  <2>2. PrefsInv /\ UNCHANGED vars => PrefsInv'
    BY DEF PrefsInv, TypeOK, ShellTypeOK, vars, Marked, Waiting, OnceOK, ClientOK
  <2>3. QED
    BY <2>1, <2>2
<1>3. QED
  BY <1>1, <1>2, PTL DEF Spec

\* Every step keeps what is promised of it.
LEMMA AlwaysPromised == Spec => [][Promised]_vars
<1>1. PrefsInv /\ [Next]_vars => [Promised]_vars
  BY NextStep
<1>2. QED
  BY <1>1, CopiesStand, PTL DEF Spec

\* However many shells, programs and clients write the same files, a write
\* replaces only the content that the writer's copy was made from.
THEOREM NobodyOverwrites == Spec => NothingOverwritten
<1>1. Promised => \A f \in Files : signature'[f] # signature[f] \/ disk'[f] # disk[f] =>
                     \E p \in Processes : Commits(p, f) /\ session[p].base = disk[f]
  BY DEF Promised, Overwrites
<1>2. QED
  BY <1>1, AlwaysPromised, PTL DEF NothingOverwritten

\* No command of a shell drops changes without a word but synchronize and the
\* end of the input, because the mark of a change is set with every edit and is
\* cleared only with the changes.
THEOREM ChangesAreToldOf == Spec => NothingDropped
<1>1. Promised => \A s \in Shells :
          session[s].changed /\ ~session'[s].changed =>
             \/ disk'[session[s].file] = session[s].tree
             \/ said'[s] \cap {"abandoned"} # {}
             \/ DoSynchronize(s) \/ InputEnds(s)
  BY DEF Promised, Tells
<1>2. QED
  BY <1>1, AlwaysPromised, PTL DEF NothingDropped

\* A lock stays behind its session only after "open !" with changes at a
\* terminal, and never because of what another process does.
THEOREM LocksLeftBehind == Spec => LeftBehind
<1>1. Promised => \A s \in Shells : Orphans(s)' \ Orphans(s) # {} =>
          changed[s] /\ input[s] = "tty" /\ DoOpen(s, Bang)
  BY DEF Promised, KeepsLock
<1>2. QED
  BY <1>1, AlwaysPromised, PTL DEF LeftBehind

\* Exit status 0 and a setter's success mean that the file has the value, and a
\* control preference is answered from the file and not from an old copy.
THEOREM AnswersAreTrue == Spec => AnswersTrue
<1>1. ASSUME Promised, NEW j \in Once
      PROVE  /\ (at'[j] = "saved" /\ at[j] # "saved")
                => (Flag \in disk'[Main].top) = (Does[j] # "clear")
             /\ (at'[j] = "ok" /\ at[j] # "ok") =>
                   \/ at[j] = "saved"
                   \/ Does[j] = "get" /\ Flag \in disk[Main].top
  BY <1>1 DEF Promised, SavedTrue, FoundTrue
<1>2. ASSUME PrefsInv, PrefsInv', NEW c \in Clients
      PROVE  /\ (IsVerbose(c) /\ ~IsManaged(c) /\ session'[c].file # NoFile)
                => answer'[c] = (Flag \in disk[Main].top)
             /\ (SaveVerbose(c) /\ answer'[c])
                => (Flag \in disk'[Main].top) = (call[c] = "on")
  <2>1. Calling(c)
    BY <1>2, SoundInv, ToolProcess DEF Sound, Calling
  <2>2. answer'[c] \in BOOLEAN
    BY <1>2 DEF PrefsInv, TypeOK
  <2>3. ASSUME IsVerbose(c), ~IsManaged(c), session'[c].file # NoFile
        PROVE  answer'[c] = (Flag \in disk[Main].top)
    <3>1. answer'[c] <=> Flag \in disk[Main].top
      BY <2>1, <2>3, IsVerboseCalled
    <3>2. QED
      BY <2>2, <3>1
  <2>4. ASSUME SaveVerbose(c), answer'[c]
        PROVE  (Flag \in disk'[Main].top) = (call[c] = "on")
    BY <2>1, <2>4, SaveVerboseCalled
  <2>5. QED
    BY <2>3, <2>4
<1>3. PrefsInv /\ PrefsInv' /\ [Promised]_vars =>
        [/\ \A j \in Once :
             /\ (at'[j] = "saved" /\ at[j] # "saved")
                => (Flag \in disk'[Main].top) = (Does[j] # "clear")
             /\ (at'[j] = "ok" /\ at[j] # "ok") =>
                   \/ at[j] = "saved"
                   \/ Does[j] = "get" /\ Flag \in disk[Main].top
       /\ \A c \in Clients :
             /\ (IsVerbose(c) /\ ~IsManaged(c) /\ session'[c].file # NoFile)
                => answer'[c] = (Flag \in disk[Main].top)
             /\ (SaveVerbose(c) /\ answer'[c])
                => (Flag \in disk'[Main].top) = (call[c] = "on")]_vars
  BY <1>1, <1>2
<1>4. QED
  BY <1>3, CopiesStand, AlwaysPromised, PTL DEF AnswersTrue
=============================================================================
