----------------------------- MODULE PrefsFile -----------------------------
(***************************************************************************)
(* A file of preferences and a session of SCPreferences over it.  A        *)
(* session reads the file when it is first asked for something, remembers  *)
(* the file's signature, and edits its copy.  The lock refuses a session   *)
(* whose copy is of an older file.  The framework's own locking and        *)
(* writing are not part of the sources: they are taken as scutil uses them.*)
(***************************************************************************)
EXTENDS Naturals

CONSTANTS
    Keys,     \* names of values
    Child,    \* the one name that a dictionary may have: the path /Child
    Missing,  \* no such dictionary
    Link,     \* in its place a link to a dictionary elsewhere in the file
    Unread,   \* the content has not been accessed
    NoFile    \* the file of no session: prefs is NULL

\* A dictionary of values, with at most one dictionary, or link, in it
Tree == [top : SUBSET Keys, child : {Missing, Link} \cup SUBSET Keys]
Empty == [top |-> {}, child |-> Missing]

ASSUME PrefsFileAssumption ==
    /\ Child \in Keys
    /\ \A ks \in SUBSET Keys : ks # Missing /\ ks # Link
    /\ Link # Missing
    /\ Unread \notin Tree

\* SCPreferencesCreate: nothing is read yet.
Opened(f) ==
    [file |-> f, tree |-> Unread, base |-> Unread, signature |-> 0,
     changed |-> FALSE, locked |-> FALSE]

Closed == Opened(NoFile)

\* Mutant of Accessed: the signature is taken again at every access.
AccessedAnew(p, content, signature) ==
    IF p.tree = Unread
    THEN [p EXCEPT !.tree = content, !.base = content, !.signature = signature]
    ELSE [p EXCEPT !.signature = signature]

\* __SCPreferencesAccess: the content and the signature of the file, once.
Accessed(p, content, signature) ==
    IF p.tree = Unread
    THEN [p EXCEPT !.tree = content, !.base = content, !.signature = signature]
    ELSE p

Edited(p, t)    == [p EXCEPT !.tree = t, !.changed = TRUE]
Synchronized(p) == [p EXCEPT !.tree = Unread, !.base = Unread, !.changed = FALSE]
Stale(p, signature) == p.tree # Unread /\ p.signature # signature

\* SCPreferencesCommitChanges has written the copy: it is what the file holds.
Written(p, signature) ==
    [p EXCEPT !.base = p.tree, !.signature = signature, !.changed = FALSE]
=============================================================================
