----------------------------- MODULE PrefsShell -----------------------------
(***************************************************************************)
(* scutil --prefs: shells in which a user opens a file of preferences,     *)
(* moves dictionaries between it and the shell's own dictionary, and       *)
(* commits.  A shell reads commands from a terminal or from a pipe, and    *)
(* f.read makes it read some from a file.  At a terminal it refuses to     *)
(* drop changes unless the argument is "!".  PrefsTools adds the other     *)
(* programs that use the same file.                                        *)
(***************************************************************************)
EXTENDS PrefsFile, FiniteSets

CONSTANTS
    Shells,     \* processes scutil --prefs
    Terminals,  \* those whose standard input is a terminal
    Tools,      \* other processes that open preferences
    Files,      \* names of files
    Bang        \* the argument "!", a name as any other for open

Processes == Shells \cup Tools
Nobody    == "nobody"
NoArgument == "none"

ASSUME PrefsShellAssumption ==
    /\ Terminals \subseteq Shells /\ Shells \cap Tools = {}
    /\ Nobody \notin Processes
    /\ Bang \in Files /\ NoFile \notin Files

VARIABLES
    disk,      \* [Files -> Tree]
    signature, \* [Files -> Nat]: changes at every write
    owner,     \* [Files -> who holds the lock of the file]
    session,   \* [Processes -> what prefs points to]
    changed,   \* [Shells -> _prefs_changed]
    value,     \* [Shells -> the dictionary that d.add and the others edit]
    input,     \* [Shells -> what currentInput is: "tty", "pipe", "file"; "ended"]
    blocked,   \* [Shells -> the call that waits for the lock, or "no"]
    said       \* [Shells -> what the last command printed]

shellVars == <<changed, value, input, blocked, said>>

Stdin(s) == IF s \in Terminals THEN "tty" ELSE "pipe"

ShellTypeOK ==
    /\ disk \in [Files -> Tree] /\ signature \in [Files -> Nat]
    /\ owner \in [Files -> Processes \cup {Nobody}]
    /\ session \in [Processes ->
          [file : Files \cup {NoFile}, tree : {Unread} \cup Tree,
           base : {Unread} \cup Tree, signature : Nat,
           changed : BOOLEAN, locked : BOOLEAN]]
    /\ changed \in [Shells -> BOOLEAN] /\ value \in [Shells -> SUBSET Keys]
    /\ input \in [Shells -> {"tty", "pipe", "file", "ended"}]
    /\ blocked \in [Shells -> {"no", "lock", "commit"}]
    /\ said \in [Shells -> SUBSET {"refused", "abandoned", "failed"}]

ShellInit ==
    /\ disk = [f \in Files |-> Empty] /\ signature = [f \in Files |-> 0]
    /\ owner = [f \in Files |-> Nobody]
    /\ session = [p \in Processes |-> Closed]
    /\ changed = [s \in Shells |-> FALSE] /\ value = [s \in Shells |-> {}]
    /\ input = [s \in Shells |-> Stdin(s)]
    /\ blocked = [s \in Shells |-> "no"] /\ said = [s \in Shells |-> {}]

-----------------------------------------------------------------------------
(* What the calls to SCPreferences do to the session of a process.         *)

Reading(p) ==
    IF session[p].file = NoFile THEN session[p]
    ELSE Accessed(session[p], disk[session[p].file], signature[session[p].file])

Content(p) == Reading(p).tree

\* The lock is to be had, or is the session's own.
LockFree(p) ==
    session[p].file # NoFile => session[p].locked \/ owner[session[p].file] = Nobody
IsStale(p) ==
    session[p].file # NoFile /\ ~session[p].locked /\ Stale(session[p], signature[session[p].file])

Release(p) ==
    owner' = IF session[p].locked THEN [owner EXCEPT ![session[p].file] = Nobody] ELSE owner

\* SCPreferencesCommitChanges, with the lock: only a changed copy is written.
Write(p) ==
    LET f == session[p].file
    IN  IF session[p].changed
        THEN /\ disk' = [disk EXCEPT ![f] = session[p].tree]
             /\ signature' = [signature EXCEPT ![f] = @ + 1]
        ELSE UNCHANGED <<disk, signature>>

Commit(p) ==
    /\ Write(p)
    /\ session' = [session EXCEPT ![p] =
          IF @.changed THEN Written(@, signature[@.file] + 1) ELSE @]

-----------------------------------------------------------------------------
(* The commands of a shell.                                                *)

Ready(s) == input[s] # "ended" /\ blocked[s] = "no"

Says(s, messages) == said' = [said EXCEPT ![s] = messages]

\* _prefs_commitRequired
CommitRequired(s, argument) == changed[s] /\ input[s] = "tty" /\ argument # Bang

Abandons(s) == IF changed[s] THEN {"abandoned"} ELSE {}

\* _prefs_close, of what an object of the shell holds
Close(s) ==
    /\ session' = [session EXCEPT ![s] = Closed]
    /\ changed' = [changed EXCEPT ![s] = @ /\ session[s].file = NoFile]
    /\ Release(s)

\* The process exits, and the system releases what it held, the locks of
\* sessions it had lost included.
Exit(s) ==
    /\ input' = [input EXCEPT ![s] = "ended"]
    /\ session' = [session EXCEPT ![s] = Closed]
    /\ owner' = [f \in Files |-> IF owner[f] = s THEN Nobody ELSE owner[f]]

Refuse(s) ==
    Says(s, {"refused"}) /\ UNCHANGED <<owner, session, changed>>

\* Mutant of Replaced: the session is replaced without being closed.
ReplacedOpen(s, opened) ==
    /\ session' = [session EXCEPT ![s] = opened]
    /\ UNCHANGED owner

\* The old session is closed, unless that is refused, and _prefs_open sets prefs.
Replaced(s, opened) ==
    /\ session' = [session EXCEPT ![s] = opened]
    /\ IF CommitRequired(s, NoArgument) THEN UNCHANGED owner ELSE Release(s)

\* do_prefs_open.  "open !" passes the first question, but not the one of
\* do_prefs_close(0, NULL): prefs is overwritten and never released.
DoOpen(s, f) ==
    /\ Ready(s)
    /\ \/ /\ session[s].file # NoFile /\ CommitRequired(s, f)
          /\ Refuse(s)
       \/ /\ session[s].file = NoFile \/ ~CommitRequired(s, f)
          /\ \E opened \in {Opened(f), Closed} :
                /\ Replaced(s, opened)
                /\ changed' = [changed EXCEPT ![s] =
                      /\ opened = Closed
                      /\ @ /\ (session[s].file = NoFile \/ CommitRequired(s, NoArgument))]
                /\ Says(s, (IF session[s].file # NoFile THEN Abandons(s) ELSE {})
                           \cup {m \in {"failed"} : opened = Closed})
    /\ UNCHANGED <<disk, signature, value, input, blocked>>

\* do_prefs_lock: the call fails, waits, or gets the lock.
DoLock(s, wait) ==
    /\ Ready(s)
    /\ \/ /\ \/ session[s].file = NoFile \/ session[s].locked
             \/ ~LockFree(s) /\ ~wait
             \/ LockFree(s) /\ IsStale(s)
          /\ Says(s, {"failed"}) /\ UNCHANGED <<owner, session, blocked>>
       \/ /\ ~LockFree(s) /\ wait
          /\ blocked' = [blocked EXCEPT ![s] = "lock"]
          /\ UNCHANGED <<owner, session, said>>
       \/ /\ session[s].file # NoFile /\ ~session[s].locked /\ LockFree(s) /\ ~IsStale(s)
          /\ owner' = [owner EXCEPT ![session[s].file] = s]
          /\ session' = [session EXCEPT ![s].locked = TRUE]
          /\ Says(s, {}) /\ UNCHANGED blocked
    /\ UNCHANGED <<disk, signature, changed, value, input>>

\* do_prefs_unlock
DoUnlock(s) ==
    /\ Ready(s)
    /\ Release(s)
    /\ session' = [session EXCEPT ![s].locked = FALSE]
    /\ Says(s, IF session[s].locked THEN {} ELSE {"failed"})
    /\ UNCHANGED <<disk, signature, changed, value, input, blocked>>

\* do_prefs_commit, once the call returns
Committed(s) ==
    IF session[s].file = NoFile \/ IsStale(s)
    THEN Says(s, {"failed"}) /\ UNCHANGED <<disk, signature, session, changed>>
    ELSE Commit(s) /\ Says(s, {}) /\ changed' = [changed EXCEPT ![s] = FALSE]

\* do_prefs_commit, which waits for the lock
DoCommit(s) ==
    /\ Ready(s)
    /\ IF LockFree(s)
       THEN Committed(s) /\ UNCHANGED blocked
       ELSE /\ blocked' = [blocked EXCEPT ![s] = "commit"]
            /\ UNCHANGED <<disk, signature, session, changed, said>>
    /\ UNCHANGED <<owner, value, input>>

\* The lock that a call waits for is released.
Wake(s) ==
    /\ blocked[s] # "no" /\ LockFree(s)
    /\ blocked' = [blocked EXCEPT ![s] = "no"]
    /\ \/ /\ blocked[s] = "commit"
          /\ Committed(s) /\ UNCHANGED owner
       \/ /\ blocked[s] = "lock" /\ IsStale(s)
          /\ Says(s, {"failed"})
          /\ UNCHANGED <<disk, signature, owner, session, changed>>
       \/ /\ blocked[s] = "lock" /\ ~IsStale(s)
          /\ owner' = [owner EXCEPT ![session[s].file] = s]
          /\ session' = [session EXCEPT ![s].locked = TRUE]
          /\ Says(s, {}) /\ UNCHANGED <<disk, signature, changed>>
    /\ UNCHANGED <<value, input>>

\* do_prefs_apply changes nothing here.
DoApply(s) ==
    /\ Ready(s)
    /\ \/ session[s].file # NoFile /\ Says(s, {})
       \/ Says(s, {"failed"})
    /\ UNCHANGED <<disk, signature, owner, session, changed, value, input, blocked>>

\* do_prefs_close
DoClose(s, argument) ==
    /\ Ready(s)
    /\ IF CommitRequired(s, argument)
       THEN Refuse(s)
       ELSE Close(s) /\ Says(s, Abandons(s))
    /\ UNCHANGED <<disk, signature, value, input, blocked>>

\* do_prefs_quit; the process ends, whatever input the command came from.
DoQuit(s, argument) ==
    /\ Ready(s)
    /\ IF CommitRequired(s, argument)
       THEN /\ Says(s, {"refused"})
            /\ UNCHANGED <<owner, session, input>>
       ELSE Exit(s) /\ Says(s, Abandons(s))
    /\ UNCHANGED <<disk, signature, changed, value, blocked>>

\* do_prefs_synchronize: the changes go, _prefs_changed stays.
DoSynchronize(s) ==
    /\ Ready(s)
    /\ session' = [session EXCEPT ![s] = Synchronized(@)]
    /\ Says(s, {})
    /\ UNCHANGED <<disk, signature, owner, changed, value, input, blocked>>

Paths == {"/", "/child"}

\* What SCPreferencesPathGetValue finds at a path, and whether a value is in the way.
Found(t, path)   == path = "/" \/ t.child # Missing
Blocking(t, path) == path = "/child" /\ Child \in t.top

\* A path that leads on to another place of the file, of which nothing is known
\* here: values of any kind, or no longer a dictionary
Linked(t, path) == path = "/child" /\ t.child = Link

\* the values that may be found at a path, without the dictionaries among them
Values(t, path) ==
    IF path = "/" THEN {t.top}
    ELSE IF Linked(t, path) THEN SUBSET Keys ELSE {t.child}

\* do_prefs_get: a path that is not there leaves the shell's dictionary as it was.
DoGet(s, path) ==
    /\ Ready(s) /\ session[s].file # NoFile
    /\ session' = [session EXCEPT ![s] = Reading(s)]
    /\ \/ /\ Found(Content(s), path)
          /\ \E v \in Values(Content(s), path) : value' = [value EXCEPT ![s] = v]
          /\ Says(s, {})
       \/ /\ ~Found(Content(s), path) \/ Linked(Content(s), path)
          /\ Says(s, {"failed"}) /\ UNCHANGED value
    /\ UNCHANGED <<disk, signature, owner, changed, input, blocked>>

\* do_prefs_set asks: no value in the path, no dictionary under a new value's name.
Settable(t, path, v) ==
    /\ ~Blocking(t, path)
    /\ (path = "/" /\ t.child # Missing) => Child \notin v

\* do_prefs_set puts the shell's dictionary at the path, and adds to it the
\* dictionaries that are there, under names that it does not have.
WithValue(t, path, v) ==
    IF path = "/"
    THEN [top |-> v, child |-> IF Child \in v THEN Missing ELSE t.child]
    ELSE [t EXCEPT !.child = v]

\* Mutant of Edit: _prefs_changed is not set.
EditUnmarked(s, t) ==
    /\ session' = [session EXCEPT ![s] = Edited(Reading(s), t)]
    /\ UNCHANGED changed
    /\ Says(s, {})

\* A change of the session's copy, which is marked.
Edit(s, t) ==
    /\ session' = [session EXCEPT ![s] = Edited(Reading(s), t)]
    /\ changed' = [changed EXCEPT ![s] = TRUE]
    /\ Says(s, {})

NoEdit(s) ==
    /\ session' = [session EXCEPT ![s] = Reading(s)]
    /\ Says(s, {"failed"})
    /\ UNCHANGED changed

\* do_prefs_set.  A second argument is the path that a link shall lead to: it
\* takes the place of the dictionary, and all that is below, if it leads to one.
DoSet(s, path) ==
    /\ Ready(s) /\ session[s].file # NoFile
    /\ LET t == Content(s)
       IN  \/ /\ Settable(t, path, value[s])
              /\ \/ Edit(s, WithValue(t, path, value[s]))
                 \/ path = "/child" /\ (Edit(s, [t EXCEPT !.child = Link]) \/ NoEdit(s))
           \/ ~Settable(t, path, value[s]) /\ NoEdit(s)
    /\ UNCHANGED <<disk, signature, owner, value, input, blocked>>

\* do_prefs_remove: the dictionary or the value of that name
DoRemove(s) ==
    /\ Ready(s) /\ session[s].file # NoFile
    /\ LET t == Content(s)
       IN  \/ t.child # Missing /\ Edit(s, [t EXCEPT !.child = Missing])
           \/ Child \in t.top /\ Edit(s, [t EXCEPT !.top = @ \ {Child}])
           \/ t.child = Missing /\ Child \notin t.top /\ NoEdit(s)
    /\ UNCHANGED <<disk, signature, owner, value, input, blocked>>

\* do_prefs_list only reads.
DoList(s) ==
    /\ Ready(s) /\ session[s].file # NoFile
    /\ session' = [session EXCEPT ![s] = Reading(s)]
    /\ Says(s, {})
    /\ UNCHANGED <<disk, signature, owner, changed, value, input, blocked>>

\* do_dictInit, do_dictSetKey and do_dictRemoveKey make the shell's dictionary.
DoDictionary(s, v) ==
    /\ Ready(s)
    /\ v \in {{}} \cup {value[s] \cup {k} : k \in Keys} \cup {value[s] \ {k} : k \in Keys}
    /\ value' = [value EXCEPT ![s] = v]
    /\ UNCHANGED <<disk, signature, owner, session, changed, input, blocked, said>>

\* do_readFile: the commands of the file, of which the last line is the end of it
DoReadFile(s) ==
    /\ Ready(s) /\ input[s] # "file"
    /\ input' = [input EXCEPT ![s] = "file"]
    /\ UNCHANGED <<disk, signature, owner, session, changed, value, blocked, said>>

FileEnds(s) ==
    /\ Ready(s) /\ input[s] = "file"
    /\ input' = [input EXCEPT ![s] = Stdin(s)]
    /\ UNCHANGED <<disk, signature, owner, session, changed, value, blocked, said>>

\* Standard input ends: main() exits without a question.
InputEnds(s) ==
    /\ Ready(s) /\ input[s] # "file"
    /\ Exit(s)
    /\ UNCHANGED <<disk, signature, changed, value, blocked, said>>

ShellNext(s) ==
    \/ \E f \in Files : DoOpen(s, f)
    \/ \E wait \in BOOLEAN : DoLock(s, wait)
    \/ DoUnlock(s) \/ DoCommit(s) \/ DoApply(s) \/ Wake(s)
    \/ \E argument \in {NoArgument, Bang} : DoClose(s, argument) \/ DoQuit(s, argument)
    \/ DoSynchronize(s) \/ DoList(s)
    \/ \E path \in Paths : DoGet(s, path) \/ DoSet(s, path)
    \/ DoRemove(s)
    \/ \E v \in SUBSET Keys : DoDictionary(s, v)
    \/ DoReadFile(s) \/ FileEnds(s) \/ InputEnds(s)
=============================================================================
