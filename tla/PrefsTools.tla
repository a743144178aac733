----------------------------- MODULE PrefsTools -----------------------------
(***************************************************************************)
(* The programs beside the shells that open the same preferences: scutil   *)
(* --set, --get and their like, which make one change or read one value    *)
(* and exit, and processes that ask for a control preference (the verbose  *)
(* log of IPMonitor, the new interfaces of InterfaceNamer), which keep one *)
(* session for all their calls.                                            *)
(***************************************************************************)
EXTENDS PrefsShell

CONSTANTS
    Once,      \* processes scutil --set, --get
    Does,      \* [Once -> "set", "clear", "get", "disable"]
    Clients,   \* processes that use a control preference
    Main,      \* the file that they all open
    Flag,      \* the key: HostName, Verbose, AllowNewInterfaces
    Managed,   \* what the managed preferences may say of it
    MaxSteps   \* bound on the steps

ASSUME PrefsToolsAssumption ==
    /\ Once \cap Clients = {} /\ Once \cup Clients = Tools
    /\ Does \in [Once -> {"set", "clear", "get", "disable"}]
    /\ Managed \subseteq {"unset", "on", "off"}
    /\ Main \in Files \ {Bang} /\ Flag \in Keys \ {Child} /\ MaxSteps \in Nat

VARIABLES
    at,     \* [Once -> where it is; "ok" and "error" are exit statuses]
    call,   \* [Clients -> the call that is under way]
    answer, \* [Clients -> what the last call returned]
    managed, \* [Clients -> the key in the client's managed preferences], fixed
    steps

vars == <<disk, signature, owner, session, changed, value, input, blocked, said,
          at, call, answer, managed, steps>>

TypeOK ==
    /\ ShellTypeOK
    /\ at \in [Once -> {"start", "open", "asking", "edited", "saved", "ok", "error"}]
    /\ call \in [Clients -> {"none", "on", "off"}]
    /\ answer \in [Clients -> BOOLEAN] /\ managed \in [Clients -> Managed]
    /\ steps \in 0..MaxSteps

Init ==
    /\ ShellInit
    /\ at = [j \in Once |-> "start"] /\ call = [c \in Clients |-> "none"]
    /\ answer = [c \in Clients |-> FALSE] /\ managed \in [Clients -> Managed]
    /\ steps = 0

Step == steps < MaxSteps /\ steps' = steps + 1

\* The tree with the key or without it
WithFlag(t, on) == [t EXCEPT !.top = IF on THEN @ \cup {Flag} ELSE @ \ {Flag}]

-----------------------------------------------------------------------------
(* scutil --set, --get, --disable-until-needed, --nc                       *)

Goes(j, place) == at' = [at EXCEPT ![j] = place]

\* The process exits, with or without _prefs_close().
Ends(j, status) ==
    /\ Goes(j, status)
    /\ session' = [session EXCEPT ![j] = Closed]

\* _prefs_open, which may fail
Open(j) ==
    /\ at[j] = "start"
    /\ \/ session' = [session EXCEPT ![j] = Opened(Main)] /\ Goes(j, "open")
       \/ Ends(j, "error")
    /\ UNCHANGED <<disk, signature, owner, shellVars, call, answer>>

\* Without an argument the user is asked for the new value, and shown the old
\* one: that of HostName is read here, the two others are in the dynamic store.
Ask(j) ==
    /\ at[j] = "open" /\ Does[j] = "set"
    /\ session' \in {session, [session EXCEPT ![j] = Reading(j)]}
    /\ Goes(j, "asking")
    /\ UNCHANGED <<disk, signature, owner, shellVars, call, answer>>

Edits(j, on) ==
    /\ session' = [session EXCEPT ![j] = Edited(Reading(j), WithFlag(Content(j), on))]
    /\ Goes(j, "edited")

\* SCPreferencesSetHostName and the others; a name may be refused.
Set(j) ==
    /\ at[j] \in {"open", "asking"} /\ Does[j] \in {"set", "clear"}
    /\ Edits(j, Does[j] = "set") \/ Ends(j, "error")
    /\ UNCHANGED <<disk, signature, owner, shellVars, call, answer>>

\* do_disable_until_needed: the interface belongs to an enabled service of the
\* current set, or the program ends; setting it may fail.
DisableUntilNeeded(j) ==
    /\ at[j] = "open" /\ Does[j] = "disable"
    /\ Edits(j, TRUE) \/ Ends(j, "error")
    /\ UNCHANGED <<disk, signature, owner, shellVars, call, answer>>

\* _prefs_save: it waits for the lock, and exits if the commit fails.
Save(j) ==
    /\ at[j] = "edited" /\ LockFree(j)
    /\ IF IsStale(j)
       THEN Ends(j, "error") /\ UNCHANGED <<disk, signature>>
       ELSE Commit(j) /\ Goes(j, "saved")
    /\ UNCHANGED <<owner, shellVars, call, answer>>

\* SCPreferencesApplyChanges may fail after the commit.
Apply(j) ==
    /\ at[j] = "saved"
    /\ \E status \in {"ok", "error"} : Ends(j, status)
    /\ UNCHANGED <<disk, signature, owner, shellVars, call, answer>>

HasValue(j) == Flag \in Content(j).top

\* get_HostName, or do_getPref with a file and a key: the status says whether the
\* value is there.  The two other names are got from the dynamic store.
Get(j) ==
    /\ at[j] = "open" /\ Does[j] = "get"
    /\ Ends(j, IF HasValue(j) THEN "ok" ELSE "error")
    /\ UNCHANGED <<disk, signature, owner, shellVars, call, answer>>

-----------------------------------------------------------------------------
(* IPMonitorControlPrefs and InterfaceNamerControlPrefs                    *)

\* The session of a client is created by its first call that succeeds in it.
Sessions(c) ==
    IF session[c].file = NoFile THEN {Opened(Main), Closed} ELSE {session[c]}

ReadingOf(p) == Accessed(p, disk[Main], signature[Main])

\* The managed preferences are asked first, and nothing else if they have the key.
IsManaged(c) == managed[c] # "unset"

\* What the caller is told: scutil prints it, or exits with status 2.
Answers(c, b) == answer' = [answer EXCEPT ![c] = b]

\* Mutant of IsVerbose: the session keeps what it has read.
IsVerboseKept(c) ==
    /\ call[c] = "none" /\ ~IsManaged(c)
    /\ \E p \in Sessions(c) :
          IF p = Closed
          THEN Answers(c, FALSE) /\ UNCHANGED session
          ELSE /\ Answers(c, Flag \in ReadingOf(p).tree.top)
               /\ session' = [session EXCEPT ![c] = ReadingOf(p)]
    /\ UNCHANGED <<disk, signature, owner, shellVars, at, call>>

\* IPMonitorControlPrefsIsVerbose, InterfaceNamerControlPrefsAllowNewInterfaces:
\* what was read is forgotten ("flush the backing store").
IsVerbose(c) ==
    /\ call[c] = "none"
    /\ \/ /\ IsManaged(c)
          /\ Answers(c, managed[c] = "on")
          /\ session' = [session EXCEPT ![c] = Synchronized(@)]
       \/ /\ ~IsManaged(c)
          /\ \E p \in Sessions(c) :
                IF p = Closed
                THEN Answers(c, FALSE) /\ UNCHANGED session
                ELSE /\ Answers(c, Flag \in ReadingOf(p).tree.top)
                     /\ session' = [session EXCEPT ![c] = Synchronized(ReadingOf(p))]
    /\ UNCHANGED <<disk, signature, owner, shellVars, at, call>>

\* IPMonitorControlPrefsSetVerbose, InterfaceNamerControlPrefsSetAllowNewInterfaces:
\* off is the absence of the key.
SetVerbose(c, on) ==
    /\ call[c] = "none"
    /\ \E p \in Sessions(c) :
          IF p = Closed
          THEN Answers(c, FALSE) /\ UNCHANGED <<session, call>>
          ELSE /\ session' = [session EXCEPT ![c] =
                     IF on \/ Flag \in ReadingOf(p).tree.top
                     THEN Edited(ReadingOf(p), WithFlag(ReadingOf(p).tree, on))
                     ELSE ReadingOf(p)]
               /\ call' = [call EXCEPT ![c] = IF on THEN "on" ELSE "off"]
               /\ UNCHANGED answer
    /\ UNCHANGED <<disk, signature, owner, shellVars, at>>

\* IPMonitorControlPrefsSave: the session forgets its copy, saved or not.
SaveVerbose(c) ==
    /\ call[c] # "none" /\ LockFree(c)
    /\ call' = [call EXCEPT ![c] = "none"]
    /\ session' = [session EXCEPT ![c] = Synchronized(@)]
    /\ Answers(c, ~IsStale(c))
    /\ IF IsStale(c)
       THEN UNCHANGED <<disk, signature>>
       ELSE Write(c)
    /\ UNCHANGED <<owner, shellVars, at>>

-----------------------------------------------------------------------------
ToolNext ==
    \/ \E j \in Once :
          \/ Open(j) \/ Ask(j) \/ Set(j) \/ DisableUntilNeeded(j)
          \/ Save(j) \/ Apply(j) \/ Get(j)
    \/ \E c \in Clients :
          IsVerbose(c) \/ SaveVerbose(c) \/ \E on \in BOOLEAN : SetVerbose(c, on)

Next ==
    /\ Step /\ UNCHANGED managed
    /\ \/ (\E s \in Shells : ShellNext(s)) /\ UNCHANGED <<at, call, answer>>
       \/ ToolNext

Spec == Init /\ [][Next]_vars

-----------------------------------------------------------------------------
(* What is promised.                                                       *)

\* prefs.c:324, "preference changes have not been committed": changes go to the
\* file, or the user was told that they are abandoned.  Only synchronize and the
\* end of the input drop them without a word.
NothingDropped ==
    [][\A s \in Shells :
          session[s].changed /\ ~session'[s].changed =>
             \/ disk'[session[s].file] = session[s].tree
             \/ said'[s] \cap {"abandoned"} # {}
             \/ DoSynchronize(s) \/ InputEnds(s)]_vars

Orphans(s) == {f \in Files : owner[f] = s /\ ~(session[s].locked /\ session[s].file = f)}

\* A lock outlives the session that took it in one way only: "open !" at a
\* terminal, with changes.  Any later wait for that lock by the shell is for ever.
LeftBehind ==
    [][\A s \in Shells : Orphans(s)' \ Orphans(s) # {} =>
          changed[s] /\ input[s] = "tty" /\ DoOpen(s, Bang)]_vars

\* p's changes are those that go to the file in a step.
Commits(p, f) ==
    /\ session[p].file = f /\ session[p].changed /\ ~session'[p].changed
    /\ disk'[f] = session[p].tree

\* No program overwrites what it has not read: whoever writes had made its own
\* copy from the content that its write replaces, however many others write, and
\* however often it has committed before.
NothingOverwritten ==
    [][\A f \in Files : signature'[f] # signature[f] \/ disk'[f] # disk[f] =>
          \E p \in Processes : Commits(p, f) /\ session[p].base = disk[f]]_vars

\* A program that exits with status 0 has saved, or found, the value; a control
\* preference that is not managed reads as the file has it, whatever calls failed
\* before; and a setter that reports success has set.
AnswersTrue ==
    [][/\ \A j \in Once :
             /\ (at'[j] = "saved" /\ at[j] # "saved")
                => (Flag \in disk'[Main].top) = (Does[j] # "clear")
             /\ (at'[j] = "ok" /\ at[j] # "ok") =>
                   \/ at[j] = "saved"
                   \/ Does[j] = "get" /\ Flag \in disk[Main].top
       /\ \A c \in Clients :
             /\ (IsVerbose(c) /\ ~IsManaged(c) /\ session'[c].file # NoFile)
                => answer'[c] = (Flag \in disk[Main].top)
             /\ (SaveVerbose(c) /\ answer'[c])
                => (Flag \in disk'[Main].top) = (call[c] = "on")]_vars
-----------------------------------------------------------------------------
(* How the copies stand: the invariant behind these properties.            *)

\* A session x of process p over files with contents d, signatures g and lock
\* owners o.  Only a copy of the present content has its signature, and while a
\* session has the lock nobody makes its copy an old one.
CopyOK(p, x, d, g, o) ==
    /\ (x.tree = Unread) = (x.base = Unread)
    /\ x.changed => x.tree # Unread
    /\ ~x.changed => x.tree = x.base
    /\ x.file = NoFile => x.tree = Unread /\ ~x.locked
    /\ x.tree # Unread =>
          /\ x.signature <= g[x.file]
          /\ x.signature = g[x.file] => x.base = d[x.file]
    /\ x.locked =>
          /\ o[x.file] = p
          /\ x.tree # Unread => x.signature = g[x.file]

\* a shell's mark of a change, and the user's question with it, comes first
Marked(s) == session[s].changed => changed[s]

\* only a session that does not have the lock waits for it
Waiting(s) == blocked[s] # "no" => session[s].file # NoFile /\ ~session[s].locked

\* A program edits the content that it has just opened, once.
OnceOK(j) ==
    /\ at[j] \in {"open", "asking", "edited"} => session[j].file = Main
    /\ at[j] = "open" => session[j].tree = Unread
    /\ at[j] = "asking" => ~session[j].changed
    /\ at[j] = "edited" =>
          /\ session[j].changed
          /\ Flag \in session[j].tree.top <=> Does[j] # "clear"

\* Between two calls a client has no copy, so that the next call reads the file.
ClientOK(c) ==
    /\ session[c].file \in {NoFile, Main}
    /\ call[c] = "none" => session[c].tree = Unread
    /\ call[c] # "none" =>
          /\ session[c].file = Main /\ session[c].tree # Unread
          /\ Flag \in session[c].tree.top <=> call[c] = "on"

PrefsInv ==
    /\ TypeOK
    /\ \A p \in Processes : CopyOK(p, session[p], disk, signature, owner)
    /\ \A p \in Tools : ~session[p].locked
    /\ \A s \in Shells : Marked(s) /\ Waiting(s)
    /\ \A j \in Once : OnceOK(j)
    /\ \A c \in Clients : ClientOK(c)
=============================================================================
