---------------------------- MODULE HelperClient ----------------------------
(***************************************************************************)
(* Preferences objects that read through SCHelper, the privileged helper,  *)
(* what their process may not read itself.                                 *)
(*                                                                         *)
(* All threads share _helper_server, a cached Mach port to the helper.     *)
(* _SCHelperOpen() reads it without the lock, tries it, and under the lock *)
(* replaces the one that did not answer.  Each object is used by a thread  *)
(* of its own and keeps the port of its own session in helper_port.        *)
(*                                                                         *)
(* A port name is the number of the server it was looked up for: Mach does *)
(* not give a name out again soon after the task dropped it.               *)
(***************************************************************************)
EXTENDS Integers, FiniteSets

CONSTANTS
    Objects,     \* preferences objects, each with its thread
    Authorized,  \* those that were given authorizationData
    Layouts,     \* the preferences files that there may be to begin with
    NoOne,       \* the holder of a lock that is free
    MaxServers,  \* bound on the ports registered for the helper
    MaxFaults,   \* bound on refusals, failed requests and exits of the helper
    MaxEdits     \* bound on changes of the files by others

Dirs       == {"new", "old"}
FileStates == {"missing", "denied", "data", "corrupt"}

ASSUME HelperAssumption ==
    /\ Layouts \subseteq [Dirs -> FileStates]
    /\ Authorized \subseteq Objects /\ NoOne \notin Objects
    /\ MaxServers \in Nat /\ MaxFaults \in Nat /\ MaxEdits \in Nat

VARIABLES
    registered,   \* the port that bootstrap has for the helper, or MACH_PORT_NULL
    servers,      \* number of ports registered so far
    helperServer, \* _helper_server
    refs,         \* send rights of this task to each of these ports
    lock,         \* the holder of _helper_lock
    pc,           \* where each thread is
    op,           \* the operation it is in
    server,       \* the local variable of _SCHelperOpen()
    session,      \* the session behind helper_port, "none" for MACH_PORT_NULL
    prefs,        \* the contents, "none" before the first access
    path,         \* the file of the object
    newPath,      \* the file that a commit would go to instead, or "none"
    files,        \* the preferences files
    excused,      \* objects that the helper failed since their last access began
    faults, edits

helperVars == <<registered, servers>>
portVars   == <<helperServer, refs, lock>>
objectVars == <<prefs, path, newPath>>
vars == <<helperVars, portVars, pc, op, server, session, objectVars, files,
          excused, faults, edits>>

MACH_PORT_NULL == 0
Ports == 1..MaxServers

Live       == {"new", "auth", "open"}

TypeOK ==
    /\ registered \in {MACH_PORT_NULL} \cup Ports /\ servers \in 0..MaxServers
    /\ registered <= servers
    /\ helperServer \in {MACH_PORT_NULL} \cup Ports
    /\ refs \in [Ports -> Nat]
    /\ lock \in Objects \cup {NoOne}
    /\ pc \in [Objects -> {"none", "idle", "read", "init", "lock", "check",
                           "lookup", "auth", "prefsOpen", "exec"}]
    /\ op \in [Objects -> {"none", "access", "synchronize", "refresh", "release"}]
    /\ server \in [Objects -> {MACH_PORT_NULL} \cup Ports]
    /\ session \in [Objects -> Live \cup {"none", "gone"}]
    /\ prefs \in [Objects -> {"none", "empty", "data"}]
    /\ path \in [Objects -> Dirs] /\ newPath \in [Objects -> {"none", "new"}]
    /\ files \in [Dirs -> FileStates]
    /\ excused \subseteq Objects
    /\ faults \in 0..MaxFaults /\ edits \in 0..MaxEdits

\* what a reader with all rights makes of a file: a corrupt one starts fresh
Contents(f) == IF f \in {"denied", "data"} THEN "data" ELSE "empty"

\* the file that the helper opens for the same preferences
HelperFile == IF files["new"] # "missing" THEN files["new"] ELSE files["old"]

Init ==
    /\ registered \in {MACH_PORT_NULL} \cup (Ports \cap {1}) /\ servers = registered
    /\ helperServer = MACH_PORT_NULL
    /\ refs = [n \in Ports |-> 0]
    /\ lock = NoOne
    /\ pc = [o \in Objects |-> "none"] /\ op = [o \in Objects |-> "none"]
    /\ server = [o \in Objects |-> MACH_PORT_NULL]
    /\ session = [o \in Objects |-> "none"]
    /\ prefs = [o \in Objects |-> "none"]
    /\ path = [o \in Objects |-> "new"] /\ newPath = [o \in Objects |-> "none"]
    /\ files \in Layouts
    /\ excused = {}
    /\ faults = 0 /\ edits = 0

-----------------------------------------------------------------------------
\* A request to the helper goes wrong or is refused.
Fault(o) ==
    /\ faults < MaxFaults /\ faults' = faults + 1
    /\ excused' = excused \cup {o}

NoFault == UNCHANGED <<faults, excused>>

Goto(o, label) == pc' = [pc EXCEPT ![o] = label]

\* The operation ends with the contents c, which only an access keeps.
\* SCPreferencesSynchronize(), which is not in this repository, drops the
\* contents whatever the helper says.
Return(o, c) ==
    /\ pc' = [pc EXCEPT ![o] = IF op[o] = "release" THEN "none" ELSE "idle"]
    /\ op' = [op EXCEPT ![o] = "none"]
    /\ prefs' = [prefs EXCEPT ![o] = CASE op[o] = "access" -> c
                                       [] op[o] = "refresh" -> @
                                       [] OTHER -> "none"]

\* A failed access leaves empty preferences that count as accessed.
Failed(o) == Return(o, "empty")

CloseSession(o) == session' = [session EXCEPT ![o] = "none"]

Begin(o, name, label) ==
    /\ op' = [op EXCEPT ![o] = name]
    /\ Goto(o, label)
    /\ excused' = IF name # "access" THEN excused
                  ELSE IF session[o] \in {"gone", "auth"} THEN excused \cup {o}
                  ELSE excused \ {o}

-----------------------------------------------------------------------------
(* The operations on a preferences object.                                 *)

\* __SCPreferencesCreate(): look for the file in the new directory, then in the
\* old one; without either the new one is used.  An object without
\* authorization is not created for a file that cannot be read.
Create(o) ==
    /\ pc[o] = "none"
    /\ LET dir == IF files["new"] = "missing" /\ files["old"] # "missing"
                    THEN "old" ELSE "new"
       IN  /\ files[dir] = "denied" => o \in Authorized
           /\ path' = [path EXCEPT ![o] = dir]
           /\ newPath' = [newPath EXCEPT ![o] = IF dir = "old" THEN "new" ELSE "none"]
    /\ Goto(o, "idle")
    /\ UNCHANGED <<helperVars, portVars, op, server, session, prefs, files,
                   excused, faults, edits>>

\* __SCPreferencesAccess(), if nothing has been accessed yet.
Access(o) ==
    /\ pc[o] = "idle" /\ prefs[o] = "none"
    /\ \/ /\ files[path[o]] = "denied" /\ o \in Authorized
          /\ Begin(o, "access", IF session[o] = "none" THEN "read" ELSE "exec")
          /\ prefs' = prefs
       \/ /\ files[path[o]] = "denied" => o \notin Authorized
          /\ prefs' = [prefs EXCEPT ![o] =
                         IF files[path[o]] = "data" THEN "data" ELSE "empty"]
          /\ UNCHANGED <<pc, op, excused>>
    /\ UNCHANGED <<helperVars, portVars, server, session, path, newPath, files,
                   faults, edits>>

\* SCPreferencesSynchronize() with __SCPreferencesSynchronize_helper().
Synchronize(o) ==
    /\ pc[o] = "idle"
    /\ \/ /\ session[o] # "none"
          /\ Begin(o, "synchronize", "exec")
          /\ prefs' = prefs
       \/ /\ session[o] = "none" /\ prefs[o] # "none"
          /\ prefs' = [prefs EXCEPT ![o] = "none"]
          /\ UNCHANGED <<pc, op, excused>>
    /\ UNCHANGED <<helperVars, portVars, server, session, path, newPath, files,
                   faults, edits>>

\* __SCNetworkInterfaceForceConfigurationRefresh_helper()
Refresh(o) ==
    /\ pc[o] = "idle"
    /\ Begin(o, "refresh", IF session[o] = "none" THEN "read" ELSE "exec")
    /\ UNCHANGED <<helperVars, portVars, server, session, objectVars, files,
                   faults, edits>>

\* __SCPreferencesDeallocate()
Release(o) ==
    /\ pc[o] = "idle"
    /\ IF session[o] # "none"
         THEN Begin(o, "release", "exec") /\ prefs' = prefs
         ELSE /\ Goto(o, "none")
              /\ prefs' = [prefs EXCEPT ![o] = "none"]
              /\ UNCHANGED <<op, excused>>
    /\ UNCHANGED <<helperVars, portVars, server, session, path, newPath, files,
                   faults, edits>>

-----------------------------------------------------------------------------
(* _SCHelperOpen().                                                        *)

\* The cached port is read without the lock.
ReadServer(o) ==
    /\ pc[o] = "read"
    /\ server' = [server EXCEPT ![o] = helperServer]
    /\ Goto(o, IF helperServer # MACH_PORT_NULL THEN "init" ELSE "lock")
    /\ UNCHANGED <<helperVars, portVars, op, session, objectVars, files,
                   excused, faults, edits>>

\* A message to this port arrives at the helper.
Valid(n) == n = registered /\ refs[n] > 0

\* The local variable goes out of scope.
EndLoop(o) == server' = [server EXCEPT ![o] = MACH_PORT_NULL]

\* Mutants of TryAgain: a stale port is a failure; it is tried again as it is.
GiveUp(o) == EndLoop(o) /\ Failed(o)
TryAgainSame(o) == Goto(o, "init") /\ UNCHANGED <<server, op, prefs>>

\* MACH_SEND_INVALID_DEST: "our [cached] server port is not valid"
TryAgain(o) == Goto(o, "lock") /\ UNCHANGED <<server, op, prefs>>

\* helperinit(): a session, no such port any more, or an error that is not
\* worth another try.
HelperInit(o) ==
    /\ pc[o] = "init"
    /\ \/ /\ Valid(server[o])
          /\ session' = [session EXCEPT ![o] = "new"]
          /\ Goto(o, "auth") /\ EndLoop(o)
          /\ NoFault /\ UNCHANGED <<op, prefs>>
       \/ /\ ~Valid(server[o])
          /\ TryAgain(o)
          /\ NoFault /\ UNCHANGED session
       \/ /\ Fault(o)
          /\ Failed(o) /\ EndLoop(o)
          /\ session' = session
    /\ UNCHANGED <<helperVars, portVars, path, newPath, files, edits>>

\* Mutant of Unlocked: the server port is replaced without the lock.
AlwaysUnlocked == TRUE

Unlocked == lock = NoOne

Lock(o) ==
    /\ pc[o] = "lock" /\ Unlocked
    /\ lock' = o
    /\ Goto(o, "check")
    /\ UNCHANGED <<helperVars, helperServer, refs, op, server, session,
                   objectVars, files, excused, faults, edits>>

\* Mutant of Refreshed: whatever port is cached is dropped.
NeverRefreshed(o) == FALSE

\* another thread has refreshed the port
Refreshed(o) == helperServer # MACH_PORT_NULL /\ server[o] # helperServer

\* Drop the cached port if it is the one that did not answer; use it if another
\* thread has refreshed it.
CheckServer(o) ==
    /\ pc[o] = "check"
    /\ IF Refreshed(o)
         THEN /\ server' = [server EXCEPT ![o] = helperServer]
              /\ lock' = NoOne /\ Goto(o, "init")
              /\ refs' = refs
         ELSE /\ refs' = [n \in Ports |-> IF n = helperServer /\ refs[n] > 0
                                            THEN refs[n] - 1 ELSE refs[n]]
              /\ Goto(o, "lookup")
              /\ UNCHANGED <<server, lock>>
    /\ UNCHANGED <<helperVars, helperServer, op, session, objectVars, files,
                   excused, faults, edits>>

\* __SCHelperServerPort() and the end of the critical section.
LookupServer(o) ==
    /\ pc[o] = "lookup"
    /\ \E n \in {registered, MACH_PORT_NULL} :
          /\ helperServer' = n
          /\ refs' = [m \in Ports |-> IF m = n THEN refs[m] + 1 ELSE refs[m]]
          /\ server' = [server EXCEPT ![o] = n]
          /\ IF n # MACH_PORT_NULL
               THEN Goto(o, "init") /\ NoFault /\ UNCHANGED <<op, prefs>>
               ELSE /\ Failed(o)
                    /\ excused' = excused \cup {o}
                    /\ IF registered = MACH_PORT_NULL
                         THEN faults' = faults
                         ELSE faults < MaxFaults /\ faults' = faults + 1
    /\ lock' = NoOne
    /\ UNCHANGED <<helperVars, session, path, newPath, files, edits>>

\* Mutant of RequestFails: the caller fails but keeps the session.
RequestFailsOpen(o) ==
    /\ (session[o] = "gone" /\ NoFault) \/ (session[o] \in Live /\ Fault(o))
    /\ session' = session
    /\ Failed(o)

\* _SCHelperExec() itself fails: the session is closed and the caller fails.
RequestFails(o) ==
    /\ (session[o] = "gone" /\ NoFault) \/ (session[o] \in Live /\ Fault(o))
    /\ CloseSession(o)
    /\ Failed(o)

\* SCHELPER_MSG_AUTH: an error or a refusal drops the port of the session.
Authorize(o) ==
    /\ pc[o] = "auth"
    /\ \/ /\ session[o] = "new"
          /\ session' = [session EXCEPT ![o] = "auth"]
          /\ Goto(o, "prefsOpen")
          /\ NoFault /\ UNCHANGED <<op, prefs>>
       \/ RequestFails(o)
    /\ UNCHANGED <<helperVars, portVars, server, path, newPath, files, edits>>

-----------------------------------------------------------------------------
(* Requests within a session.                                              *)

\* The helper answers with a status that is not kSCStatusOK, which leaves the
\* session as it is.
RequestRefused(o) ==
    /\ session[o] \in Live /\ Fault(o)
    /\ session' = session
    /\ Failed(o)

\* SCHELPER_MSG_PREFS_OPEN, the end of __SCPreferencesCreate_helper()
PrefsOpen(o) ==
    /\ pc[o] = "prefsOpen"
    /\ \/ /\ session[o] = "auth"
          /\ session' = [session EXCEPT ![o] = "open"]
          /\ Goto(o, "exec")
          /\ NoFault /\ UNCHANGED <<op, prefs>>
       \/ RequestFails(o)
       \/ RequestRefused(o)
    /\ UNCHANGED <<helperVars, portVars, server, path, newPath, files, edits>>

\* SCHELPER_MSG_PREFS_ACCESS: a reply without preferences or signature closes
\* the session too.  A session that has not opened the preferences refuses.
ExecAccess(o) ==
    /\ pc[o] = "exec" /\ op[o] = "access"
    /\ \/ /\ session[o] = "open"
          /\ session' = session
          /\ NoFault
          /\ Return(o, Contents(HelperFile))
       \/ /\ session[o] = "auth"
          /\ session' = session
          /\ NoFault
          /\ Failed(o)
       \/ RequestFails(o)
       \/ RequestRefused(o)
    /\ UNCHANGED <<helperVars, portVars, server, path, newPath, files, edits>>

\* SCHELPER_MSG_PREFS_SYNCHRONIZE, whose status is not looked at, and
\* SCHELPER_MSG_INTERFACE_REFRESH.
ExecOther(o) ==
    /\ pc[o] = "exec" /\ op[o] \in {"synchronize", "refresh"}
    /\ \/ /\ session[o] \in Live
          /\ session' = session
          /\ NoFault
          /\ Return(o, "none")
       \/ RequestFails(o)
       \/ op[o] = "refresh" /\ RequestRefused(o)
    /\ UNCHANGED <<helperVars, portVars, server, path, newPath, files, edits>>

\* SCHELPER_MSG_PREFS_CLOSE and _SCHelperClose(), whatever they answer.
ExecRelease(o) ==
    /\ pc[o] = "exec" /\ op[o] = "release"
    /\ CloseSession(o)
    /\ Return(o, "none")
    /\ UNCHANGED <<helperVars, portVars, server, path, newPath, files, excused,
                   faults, edits>>

-----------------------------------------------------------------------------
(* The helper and the files.                                               *)

SessionsEnd ==
    /\ session' = [o \in Objects |-> IF session[o] = "none" THEN "none" ELSE "gone"]
    /\ excused' = excused \cup {o \in Objects : session[o] # "none"}

\* The helper's port goes away, with or without a new one in its place.
Reregister ==
    /\ \/ /\ servers < MaxServers
          /\ servers' = servers + 1 /\ registered' = servers + 1
       \/ /\ registered # MACH_PORT_NULL
          /\ registered' = MACH_PORT_NULL /\ servers' = servers
    /\ SessionsEnd
    /\ UNCHANGED <<portVars, pc, op, server, objectVars, files, faults, edits>>

\* The helper exits and is started again for the next request to its port.
HelperExits ==
    /\ registered # MACH_PORT_NULL
    /\ faults < MaxFaults /\ faults' = faults + 1
    /\ SessionsEnd
    /\ UNCHANGED <<helperVars, portVars, pc, op, server, objectVars, files, edits>>

\* Someone else writes, removes or protects a file.
EditFile ==
    /\ edits < MaxEdits /\ edits' = edits + 1
    /\ \E d \in Dirs, f \in FileStates : files' = [files EXCEPT ![d] = f]
    /\ UNCHANGED <<helperVars, portVars, pc, op, server, session, objectVars,
                   excused, faults>>

-----------------------------------------------------------------------------
Step(o) ==
    \/ ReadServer(o) \/ HelperInit(o) \/ Lock(o) \/ CheckServer(o)
    \/ LookupServer(o) \/ Authorize(o) \/ PrefsOpen(o)
    \/ ExecAccess(o) \/ ExecOther(o) \/ ExecRelease(o)

Call(o) ==
    Create(o) \/ Access(o) \/ Synchronize(o) \/ Refresh(o) \/ Release(o)

Next ==
    \/ \E o \in Objects : Step(o) \/ Call(o)
    \/ Reregister \/ HelperExits \/ EditFile

Spec == Init /\ [][Next]_vars

\* A thread that is in an operation is scheduled again and again.
FairSpec == Spec /\ \A o \in Objects : WF_vars(Step(o))

-----------------------------------------------------------------------------
(* Properties.                                                             *)

\* The task owns one right to the cached port and none to any other: no
\* interleaving of the unlocked read with the replacement under the lock drops
\* a right twice or forgets one.
RefsRight ==
    lock = NoOne =>
       \A n \in Ports : refs[n] = IF n = helperServer THEN 1 ELSE 0

\* A thread drops no port that still leads to the helper: one whose own port
\* failed does not take away what another thread has refreshed meanwhile.
FreshKept == [][\A n \in Ports : refs'[n] < refs[n] => n # registered]_vars

\* Between operations no session is left half-way, other than by a helper that
\* refused to open the preferences.
NoHalfOpen ==
    \A o \in Objects : pc[o] = "idle" =>
       session[o] # "new" /\ (session[o] = "auth" => faults > 0)

\* A file that is there is read, through the helper if need be, although the
\* cached port may be stale: replacing it and trying again is no failure.
ReadsFile ==
    edits = 0 =>
       \A o \in Authorized :
          prefs[o] = "empty" /\ o \notin excused => Contents(files[path[o]]) = "empty"

\* Once the helper stays registered, every operation comes to its end: the
\* retry loop, which has no bound, goes on only while its port is replaced, and
\* no thread waits for the lock for ever.
Ends ==
    <>[](registered # MACH_PORT_NULL) =>
       \A o \in Objects : (pc[o] \notin {"none", "idle"}) ~> (pc[o] \in {"none", "idle"})

=============================================================================
