------------------------- MODULE HelperClientProofs -------------------------
(***************************************************************************)
(* Theorems about HelperClient, for any objects, any files and any number  *)
(* of servers and faults.                                                  *)
(***************************************************************************)
EXTENDS HelperClient, TLAPS

InLoop == {"read", "init", "lock", "check", "lookup"}

\* Who holds the lock is in the critical section.
LockInv ==
    \A o \in Objects : /\ pc[o] \in {"check", "lookup"} => lock = o
                       /\ lock = o => pc[o] \in {"check", "lookup"}

\* The cached port has been dropped and is being looked up.
Replacing == lock # NoOne /\ pc[lock] = "lookup"

\* Between the drop of the cached port and the next one no right is held.
RefsInv ==
    \A n \in Ports : refs[n] = IF n = helperServer /\ ~Replacing THEN 1 ELSE 0

\* No thread has a port that is yet to be registered, and a port that a thread
\* gave up, or that was dropped, does not lead to the helper any more.
StaleInv ==
    /\ helperServer <= servers
    /\ Replacing => helperServer = MACH_PORT_NULL \/ helperServer # registered
    /\ \A o \in Objects :
          /\ server[o] <= servers
          /\ server[o] # MACH_PORT_NULL /\ pc[o] \in {"lock", "check"}
                => server[o] # registered
          /\ server[o] # MACH_PORT_NULL /\ refs[server[o]] = 0
                => server[o] # registered

\* Where a thread is, and the session that it has there.
SessionInv ==
    \A o \in Objects :
       /\ pc[o] \in InLoop \cup {"none"} => session[o] = "none"
       /\ pc[o] = "auth" => session[o] \in {"new", "gone"}
       /\ pc[o] = "prefsOpen" => session[o] \in {"auth", "gone"}
       /\ pc[o] = "exec" => session[o] \in {"auth", "open", "gone"}
       /\ pc[o] = "idle" => session[o] # "new"
       /\ pc[o] \in {"idle", "exec"} /\ session[o] = "auth" => faults > 0

\* Where a thread is in which operation; an object that does not exist has no
\* contents.
OpInv ==
    \A o \in Objects :
       /\ pc[o] \in {"none", "idle"} <=> op[o] = "none"
       /\ op[o] = "release" => pc[o] = "exec"
       /\ pc[o] = "none" => prefs[o] = "none"

\* An access that will fail has an excuse.
ExcuseInv ==
    \A o \in Objects : op[o] = "access" =>
       /\ session[o] = "gone" => o \in excused
       /\ pc[o] = "exec" /\ session[o] = "auth" => o \in excused

\* While the files stay as they are, the object has the file that is there.
PathInv ==
    edits = 0 =>
       \A o \in Objects : pc[o] # "none" =>
          IF files["new"] = "missing" /\ files["old"] # "missing"
            THEN path[o] = "old" ELSE path[o] = "new"

PortInv == LockInv /\ RefsInv /\ StaleInv

IInv ==
    /\ TypeOK /\ PortInv
    /\ SessionInv /\ OpInv /\ ExcuseInv /\ PathInv /\ ReadsFile

-----------------------------------------------------------------------------
\* The variables keep their types.
LEMMA TypeStep ==
    ASSUME TypeOK, [Next]_vars
    PROVE  TypeOK'
<1> USE HelperAssumption DEF TypeOK, Live, MACH_PORT_NULL, Contents, HelperFile,
          Dirs, FileStates, helperVars, portVars, objectVars
<1>1. ASSUME NEW o \in Objects, ReadServer(o) PROVE TypeOK'
  BY <1>1 DEF ReadServer, Goto
<1>2. ASSUME NEW o \in Objects, HelperInit(o) PROVE TypeOK'
  BY <1>2 DEF HelperInit, Valid, TryAgain, EndLoop, NoFault, Fault, Failed, Return, Goto
<1>3. ASSUME NEW o \in Objects, Lock(o) PROVE TypeOK'
  BY <1>3 DEF Lock, Unlocked, Goto
<1>4. ASSUME NEW o \in Objects, CheckServer(o) PROVE TypeOK'
  BY <1>4 DEF CheckServer, Refreshed, Goto
<1>5. ASSUME NEW o \in Objects, LookupServer(o) PROVE TypeOK'
  BY <1>5 DEF LookupServer, NoFault, Failed, Return, Goto
<1>6. ASSUME NEW o \in Objects, Authorize(o) PROVE TypeOK'
  BY <1>6 DEF Authorize, RequestFails, CloseSession, NoFault, Fault, Failed, Return, Goto
<1>7. ASSUME NEW o \in Objects, PrefsOpen(o) PROVE TypeOK'
  BY <1>7 DEF PrefsOpen, RequestFails, RequestRefused, CloseSession, NoFault, Fault,
       Failed, Return, Goto
<1>8. ASSUME NEW o \in Objects, ExecAccess(o) PROVE TypeOK'
  BY <1>8 DEF ExecAccess, RequestFails, RequestRefused, CloseSession, NoFault, Fault,
       Failed, Return
<1>9. ASSUME NEW o \in Objects, ExecOther(o) PROVE TypeOK'
  BY <1>9 DEF ExecOther, RequestFails, RequestRefused, CloseSession, NoFault, Fault,
       Failed, Return
<1>10. ASSUME NEW o \in Objects, ExecRelease(o) PROVE TypeOK'
  BY <1>10 DEF ExecRelease, CloseSession, Return
<1>11. ASSUME NEW o \in Objects, Create(o) PROVE TypeOK'
  BY <1>11 DEF Create, Goto
<1>12. ASSUME NEW o \in Objects, Access(o) PROVE TypeOK'
  BY <1>12 DEF Access, Begin, Goto
<1>13. ASSUME NEW o \in Objects, Synchronize(o) PROVE TypeOK'
  BY <1>13 DEF Synchronize, Begin, Goto
<1>14. ASSUME NEW o \in Objects, Refresh(o) PROVE TypeOK'
  BY <1>14 DEF Refresh, Begin, Goto
<1>15. ASSUME NEW o \in Objects, Release(o) PROVE TypeOK'
  BY <1>15 DEF Release, Begin, Goto
<1>16. CASE Reregister
  BY <1>16 DEF Reregister, SessionsEnd, Ports
<1>17. CASE HelperExits
  BY <1>17 DEF HelperExits, SessionsEnd
<1>18. CASE EditFile
  BY <1>18 DEF EditFile
<1>19. CASE UNCHANGED vars
  BY <1>19 DEF vars
<1>20. QED
  BY <1>1, <1>2, <1>3, <1>4, <1>5, <1>6, <1>7, <1>8, <1>9, <1>10, <1>11, <1>12, <1>13,
       <1>14, <1>15, <1>16, <1>17, <1>18, <1>19 DEF Next, Step, Call

\* The lock, the rights and the ports.
LEMMA PortStep ==
    ASSUME TypeOK, PortInv, [Next]_vars
    PROVE  PortInv'
<1> USE HelperAssumption DEF PortInv, LockInv, RefsInv, StaleInv, Replacing, TypeOK,
          MACH_PORT_NULL, Ports, helperVars, portVars, objectVars
<1>1. ASSUME NEW o \in Objects, ReadServer(o) PROVE PortInv'
  BY <1>1 DEF ReadServer, Goto
<1>2. ASSUME NEW o \in Objects, HelperInit(o) PROVE PortInv'
  <2>1. LockInv'
    BY <1>2 DEF HelperInit, Valid, TryAgain, EndLoop, NoFault, Fault, Failed, Return, Goto
  <2>2. RefsInv'
    BY <1>2 DEF HelperInit, Valid, TryAgain, EndLoop, NoFault, Fault, Failed, Return, Goto
  <2>3. StaleInv'
    <3>1. pc'[o] # "lookup" /\ pc'[o] # "check" /\ (\A p \in Objects \ {o} : pc'[p] = pc[p])
      BY <1>2 DEF HelperInit, Valid, TryAgain, EndLoop, NoFault, Fault, Failed, Return,
           Goto
    <3>2. /\ server'[o] \in {server[o], MACH_PORT_NULL}
          /\ \A p \in Objects \ {o} : server'[p] = server[p]
          /\ UNCHANGED <<registered, servers, helperServer, refs, lock>>
      BY <1>2 DEF HelperInit, Valid, TryAgain, EndLoop, NoFault, Fault, Failed, Return,
           Goto
    <3>3. pc'[o] = "lock" => server[o] # registered \/ ~(refs[server[o]] > 0)
      BY <1>2 DEF HelperInit, Valid, TryAgain, EndLoop, NoFault, Fault, Failed, Return,
           Goto
    <3>4. server[o] \in Ports => refs[server[o]] \in Nat
      OBVIOUS
    <3>5. pc'[o] = "lock" /\ server[o] # MACH_PORT_NULL => server[o] # registered
      BY <3>3, <3>4
    <3>6. Replacing' => Replacing
      BY <3>1, <3>2
    <3>7. /\ helperServer' <= servers'
          /\ Replacing' => helperServer' = MACH_PORT_NULL \/ helperServer' # registered'
      BY <3>2, <3>6
    <3>8. ASSUME NEW p \in Objects
          PROVE  /\ server'[p] <= servers'
                 /\ server'[p] # MACH_PORT_NULL /\ pc'[p] \in {"lock", "check"} => server'[p] # registered'
                 /\ server'[p] # MACH_PORT_NULL /\ refs'[server'[p]] = 0 => server'[p] # registered'
      <4>1. CASE p = o
        BY <4>1, <3>1, <3>2, <3>5
      <4>2. CASE p # o
        BY <4>2, <3>1, <3>2
      <4>3. QED
        BY <4>1, <4>2
    <3>9. QED
      BY <3>7, <3>8
  <2>4. QED
    BY <2>1, <2>2, <2>3
<1>3. ASSUME NEW o \in Objects, Lock(o) PROVE PortInv'
  BY <1>3 DEF Lock, Unlocked, Goto
<1>4. ASSUME NEW o \in Objects, CheckServer(o) PROVE PortInv'
  <2>1. LockInv'
    BY <1>4 DEF CheckServer, Refreshed, Goto
  <2>2. RefsInv'
    BY <1>4 DEF CheckServer, Refreshed, Goto
  <2>3. StaleInv'
    BY <1>4 DEF CheckServer, Refreshed, Goto
  <2>4. QED
    BY <2>1, <2>2, <2>3
<1>5. ASSUME NEW o \in Objects, LookupServer(o) PROVE PortInv'
  <2>1. LockInv'
    <3>1. lock = o /\ lock' = NoOne
      BY <1>5 DEF LookupServer, NoFault, Failed, Return, Goto
    <3>2. pc'[o] \in {"init", "idle", "none"} /\ (\A p \in Objects \ {o} : pc'[p] = pc[p])
      BY <1>5 DEF LookupServer, NoFault, Failed, Return, Goto
    <3>3. QED
      BY <3>1, <3>2
  <2>2. RefsInv'
    BY <1>5 DEF LookupServer, NoFault, Failed, Return, Goto
  <2>3. StaleInv'
    BY <1>5 DEF LookupServer, NoFault, Failed, Return, Goto
  <2>4. QED
    BY <2>1, <2>2, <2>3
<1>6. ASSUME NEW o \in Objects, Authorize(o) PROVE PortInv'
  BY <1>6 DEF Authorize, RequestFails, CloseSession, NoFault, Fault, Failed, Return, Goto
<1>7. ASSUME NEW o \in Objects, PrefsOpen(o) PROVE PortInv'
  BY <1>7 DEF PrefsOpen, RequestFails, RequestRefused, CloseSession, NoFault, Fault,
       Failed, Return, Goto
<1>8. ASSUME NEW o \in Objects, ExecAccess(o) PROVE PortInv'
  BY <1>8 DEF ExecAccess, RequestFails, RequestRefused, CloseSession, NoFault, Fault,
       Failed, Return
<1>9. ASSUME NEW o \in Objects, ExecOther(o) PROVE PortInv'
  BY <1>9 DEF ExecOther, RequestFails, RequestRefused, CloseSession, NoFault, Fault,
       Failed, Return
<1>10. ASSUME NEW o \in Objects, ExecRelease(o) PROVE PortInv'
  BY <1>10 DEF ExecRelease, CloseSession, Return
<1>11. ASSUME NEW o \in Objects, Create(o) PROVE PortInv'
  BY <1>11 DEF Create, Goto
<1>12. ASSUME NEW o \in Objects, Access(o) PROVE PortInv'
  BY <1>12 DEF Access, Begin, Goto
<1>13. ASSUME NEW o \in Objects, Synchronize(o) PROVE PortInv'
  BY <1>13 DEF Synchronize, Begin, Goto
<1>14. ASSUME NEW o \in Objects, Refresh(o) PROVE PortInv'
  BY <1>14 DEF Refresh, Begin, Goto
<1>15. ASSUME NEW o \in Objects, Release(o) PROVE PortInv'
  BY <1>15 DEF Release, Begin, Goto
<1>16. CASE Reregister
  BY <1>16 DEF Reregister, SessionsEnd
<1>17. CASE HelperExits
  BY <1>17 DEF HelperExits, SessionsEnd
<1>18. CASE EditFile
  BY <1>18 DEF EditFile
<1>19. CASE UNCHANGED vars
  BY <1>19 DEF vars
<1>20. QED
  BY <1>1, <1>2, <1>3, <1>4, <1>5, <1>6, <1>7, <1>8, <1>9, <1>10, <1>11, <1>12, <1>13,
       <1>14, <1>15, <1>16, <1>17, <1>18, <1>19 DEF Next, Step, Call

\* The sessions and the operations.
LEMMA SessionStep ==
    ASSUME TypeOK, SessionInv, OpInv, [Next]_vars
    PROVE  (SessionInv /\ OpInv)'
<1> USE HelperAssumption DEF SessionInv, OpInv, TypeOK, InLoop, Live, MACH_PORT_NULL,
          helperVars, portVars, objectVars
<1>1. ASSUME NEW o \in Objects, ReadServer(o) PROVE (SessionInv /\ OpInv)'
  BY <1>1 DEF ReadServer, Goto
<1>2. ASSUME NEW o \in Objects, HelperInit(o) PROVE (SessionInv /\ OpInv)'
  BY <1>2 DEF HelperInit, Valid, TryAgain, EndLoop, NoFault, Fault, Failed, Return, Goto
<1>3. ASSUME NEW o \in Objects, Lock(o) PROVE (SessionInv /\ OpInv)'
  BY <1>3 DEF Lock, Unlocked, Goto
<1>4. ASSUME NEW o \in Objects, CheckServer(o) PROVE (SessionInv /\ OpInv)'
  BY <1>4 DEF CheckServer, Refreshed, Goto
<1>5. ASSUME NEW o \in Objects, LookupServer(o) PROVE (SessionInv /\ OpInv)'
  BY <1>5 DEF LookupServer, NoFault, Failed, Return, Goto
<1>6. ASSUME NEW o \in Objects, Authorize(o) PROVE (SessionInv /\ OpInv)'
  BY <1>6 DEF Authorize, RequestFails, CloseSession, NoFault, Fault, Failed, Return, Goto
<1>7. ASSUME NEW o \in Objects, PrefsOpen(o) PROVE (SessionInv /\ OpInv)'
  <2>1. OpInv'
    BY <1>7 DEF PrefsOpen, RequestFails, RequestRefused, CloseSession, NoFault, Fault,
         Failed, Return, Goto
  <2>2. \A p \in Objects \ {o} : pc'[p] = pc[p] /\ session'[p] = session[p]
    BY <1>7 DEF PrefsOpen, RequestFails, RequestRefused, CloseSession, NoFault, Fault,
         Failed, Return, Goto
  <2>3. faults' \in Nat /\ (faults > 0 => faults' > 0)
    BY <1>7 DEF PrefsOpen, RequestFails, RequestRefused, CloseSession, NoFault, Fault,
         Failed, Return, Goto
  <2>4. \/ pc'[o] = "exec" /\ session'[o] = "open"
        \/ pc'[o] \in {"idle", "none"} /\ session'[o] = "none"
        \/ pc'[o] = "idle" /\ session'[o] \in {"auth", "gone"} /\ faults' > 0
    BY <1>7 DEF PrefsOpen, RequestFails, RequestRefused, CloseSession, NoFault, Fault,
         Failed, Return, Goto
  <2>5. SessionInv'
    BY <2>2, <2>3, <2>4
  <2>6. QED
    BY <2>1, <2>5
<1>8. ASSUME NEW o \in Objects, ExecAccess(o) PROVE (SessionInv /\ OpInv)'
  BY <1>8 DEF ExecAccess, RequestFails, RequestRefused, CloseSession, NoFault, Fault,
       Failed, Return
<1>9. ASSUME NEW o \in Objects, ExecOther(o) PROVE (SessionInv /\ OpInv)'
  BY <1>9 DEF ExecOther, RequestFails, RequestRefused, CloseSession, NoFault, Fault,
       Failed, Return
<1>10. ASSUME NEW o \in Objects, ExecRelease(o) PROVE (SessionInv /\ OpInv)'
  BY <1>10 DEF ExecRelease, CloseSession, Return
<1>11. ASSUME NEW o \in Objects, Create(o) PROVE (SessionInv /\ OpInv)'
  BY <1>11 DEF Create, Goto
<1>12. ASSUME NEW o \in Objects, Access(o) PROVE (SessionInv /\ OpInv)'
  BY <1>12 DEF Access, Begin, Goto
<1>13. ASSUME NEW o \in Objects, Synchronize(o) PROVE (SessionInv /\ OpInv)'
  BY <1>13 DEF Synchronize, Begin, Goto
<1>14. ASSUME NEW o \in Objects, Refresh(o) PROVE (SessionInv /\ OpInv)'
  BY <1>14 DEF Refresh, Begin, Goto
<1>15. ASSUME NEW o \in Objects, Release(o) PROVE (SessionInv /\ OpInv)'
  BY <1>15 DEF Release, Begin, Goto
<1>16. CASE Reregister
  BY <1>16 DEF Reregister, SessionsEnd
<1>17. CASE HelperExits
  BY <1>17 DEF HelperExits, SessionsEnd
<1>18. CASE EditFile
  BY <1>18 DEF EditFile
<1>19. CASE UNCHANGED vars
  BY <1>19 DEF vars
<1>20. QED
  BY <1>1, <1>2, <1>3, <1>4, <1>5, <1>6, <1>7, <1>8, <1>9, <1>10, <1>11, <1>12, <1>13,
       <1>14, <1>15, <1>16, <1>17, <1>18, <1>19 DEF Next, Step, Call

\* What an access finds.
LEMMA ReadStep ==
    ASSUME TypeOK, SessionInv, OpInv, ExcuseInv, PathInv, ReadsFile, [Next]_vars
    PROVE  (ExcuseInv /\ PathInv /\ ReadsFile)'
<1> USE HelperAssumption DEF SessionInv, OpInv, ExcuseInv, PathInv, ReadsFile,
          TypeOK, InLoop, Live, MACH_PORT_NULL, Contents, HelperFile, Dirs,
          FileStates, helperVars, portVars, objectVars
<1>1. ASSUME NEW o \in Objects, ReadServer(o) PROVE (ExcuseInv /\ PathInv /\ ReadsFile)'
  BY <1>1 DEF ReadServer, Goto
<1>2. ASSUME NEW o \in Objects, HelperInit(o) PROVE (ExcuseInv /\ PathInv /\ ReadsFile)'
  BY <1>2 DEF HelperInit, Valid, TryAgain, EndLoop, NoFault, Fault, Failed, Return, Goto
<1>3. ASSUME NEW o \in Objects, Lock(o) PROVE (ExcuseInv /\ PathInv /\ ReadsFile)'
  BY <1>3 DEF Lock, Unlocked, Goto
<1>4. ASSUME NEW o \in Objects, CheckServer(o) PROVE (ExcuseInv /\ PathInv /\ ReadsFile)'
  BY <1>4 DEF CheckServer, Refreshed, Goto
<1>5. ASSUME NEW o \in Objects, LookupServer(o) PROVE (ExcuseInv /\ PathInv /\ ReadsFile)'
  BY <1>5 DEF LookupServer, NoFault, Failed, Return, Goto
<1>6. ASSUME NEW o \in Objects, Authorize(o) PROVE (ExcuseInv /\ PathInv /\ ReadsFile)'
  BY <1>6 DEF Authorize, RequestFails, CloseSession, NoFault, Fault, Failed, Return, Goto
<1>7. ASSUME NEW o \in Objects, PrefsOpen(o) PROVE (ExcuseInv /\ PathInv /\ ReadsFile)'
  BY <1>7 DEF PrefsOpen, RequestFails, RequestRefused, CloseSession, NoFault, Fault,
       Failed, Return, Goto
<1>8. ASSUME NEW o \in Objects, ExecAccess(o) PROVE (ExcuseInv /\ PathInv /\ ReadsFile)'
  BY <1>8 DEF ExecAccess, RequestFails, RequestRefused, CloseSession, NoFault, Fault,
       Failed, Return
<1>9. ASSUME NEW o \in Objects, ExecOther(o) PROVE (ExcuseInv /\ PathInv /\ ReadsFile)'
  BY <1>9 DEF ExecOther, RequestFails, RequestRefused, CloseSession, NoFault, Fault,
       Failed, Return
<1>10. ASSUME NEW o \in Objects, ExecRelease(o) PROVE (ExcuseInv /\ PathInv /\ ReadsFile)'
  BY <1>10 DEF ExecRelease, CloseSession, Return
<1>11. ASSUME NEW o \in Objects, Create(o) PROVE (ExcuseInv /\ PathInv /\ ReadsFile)'
  <2>1. ExcuseInv'
    BY <1>11 DEF Create, Goto
  <2>2. PathInv'
    BY <1>11 DEF Create, Goto
  <2>3. ReadsFile'
    <3>1. prefs[o] = "none" /\ prefs' = prefs
      BY <1>11 DEF Create, Goto
    <3>2. \A p \in Objects \ {o} : path'[p] = path[p]
      BY <1>11 DEF Create, Goto
    <3>3. UNCHANGED <<files, excused, edits>>
      BY <1>11 DEF Create, Goto
    <3>4. QED
      BY <3>1, <3>2, <3>3
  <2>4. QED
    BY <2>1, <2>2, <2>3
<1>12. ASSUME NEW o \in Objects, Access(o) PROVE (ExcuseInv /\ PathInv /\ ReadsFile)'
  BY <1>12 DEF Access, Begin, Goto
<1>13. ASSUME NEW o \in Objects, Synchronize(o) PROVE (ExcuseInv /\ PathInv /\ ReadsFile)'
  BY <1>13 DEF Synchronize, Begin, Goto
<1>14. ASSUME NEW o \in Objects, Refresh(o) PROVE (ExcuseInv /\ PathInv /\ ReadsFile)'
  BY <1>14 DEF Refresh, Begin, Goto
<1>15. ASSUME NEW o \in Objects, Release(o) PROVE (ExcuseInv /\ PathInv /\ ReadsFile)'
  BY <1>15 DEF Release, Begin, Goto
<1>16. CASE Reregister
  BY <1>16 DEF Reregister, SessionsEnd
<1>17. CASE HelperExits
  BY <1>17 DEF HelperExits, SessionsEnd
<1>18. CASE EditFile
  BY <1>18 DEF EditFile
<1>19. CASE UNCHANGED vars
  BY <1>19 DEF vars
<1>20. QED
  BY <1>1, <1>2, <1>3, <1>4, <1>5, <1>6, <1>7, <1>8, <1>9, <1>10, <1>11, <1>12, <1>13,
       <1>14, <1>15, <1>16, <1>17, <1>18, <1>19 DEF Next, Step, Call

-----------------------------------------------------------------------------
LEMMA InitInv == Init => IInv
<1> SUFFICES ASSUME Init PROVE IInv
  OBVIOUS
<1> USE HelperAssumption DEF Init, MACH_PORT_NULL, Ports
<1>1. TypeOK
  BY DEF TypeOK, Live, Dirs, FileStates
<1>2. PortInv
  BY DEF PortInv, LockInv, RefsInv, StaleInv, Replacing
<1>3. SessionInv /\ OpInv
  BY DEF SessionInv, OpInv, InLoop
<1>4. ExcuseInv /\ PathInv /\ ReadsFile
  BY DEF ExcuseInv, PathInv, ReadsFile
<1>5. QED
  BY <1>1, <1>2, <1>3, <1>4 DEF IInv

LEMMA Always == Spec => []IInv
<1>1. IInv /\ [Next]_vars => IInv'
  BY TypeStep, PortStep, SessionStep, ReadStep DEF IInv
<1>2. QED
  BY InitInv, <1>1, PTL DEF Spec

\* The variables keep their types.
THEOREM HelperTypes == Spec => []TypeOK
<1>1. IInv => TypeOK
  BY DEF IInv
<1>2. QED
  BY <1>1, Always, PTL

\* However the threads' unlocked reads of _helper_server interleave with its
\* replacement under the lock, the task owns one right, to the cached port.
THEOREM RightsHeld == Spec => []RefsRight
<1>1. IInv => RefsRight
  BY DEF IInv, PortInv, RefsInv, Replacing, RefsRight
<1>2. QED
  BY <1>1, Always, PTL

\* No thread drops the port that another thread has just refreshed.
THEOREM FreshPortKept == Spec => FreshKept
<1> DEFINE Kept == \A n \in Ports : refs'[n] < refs[n] => n # registered
<1>1. IInv /\ [Next]_vars => [Kept]_vars
  <2> SUFFICES ASSUME IInv, Next, ~(UNCHANGED vars), NEW n \in Ports, refs'[n] < refs[n]
               PROVE  n # registered
    BY DEF Kept
  <2> USE DEF helperVars, portVars, objectVars, Ports, MACH_PORT_NULL
  <2>1. refs[n] \in Nat
    BY DEF IInv, TypeOK
  <2>2. ASSUME NEW o \in Objects, CheckServer(o) PROVE n # registered
    <3>1. pc[o] = "check" /\ (Refreshed(o) => refs' = refs)
      BY <2>2 DEF CheckServer
    <3>2. ~Refreshed(o)
      BY <2>1, <3>1
    <3>3. n = helperServer
      BY <2>1, <2>2, <3>2 DEF CheckServer
    <3>4. server[o] = n
      BY <3>2, <3>3 DEF Refreshed
    <3>5. QED
      BY <3>1, <3>4 DEF IInv, PortInv, StaleInv
  <2>3. ASSUME NEW o \in Objects, LookupServer(o) PROVE ~(refs'[n] < refs[n])
    BY <2>1, <2>3 DEF LookupServer, IInv, TypeOK
  <2>4. ASSUME NEW o \in Objects,
               \/ ReadServer(o) \/ HelperInit(o) \/ Lock(o) \/ Authorize(o) \/ PrefsOpen(o)
               \/ ExecAccess(o) \/ ExecOther(o) \/ ExecRelease(o) \/ Call(o)
        PROVE  refs' = refs
    BY <2>4 DEF ReadServer, HelperInit, Lock, Authorize, PrefsOpen, ExecAccess, ExecOther,
                ExecRelease, Call, Create, Access, Synchronize, Refresh, Release
  <2>5. CASE Reregister \/ HelperExits \/ EditFile
    BY <2>1, <2>5 DEF Reregister, HelperExits, EditFile
  <2>6. QED
    BY <2>1, <2>2, <2>3, <2>4, <2>5 DEF Next, Step
<1>2. QED
  BY <1>1, Always, PTL DEF Spec, FreshKept

\* No operation leaves a session half-way, unless the helper refused to open
\* the preferences.
THEOREM SessionsWhole == Spec => []NoHalfOpen
<1>1. IInv => NoHalfOpen
  BY DEF IInv, SessionInv, NoHalfOpen
<1>2. QED
  BY <1>1, Always, PTL

\* A stale server port never makes a file that is there look empty.
THEOREM FileIsRead == Spec => []ReadsFile
<1>1. IInv => ReadsFile
  BY DEF IInv
<1>2. QED
  BY <1>1, Always, PTL

=============================================================================
