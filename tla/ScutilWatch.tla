---------------------------- MODULE ScutilWatch ----------------------------
(***************************************************************************)
(* scutil's session with the dynamic store and its notifications: "open",  *)
(* "close", "n.add", "n.remove", "n.watch" and "n.cancel".                 *)
(*                                                                         *)
(* n.watch starts a detached thread that creates a run loop source for the *)
(* session, adds it to its own run loop and runs that.  The thread and the *)
(* thread that reads the commands share the globals store, notifyRl and    *)
(* notifyRls without a lock, so that their accesses interleave here.       *)
(*                                                                         *)
(* With scutil -D the thread gives the session the main dispatch queue     *)
(* instead.  Its run loop then has no source and ends at once, and the     *)
(* main thread, which reads commands, never drains the queue.              *)
(***************************************************************************)
EXTENDS Integers, FiniteSets

CONSTANTS
    MaxThreads,  \* bound on the watcher threads that n.watch starts
    MaxSessions, \* bound on the sessions that open creates
    Items,       \* keys and patterns that can be watched
    Settled,     \* commands wait until the watchers have settled: see Ready
    MaxIssued,   \* bound on the number of commands
    MaxFaults    \* bound on failures of the framework

ASSUME WatchAssumption ==
    /\ MaxThreads \in Nat /\ MaxSessions \in Nat \ {0}
    /\ Settled \in BOOLEAN
    /\ MaxIssued \in Nat /\ MaxFaults \in Nat

\* threads and sessions are numbered as they are created
Threads  == 1..MaxThreads
Sessions == 1..MaxSessions
NULL == 0
kCFNull == MaxThreads + 1  \* what notifyRls holds with -D

VARIABLES
    doDispatch,  \* scutil was started with -D
    store,       \* the current session, or NULL
    opened,      \* sessions created so far
    watched,     \* watchedKeys and watchedPatterns
    keys,        \* the keys and patterns that configd knows, of each session
    refused,     \* configd refused the last change of the session's keys
    notifyRl,    \* the thread whose run loop it is, or NULL
    notifyRls,   \* the thread that created the source, kCFNull or NULL
    pc,          \* where the command thread is
    w,           \* where each watcher thread is
    src,         \* the session of the source that each thread created, or NULL
    loop,        \* the run loop that this source is attached to, or NULL
    queued,      \* the sessions that report to the main dispatch queue
    crashed,     \* a run loop or a source was used that is NULL
    issued,      \* number of commands so far
    faults       \* number of failures so far

globals == <<store, notifyRl, notifyRls>>
sources == <<src, loop, queued>>
listed == <<watched, keys, refused>>
watchVars == <<doDispatch, globals, opened, listed, pc, w, sources, crashed,
              issued, faults>>

WatcherLabels == {"none", "begin", "create", "attach", "run", "end", "gone"}

-----------------------------------------------------------------------------
\* thread t's run loop has a source, which is what CFRunLoopRun() needs
HasSource(t) == \E s \in Threads : src[s] # NULL /\ loop[s] = t

\* changes of session s are delivered to some thread
Delivers(s) == \E t \in Threads : src[t] = s /\ loop[t] # NULL /\ w[loop[t]] = "run"

\* A user at the keyboard is slower than the threads: each of them is gone or
\* has nothing to do but wait for notifications.
Ready == Settled => \A t \in Threads :
            \/ w[t] \in {"none", "gone"}
            \/ w[t] = "run" /\ HasSource(t)

Issue ==
    /\ pc = "prompt" /\ Ready
    /\ issued < MaxIssued /\ issued' = issued + 1

Fault == faults < MaxFaults /\ faults' = faults + 1

WatchInit ==
    /\ store = 1 /\ opened = 1          \* scutil starts with do_open()
    /\ doDispatch \in BOOLEAN
    /\ watched = {} /\ keys = [s \in Sessions |-> {}] /\ refused = FALSE
    /\ notifyRl = NULL /\ notifyRls = NULL
    /\ pc = "prompt" /\ w = [t \in Threads |-> "none"]
    /\ src = [t \in Threads |-> NULL] /\ loop = [t \in Threads |-> NULL]
    /\ queued = {}
    /\ crashed = FALSE
    /\ issued = 0 /\ faults = 0

-----------------------------------------------------------------------------
(* The thread that reads the commands.                                     *)

\* Mutant of DoOpen: the lists of the session before are kept.
OpenKeepsLists ==
    /\ Issue
    /\ opened + 1 \in Sessions
    /\ opened' = opened + 1
    /\ store' = opened'
    /\ UNCHANGED <<listed, notifyRl, notifyRls, pc, w, sources, crashed, faults>>

\* do_open(): the old session is released, which a source or a queue of it keeps
\* alive; the watcher is left alone.
DoOpen ==
    /\ Issue
    /\ \/ /\ opened + 1 \in Sessions
          /\ opened' = opened + 1
          /\ store' = opened'
          /\ watched' = {} /\ refused' = FALSE
          /\ UNCHANGED faults
       \/ /\ Fault
          /\ store' = NULL
          /\ UNCHANGED <<opened, watched, refused>>
    /\ UNCHANGED <<keys, notifyRl, notifyRls, pc, w, sources, crashed>>

\* SCDynamicStoreSetNotificationKeys(), whose failure is only printed
SetKeys(items) ==
    /\ watched' = items
    /\ \/ /\ keys' = [keys EXCEPT ![store] = items]
          /\ refused' = FALSE
          /\ UNCHANGED faults
       \/ Fault /\ refused' = TRUE /\ UNCHANGED keys

\* do_notify_add() and do_notify_remove(); the other cases change nothing
NotifyAdd ==
    /\ Issue
    /\ store # NULL
    /\ \E k \in Items \ watched : SetKeys(watched \cup {k})
    /\ UNCHANGED <<globals, opened, pc, w, sources, crashed>>

NotifyRemove ==
    /\ Issue
    /\ store # NULL
    /\ \E k \in watched : SetKeys(watched \ {k})
    /\ UNCHANGED <<globals, opened, pc, w, sources, crashed>>

\* Mutant of NotifyWatch: it does not look whether one is active.
NotifyWatchAgain ==
    /\ Issue
    /\ \E t \in Threads :
          /\ w[t] = "none" /\ \A u \in Threads : u < t => w[u] # "none"
          /\ w' = [w EXCEPT ![t] = "begin"]
    /\ UNCHANGED <<globals, opened, listed, pc, sources, crashed, faults>>

\* do_notify_watch(): a thread is started unless one is "already active"
NotifyWatch ==
    /\ Issue
    /\ notifyRl = NULL
    /\ \E t \in Threads :
          /\ w[t] = "none" /\ \A u \in Threads : u < t => w[u] # "none"
          /\ w' = [w EXCEPT ![t] = "begin"]
    /\ UNCHANGED <<globals, opened, listed, pc, sources, crashed, faults>>

\* CFRunLoopSourceInvalidate(), CFRelease(): the source leaves its run loop.
Invalidate(t) ==
    /\ src' = [src EXCEPT ![t] = NULL]
    /\ loop' = [loop EXCEPT ![t] = NULL]

\* The source that notifyRls names is given up ...
DropSource ==
    /\ notifyRls # NULL /\ ~doDispatch
    /\ Invalidate(notifyRls) /\ notifyRls' = NULL
    /\ UNCHANGED <<queued, faults>>

\* ... or the queue: SCDynamicStoreSetDispatchQueue(store, NULL), which refuses a
\* session that has none, as the one has that open put in the place of another.
DropQueue ==
    /\ notifyRls # NULL /\ doDispatch
    /\ store \in queued /\ queued' = queued \ {store}
    /\ notifyRls' = NULL
    /\ UNCHANGED <<src, loop, faults>>

QueueRefused ==
    /\ notifyRls # NULL /\ doDispatch
    /\ IF store \in queued THEN Fault ELSE UNCHANGED faults
    /\ UNCHANGED sources

\* CFRunLoopStop() of a run loop that runs; it is without effect otherwise.
Stop(t) == w' = IF w[t] = "run" THEN [w EXCEPT ![t] = "end"] ELSE w

\* The first half of do_notify_cancel(): without a source the framework is
\* asked to cancel.  That is all if it refuses, as it does without a session.
Cancel ==
    /\ Issue
    /\ \/ (DropSource \/ DropQueue) /\ pc' = "cancel"
       \/ QueueRefused /\ UNCHANGED <<pc, notifyRls>>
       \/ /\ notifyRls = NULL
          /\ \/ store # NULL /\ pc' = "cancel" /\ UNCHANGED faults
             \/ store # NULL /\ Fault /\ UNCHANGED pc
             \/ store = NULL /\ UNCHANGED <<pc, faults>>
          /\ UNCHANGED <<sources, notifyRls>>
    /\ UNCHANGED <<store, notifyRl, opened, listed, w, crashed>>

\* The second half of do_notify_cancel(): "if (notifyRl != NULL)" ...
CancelLoop ==
    /\ pc = "cancel"
    /\ pc' = IF notifyRl # NULL THEN "cancelStop" ELSE "prompt"
    /\ UNCHANGED <<globals, opened, listed, w, sources, crashed, issued, faults>>

\* ... CFRunLoopStop(notifyRl).  A watcher that ended in between has set it to
\* NULL; what was read before is then the run loop of a thread that is gone.
StopLoop ==
    IF notifyRl # NULL
    THEN Stop(notifyRl) /\ UNCHANGED crashed
    ELSE crashed' = TRUE /\ UNCHANGED w

CancelStop ==
    /\ pc = "cancelStop"
    /\ StopLoop
    /\ pc' = IF crashed' THEN pc ELSE "prompt"
    /\ UNCHANGED <<globals, opened, listed, sources, issued, faults>>

\* do_close(): the source or the queue, refused or not, the run loop, the session
DoClose ==
    /\ Issue
    /\ \/ DropSource \/ DropQueue
       \/ QueueRefused /\ notifyRls' = NULL
       \/ notifyRls = NULL /\ UNCHANGED <<sources, notifyRls, faults>>
    /\ pc' = "close"
    /\ UNCHANGED <<store, notifyRl, opened, listed, w, crashed>>

CloseLoop ==
    /\ pc = "close"
    /\ pc' = IF notifyRl # NULL THEN "closeStop" ELSE "release"
    /\ UNCHANGED <<globals, opened, listed, w, sources, crashed, issued, faults>>

CloseStop ==
    /\ pc = "closeStop"
    /\ StopLoop
    /\ notifyRl' = NULL
    /\ pc' = IF crashed' THEN pc ELSE "release"
    /\ UNCHANGED <<store, notifyRls, opened, listed, sources, issued, faults>>

CloseStore ==
    /\ pc = "release"
    /\ store' = NULL
    /\ watched' = {}
    /\ pc' = "prompt"
    /\ UNCHANGED <<notifyRl, notifyRls, opened, keys, refused, w, sources, crashed,
                  issued, faults>>

\* the rest of a command that has begun
Continue == CancelLoop \/ CancelStop \/ CloseLoop \/ CloseStop \/ CloseStore

Commands == \/ DoOpen \/ NotifyAdd \/ NotifyRemove \/ NotifyWatch \/ Cancel
            \/ DoClose \/ Continue

-----------------------------------------------------------------------------
(* A watcher thread: _watcher().                                           *)

Goto(t, l) == w' = [w EXCEPT ![t] = l]

Begin(t) ==
    /\ w[t] = "begin"
    /\ notifyRl' = t
    /\ Goto(t, "create")
    /\ UNCHANGED <<store, notifyRls, opened, listed, pc, sources, crashed, issued, faults>>

\* With -D: SCDynamicStoreSetDispatchQueue(store, dispatch_get_main_queue()),
\* which refuses without a session, and one that has a queue.
Queue(t) ==
    /\ w[t] = "create" /\ doDispatch
    /\ \/ /\ store \notin queued \cup {NULL}
          /\ queued' = queued \cup {store}
          /\ notifyRls' = kCFNull
          /\ Goto(t, "run")
          /\ UNCHANGED <<notifyRl, faults>>
       \/ /\ IF store \in queued \cup {NULL} THEN UNCHANGED faults ELSE Fault
          /\ notifyRl' = NULL
          /\ Goto(t, "gone")
          /\ UNCHANGED <<notifyRls, queued>>
    /\ UNCHANGED <<store, opened, listed, pc, src, loop, crashed, issued>>

\* SCDynamicStoreCreateRunLoopSource(): fails without a session
Create(t) ==
    /\ w[t] = "create" /\ ~doDispatch
    /\ \/ /\ store # NULL
          /\ src' = [src EXCEPT ![t] = store]
          /\ notifyRls' = t
          /\ Goto(t, "attach")
          /\ UNCHANGED <<notifyRl, faults>>
       \/ /\ IF store = NULL THEN UNCHANGED faults ELSE Fault
          /\ notifyRls' = NULL /\ notifyRl' = NULL
          /\ Goto(t, "gone")
          /\ UNCHANGED src
    /\ UNCHANGED <<store, opened, listed, pc, loop, queued, crashed, issued>>

\* Mutant of Attach: the source is not added to the run loop.
AttachNothing(t) ==
    /\ w[t] = "attach"
    /\ Goto(t, "run")
    /\ UNCHANGED <<globals, opened, listed, pc, sources, crashed, issued, faults>>

\* CFRunLoopAddSource(notifyRl, notifyRls, ...), with what the globals hold now
Attach(t) ==
    /\ w[t] = "attach"
    /\ IF notifyRl = NULL \/ notifyRls = NULL
       THEN crashed' = TRUE /\ UNCHANGED loop
       ELSE loop' = [loop EXCEPT ![notifyRls] = notifyRl] /\ UNCHANGED crashed
    /\ Goto(t, "run")
    /\ UNCHANGED <<globals, opened, listed, pc, src, queued, issued, faults>>

\* CFRunLoopRun() returns when there is no source (any more)
Run(t) ==
    /\ w[t] = "run" /\ ~HasSource(t)
    /\ Goto(t, "end")
    /\ UNCHANGED <<globals, opened, listed, pc, sources, crashed, issued, faults>>

\* Mutant of End: notifyRl still names the run loop that has ended.
EndSilent(t) ==
    /\ w[t] = "end"
    /\ Goto(t, "gone")
    /\ UNCHANGED <<globals, opened, listed, pc, sources, crashed, issued, faults>>

End(t) ==
    /\ w[t] = "end"
    /\ notifyRl' = NULL
    /\ Goto(t, "gone")
    /\ UNCHANGED <<store, notifyRls, opened, listed, pc, sources, crashed, issued, faults>>

Watcher(t) == Begin(t) \/ Queue(t) \/ Create(t) \/ Attach(t) \/ Run(t) \/ End(t)

WatchNext ==
    /\ ~crashed
    /\ Commands \/ \E t \in Threads : Watcher(t)
    /\ UNCHANGED doDispatch

WatchSpec == WatchInit /\ [][WatchNext]_watchVars

\* A command that has begun ends, and the threads run.
FairSpec ==
    /\ WatchSpec
    /\ WF_watchVars(~crashed /\ Continue /\ UNCHANGED doDispatch)
    /\ \A t \in Threads : WF_watchVars(~crashed /\ Watcher(t) /\ UNCHANGED doDispatch)

-----------------------------------------------------------------------------
WatchTypeOK ==
    /\ store \in Sessions \cup {NULL} /\ opened \in Sessions
    /\ doDispatch \in BOOLEAN /\ refused \in BOOLEAN
    /\ watched \subseteq Items /\ keys \in [Sessions -> SUBSET Items]
    /\ notifyRl \in Threads \cup {NULL} /\ notifyRls \in Threads \cup {NULL, kCFNull}
    /\ pc \in {"prompt", "cancel", "cancelStop", "close", "closeStop", "release"}
    /\ w \in [Threads -> WatcherLabels]
    /\ src \in [Threads -> Sessions \cup {NULL}]
    /\ loop \in [Threads -> Threads \cup {NULL}]
    /\ queued \subseteq Sessions
    /\ crashed \in BOOLEAN
    /\ issued \in 0..MaxIssued /\ faults \in 0..MaxFaults

Active == {t \in Threads : w[t] \notin {"none", "gone"}}

\* What do_notify_watch() and do_notify_cancel() take from the globals: between
\* two commands they describe the one watcher that is active, or none.  With -D
\* none ever stays active, and a session that has the queue can be taken off it.
GlobalsRight ==
    pc = "prompt" /\ Ready =>
       /\ \/ Active = {} /\ notifyRl = NULL /\ (doDispatch \/ notifyRls = NULL)
          \/ \E t \in Threads : Active = {t} /\ notifyRl = t /\ notifyRls = t
       /\ store \in queued => notifyRls # NULL

\* A watcher that serves the current session reports changes of just the keys
\* that n.list shows, whatever sessions and refused requests were before; only
\* the last request must not have been refused, after which the list (176, 214)
\* has what configd has not.
ListReported ==
    /\ pc = "prompt" /\ Ready
    /\ store # NULL /\ notifyRls \in Threads /\ store = src[notifyRls]
    /\ ~refused
    => Delivers(store) /\ keys[store] = watched

\* commands.c:138, "cancel notification requests": after n.cancel no thread is
\* left that would report changes, and the session is off the queue.
Cancels == (pc = "cancel") ~> (crashed \/ (Active = {} /\ store \notin queued))

\* After close neither: the session is given up by every thread.  With -D a
\* session that open replaced keeps the queue, which nobody drains.
Closes == (pc = "release") ~> (Active = {} /\ \A s \in Sessions : ~Delivers(s))

\* n.watch: with a session, and unless a call fails, changes get reported.  With
\* -D they never are: the thread is gone, and the session is left with a queue
\* that the thread of the commands does not drain (294, 309).
Watches == \A t \in Threads :
    (w[t] = "begin" /\ store # NULL)
    ~> \/ faults > 0 \/ crashed
       \/ IF doDispatch THEN w[t] = "gone" /\ queued # {} /\ ~HasSource(t)
          ELSE \E s \in Sessions : Delivers(s)
=============================================================================
