---------------------------- MODULE ScutilProofs ----------------------------
(***************************************************************************)
(* Proofs about scutil, in the order of its modules.                       *)
(*                                                                         *)
(* ScutilWatch.  Between the start of a watcher thread and its end the     *)
(* three globals, the run loop source and the position of the command      *)
(* thread fit together in seven ways (Stage); that there is one active       *)
(* watcher at most, and one of these at every step, is what makes the      *)
(* unlocked globals safe at a user's pace.                                 *)
(*                                                                         *)
(* NetEdit, for any sets, services, protocols and files and any number of  *)
(* commands.                                                               *)
(***************************************************************************)
EXTENDS ScutilWatch, NetEdit, TLAPS

\* Thread t neither runs nor left a source.
Idle(t) == w[t] \in {"none", "gone"} /\ src[t] = NULL /\ loop[t] = NULL

\* No watcher holds a source: notifyRls is NULL, or with -D perhaps kCFNull.
Unheld == notifyRls = NULL \/ doDispatch

\* A watcher and what the globals say of it, from its start to its end.
Stage(t) ==
    \/ w[t] = "begin" /\ pc = "prompt" /\ src[t] = NULL /\ loop[t] = NULL
       /\ notifyRl = NULL /\ Unheld
    \/ w[t] = "create" /\ pc = "prompt" /\ src[t] = NULL /\ loop[t] = NULL
       /\ notifyRl = t /\ Unheld
    \/ w[t] = "attach" /\ pc = "prompt" /\ src[t] # NULL /\ loop[t] = NULL
       /\ notifyRl = t /\ notifyRls = t
    \/ w[t] = "run" /\ pc = "prompt" /\ src[t] # NULL /\ loop[t] = t
       /\ notifyRl = t /\ notifyRls = t
    \/ w[t] = "run" /\ pc \notin {"prompt", "release"} /\ src[t] = NULL /\ loop[t] = NULL
       /\ notifyRl = t /\ notifyRls = NULL
    \/ w[t] = "run" /\ doDispatch /\ pc = "prompt" /\ src[t] = NULL /\ loop[t] = NULL
       /\ notifyRl = t
    \/ w[t] = "end" /\ src[t] = NULL /\ loop[t] = NULL
       /\ notifyRl \in {t, NULL} /\ Unheld

Quiet == notifyRl = NULL /\ Unheld /\ \A t \in Threads : Idle(t)

Only(t) == Stage(t) /\ \A u \in Threads \ {t} : Idle(u)

\* A run loop that is NULL is met by n.cancel's and close's use of it alone.
OneWatcher ==
    /\ crashed => pc \in {"cancelStop", "closeStop"}
    /\ Quiet \/ \E t \in Threads : Only(t)

\* notifyRls stands for the queue with -D and for a source otherwise.
QueueInv ==
    /\ IF doDispatch THEN notifyRls \in {NULL, kCFNull}
                     ELSE notifyRls \in Threads \cup {NULL} /\ queued = {}
    /\ pc \notin {"close", "closeStop", "release"} /\ store \in queued => notifyRls = kCFNull

\* The sessions that were not opened yet have no keys.
KeysInv ==
    /\ store <= opened
    /\ store # NULL /\ ~refused => keys[store] = watched
    /\ \A s \in Sessions : s > opened => keys[s] = {}
    /\ \A s \in queued : s <= opened

WatchInv == WatchTypeOK /\ KeysInv /\ QueueInv /\ (Settled => OneWatcher)

\* What the threads and the globals are.
threads == <<doDispatch, notifyRl, notifyRls, pc, w, src, loop, crashed>>

-----------------------------------------------------------------------------
(* Types. *)

LEMMA BoundTypes == MaxThreads \in Nat /\ MaxSessions \in Nat \ {0} /\ MaxIssued \in Nat /\ MaxFaults \in Nat
BY WatchAssumption DEF WatchAssumption

LEMMA InitTypes == WatchInit => WatchTypeOK
<1> SUFFICES ASSUME WatchInit PROVE WatchTypeOK  OBVIOUS
<1>1. 1 \in Sessions /\ 0 \in 0..MaxIssued /\ 0 \in 0..MaxFaults  BY BoundTypes DEF Sessions
<1>2. watched \subseteq Items /\ keys \in [Sessions -> SUBSET Items]  BY DEF WatchInit
<1>3. crashed \in BOOLEAN /\ doDispatch \in BOOLEAN /\ refused \in BOOLEAN  BY DEF WatchInit
<1>4. w \in [Threads -> WatcherLabels] /\ src \in [Threads -> Sessions \cup {NULL}]
      /\ loop \in [Threads -> Threads \cup {NULL}] /\ queued \subseteq Sessions
      BY DEF WatchInit, WatcherLabels
<1> QED  BY <1>1, <1>2, <1>3, <1>4 DEF WatchInit, WatchTypeOK

\* The counters of commands and failures stay in their bounds.
LEMMA Counted ==
    ASSUME WatchTypeOK, Issue \/ UNCHANGED issued, Fault \/ UNCHANGED faults
    PROVE  issued' \in 0..MaxIssued /\ faults' \in 0..MaxFaults
BY BoundTypes DEF WatchTypeOK, Issue, Fault

LEMMA CommandTypes == ASSUME WatchTypeOK, Commands, UNCHANGED doDispatch PROVE WatchTypeOK'
<1> USE DEF WatchTypeOK
<1>1. CASE DoOpen
  <2>1. opened' \in Sessions /\ store' \in Sessions \cup {NULL} /\ watched' \subseteq Items
        /\ refused' \in BOOLEAN  BY <1>1 DEF DoOpen
  <2>2. issued' \in 0..MaxIssued /\ faults' \in 0..MaxFaults  BY <1>1, Counted DEF DoOpen
  <2> QED  BY <1>1, <2>1, <2>2 DEF DoOpen, sources
<1>2. CASE NotifyAdd \/ NotifyRemove
  <2>1. watched' \subseteq Items /\ keys' \in [Sessions -> SUBSET Items] /\ refused' \in BOOLEAN
        BY <1>2 DEF NotifyAdd, NotifyRemove, SetKeys
  <2>2. issued' \in 0..MaxIssued /\ faults' \in 0..MaxFaults
        BY <1>2, Counted DEF NotifyAdd, NotifyRemove, SetKeys
  <2> QED  BY <1>2, <2>1, <2>2 DEF NotifyAdd, NotifyRemove, globals, sources
<1>3. CASE NotifyWatch
  <2>1. issued' \in 0..MaxIssued /\ faults' \in 0..MaxFaults  BY <1>3, Counted DEF NotifyWatch
  <2> QED  BY <1>3, <2>1 DEF NotifyWatch, globals, listed, sources, WatcherLabels
<1>4. CASE Cancel
  <2>1. issued' \in 0..MaxIssued /\ faults' \in 0..MaxFaults
        BY <1>4, Counted DEF Cancel, DropSource, DropQueue, QueueRefused
  <2>2. pc' \in {pc, "cancel"}  BY <1>4 DEF Cancel
  <2>3. notifyRls' \in {notifyRls, NULL} /\ src' \in [Threads -> Sessions \cup {NULL}]
        /\ loop' \in [Threads -> Threads \cup {NULL}] /\ queued' \subseteq Sessions
        BY <1>4 DEF Cancel, DropSource, DropQueue, QueueRefused, Invalidate, sources
  <2> QED  BY <1>4, <2>1, <2>2, <2>3 DEF Cancel, listed
<1>5. CASE DoClose
  <2>1. issued' \in 0..MaxIssued /\ faults' \in 0..MaxFaults
        BY <1>5, Counted DEF DoClose, DropSource, DropQueue, QueueRefused
  <2>2. notifyRls' \in {notifyRls, NULL} /\ src' \in [Threads -> Sessions \cup {NULL}]
        /\ loop' \in [Threads -> Threads \cup {NULL}] /\ queued' \subseteq Sessions
        BY <1>5 DEF DoClose, DropSource, DropQueue, QueueRefused, Invalidate, sources
  <2> QED  BY <1>5, <2>1, <2>2 DEF DoClose, listed
<1>6. CASE Continue
  <2>1. CASE CancelLoop \/ CloseLoop
        BY <2>1 DEF CancelLoop, CloseLoop, globals, listed, sources
  <2>2. CASE CancelStop \/ CloseStop
    <3>1. crashed' \in BOOLEAN  BY <2>2 DEF CancelStop, CloseStop, StopLoop
    <3>2. w' \in [Threads -> WatcherLabels]
          BY <2>2 DEF CancelStop, CloseStop, StopLoop, Stop, WatcherLabels
    <3>3. notifyRl' \in Threads \cup {NULL}  BY <2>2 DEF CancelStop, CloseStop, globals
    <3>4. pc' \in {pc, "prompt", "release"}  BY <2>2 DEF CancelStop, CloseStop
    <3> QED  BY <2>2, <3>1, <3>2, <3>3, <3>4 DEF CancelStop, CloseStop, globals, listed, sources
  <2>3. CASE CloseStore  BY <2>3 DEF CloseStore, sources
  <2> QED  BY <1>6, <2>1, <2>2, <2>3 DEF Continue
<1> QED  BY <1>1, <1>2, <1>3, <1>4, <1>5, <1>6 DEF Commands

LEMMA WatcherTypes ==
    ASSUME WatchTypeOK, NEW t \in Threads, Watcher(t), UNCHANGED doDispatch
    PROVE  WatchTypeOK'
<1> USE DEF WatchTypeOK, Goto, WatcherLabels
<1>1. CASE Begin(t)  BY <1>1 DEF Begin, listed, sources
<1>2. CASE Create(t)
  <2>1. issued' \in 0..MaxIssued /\ faults' \in 0..MaxFaults  BY <1>2, Counted DEF Create
  <2> QED  BY <1>2, <2>1 DEF Create, listed
<1>3. CASE Queue(t)
  <2>1. issued' \in 0..MaxIssued /\ faults' \in 0..MaxFaults  BY <1>3, Counted DEF Queue
  <2>2. queued' \subseteq Sessions /\ notifyRl' \in Threads \cup {NULL}
        /\ notifyRls' \in Threads \cup {NULL, kCFNull}  BY <1>3 DEF Queue
  <2>3. w' \in [Threads -> WatcherLabels]  BY <1>3 DEF Queue
  <2> QED  BY <1>3, <2>1, <2>2, <2>3 DEF Queue, listed
<1>4. CASE Attach(t)
  <2>1. crashed' \in BOOLEAN  BY <1>4 DEF Attach
  <2>2. loop' \in [Threads -> Threads \cup {NULL}]  BY <1>4 DEF Attach
  <2> QED  BY <1>4, <2>1, <2>2 DEF Attach, globals, listed
<1>5. CASE Run(t)  BY <1>5 DEF Run, globals, listed, sources
<1>6. CASE End(t)  BY <1>6 DEF End, listed, sources
<1> QED  BY <1>1, <1>2, <1>3, <1>4, <1>5, <1>6 DEF Watcher
-----------------------------------------------------------------------------
(* The watched keys. *)

LEMMA InitKeys == WatchInit => KeysInv
BY BoundTypes DEF WatchInit, KeysInv, Sessions, NULL

LEMMA NextKeys == ASSUME WatchTypeOK, KeysInv, WatchNext PROVE KeysInv'
<1> USE DEF WatchTypeOK, KeysInv
<1>0. opened \in Nat \ {0} /\ NULL = 0 /\ Sessions \subseteq Nat  BY BoundTypes DEF Sessions, NULL
<1>1. CASE DoOpen
  <2>1. CASE opened + 1 \in Sessions /\ opened' = opened + 1 /\ store' = opened'
             /\ watched' = {}
        BY <1>0, <1>1, <2>1 DEF DoOpen, Sessions, sources
  <2>2. CASE store' = NULL /\ UNCHANGED opened
        BY <1>0, <1>1, <2>2 DEF DoOpen, sources
  <2> QED  BY <1>1, <2>1, <2>2 DEF DoOpen
<1>2. ASSUME NEW items, SetKeys(items), UNCHANGED <<store, opened, queued>>, store # NULL
      PROVE  KeysInv'
  <2>1. CASE keys' = [keys EXCEPT ![store] = items]
        BY <1>0, <1>2, <2>1 DEF SetKeys, Sessions
  <2>2. CASE refused' = TRUE /\ UNCHANGED keys
        BY <1>2, <2>2 DEF SetKeys
  <2> QED  BY <1>2, <2>1, <2>2 DEF SetKeys
<1>3. CASE NotifyAdd \/ NotifyRemove
      BY <1>2, <1>3 DEF NotifyAdd, NotifyRemove, globals, sources
<1>4. CASE CloseStore  BY <1>0, <1>4 DEF CloseStore, sources
<1>5. ASSUME UNCHANGED <<store, opened, listed>>, queued' \subseteq queued \cup ({store} \cap Sessions)
      PROVE  KeysInv'
      BY <1>5 DEF listed
<1>6. CASE NotifyWatch \/ CancelLoop \/ CancelStop \/ CloseLoop \/ CloseStop
      BY <1>5, <1>6 DEF NotifyWatch, CancelLoop, CancelStop, CloseLoop, CloseStop, globals, sources
<1>7. CASE Cancel \/ DoClose
  <2>1. queued' \subseteq queued
        BY <1>7 DEF Cancel, DoClose, DropSource, DropQueue, QueueRefused, sources
  <2> QED  BY <1>5, <1>7, <2>1 DEF Cancel, DoClose
<1>8. CASE \E t \in Threads : Watcher(t)
  <2>1. PICK t \in Threads : Watcher(t)  BY <1>8
  <2>2. CASE Queue(t)  BY <1>5, <2>2 DEF Queue
  <2>3. CASE Begin(t) \/ Create(t) \/ Attach(t) \/ Run(t) \/ End(t)
        BY <1>5, <2>3 DEF Begin, Create, Attach, Run, End, globals, sources
  <2> QED  BY <2>1, <2>2, <2>3 DEF Watcher
<1> QED  BY <1>1, <1>3, <1>4, <1>6, <1>7, <1>8 DEF WatchNext, Commands, Continue

-----------------------------------------------------------------------------
(* The queue. *)

LEMMA InitQueue == WatchInit => QueueInv
BY DEF WatchInit, QueueInv

LEMMA NextQueue == ASSUME WatchTypeOK, KeysInv, QueueInv, WatchNext PROVE QueueInv'
<1> USE DEF WatchTypeOK, QueueInv
<1>0. NULL = 0 /\ NULL \notin Threads /\ kCFNull \notin Threads \cup {NULL}
      /\ NULL \notin Sessions /\ UNCHANGED doDispatch
      BY BoundTypes DEF Threads, Sessions, NULL, kCFNull, WatchNext
<1>1. CASE DoOpen
  <2>1. store' \notin queued
        BY <1>0, <1>1, BoundTypes DEF DoOpen, KeysInv, Sessions
  <2> QED  BY <1>0, <1>1, <2>1 DEF DoOpen, sources
<1>2. CASE NotifyAdd \/ NotifyRemove \/ NotifyWatch \/ CancelLoop \/ CancelStop
  BY <1>0, <1>2 DEF NotifyAdd, NotifyRemove, NotifyWatch, CancelLoop, CancelStop, globals, sources, Issue
<1>3. CASE Cancel \/ DoClose
  <2>1. CASE DropSource
        BY <1>0, <1>3, <2>1 DEF Cancel, DoClose, DropSource
  <2>2. CASE DropQueue
        BY <1>0, <1>3, <2>2 DEF Cancel, DoClose, DropQueue
  <2>3. CASE Cancel /\ QueueRefused /\ UNCHANGED <<pc, notifyRls>>
        BY <1>0, <2>3 DEF Cancel, QueueRefused, sources, Issue
  <2>4. CASE DoClose /\ QueueRefused /\ notifyRls' = NULL
        BY <1>0, <2>4 DEF DoClose, QueueRefused, sources, Issue
  <2>5. CASE notifyRls = NULL /\ UNCHANGED <<sources, notifyRls>>
        BY <1>0, <1>3, <2>5 DEF Cancel, DoClose, sources, Issue
  <2> QED  BY <1>3, <2>1, <2>2, <2>3, <2>4, <2>5 DEF Cancel, DoClose
<1>4. CASE CloseLoop \/ CloseStop
      BY <1>0, <1>4 DEF CloseLoop, CloseStop, globals, sources
<1>5. CASE CloseStore  BY <1>0, <1>5 DEF CloseStore, sources
<1>6. ASSUME NEW t \in Threads, Watcher(t) PROVE QueueInv'
  <2>1. CASE Queue(t)  BY <1>0, <2>1 DEF Queue
  <2>2. CASE Create(t)  BY <1>0, <2>2 DEF Create
  <2>3. CASE Begin(t) \/ Attach(t) \/ Run(t) \/ End(t)
        BY <1>0, <2>3 DEF Begin, Attach, Run, End, globals, sources
  <2> QED  BY <1>6, <2>1, <2>2, <2>3 DEF Watcher
<1> QED  BY <1>1, <1>2, <1>3, <1>4, <1>5, <1>6 DEF WatchNext, Commands, Continue

-----------------------------------------------------------------------------
(* The watcher and the globals. *)

LEMMA InitWatcher == WatchInit => OneWatcher
BY DEF WatchInit, OneWatcher, Quiet, Unheld, Idle

\* A step that changes none of it.
LEMMA SameThreads == ASSUME OneWatcher, UNCHANGED threads PROVE OneWatcher'
BY DEF OneWatcher, Quiet, Only, Stage, Unheld, Idle, threads

\* The user's commands wait for the watcher to settle, which tells its stage.
LEMMA Settles ==
    ASSUME Settled, Ready, pc = "prompt", OneWatcher
    PROVE  \/ Quiet
           \/ \E t \in Threads : /\ Only(t) /\ w[t] = "run"
                                 /\ notifyRl = t /\ notifyRls = t
                                 /\ src[t] # NULL /\ loop[t] = t
BY DEF Ready, OneWatcher, Only, Stage, HasSource, Idle

LEMMA NextWatcher ==
    ASSUME WatchTypeOK, Settled, QueueInv, OneWatcher, WatchNext
    PROVE  OneWatcher'
<1> USE DEF WatchTypeOK
<1>0. NULL \notin Threads /\ kCFNull \notin Threads \cup {NULL} /\ ~crashed /\ UNCHANGED doDispatch
      BY BoundTypes DEF Threads, NULL, kCFNull, WatchNext
<1>1. CASE DoOpen \/ NotifyAdd \/ NotifyRemove
      BY <1>0, <1>1, SameThreads DEF DoOpen, NotifyAdd, NotifyRemove, globals, sources, threads
<1>2. CASE NotifyWatch
  <2>1. Quiet  BY <1>0, <1>2, Settles DEF NotifyWatch, Issue
  <2>2. PICK t \in Threads : w[t] = "none" /\ w' = [w EXCEPT ![t] = "begin"]
        BY <1>2 DEF NotifyWatch
  <2>3. Stage(t)' /\ \A u \in Threads \ {t} : Idle(u)'
        BY <1>0, <1>2, <2>1, <2>2 DEF NotifyWatch, Issue, Quiet, Unheld, Idle, Stage, globals, sources
  <2> QED  BY <1>0, <1>2, <2>3 DEF NotifyWatch, OneWatcher, Only
<1>3. CASE Cancel \/ DoClose
  <2>0. pc = "prompt" /\ pc' \in {"prompt", "cancel", "close"} /\ UNCHANGED <<notifyRl, w, crashed>>
        BY <1>3 DEF Cancel, DoClose, Issue
  <2>1. CASE Quiet
    <3>1. UNCHANGED <<src, loop>> /\ Unheld'
          BY <1>0, <1>3, <2>1 DEF Cancel, DoClose, DropSource, DropQueue, QueueRefused, Quiet,
             Unheld, sources
    <3> QED  BY <1>0, <2>0, <2>1, <3>1 DEF OneWatcher, Quiet, Idle
  <2>2. ASSUME NEW t \in Threads, Only(t), w[t] = "run", notifyRl = t, notifyRls = t
        PROVE  OneWatcher'
    <3>1. DropSource /\ pc' \in {"cancel", "close"}
          BY <1>0, <1>3, <2>2 DEF Cancel, DoClose, DropQueue, QueueRefused, QueueInv
    <3>2. /\ notifyRls' = NULL /\ src' = [src EXCEPT ![t] = NULL] /\ loop' = [loop EXCEPT ![t] = NULL]
          BY <2>2, <3>1 DEF DropSource, Invalidate
    <3>3. Stage(t)'  BY <2>0, <2>2, <3>1, <3>2 DEF Stage
    <3>4. \A u \in Threads \ {t} : Idle(u)'  BY <2>0, <2>2, <3>2 DEF Only, Idle
    <3> QED  BY <1>0, <2>0, <3>3, <3>4 DEF OneWatcher, Only
  <2> QED  BY <1>3, <2>1, <2>2, Settles DEF Cancel, DoClose, Issue
<1>4. CASE CancelLoop \/ CloseLoop
  <2>0. UNCHANGED <<notifyRl, notifyRls, w, src, loop, crashed>> /\ pc \in {"cancel", "close"}
        /\ pc' = IF notifyRl # NULL THEN IF pc = "cancel" THEN "cancelStop" ELSE "closeStop"
                 ELSE IF pc = "cancel" THEN "prompt" ELSE "release"
        BY <1>4 DEF CancelLoop, CloseLoop, globals, sources
  <2>1. CASE Quiet  BY <1>0, <2>0, <2>1 DEF OneWatcher, Quiet, Unheld, Idle
  <2>2. ASSUME NEW t \in Threads, Only(t) PROVE OneWatcher'
    <3>1. Stage(t)'  BY <1>0, <2>0, <2>2 DEF Only, Stage, Unheld
    <3>2. \A u \in Threads \ {t} : Idle(u)'  BY <2>0, <2>2 DEF Only, Idle
    <3> QED  BY <1>0, <2>0, <3>1, <3>2 DEF OneWatcher, Only
  <2> QED  BY <2>1, <2>2 DEF OneWatcher
<1>5. CASE CancelStop \/ CloseStop
  <2>0. UNCHANGED <<notifyRls, src, loop>> /\ StopLoop /\ pc \in {"cancelStop", "closeStop"}
        /\ notifyRl' \in {notifyRl, NULL}
        /\ pc' = (IF crashed' THEN pc ELSE IF pc = "cancelStop" THEN "prompt" ELSE "release")
        BY <1>5 DEF CancelStop, CloseStop, globals, sources
  <2>1. crashed' => pc' \in {"cancelStop", "closeStop"}  BY <2>0
  <2>2. CASE Quiet
    <3>1. UNCHANGED w  BY <2>0, <2>2 DEF StopLoop, Quiet
    <3> QED  BY <1>0, <2>0, <2>1, <2>2, <3>1 DEF OneWatcher, Quiet, Unheld, Idle
  <2>3. ASSUME NEW t \in Threads, Only(t), notifyRl = t PROVE OneWatcher'
    <3>1. w[t] \in {"run", "end"} /\ src[t] = NULL /\ loop[t] = NULL /\ Unheld
          BY <1>0, <2>0, <2>3 DEF Only, Stage, Unheld
    <3>2. w' = (IF w[t] = "run" THEN [w EXCEPT ![t] = "end"] ELSE w) /\ UNCHANGED crashed
          BY <1>0, <2>0, <2>3 DEF StopLoop, Stop
    <3>3. w'[t] = "end" /\ Unheld'  BY <1>0, <2>0, <3>1, <3>2 DEF Unheld
    <3>4. Stage(t)'  BY <2>0, <2>3, <3>1, <3>3 DEF Stage
    <3>5. \A u \in Threads \ {t} : Idle(u)'  BY <2>0, <2>3, <3>2 DEF Only, Idle
    <3> QED  BY <2>1, <3>4, <3>5 DEF OneWatcher, Only
  <2>4. ASSUME NEW t \in Threads, Only(t), notifyRl # t PROVE OneWatcher'
    <3>1. w[t] = "end" /\ src[t] = NULL /\ loop[t] = NULL /\ Unheld /\ notifyRl = NULL
          BY <2>0, <2>4 DEF Only, Stage
    <3>2. UNCHANGED w  BY <2>0, <3>1 DEF StopLoop
    <3>3. Stage(t)' /\ \A u \in Threads \ {t} : Idle(u)'
          BY <1>0, <2>0, <2>4, <3>1, <3>2 DEF Only, Stage, Unheld, Idle
    <3> QED  BY <2>1, <3>3 DEF OneWatcher, Only
  <2> QED  BY <2>2, <2>3, <2>4 DEF OneWatcher
<1>6. CASE CloseStore
  <2>0. UNCHANGED <<notifyRl, notifyRls, w, src, loop, crashed>> /\ pc = "release" /\ pc' = "prompt"
        BY <1>6 DEF CloseStore, sources
  <2>1. CASE Quiet  BY <1>0, <2>0, <2>1 DEF OneWatcher, Quiet, Unheld, Idle
  <2>2. ASSUME NEW t \in Threads, Only(t) PROVE OneWatcher'
    <3>1. Stage(t)' /\ \A u \in Threads \ {t} : Idle(u)'
          BY <1>0, <2>0, <2>2 DEF Only, Stage, Unheld, Idle
    <3> QED  BY <1>0, <2>0, <3>1 DEF OneWatcher, Only
  <2> QED  BY <2>1, <2>2 DEF OneWatcher
<1>7. ASSUME NEW t \in Threads, Watcher(t) PROVE OneWatcher'
  <2>0. Only(t) /\ UNCHANGED pc
        BY <1>7 DEF OneWatcher, Quiet, Only, Idle, Watcher, Begin, Queue, Create, Attach, Run, End
  <2>1. \A u \in Threads \ {t} : w'[u] = w[u]
        BY <1>7 DEF Watcher, Begin, Queue, Create, Attach, Run, End, Goto
  <2>2. CASE Begin(t)
    <3>1. Stage(t)'  BY <1>0, <2>0, <2>2 DEF Begin, Only, Stage, Unheld, Goto, sources
    <3>2. \A u \in Threads \ {t} : Idle(u)'  BY <2>0, <2>1, <2>2 DEF Begin, Only, Idle, sources
    <3> QED  BY <1>0, <2>2, <3>1, <3>2 DEF Begin, OneWatcher, Only
  <2>3. CASE Create(t)
    <3>0. w[t] = "create" /\ UNCHANGED <<loop, crashed>> /\ pc = "prompt" /\ src[t] = NULL /\ loop[t] = NULL
          /\ notifyRl = t  BY <2>0, <2>3 DEF Create, Only, Stage
    <3>1. CASE src' = [src EXCEPT ![t] = store] /\ store # NULL /\ notifyRls' = t /\ Goto(t, "attach")
               /\ UNCHANGED notifyRl
      <4>1. Stage(t)'  BY <2>0, <3>0, <3>1 DEF Stage, Goto
      <4>2. \A u \in Threads \ {t} : Idle(u)'  BY <2>0, <2>1, <3>0, <3>1 DEF Only, Idle
      <4> QED  BY <1>0, <3>0, <4>1, <4>2 DEF OneWatcher, Only
    <3>2. CASE notifyRls' = NULL /\ notifyRl' = NULL /\ Goto(t, "gone") /\ UNCHANGED src
      <4>1. Quiet'  BY <2>0, <2>1, <3>0, <3>2 DEF Quiet, Unheld, Only, Idle, Goto
      <4> QED  BY <1>0, <3>0, <4>1 DEF OneWatcher
    <3> QED  BY <2>3, <3>1, <3>2 DEF Create
  <2>4. CASE Queue(t)
    <3>0. w[t] = "create" /\ UNCHANGED <<src, loop, crashed>> /\ pc = "prompt" /\ src[t] = NULL
          /\ loop[t] = NULL /\ notifyRl = t /\ doDispatch  BY <2>0, <2>4 DEF Queue, Only, Stage
    <3>1. CASE Goto(t, "run") /\ UNCHANGED notifyRl
      <4>1. Stage(t)'  BY <1>0, <2>0, <3>0, <3>1 DEF Stage, Goto
      <4>2. \A u \in Threads \ {t} : Idle(u)'  BY <2>0, <2>1, <3>0 DEF Only, Idle
      <4> QED  BY <1>0, <3>0, <4>1, <4>2 DEF OneWatcher, Only
    <3>2. CASE notifyRl' = NULL /\ Goto(t, "gone")
      <4>1. Quiet'  BY <1>0, <2>0, <2>1, <3>0, <3>2 DEF Quiet, Unheld, Only, Idle, Goto
      <4> QED  BY <1>0, <3>0, <4>1 DEF OneWatcher
    <3> QED  BY <2>4, <3>1, <3>2 DEF Queue
  <2>5. CASE Attach(t)
    <3>1. /\ pc = "prompt" /\ src[t] # NULL /\ notifyRl = t /\ notifyRls = t
          BY <2>0, <2>5 DEF Attach, Only, Stage
    <3>2. loop' = [loop EXCEPT ![t] = t] /\ UNCHANGED crashed  BY <1>0, <2>5, <3>1 DEF Attach
    <3>3. Stage(t)'  BY <2>0, <2>5, <3>1, <3>2 DEF Attach, Stage, Goto, globals
    <3>4. \A u \in Threads \ {t} : Idle(u)'  BY <2>0, <2>1, <2>5, <3>2 DEF Attach, Only, Idle
    <3> QED  BY <1>0, <3>2, <3>3, <3>4 DEF OneWatcher, Only
  <2>6. CASE Run(t)
    <3>1. src[t] = NULL /\ loop[t] = NULL /\ notifyRl = t /\ Unheld
          BY <2>0, <2>6 DEF Run, Only, Stage, Unheld, HasSource
    <3>2. w'[t] = "end" /\ UNCHANGED <<src, loop, notifyRl, notifyRls, crashed>>
          BY <2>6 DEF Run, Goto, globals, sources
    <3>3. Stage(t)'  BY <1>0, <3>1, <3>2 DEF Stage, Unheld
    <3>4. \A u \in Threads \ {t} : Idle(u)'  BY <2>0, <2>1, <3>2 DEF Only, Idle
    <3> QED  BY <1>0, <3>2, <3>3, <3>4 DEF OneWatcher, Only
  <2>7. CASE End(t)
    <3>1. src[t] = NULL /\ loop[t] = NULL /\ Unheld  BY <2>0, <2>7 DEF End, Only, Stage
    <3>2. Quiet'  BY <1>0, <2>0, <2>1, <2>7, <3>1 DEF End, Quiet, Unheld, Only, Idle, Goto, sources
    <3> QED  BY <1>0, <2>7, <3>2 DEF End, OneWatcher
  <2> QED  BY <1>7, <2>2, <2>3, <2>4, <2>5, <2>6, <2>7 DEF Watcher
<1> QED  BY <1>1, <1>2, <1>3, <1>4, <1>5, <1>6, <1>7 DEF WatchNext, Commands, Continue

LEMMA Invariance == WatchSpec => []WatchInv
<1>1. WatchInit => WatchInv  BY InitTypes, InitKeys, InitQueue, InitWatcher DEF WatchInv
<1>2. WatchInv /\ [WatchNext]_watchVars => WatchInv'
  <2> SUFFICES ASSUME WatchInv, [WatchNext]_watchVars PROVE WatchInv'  OBVIOUS
  <2>1. CASE WatchNext
    <3>1. WatchTypeOK'  BY <2>1, CommandTypes, WatcherTypes DEF WatchNext, WatchInv
    <3> QED  BY <2>1, <3>1, NextKeys, NextQueue, NextWatcher DEF WatchInv
  <2>2. CASE UNCHANGED watchVars
    <3>1. WatchTypeOK' /\ KeysInv' /\ QueueInv'
          BY <2>2 DEF WatchInv, WatchTypeOK, KeysInv, QueueInv, watchVars, globals, listed, sources
    <3>2. UNCHANGED threads  BY <2>2 DEF watchVars, globals, sources, threads
    <3> QED  BY <3>1, <3>2, SameThreads DEF WatchInv
  <2> QED  BY <2>1, <2>2
<1> QED  BY <1>1, <1>2, PTL DEF WatchSpec

-----------------------------------------------------------------------------
(* The theorems. *)

\* Every state of the session and its threads is well typed.
THEOREM WatchTypes == WatchSpec => []WatchTypeOK
<1>1. WatchInv => WatchTypeOK  BY DEF WatchInv
<1> QED  BY <1>1, Invariance, PTL

\* For a user's commands, and between two of them, the globals describe the
\* one active watcher or say that there is none, however many were started, with
\* and without -D (do_notify_watch, do_notify_cancel, do_close and _watcher).
THEOREM GlobalsDescribe == WatchSpec => [](Settled => GlobalsRight)
<1>1. ASSUME WatchInv, Settled, pc = "prompt", Ready PROVE GlobalsRight
  <2>0. NULL # kCFNull /\ (store \in queued => notifyRls # NULL)
        BY <1>1, BoundTypes DEF WatchInv, QueueInv, NULL, kCFNull
  <2>1. CASE Quiet  BY <2>0, <2>1 DEF GlobalsRight, Quiet, Unheld, Idle, Active
  <2>2. ASSUME NEW t \in Threads, Only(t), w[t] = "run", notifyRl = t, notifyRls = t
        PROVE  GlobalsRight
    <3>1. Active = {t}  BY <2>2 DEF Active, Only, Idle
    <3> QED  BY <2>0, <2>2, <3>1 DEF GlobalsRight
  <2> QED  BY <1>1, <2>1, <2>2, Settles DEF WatchInv
<1>2. WatchInv => (Settled => GlobalsRight)  BY <1>1 DEF GlobalsRight
<1> QED  BY <1>2, Invariance, PTL

\* A watcher of the current session reports what n.list shows, whatever sessions
\* there were and whatever was refused before the last request (do_notify_add,
\* do_notify_remove, do_open, do_close and _watcher).
THEOREM ListIsReported == WatchSpec => [](Settled => ListReported)
<1>1. ASSUME WatchInv, Settled, pc = "prompt", Ready, store # NULL, notifyRls \in Threads,
             store = src[notifyRls], ~refused
      PROVE  Delivers(store) /\ keys[store] = watched
  <2>1. keys[store] = watched  BY <1>1 DEF WatchInv, KeysInv
  <2>2. CASE Quiet  BY <1>1, <2>2 DEF Quiet, Idle
  <2>3. ASSUME NEW t \in Threads, w[t] = "run", notifyRls = t, loop[t] = t
        PROVE  Delivers(store)
        BY <1>1, <2>3, BoundTypes DEF Delivers, Threads, NULL
  <2> QED  BY <1>1, <2>1, <2>2, <2>3, Settles DEF WatchInv
<1>2. WatchInv => (Settled => ListReported)  BY <1>1 DEF ListReported
<1> QED  BY <1>2, Invariance, PTL

-----------------------------------------------------------------------------
(* The editor of network sets and services (NetEdit). *)

USE DEF Looks, Edits, Marks, Runs, Command, Nothing, NoLists

\* The four parts of the type invariant.
PrefsType ==
    /\ conf \in Configurations /\ saved \in Configurations
    /\ ni \in {"closed", "clean", "dirty"}
    /\ open \in BOOLEAN /\ changed \in BOOLEAN
    /\ quiet \in BOOLEAN /\ replaced \in BOOLEAN /\ renamed \subseteq ServiceIds
SelType ==
    sel \in [set : SetIds \cup {None}, service : ServiceIds \cup {None},
            protocol : (ServiceIds \X Protocols) \cup {None},
            interface : BOOLEAN]
ListsType ==
    lists \in [sets : (SUBSET SetIds) \cup {None},
              services : (SUBSET ServiceIds) \cup {None},
              protocols : (SUBSET (ServiceIds \X Protocols)) \cup {None},
              own : BOOLEAN]
RunType ==
    /\ process \in {"running", "ended", "remove set", "set service order", "set"}
    /\ commands \in 0..MaxCommands

\* Only the running editor takes commands, and counts them.
LEMMA CountStep ==
    ASSUME commands \in 0..MaxCommands, Command
    PROVE  commands' \in 0..MaxCommands
BY EditAssumption

LEMMA RunStep ==
    ASSUME RunType, Command, Runs PROVE RunType'
BY CountStep DEF RunType

\* A new service leaves the services that are there and links only itself.
LEMMA WithServiceWellFormed ==
    ASSUME NEW c \in Configurations, NEW t \in SetIds, NEW v \in ServiceIds
    PROVE  /\ WithService(c, t, v) \in Configurations
           /\ c.services \subseteq WithService(c, t, v).services
           /\ WellFormed(c) => WellFormed(WithService(c, t, v))
<1>1. WithService(c, t, v) \in Configurations
  BY DEF WithService, Configurations, Supported
<1>2. c.services \subseteq WithService(c, t, v).services
  BY DEF WithService, Configurations
<1>3. WellFormed(c) => WellFormed(WithService(c, t, v))
  BY DEF WithService, Configurations, WellFormed
<1>4. QED
  BY <1>1, <1>2, <1>3

\* The protocols of a service that gets another identifier.
LEMMA MovedType ==
    ASSUME NEW ps \in SUBSET (ServiceIds \X Protocols), NEW old, NEW n \in ServiceIds
    PROVE  /\ Moved(ps, old, n) \in SUBSET (ServiceIds \X Protocols)
           /\ ps \subseteq Supported(old) => Moved(ps, old, n) \subseteq Supported(n)
<1>1. Moved(ps, old, n) \in SUBSET (ServiceIds \X Protocols)
  BY DEF Moved
<1>2. ps \subseteq Supported(old) => Moved(ps, old, n) \subseteq Supported(n)
  BY DEF Moved, Supported
<1>3. QED
  BY <1>1, <1>2

\* What update does: it removes no service, and either marks what it changes
\* or is quiet.
LEMMA UpdateEffect ==
    ASSUME PrefsType, SelType, Update
    PROVE  /\ conf' \in Configurations
           /\ conf.services \subseteq conf'.services
           /\ WellFormed(conf) => WellFormed(conf')
           /\ \/ changed' = TRUE /\ quiet' = quiet
              \/ changed' = changed /\ quiet' = TRUE
              \/ changed' = changed /\ quiet' = quiet /\ conf' = conf
<1> DEFINE t0 == IF sel.set # None THEN sel.set ELSE conf.current
           Made(n) == [conf EXCEPT !.sets = @ \cup {n}, !.current = n]
<1>1. \/ t0 \in conf.sets /\ Establish(conf, t0)
      \/ \E n \in SetIds \ conf.sets : Establish(Made(n), n)
  BY DEF Update
<1>2. conf \in Configurations /\ conf.sets \subseteq SetIds
  BY DEF PrefsType, Configurations
<1> SUFFICES ASSUME NEW n \in SetIds, NEW c \in {conf, Made(n)}, Establish(c, n)
             PROVE  /\ conf' \in Configurations
                    /\ conf.services \subseteq conf'.services
                    /\ WellFormed(conf) => WellFormed(conf')
                    /\ \/ changed' = TRUE /\ quiet' = quiet
                       \/ changed' = changed /\ quiet' = TRUE
                       \/ changed' = changed /\ quiet' = quiet /\ conf' = conf
  BY <1>1, <1>2
<1>3. /\ c \in Configurations /\ c.services = conf.services
      /\ WellFormed(conf) => WellFormed(c)
  <2>1. CASE c = conf
    BY <2>1, <1>2
  <2>2. CASE c = Made(n)
    <3>1. c \in Configurations
      BY <2>2, <1>2 DEF Configurations
    <3>2. c.services = conf.services /\ c.members = conf.members
      BY <2>2, <1>2 DEF Configurations
    <3>3. QED
      BY <3>1, <3>2 DEF WellFormed
  <2>3. QED
    BY <2>1, <2>2
<1>4. ASSUME NEW v \in ServiceIds, conf' = WithService(c, n, v)
      PROVE  /\ conf' \in Configurations
             /\ conf.services \subseteq conf'.services
             /\ WellFormed(conf) => WellFormed(conf')
  BY <1>3, <1>4, WithServiceWellFormed
<1>5. /\ conf' \in Configurations
      /\ conf.services \subseteq conf'.services
      /\ WellFormed(conf) => WellFormed(conf')
  BY <1>3, <1>4 DEF Establish, NewIds
<1>6. \/ changed' = TRUE /\ quiet' = quiet
      \/ changed' = changed /\ quiet' = TRUE
      \/ changed' = changed /\ quiet' = quiet /\ conf' = conf
  <2>1. CASE \E v \in ServiceIds \ c.services :
               conf' = WithService(c, n, v) /\ Marks /\ quiet' = quiet
    BY <2>1
  <2>2. CASE conf' = c /\ changed' = changed /\ quiet' = (quiet \/ c # conf)
    BY <2>2 DEF PrefsType
  <2>3. QED
    BY <2>1, <2>2 DEF Establish
<1>7. QED
  BY <1>5, <1>6

\* What clean and upgrade do: the configuration stays, or is another one of
\* the files and is marked and noted as such.
LEMMA RewrittenEffect ==
    ASSUME PrefsType, Clean \/ Upgrade
    PROVE  /\ changed' \in BOOLEAN /\ replaced' \in BOOLEAN
           /\ \/ conf' = conf /\ changed' = TRUE /\ replaced' = replaced
              \/ conf' = conf /\ changed' = changed /\ replaced' = replaced
              \/ conf' \in Files /\ changed' = TRUE /\ replaced' = TRUE
<1>1. ASSUME NEW nis, Rewritten(nis)
      PROVE  /\ changed' \in BOOLEAN /\ replaced' \in BOOLEAN
             /\ \/ conf' = conf /\ changed' = TRUE /\ replaced' = replaced
                \/ conf' = conf /\ changed' = changed /\ replaced' = replaced
                \/ conf' \in Files /\ changed' = TRUE /\ replaced' = TRUE
  BY <1>1 DEF Rewritten, PrefsType
<1>2. CASE ni' = "clean" /\ UNCHANGED <<conf, changed, replaced>>
  BY <1>2 DEF PrefsType
<1>3. QED
  BY <1>1, <1>2 DEF Clean, Upgrade

\* Every command leaves the preferences, the selection and the lists in their
\* types.
LEMMA TypeStep == TypeOK /\ [Next]_vars => TypeOK'
<1> SUFFICES ASSUME PrefsType, SelType, ListsType, RunType, [Next]_vars
             PROVE  PrefsType' /\ SelType' /\ ListsType' /\ RunType'
  BY DEF TypeOK, PrefsType, SelType, ListsType, RunType
<1>1. ASSUME ShowSets PROVE PrefsType' /\ SelType' /\ ListsType' /\ RunType'
  <2>1. PrefsType'
    BY <1>1 DEF ShowSets, PrefsType, prefs
  <2>2. SelType'
    BY <1>1 DEF ShowSets, SelType
  <2>3. ListsType'
    BY <1>1 DEF ShowSets, ListsType, SelType, PrefsType, Configurations, SetList
  <2>4. RunType'
    BY <1>1, RunStep DEF ShowSets
  <2>5. QED
    BY <2>1, <2>2, <2>3, <2>4
<1>2. ASSUME ShowServices PROVE PrefsType' /\ SelType' /\ ListsType' /\ RunType'
  <2>1. PrefsType'
    BY <1>2 DEF ShowServices, PrefsType, prefs
  <2>2. SelType'
    BY <1>2 DEF ShowServices, SelType
  <2>3. ListsType'
    BY <1>2 DEF ShowServices, ListsType, SelType, PrefsType, Configurations, Members
  <2>4. RunType'
    BY <1>2, RunStep DEF ShowServices
  <2>5. QED
    BY <2>1, <2>2, <2>3, <2>4
<1>3. ASSUME ShowProtocols PROVE PrefsType' /\ SelType' /\ ListsType' /\ RunType'
  <2>1. PrefsType'
    BY <1>3 DEF ShowProtocols, PrefsType, prefs
  <2>2. SelType'
    BY <1>3 DEF ShowProtocols, SelType
  <2>3. ListsType'
    BY <1>3 DEF ShowProtocols, ListsType, SelType, PrefsType, Configurations, ProtocolsOf
  <2>4. RunType'
    BY <1>3, RunStep DEF ShowProtocols
  <2>5. QED
    BY <2>1, <2>2, <2>3, <2>4
<1>4. ASSUME NEW t \in SetIds, SelectSet(t) PROVE PrefsType' /\ SelType' /\ ListsType' /\ RunType'
  <2>1. PrefsType'
    BY <1>4 DEF SelectSet, PrefsType, prefs
  <2>2. SelType'
    BY <1>4 DEF SelectSet, SelType, ListsType, PrefsType, Configurations, FoundSet, SetList
  <2>3. ListsType'
    BY <1>4 DEF SelectSet, ListsType, SelType, PrefsType, Configurations, SetList
  <2>4. RunType'
    BY <1>4, RunStep DEF SelectSet
  <2>5. QED
    BY <2>1, <2>2, <2>3, <2>4
<1>5. ASSUME NEW t \in SetIds, CreateSet(t) PROVE PrefsType' /\ SelType' /\ ListsType' /\ RunType'
  <2>1. PrefsType'
    BY <1>5 DEF CreateSet, PrefsType, prefs, Configurations
  <2>2. SelType'
    BY <1>5 DEF CreateSet, SelType
  <2>3. ListsType'
    BY <1>5 DEF CreateSet, ListsType
  <2>4. RunType'
    BY <1>5, RunStep DEF CreateSet
  <2>5. QED
    BY <2>1, <2>2, <2>3, <2>4
<1>6. ASSUME NEW t \in SetIds, RemoveSet(t) PROVE PrefsType' /\ SelType' /\ ListsType' /\ RunType'
  <2>1. PrefsType'
    BY <1>6 DEF RemoveSet, PrefsType, prefs, Configurations
  <2>2. SelType'
    BY <1>6 DEF RemoveSet, SelType
  <2>3. ListsType'
    BY <1>6 DEF RemoveSet, ListsType
  <2>4. RunType'
    <3>1. process' \in {"running", "ended", "remove set", "set service order", "set"}
      BY <1>6 DEF RemoveSet, RunType
    <3>2. commands' \in 0..MaxCommands
      <4>1. Command
        BY <1>6 DEF RemoveSet
      <4>2. QED
        BY <4>1, CountStep DEF RunType
    <3>3. QED
      BY <3>1, <3>2 DEF RunType
  <2>5. QED
    BY <2>1, <2>2, <2>3, <2>4
<1>7. ASSUME SetSet PROVE PrefsType' /\ SelType' /\ ListsType' /\ RunType'
  <2>1. PrefsType'
    BY <1>7 DEF SetSet, PrefsType, prefs, Configurations, SelType
  <2>2. SelType'
    BY <1>7 DEF SetSet, SelType
  <2>3. ListsType'
    BY <1>7 DEF SetSet, ListsType, SelType, PrefsType, Configurations
  <2>4. RunType'
    BY <1>7, RunStep DEF SetSet
  <2>5. QED
    BY <2>1, <2>2, <2>3, <2>4
<1>8. ASSUME NEW v \in ServiceIds, SelectService(v) PROVE PrefsType' /\ SelType' /\ ListsType' /\ RunType'
  <2>1. PrefsType'
    BY <1>8 DEF SelectService, PrefsType, prefs, Selection
  <2>2. SelType'
    <3> DEFINE b == v \in conf.services
    <3>1. sel' = [sel EXCEPT !.service = v, !.protocol = None, !.interface = b]
      BY <1>8 DEF SelectService, Selection
    <3>2. b \in BOOLEAN
      OBVIOUS
    <3> HIDE DEF b
    <3>3. QED
      BY <3>1, <3>2 DEF SelType
  <2>3. ListsType'
    BY <1>8 DEF SelectService, ListsType, SelType, PrefsType, Configurations, Selection, ServiceList, Members
  <2>4. RunType'
    BY <1>8, RunStep DEF SelectService, Selection
  <2>5. QED
    BY <2>1, <2>2, <2>3, <2>4
<1>9. ASSUME NEW v \in ServiceIds, CreateService(v) PROVE PrefsType' /\ SelType' /\ ListsType' /\ RunType'
  <2>1. PrefsType'
    BY <1>9 DEF CreateService, PrefsType, prefs, Configurations, SelType, WithService, Supported
  <2>2. SelType'
    BY <1>9 DEF CreateService, SelType
  <2>3. ListsType'
    BY <1>9 DEF CreateService, ListsType
  <2>4. RunType'
    BY <1>9, RunStep DEF CreateService
  <2>5. QED
    BY <2>1, <2>2, <2>3, <2>4
<1>10. ASSUME NEW v \in ServiceIds, RemoveService(v) PROVE PrefsType' /\ SelType' /\ ListsType' /\ RunType'
  <2>1. PrefsType'
    BY <1>10 DEF RemoveService, PrefsType, prefs, Configurations, Removal, Supported
  <2>2. SelType'
    BY <1>10 DEF RemoveService, SelType, Removal
  <2>3. ListsType'
    BY <1>10 DEF RemoveService, ListsType, Removal
  <2>4. RunType'
    BY <1>10, RunStep DEF RemoveService, Removal
  <2>5. QED
    BY <2>1, <2>2, <2>3, <2>4
<1>11. ASSUME NEW v \in ServiceIds, EnableService(v) PROVE PrefsType' /\ SelType' /\ ListsType' /\ RunType'
  <2>1. PrefsType'
    BY <1>11 DEF EnableService, PrefsType, prefs, Configurations
  <2>2. SelType'
    BY <1>11 DEF EnableService, SelType
  <2>3. ListsType'
    BY <1>11 DEF EnableService, ListsType, SelType, PrefsType, Configurations, ServiceList, Members
  <2>4. RunType'
    BY <1>11, RunStep DEF EnableService
  <2>5. QED
    BY <2>1, <2>2, <2>3, <2>4
<1>12. ASSUME SetService PROVE PrefsType' /\ SelType' /\ ListsType' /\ RunType'
  <2>1. PrefsType'
    BY <1>12 DEF SetService, PrefsType, prefs, Configurations
  <2>2. SelType'
    BY <1>12 DEF SetService, SelType
  <2>3. ListsType'
    BY <1>12 DEF SetService, ListsType
  <2>4. RunType'
    <3>1. process' \in {"running", "ended", "remove set", "set service order", "set"}
      BY <1>12 DEF SetService, RunType
    <3>2. commands' \in 0..MaxCommands
      <4>1. Command
        BY <1>12 DEF SetService
      <4>2. QED
        BY <4>1, CountStep DEF RunType
    <3>3. QED
      BY <3>1, <3>2 DEF RunType
  <2>5. QED
    BY <2>1, <2>2, <2>3, <2>4
<1>13. ASSUME NEW p \in ServiceIds \X Protocols, SelectProtocol(p) PROVE PrefsType' /\ SelType' /\ ListsType' /\ RunType'
  <2>1. PrefsType'
    BY <1>13 DEF SelectProtocol, PrefsType, prefs
  <2>2. SelType'
    BY <1>13 DEF SelectProtocol, SelType
  <2>3. ListsType'
    BY <1>13 DEF SelectProtocol, ListsType, SelType, PrefsType, Configurations, ProtocolList, ProtocolsOf
  <2>4. RunType'
    BY <1>13, RunStep DEF SelectProtocol
  <2>5. QED
    BY <2>1, <2>2, <2>3, <2>4
<1>14. ASSUME NEW p \in ServiceIds \X Protocols, CreateProtocol(p) PROVE PrefsType' /\ SelType' /\ ListsType' /\ RunType'
  <2>1. PrefsType'
    BY <1>14 DEF CreateProtocol, PrefsType, prefs, Configurations
  <2>2. SelType'
    BY <1>14 DEF CreateProtocol, SelType, Supported
  <2>3. ListsType'
    BY <1>14 DEF CreateProtocol, ListsType
  <2>4. RunType'
    BY <1>14, RunStep DEF CreateProtocol
  <2>5. QED
    BY <2>1, <2>2, <2>3, <2>4
<1>15. ASSUME NEW p \in ServiceIds \X Protocols, RemoveProtocol(p) PROVE PrefsType' /\ SelType' /\ ListsType' /\ RunType'
  <2>1. PrefsType'
    BY <1>15 DEF RemoveProtocol, PrefsType, prefs, Configurations
  <2>2. SelType'
    BY <1>15 DEF RemoveProtocol, SelType
  <2>3. ListsType'
    BY <1>15 DEF RemoveProtocol, ListsType
  <2>4. RunType'
    BY <1>15, RunStep DEF RemoveProtocol
  <2>5. QED
    BY <2>1, <2>2, <2>3, <2>4
<1>16. ASSUME NEW p \in ServiceIds \X Protocols, SetProtocol(p) PROVE PrefsType' /\ SelType' /\ ListsType' /\ RunType'
  <2>1. PrefsType'
    <3>1. conf' \in Configurations
      <4>1. CASE conf' = [conf EXCEPT !.other = ~@]
        BY <4>1 DEF PrefsType, Configurations
      <4>2. CASE conf' = [conf EXCEPT !.protocols = @ \cup {p}]
        BY <4>2 DEF PrefsType, Configurations
      <4>3. QED
        BY <1>16, <4>1, <4>2 DEF SetProtocol, PrefsType
    <3>2. /\ changed' = TRUE
          /\ UNCHANGED <<open, saved, ni, quiet, replaced, renamed>>
      BY <1>16 DEF SetProtocol
    <3>3. QED
      BY <3>1, <3>2 DEF PrefsType
  <2>2. SelType'
    BY <1>16 DEF SetProtocol, SelType
  <2>3. ListsType'
    BY <1>16 DEF SetProtocol, ListsType, SelType, PrefsType, Configurations, ProtocolList, ProtocolsOf
  <2>4. RunType'
    BY <1>16, RunStep DEF SetProtocol
  <2>5. QED
    BY <2>1, <2>2, <2>3, <2>4
<1>17. ASSUME SelectInterface PROVE PrefsType' /\ SelType' /\ ListsType' /\ RunType'
  <2>1. PrefsType'
    BY <1>17 DEF SelectInterface, PrefsType, prefs
  <2>2. SelType'
    BY <1>17 DEF SelectInterface, SelType
  <2>3. ListsType'
    BY <1>17 DEF SelectInterface, ListsType
  <2>4. RunType'
    BY <1>17, RunStep DEF SelectInterface
  <2>5. QED
    BY <2>1, <2>2, <2>3, <2>4
<1>18. ASSUME SetInterface PROVE PrefsType' /\ SelType' /\ ListsType' /\ RunType'
  <2>1. PrefsType'
    BY <1>18 DEF SetInterface, PrefsType, prefs, Configurations
  <2>2. SelType'
    BY <1>18 DEF SetInterface, SelType
  <2>3. ListsType'
    BY <1>18 DEF SetInterface, ListsType
  <2>4. RunType'
    BY <1>18, RunStep DEF SetInterface
  <2>5. QED
    BY <2>1, <2>2, <2>3, <2>4
<1>19. ASSUME SetPlural PROVE PrefsType' /\ SelType' /\ ListsType' /\ RunType'
  <2>1. PrefsType'
    BY <1>19 DEF SetPlural, PrefsType, prefs
  <2>2. SelType'
    BY <1>19 DEF SetPlural, SelType
  <2>3. ListsType'
    BY <1>19 DEF SetPlural, ListsType
  <2>4. RunType'
    BY <1>19, CountStep DEF SetPlural, RunType
  <2>5. QED
    BY <2>1, <2>2, <2>3, <2>4
<1>20. ASSUME Clean PROVE PrefsType' /\ SelType' /\ ListsType' /\ RunType'
  <2>1. PrefsType'
    <3>1. changed' \in BOOLEAN /\ replaced' \in BOOLEAN /\ conf' \in Configurations
      BY <1>20, RewrittenEffect, FilesAssumption DEF PrefsType
    <3>2. UNCHANGED <<open, saved, quiet, renamed>> /\ ni' \in {"clean", "dirty"}
      BY <1>20 DEF Clean, Rewritten
    <3>3. QED
      BY <3>1, <3>2 DEF PrefsType
  <2>2. SelType'
    BY <1>20 DEF Clean, SelType
  <2>3. ListsType'
    BY <1>20 DEF Clean, ListsType
  <2>4. RunType'
    BY <1>20, RunStep DEF Clean
  <2>5. QED
    BY <2>1, <2>2, <2>3, <2>4
<1>21. ASSUME Upgrade PROVE PrefsType' /\ SelType' /\ ListsType' /\ RunType'
  <2>1. PrefsType'
    <3>1. changed' \in BOOLEAN /\ replaced' \in BOOLEAN /\ conf' \in Configurations
      BY <1>21, RewrittenEffect, FilesAssumption DEF PrefsType
    <3>2. UNCHANGED <<open, saved, quiet, renamed>> /\ ni' \in {ni, "clean", "dirty"}
      BY <1>21 DEF Upgrade, Rewritten
    <3>3. QED
      BY <3>1, <3>2 DEF PrefsType
  <2>2. SelType'
    BY <1>21 DEF Upgrade, SelType
  <2>3. ListsType'
    BY <1>21 DEF Upgrade, ListsType
  <2>4. RunType'
    BY <1>21, RunStep DEF Upgrade
  <2>5. QED
    BY <2>1, <2>2, <2>3, <2>4
<1>22. ASSUME Update PROVE PrefsType' /\ SelType' /\ ListsType' /\ RunType'
  <2>1. PrefsType'
    <3>1. changed' \in BOOLEAN /\ quiet' \in BOOLEAN /\ conf' \in Configurations
      BY <1>22, UpdateEffect DEF PrefsType
    <3>2. UNCHANGED <<open, saved, ni, replaced, renamed>>
      BY <1>22 DEF Update
    <3>3. QED
      BY <3>1, <3>2 DEF PrefsType
  <2>2. SelType'
    BY <1>22 DEF Update, SelType
  <2>3. ListsType'
    BY <1>22 DEF Update, ListsType
  <2>4. RunType'
    BY <1>22, RunStep DEF Update
  <2>5. QED
    BY <2>1, <2>2, <2>3, <2>4
<1>23. ASSUME Commit PROVE PrefsType' /\ SelType' /\ ListsType' /\ RunType'
  <2>1. PrefsType'
    BY <1>23 DEF Commit, PrefsType, prefs
  <2>2. SelType'
    BY <1>23 DEF Commit, SelType
  <2>3. ListsType'
    BY <1>23 DEF Commit, ListsType
  <2>4. RunType'
    BY <1>23, RunStep DEF Commit
  <2>5. QED
    BY <2>1, <2>2, <2>3, <2>4
<1>24. ASSUME NEW f \in BOOLEAN, Close(f) PROVE PrefsType' /\ SelType' /\ ListsType' /\ RunType'
  <2>1. PrefsType'
    BY <1>24 DEF Close, PrefsType, prefs, Closed
  <2>2. SelType'
    BY <1>24 DEF Close, SelType
  <2>3. ListsType'
    BY <1>24 DEF Close, ListsType
  <2>4. RunType'
    <3>1. process' \in {"running", "ended", "remove set", "set service order", "set"}
      BY <1>24 DEF Close, RunType
    <3>2. commands' \in 0..MaxCommands
      <4>1. Command
        BY <1>24 DEF Close
      <4>2. QED
        BY <4>1, CountStep DEF RunType
    <3>3. QED
      BY <3>1, <3>2 DEF RunType
  <2>5. QED
    BY <2>1, <2>2, <2>3, <2>4
<1>25. ASSUME NEW f \in BOOLEAN, Open(f) PROVE PrefsType' /\ SelType' /\ ListsType' /\ RunType'
  <2>1. PrefsType'
    BY <1>25 DEF Open, PrefsType, prefs, Closed
  <2>2. SelType'
    BY <1>25 DEF Open, SelType, PrefsType, Configurations
  <2>3. ListsType'
    BY <1>25 DEF Open, ListsType
  <2>4. RunType'
    BY <1>25, RunStep DEF Open
  <2>5. QED
    BY <2>1, <2>2, <2>3, <2>4
<1>26. CASE UNCHANGED vars
  <2>1. PrefsType'
    BY <1>26 DEF vars, prefs, PrefsType
  <2>2. SelType'
    BY <1>26 DEF vars, SelType
  <2>3. ListsType'
    BY <1>26 DEF vars, ListsType
  <2>4. RunType'
    BY <1>26 DEF vars, RunType
  <2>5. QED
    BY <2>1, <2>2, <2>3, <2>4
<1>27. ASSUME NEW n \in SetIds, RenameSet(n) PROVE PrefsType' /\ SelType' /\ ListsType' /\ RunType'
  <2>1. PrefsType'
    BY <1>27 DEF RenameSet, PrefsType, prefs, Configurations, SelType
  <2>2. SelType'
    BY <1>27 DEF RenameSet, SelType
  <2>3. ListsType'
    BY <1>27, <2>1 DEF RenameSet, ListsType, PrefsType, Configurations
  <2>4. RunType'
    BY <1>27, RunStep DEF RenameSet
  <2>5. QED
    BY <2>1, <2>2, <2>3, <2>4
<1>28. ASSUME NEW n \in ServiceIds, RenameService(n) PROVE PrefsType' /\ SelType' /\ ListsType' /\ RunType'
  <2>1. PrefsType'
    <3>1. conf' \in Configurations
      BY <1>28, MovedType DEF RenameService, Following, PrefsType, Configurations
    <3>2. /\ changed' = TRUE /\ renamed' \subseteq ServiceIds
          /\ UNCHANGED <<open, saved, ni, quiet, replaced>>
      BY <1>28 DEF RenameService, Following, PrefsType, Configurations
    <3>3. QED
      BY <3>1, <3>2 DEF PrefsType
  <2>2. SelType'
    BY <1>28 DEF RenameService, Following, SelType
  <2>3. ListsType'
    <3> DEFINE old == sel.service
               L == IF lists.services # None /\ lists.own
                    THEN (lists.services \ {old}) \cup {n} ELSE lists.services
               P == IF lists.protocols = None THEN None
                    ELSE Moved(lists.protocols, old, n)
    <3>1. lists' = [lists EXCEPT !.services = L, !.protocols = P]
      BY <1>28 DEF RenameService
    <3>2. L \in (SUBSET ServiceIds) \cup {None}
      BY DEF ListsType
    <3>3. P \in (SUBSET (ServiceIds \X Protocols)) \cup {None}
      BY MovedType DEF ListsType
    <3> HIDE DEF L, P
    <3>4. QED
      BY <3>1, <3>2, <3>3 DEF ListsType
  <2>4. RunType'
    BY <1>28, RunStep DEF RenameService
  <2>5. QED
    BY <2>1, <2>2, <2>3, <2>4
<1>29. QED
  BY <1>1, <1>2, <1>3, <1>4, <1>5, <1>6, <1>7, <1>8, <1>9, <1>10, <1>11, <1>12, <1>13, <1>14, <1>15, <1>16, <1>17, <1>18, <1>19, <1>20, <1>21, <1>22, <1>23, <1>24, <1>25, <1>26, <1>27, <1>28 DEF Next

\* Every command that edits the configuration marks it.
LEMMA MarkedStep == TypeOK /\ EditsMarked /\ [Next]_vars => EditsMarked'
<1> SUFFICES ASSUME TypeOK, EditsMarked, [Next]_vars PROVE EditsMarked'
  OBVIOUS
<1>1. ASSUME ShowSets PROVE EditsMarked'
  BY <1>1 DEF ShowSets, SetList, EditsMarked, prefs
<1>2. ASSUME ShowServices PROVE EditsMarked'
  BY <1>2 DEF ShowServices, Members, EditsMarked, prefs
<1>3. ASSUME ShowProtocols PROVE EditsMarked'
  BY <1>3 DEF ShowProtocols, EditsMarked, prefs
<1>4. ASSUME NEW t \in SetIds, SelectSet(t) PROVE EditsMarked'
  BY <1>4 DEF SelectSet, SetList, FoundSet, EditsMarked, prefs
<1>5. ASSUME NEW t \in SetIds, CreateSet(t) PROVE EditsMarked'
  BY <1>5 DEF CreateSet, EditsMarked, prefs
<1>6. ASSUME NEW t \in SetIds, RemoveSet(t) PROVE EditsMarked'
  BY <1>6 DEF RemoveSet, EditsMarked, prefs
<1>7. ASSUME SetSet PROVE EditsMarked'
  BY <1>7 DEF SetSet, EditsMarked, prefs
<1>8. ASSUME NEW v \in ServiceIds, SelectService(v) PROVE EditsMarked'
  BY <1>8 DEF SelectService, Selection, EditsMarked, prefs
<1>9. ASSUME NEW v \in ServiceIds, CreateService(v) PROVE EditsMarked'
  BY <1>9 DEF CreateService, WithService, EditsMarked, prefs
<1>10. ASSUME NEW v \in ServiceIds, RemoveService(v) PROVE EditsMarked'
  BY <1>10 DEF RemoveService, Removal, EditsMarked, prefs
<1>11. ASSUME NEW v \in ServiceIds, EnableService(v) PROVE EditsMarked'
  BY <1>11 DEF EnableService, EditsMarked, prefs
<1>12. ASSUME SetService PROVE EditsMarked'
  <2>1. open' = open /\ saved' = saved /\ quiet' = quiet
    BY <1>12 DEF SetService
  <2>2. changed' = TRUE \/ (conf' = conf /\ changed' = changed)
    BY <1>12 DEF SetService
  <2>3. QED
    BY <2>1, <2>2 DEF EditsMarked
<1>13. ASSUME NEW p \in ServiceIds \X Protocols, SelectProtocol(p) PROVE EditsMarked'
  BY <1>13 DEF SelectProtocol, EditsMarked, prefs
<1>14. ASSUME NEW p \in ServiceIds \X Protocols, CreateProtocol(p) PROVE EditsMarked'
  BY <1>14 DEF CreateProtocol, EditsMarked, prefs
<1>15. ASSUME NEW p \in ServiceIds \X Protocols, RemoveProtocol(p) PROVE EditsMarked'
  BY <1>15 DEF RemoveProtocol, EditsMarked, prefs
<1>16. ASSUME NEW p \in ServiceIds \X Protocols, SetProtocol(p) PROVE EditsMarked'
  BY <1>16 DEF SetProtocol, EditsMarked, prefs
<1>17. ASSUME SelectInterface PROVE EditsMarked'
  BY <1>17 DEF SelectInterface, EditsMarked, prefs
<1>18. ASSUME SetInterface PROVE EditsMarked'
  BY <1>18 DEF SetInterface, EditsMarked, prefs
<1>19. ASSUME SetPlural PROVE EditsMarked'
  BY <1>19 DEF SetPlural, EditsMarked, prefs
<1>20. ASSUME Clean PROVE EditsMarked'
  <2>1. open' = open /\ saved' = saved /\ quiet' = quiet
    BY <1>20 DEF Clean
  <2>2. changed' = TRUE \/ (conf' = conf /\ changed' = changed)
    BY <1>20, RewrittenEffect DEF TypeOK, PrefsType
  <2>3. QED
    BY <2>1, <2>2 DEF EditsMarked
<1>21. ASSUME Upgrade PROVE EditsMarked'
  <2>1. open' = open /\ saved' = saved /\ quiet' = quiet
    BY <1>21 DEF Upgrade
  <2>2. changed' = TRUE \/ (conf' = conf /\ changed' = changed)
    BY <1>21, RewrittenEffect DEF TypeOK, PrefsType
  <2>3. QED
    BY <2>1, <2>2 DEF EditsMarked
<1>22. ASSUME Update PROVE EditsMarked'
  <2>1. open' = open /\ saved' = saved
    BY <1>22 DEF Update
  <2>2. \/ changed' = TRUE
        \/ quiet' = TRUE
        \/ conf' = conf /\ changed' = changed /\ quiet' = quiet
    BY <1>22, UpdateEffect DEF TypeOK, PrefsType, SelType
  <2>3. QED
    BY <2>1, <2>2 DEF EditsMarked
<1>23. ASSUME Commit PROVE EditsMarked'
  BY <1>23 DEF Commit, EditsMarked, prefs
<1>24. ASSUME NEW f \in BOOLEAN, Close(f) PROVE EditsMarked'
  BY <1>24 DEF Close, Closed, EditsMarked, prefs
<1>25. ASSUME NEW f \in BOOLEAN, Open(f) PROVE EditsMarked'
  BY <1>25 DEF Open, Closed, EditsMarked, prefs
<1>26. CASE UNCHANGED vars
  BY <1>26 DEF vars, prefs, EditsMarked, prefs
<1>27. ASSUME NEW n \in SetIds, RenameSet(n) PROVE EditsMarked'
  BY <1>27 DEF RenameSet, EditsMarked, prefs
<1>28. ASSUME NEW n \in ServiceIds, RenameService(n) PROVE EditsMarked'
  BY <1>28 DEF RenameService, Following, EditsMarked, prefs
<1>29. QED
  BY <1>1, <1>2, <1>3, <1>4, <1>5, <1>6, <1>7, <1>8, <1>9, <1>10, <1>11, <1>12, <1>13, <1>14, <1>15, <1>16, <1>17, <1>18, <1>19, <1>20, <1>21, <1>22, <1>23, <1>24, <1>25, <1>26, <1>27, <1>28 DEF Next

\* The protocols listed and selected stay those of the service.
LEMMA ProtocolStep ==
    TypeOK /\ ProtocolOfService /\ [Next]_vars => ProtocolOfService'
<1> SUFFICES ASSUME TypeOK, ProtocolOfService, [Next]_vars
             PROVE ProtocolOfService'
  OBVIOUS
<1>1. ASSUME ShowSets PROVE ProtocolOfService'
  BY <1>1 DEF ShowSets, SetList, TypeOK, ProtocolOfService, Supported, prefs
<1>2. ASSUME ShowServices PROVE ProtocolOfService'
  BY <1>2 DEF ShowServices, Members, TypeOK, ProtocolOfService, Supported, prefs
<1>3. ASSUME ShowProtocols PROVE ProtocolOfService'
  BY <1>3 DEF ShowProtocols, ProtocolsOf, TypeOK, ProtocolOfService, Supported, prefs
<1>4. ASSUME NEW t \in SetIds, SelectSet(t) PROVE ProtocolOfService'
  BY <1>4 DEF SelectSet, SetList, FoundSet, TypeOK, ProtocolOfService, Supported, prefs
<1>5. ASSUME NEW t \in SetIds, CreateSet(t) PROVE ProtocolOfService'
  BY <1>5 DEF CreateSet, TypeOK, ProtocolOfService, Supported, prefs
<1>6. ASSUME NEW t \in SetIds, RemoveSet(t) PROVE ProtocolOfService'
  BY <1>6 DEF RemoveSet, TypeOK, ProtocolOfService, Supported, prefs
<1>7. ASSUME SetSet PROVE ProtocolOfService'
  BY <1>7 DEF SetSet, TypeOK, ProtocolOfService, Supported, prefs
<1>8. ASSUME NEW v \in ServiceIds, SelectService(v) PROVE ProtocolOfService'
  BY <1>8 DEF SelectService, Selection, TypeOK, ProtocolOfService, Supported, prefs
<1>9. ASSUME NEW v \in ServiceIds, CreateService(v) PROVE ProtocolOfService'
  BY <1>9 DEF CreateService, WithService, TypeOK, ProtocolOfService, Supported, prefs
<1>10. ASSUME NEW v \in ServiceIds, RemoveService(v) PROVE ProtocolOfService'
  BY <1>10 DEF RemoveService, Removal, TypeOK, ProtocolOfService, Supported, prefs
<1>11. ASSUME NEW v \in ServiceIds, EnableService(v) PROVE ProtocolOfService'
  BY <1>11 DEF EnableService, TypeOK, ProtocolOfService, Supported, prefs
<1>12. ASSUME SetService PROVE ProtocolOfService'
  BY <1>12 DEF SetService, TypeOK, ProtocolOfService, Supported, prefs
<1>13. ASSUME NEW p \in ServiceIds \X Protocols, SelectProtocol(p) PROVE ProtocolOfService'
  BY <1>13 DEF SelectProtocol, ProtocolList, ProtocolsOf, FoundProtocol, TypeOK, ProtocolOfService, Supported, prefs
<1>14. ASSUME NEW p \in ServiceIds \X Protocols, CreateProtocol(p) PROVE ProtocolOfService'
  BY <1>14 DEF CreateProtocol, TypeOK, ProtocolOfService, Supported, prefs
<1>15. ASSUME NEW p \in ServiceIds \X Protocols, RemoveProtocol(p) PROVE ProtocolOfService'
  BY <1>15 DEF RemoveProtocol, TypeOK, ProtocolOfService, Supported, prefs
<1>16. ASSUME NEW p \in ServiceIds \X Protocols, SetProtocol(p) PROVE ProtocolOfService'
  BY <1>16 DEF SetProtocol, ProtocolList, ProtocolsOf, TypeOK, ProtocolOfService, Supported, prefs
<1>17. ASSUME SelectInterface PROVE ProtocolOfService'
  BY <1>17 DEF SelectInterface, TypeOK, ProtocolOfService, Supported, prefs
<1>18. ASSUME SetInterface PROVE ProtocolOfService'
  BY <1>18 DEF SetInterface, TypeOK, ProtocolOfService, Supported, prefs
<1>19. ASSUME SetPlural PROVE ProtocolOfService'
  BY <1>19 DEF SetPlural, TypeOK, ProtocolOfService, Supported, prefs
<1>20. ASSUME Clean PROVE ProtocolOfService'
  BY <1>20 DEF Clean, Rewritten, TypeOK, ProtocolOfService, Supported, prefs
<1>21. ASSUME Upgrade PROVE ProtocolOfService'
  BY <1>21 DEF Upgrade, Rewritten, TypeOK, ProtocolOfService, Supported, prefs
<1>22. ASSUME Update PROVE ProtocolOfService'
  BY <1>22 DEF Update, Establish, WithService, TypeOK, ProtocolOfService, Supported, prefs
<1>23. ASSUME Commit PROVE ProtocolOfService'
  BY <1>23 DEF Commit, TypeOK, ProtocolOfService, Supported, prefs
<1>24. ASSUME NEW f \in BOOLEAN, Close(f) PROVE ProtocolOfService'
  BY <1>24 DEF Close, Closed, TypeOK, ProtocolOfService, Supported, prefs
<1>25. ASSUME NEW f \in BOOLEAN, Open(f) PROVE ProtocolOfService'
  BY <1>25 DEF Open, Closed, TypeOK, ProtocolOfService, Supported, prefs
<1>26. CASE UNCHANGED vars
  BY <1>26 DEF vars, prefs, TypeOK, ProtocolOfService, Supported, prefs
<1>27. ASSUME NEW n \in SetIds, RenameSet(n) PROVE ProtocolOfService'
  BY <1>27 DEF RenameSet, TypeOK, ProtocolOfService, Supported, prefs
<1>28. ASSUME NEW n \in ServiceIds, RenameService(n) PROVE ProtocolOfService'
  <2> DEFINE old == sel.service
             P == IF lists.protocols = None THEN None
                  ELSE Moved(lists.protocols, old, n)
             S == IF sel.protocol = None THEN None ELSE <<n, sel.protocol[2]>>
  <2>1. /\ sel' = [sel EXCEPT !.service = n, !.protocol = S]
        /\ lists'.protocols = P
    BY <1>28 DEF RenameService, Following, TypeOK
  <2>2. old # None
    BY <1>28, EditAssumption DEF RenameService, Following, TypeOK, Configurations
  <2>3. P # None => P \subseteq Supported(n)
    BY <2>2, MovedType DEF TypeOK, ProtocolOfService
  <2>4. S # None => S[1] = n
    OBVIOUS
  <2> HIDE DEF P, S
  <2>5. sel'.service = n /\ sel'.protocol = S
    BY <2>1 DEF TypeOK
  <2>6. QED
    BY <2>1, <2>3, <2>4, <2>5 DEF ProtocolOfService, Supported
<1>29. QED
  BY <1>1, <1>2, <1>3, <1>4, <1>5, <1>6, <1>7, <1>8, <1>9, <1>10, <1>11, <1>12, <1>13, <1>14, <1>15, <1>16, <1>17, <1>18, <1>19, <1>20, <1>21, <1>22, <1>23, <1>24, <1>25, <1>26, <1>27, <1>28 DEF Next

\* Sets refer to services that are there, in memory and in the file.
Linked == WellFormed(conf) /\ WellFormed(saved)

LEMMA LinkedStep == TypeOK /\ Linked /\ [Next]_vars => Linked'
<1> SUFFICES ASSUME TypeOK, Linked, [Next]_vars PROVE Linked'
  OBVIOUS
<1>1. ASSUME ShowSets PROVE Linked'
  BY <1>1 DEF ShowSets, SetList, Linked, WellFormed, TypeOK, Configurations, prefs
<1>2. ASSUME ShowServices PROVE Linked'
  BY <1>2 DEF ShowServices, Members, Linked, WellFormed, TypeOK, Configurations, prefs
<1>3. ASSUME ShowProtocols PROVE Linked'
  BY <1>3 DEF ShowProtocols, Linked, WellFormed, TypeOK, Configurations, prefs
<1>4. ASSUME NEW t \in SetIds, SelectSet(t) PROVE Linked'
  BY <1>4 DEF SelectSet, SetList, FoundSet, Linked, WellFormed, TypeOK, Configurations, prefs
<1>5. ASSUME NEW t \in SetIds, CreateSet(t) PROVE Linked'
  BY <1>5 DEF CreateSet, Linked, WellFormed, TypeOK, Configurations, prefs
<1>6. ASSUME NEW t \in SetIds, RemoveSet(t) PROVE Linked'
  BY <1>6 DEF RemoveSet, Linked, WellFormed, TypeOK, Configurations, prefs
<1>7. ASSUME SetSet PROVE Linked'
  BY <1>7 DEF SetSet, Linked, WellFormed, TypeOK, Configurations, prefs
<1>8. ASSUME NEW v \in ServiceIds, SelectService(v) PROVE Linked'
  BY <1>8 DEF SelectService, Selection, Linked, WellFormed, TypeOK, Configurations, prefs
<1>9. ASSUME NEW v \in ServiceIds, CreateService(v) PROVE Linked'
  BY <1>9 DEF CreateService, WithService, Linked, WellFormed, TypeOK, Configurations, prefs
<1>10. ASSUME NEW v \in ServiceIds, RemoveService(v) PROVE Linked'
  BY <1>10 DEF RemoveService, Removal, Linked, WellFormed, TypeOK, Configurations, prefs
<1>11. ASSUME NEW v \in ServiceIds, EnableService(v) PROVE Linked'
  BY <1>11 DEF EnableService, Linked, WellFormed, TypeOK, Configurations, prefs
<1>12. ASSUME SetService PROVE Linked'
  BY <1>12 DEF SetService, Linked, WellFormed, TypeOK, Configurations, prefs
<1>13. ASSUME NEW p \in ServiceIds \X Protocols, SelectProtocol(p) PROVE Linked'
  BY <1>13 DEF SelectProtocol, Linked, WellFormed, TypeOK, Configurations, prefs
<1>14. ASSUME NEW p \in ServiceIds \X Protocols, CreateProtocol(p) PROVE Linked'
  BY <1>14 DEF CreateProtocol, Linked, WellFormed, TypeOK, Configurations, prefs
<1>15. ASSUME NEW p \in ServiceIds \X Protocols, RemoveProtocol(p) PROVE Linked'
  BY <1>15 DEF RemoveProtocol, Linked, WellFormed, TypeOK, Configurations, prefs
<1>16. ASSUME NEW p \in ServiceIds \X Protocols, SetProtocol(p) PROVE Linked'
  BY <1>16 DEF SetProtocol, Linked, WellFormed, TypeOK, Configurations, prefs
<1>17. ASSUME SelectInterface PROVE Linked'
  BY <1>17 DEF SelectInterface, Linked, WellFormed, TypeOK, Configurations, prefs
<1>18. ASSUME SetInterface PROVE Linked'
  BY <1>18 DEF SetInterface, Linked, WellFormed, TypeOK, Configurations, prefs
<1>19. ASSUME SetPlural PROVE Linked'
  BY <1>19 DEF SetPlural, Linked, WellFormed, TypeOK, Configurations, prefs
<1>20. ASSUME Clean PROVE Linked'
  <2>1. saved' = saved
    BY <1>20 DEF Clean
  <2>2. conf' = conf \/ conf' \in Files
    BY <1>20, RewrittenEffect DEF TypeOK, PrefsType
  <2>3. QED
    BY <2>1, <2>2, FilesAssumption DEF Linked
<1>21. ASSUME Upgrade PROVE Linked'
  <2>1. saved' = saved
    BY <1>21 DEF Upgrade
  <2>2. conf' = conf \/ conf' \in Files
    BY <1>21, RewrittenEffect DEF TypeOK, PrefsType
  <2>3. QED
    BY <2>1, <2>2, FilesAssumption DEF Linked
<1>22. ASSUME Update PROVE Linked'
  BY <1>22, UpdateEffect DEF Linked, TypeOK, PrefsType, SelType, Update
<1>23. ASSUME Commit PROVE Linked'
  BY <1>23 DEF Commit, Linked, WellFormed, TypeOK, Configurations, prefs
<1>24. ASSUME NEW f \in BOOLEAN, Close(f) PROVE Linked'
  BY <1>24 DEF Close, Closed, Linked, WellFormed, TypeOK, Configurations, prefs
<1>25. ASSUME NEW f \in BOOLEAN, Open(f) PROVE Linked'
  BY <1>25 DEF Open, Closed, Linked, WellFormed, TypeOK, Configurations, prefs
<1>26. CASE UNCHANGED vars
  BY <1>26 DEF vars, prefs, Linked, WellFormed, TypeOK, Configurations, prefs
<1>27. ASSUME NEW n \in SetIds, RenameSet(n) PROVE Linked'
  BY <1>27 DEF RenameSet, Linked, WellFormed, TypeOK, Configurations, prefs
<1>28. ASSUME NEW n \in ServiceIds, RenameService(n) PROVE Linked'
  BY <1>28 DEF RenameService, Following, Linked, WellFormed, TypeOK, Configurations, prefs
<1>29. QED
  BY <1>1, <1>2, <1>3, <1>4, <1>5, <1>6, <1>7, <1>8, <1>9, <1>10, <1>11, <1>12, <1>13, <1>14, <1>15, <1>16, <1>17, <1>18, <1>19, <1>20, <1>21, <1>22, <1>23, <1>24, <1>25, <1>26, <1>27, <1>28 DEF Next

\* Without preferences nothing is selected or listed but an interface.
Emptied ==
    ~open => /\ sel.set = None /\ sel.service = None
             /\ lists.sets = None /\ lists.services = None

LEMMA EmptiedStep == TypeOK /\ Emptied /\ [Next]_vars => Emptied'
<1> SUFFICES ASSUME TypeOK, Emptied, [Next]_vars PROVE Emptied'
  OBVIOUS
<1>1. ASSUME ShowSets PROVE Emptied'
  BY <1>1 DEF ShowSets, SetList, Emptied, TypeOK, prefs
<1>2. ASSUME ShowServices PROVE Emptied'
  BY <1>2 DEF ShowServices, Members, Emptied, TypeOK, prefs
<1>3. ASSUME ShowProtocols PROVE Emptied'
  BY <1>3 DEF ShowProtocols, Emptied, TypeOK, prefs
<1>4. ASSUME NEW t \in SetIds, SelectSet(t) PROVE Emptied'
  BY <1>4 DEF SelectSet, SetList, FoundSet, Emptied, TypeOK, prefs
<1>5. ASSUME NEW t \in SetIds, CreateSet(t) PROVE Emptied'
  BY <1>5 DEF CreateSet, Emptied, TypeOK, prefs
<1>6. ASSUME NEW t \in SetIds, RemoveSet(t) PROVE Emptied'
  BY <1>6 DEF RemoveSet, Emptied, TypeOK, prefs
<1>7. ASSUME SetSet PROVE Emptied'
  BY <1>7 DEF SetSet, Emptied, TypeOK, prefs
<1>8. ASSUME NEW v \in ServiceIds, SelectService(v) PROVE Emptied'
  BY <1>8 DEF SelectService, Selection, FoundService, ServiceList, Members, Emptied, TypeOK, prefs
<1>9. ASSUME NEW v \in ServiceIds, CreateService(v) PROVE Emptied'
  BY <1>9 DEF CreateService, WithService, Emptied, TypeOK, prefs
<1>10. ASSUME NEW v \in ServiceIds, RemoveService(v) PROVE Emptied'
  BY <1>10 DEF RemoveService, Removal, Emptied, TypeOK, prefs
<1>11. ASSUME NEW v \in ServiceIds, EnableService(v) PROVE Emptied'
  BY <1>11 DEF EnableService, Emptied, TypeOK, prefs
<1>12. ASSUME SetService PROVE Emptied'
  BY <1>12 DEF SetService, Emptied, TypeOK, prefs
<1>13. ASSUME NEW p \in ServiceIds \X Protocols, SelectProtocol(p) PROVE Emptied'
  BY <1>13 DEF SelectProtocol, Emptied, TypeOK, prefs
<1>14. ASSUME NEW p \in ServiceIds \X Protocols, CreateProtocol(p) PROVE Emptied'
  BY <1>14 DEF CreateProtocol, Emptied, TypeOK, prefs
<1>15. ASSUME NEW p \in ServiceIds \X Protocols, RemoveProtocol(p) PROVE Emptied'
  BY <1>15 DEF RemoveProtocol, Emptied, TypeOK, prefs
<1>16. ASSUME NEW p \in ServiceIds \X Protocols, SetProtocol(p) PROVE Emptied'
  BY <1>16 DEF SetProtocol, Emptied, TypeOK, prefs
<1>17. ASSUME SelectInterface PROVE Emptied'
  BY <1>17 DEF SelectInterface, Emptied, TypeOK, prefs
<1>18. ASSUME SetInterface PROVE Emptied'
  BY <1>18 DEF SetInterface, Emptied, TypeOK, prefs
<1>19. ASSUME SetPlural PROVE Emptied'
  BY <1>19 DEF SetPlural, Emptied, TypeOK, prefs
<1>20. ASSUME Clean PROVE Emptied'
  BY <1>20 DEF Clean, Rewritten, Emptied, TypeOK, prefs
<1>21. ASSUME Upgrade PROVE Emptied'
  BY <1>21 DEF Upgrade, Rewritten, Emptied, TypeOK, prefs
<1>22. ASSUME Update PROVE Emptied'
  BY <1>22 DEF Update, Establish, WithService, Emptied, TypeOK, prefs
<1>23. ASSUME Commit PROVE Emptied'
  BY <1>23 DEF Commit, Emptied, TypeOK, prefs
<1>24. ASSUME NEW f \in BOOLEAN, Close(f) PROVE Emptied'
  BY <1>24 DEF Close, Closed, Emptied, TypeOK, prefs
<1>25. ASSUME NEW f \in BOOLEAN, Open(f) PROVE Emptied'
  BY <1>25 DEF Open, Closed, Emptied, TypeOK, prefs
<1>26. CASE UNCHANGED vars
  BY <1>26 DEF vars, prefs, Emptied, TypeOK, prefs
<1>27. ASSUME NEW n \in SetIds, RenameSet(n) PROVE Emptied'
  BY <1>27 DEF RenameSet, Emptied, TypeOK, prefs
<1>28. ASSUME NEW n \in ServiceIds, RenameService(n) PROVE Emptied'
  BY <1>28 DEF RenameService, Following, Emptied, TypeOK, prefs
<1>29. QED
  BY <1>1, <1>2, <1>3, <1>4, <1>5, <1>6, <1>7, <1>8, <1>9, <1>10, <1>11, <1>12, <1>13, <1>14, <1>15, <1>16, <1>17, <1>18, <1>19, <1>20, <1>21, <1>22, <1>23, <1>24, <1>25, <1>26, <1>27, <1>28 DEF Next

\* The services listed and selected stay there.
LEMMA ExistsStep ==
    TypeOK /\ Linked /\ Emptied /\ ServiceExists /\ [Next]_vars => ServiceExists'
<1> SUFFICES ASSUME TypeOK, Linked, Emptied, ServiceExists, [Next]_vars
             PROVE ServiceExists'
  OBVIOUS
<1>1. ASSUME ShowSets PROVE ServiceExists'
  BY <1>1 DEF ShowSets, SetList, TypeOK, Configurations, ServiceExists, prefs
<1>2. ASSUME ShowServices PROVE ServiceExists'
  BY <1>2 DEF ShowServices, Members, Linked, WellFormed, TypeOK, Configurations, ServiceExists, prefs
<1>3. ASSUME ShowProtocols PROVE ServiceExists'
  BY <1>3 DEF ShowProtocols, TypeOK, Configurations, ServiceExists, prefs
<1>4. ASSUME NEW t \in SetIds, SelectSet(t) PROVE ServiceExists'
  BY <1>4 DEF SelectSet, SetList, FoundSet, TypeOK, Configurations, ServiceExists, prefs
<1>5. ASSUME NEW t \in SetIds, CreateSet(t) PROVE ServiceExists'
  BY <1>5 DEF CreateSet, TypeOK, Configurations, ServiceExists, prefs
<1>6. ASSUME NEW t \in SetIds, RemoveSet(t) PROVE ServiceExists'
  BY <1>6 DEF RemoveSet, TypeOK, Configurations, ServiceExists, prefs
<1>7. ASSUME SetSet PROVE ServiceExists'
  BY <1>7 DEF SetSet, TypeOK, Configurations, ServiceExists, prefs
<1>8. ASSUME NEW v \in ServiceIds, SelectService(v) PROVE ServiceExists'
  BY <1>8 DEF SelectService, Selection, ServiceList, FoundService, Linked, WellFormed, Members, TypeOK, Configurations, ServiceExists, prefs
<1>9. ASSUME NEW v \in ServiceIds, CreateService(v) PROVE ServiceExists'
  BY <1>9 DEF CreateService, WithService, TypeOK, Configurations, ServiceExists, prefs
<1>10. ASSUME NEW v \in ServiceIds, RemoveService(v) PROVE ServiceExists'
  BY <1>10 DEF RemoveService, Removal, TypeOK, Configurations, ServiceExists, prefs
<1>11. ASSUME NEW v \in ServiceIds, EnableService(v) PROVE ServiceExists'
  BY <1>11 DEF EnableService, ServiceList, Members, Linked, WellFormed, TypeOK, Configurations, ServiceExists, prefs
<1>12. ASSUME SetService PROVE ServiceExists'
  BY <1>12 DEF SetService, TypeOK, Configurations, ServiceExists, prefs
<1>13. ASSUME NEW p \in ServiceIds \X Protocols, SelectProtocol(p) PROVE ServiceExists'
  BY <1>13 DEF SelectProtocol, TypeOK, Configurations, ServiceExists, prefs
<1>14. ASSUME NEW p \in ServiceIds \X Protocols, CreateProtocol(p) PROVE ServiceExists'
  BY <1>14 DEF CreateProtocol, TypeOK, Configurations, ServiceExists, prefs
<1>15. ASSUME NEW p \in ServiceIds \X Protocols, RemoveProtocol(p) PROVE ServiceExists'
  BY <1>15 DEF RemoveProtocol, TypeOK, Configurations, ServiceExists, prefs
<1>16. ASSUME NEW p \in ServiceIds \X Protocols, SetProtocol(p) PROVE ServiceExists'
  BY <1>16 DEF SetProtocol, TypeOK, Configurations, ServiceExists, prefs
<1>17. ASSUME SelectInterface PROVE ServiceExists'
  BY <1>17 DEF SelectInterface, TypeOK, Configurations, ServiceExists, prefs
<1>18. ASSUME SetInterface PROVE ServiceExists'
  BY <1>18 DEF SetInterface, TypeOK, Configurations, ServiceExists, prefs
<1>19. ASSUME SetPlural PROVE ServiceExists'
  BY <1>19 DEF SetPlural, TypeOK, Configurations, ServiceExists, prefs
<1>20. ASSUME Clean PROVE ServiceExists'
  <2>1. sel' = sel /\ lists' = lists
    BY <1>20 DEF Clean
  <2>2. replaced' = TRUE \/ (conf' = conf /\ replaced' = replaced)
    BY <1>20, RewrittenEffect DEF TypeOK, PrefsType
  <2>3. renamed' = renamed
    BY <1>20 DEF Clean
  <2>4. QED
    BY <2>1, <2>2, <2>3 DEF ServiceExists
<1>21. ASSUME Upgrade PROVE ServiceExists'
  <2>1. sel' = sel /\ lists' = lists
    BY <1>21 DEF Upgrade
  <2>2. replaced' = TRUE \/ (conf' = conf /\ replaced' = replaced)
    BY <1>21, RewrittenEffect DEF TypeOK, PrefsType
  <2>3. renamed' = renamed
    BY <1>21 DEF Upgrade
  <2>4. QED
    BY <2>1, <2>2, <2>3 DEF ServiceExists
<1>22. ASSUME Update PROVE ServiceExists'
  <2>1. /\ conf.services \subseteq conf'.services
        /\ replaced' = replaced /\ renamed' = renamed
        /\ sel'.service = sel.service /\ lists'.services = lists.services
    BY <1>22, UpdateEffect DEF Update, TypeOK, PrefsType, SelType
  <2>2. QED
    BY <2>1 DEF ServiceExists
<1>23. ASSUME Commit PROVE ServiceExists'
  BY <1>23 DEF Commit, TypeOK, Configurations, ServiceExists, prefs
<1>24. ASSUME NEW f \in BOOLEAN, Close(f) PROVE ServiceExists'
  BY <1>24 DEF Close, Closed, TypeOK, Configurations, ServiceExists, prefs
<1>25. ASSUME NEW f \in BOOLEAN, Open(f) PROVE ServiceExists'
  BY <1>25 DEF Open, Closed, Emptied, TypeOK, Configurations, ServiceExists, prefs
<1>26. CASE UNCHANGED vars
  BY <1>26 DEF vars, prefs, TypeOK, Configurations, ServiceExists, prefs
<1>27. ASSUME NEW n \in SetIds, RenameSet(n) PROVE ServiceExists'
  BY <1>27 DEF RenameSet, TypeOK, Configurations, ServiceExists, prefs
<1>28. ASSUME NEW n \in ServiceIds, RenameService(n) PROVE ServiceExists'
  <2> DEFINE old == sel.service
             L == IF lists.services # None /\ lists.own
                  THEN (lists.services \ {old}) \cup {n} ELSE lists.services
  <2>1. /\ sel'.service = n /\ lists'.services = L
        /\ conf'.services = (conf.services \ {old}) \cup {n}
        /\ renamed' = (renamed \cup {old}) \ {n}
        /\ replaced' = replaced /\ n \notin conf.services
    BY <1>28 DEF RenameService, Following, TypeOK, Configurations
  <2>2. ~replaced /\ L # None => L \subseteq conf'.services \cup renamed'
    BY <2>1 DEF ServiceExists
  <2> HIDE DEF L
  <2>3. QED
    BY <2>1, <2>2 DEF ServiceExists
<1>29. QED
  BY <1>1, <1>2, <1>3, <1>4, <1>5, <1>6, <1>7, <1>8, <1>9, <1>10, <1>11, <1>12, <1>13, <1>14, <1>15, <1>16, <1>17, <1>18, <1>19, <1>20, <1>21, <1>22, <1>23, <1>24, <1>25, <1>26, <1>27, <1>28 DEF Next

\* What the theorems need of the states: the four invariants, and that sets
\* refer to services that are there, without which a selection from a set
\* could be of a service that is not.
Inv == TypeOK /\ Linked /\ Emptied /\ EditsMarked /\ ProtocolOfService /\ ServiceExists

LEMMA InvInit == Init => Inv
<1> SUFFICES ASSUME Init PROVE Inv
  OBVIOUS
<1>1. TypeOK
  <2>1. conf \in Configurations /\ saved \in Configurations
    BY FilesAssumption DEF Init
  <2>2. PrefsType
    BY <2>1 DEF Init, PrefsType
  <2>3. SelType /\ ListsType
    BY <2>1 DEF Init, SelType, ListsType, Configurations
  <2>4. RunType
    BY EditAssumption DEF Init, RunType
  <2>5. QED
    BY <2>2, <2>3, <2>4 DEF TypeOK, PrefsType, SelType, ListsType, RunType
<1>2. Linked
  BY FilesAssumption DEF Init, Linked
<1>3. Emptied /\ EditsMarked /\ ProtocolOfService /\ ServiceExists
  BY DEF Init, Emptied, EditsMarked, ProtocolOfService, ServiceExists
<1>4. QED
  BY <1>1, <1>2, <1>3 DEF Inv

LEMMA InvAlways == Spec => []Inv
<1>1. Inv /\ [Next]_vars => Inv'
  BY TypeStep, LinkedStep, EmptiedStep, MarkedStep, ProtocolStep, ExistsStep DEF Inv
<1>2. QED
  BY InvInit, <1>1, PTL DEF Spec

\* The globals of the editor are well typed after any commands.
THEOREM EditTypes == Spec => []TypeOK
<1>1. Inv => TypeOK
  BY DEF Inv
<1>2. QED
  BY InvAlways, <1>1, PTL

\* No command can leave an edit for close, quit or open to drop without a
\* question, but an update that makes a set and finds nothing to put into it.
THEOREM EditsAlwaysMarked == Spec => []EditsMarked
<1>1. Inv => EditsMarked
  BY DEF Inv
<1>2. QED
  BY InvAlways, <1>1, PTL

\* remove protocol never takes the type from the protocol of one service and
\* removes it from another, whatever was listed and selected before.
THEOREM ProtocolAlwaysOfService == Spec => []ProtocolOfService
<1>1. Inv => ProtocolOfService
  BY DEF Inv
<1>2. QED
  BY InvAlways, <1>1, PTL

\* Neither the selection nor a list outlives the removal of a service.
THEOREM ServiceAlwaysExists == Spec => []ServiceExists
<1>1. Inv => ServiceExists
  BY DEF Inv
<1>2. QED
  BY InvAlways, <1>1, PTL
=============================================================================
