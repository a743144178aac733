-------------------------- MODULE NetConfigProofs ---------------------------
(***************************************************************************)
(* NetConfig implements ServiceStore: the calls that make a service are    *)
(* one step of the store when the last of them returns, or none, and each  *)
(* request of a client is one step.  While a service is made its caller    *)
(* has not seen it, and nothing else changes (Works).  The second part is  *)
(* about configurations that an object holds for its first set (HInv).     *)
(***************************************************************************)
EXTENDS NetConfig, TLAPS

\* What the stored services and the links are.
Types1 ==
    /\ entities \in [Services -> {Absent, Entity(None, FALSE), Entity(None, TRUE)}]
    /\ links \in [Sets -> SUBSET Services]
    /\ proto \in [Services -> Entities]

Stages == {"idle", "name", "enable", "establish", "identify", "current", "join", "sets", "protocols", "copy"}

Jobs == [pc: Stages, op: {"none", "create", "migrate"}, s: Services \cup {None}, todo: SUBSET Sets,
         added: BOOLEAN, want: Sources \cup {None}]

\* Only stored services are linked.
Linked == \A set \in Sets : \A s \in links[set] : Stored(s)

\* What a call that makes a service has done.
Works ==
    /\ job.pc = "idle" => shown = View
    /\ job.pc # "idle" =>
         /\ job.s \in Services /\ Stored(job.s) /\ job.op \in {"create", "migrate"}
         /\ shown = [View EXCEPT ![job.s] = Gone]
         /\ job.added => SetsOf(job.s) # {}
    /\ job.pc \in {"protocols", "copy"} => job.added
    /\ job.pc \in {"enable", "identify", "sets", "protocols", "copy"} => job.op = "migrate"
    /\ job.pc # "idle" /\ job.op = "migrate" => job.want \in Sources

IInv == Types1 /\ job \in Jobs /\ Linked /\ Works

\* No service but s changes.
OnlyFor(s) == \A o \in Services \ {s} :
    /\ entities'[o] = entities[o] /\ proto'[o] = proto[o]
    /\ \A set \in Sets : o \in links'[set] <=> o \in links[set]

-----------------------------------------------------------------------------
(* What is seen of the services. *)

LEMMA EntityParts ==
    ASSUME NEW e \in Entities
    PROVE  /\ e.val \in Contents \cup {None} /\ e.inactive \in BOOLEAN /\ e.there \in BOOLEAN
           /\ e.there => e = Entity(e.val, e.inactive)
           /\ ~e.there => e = Absent
<1>1. CASE e = Absent  BY <1>1 DEF Absent
<1>2. CASE e # Absent
  <2>1. PICK v \in Contents \cup {None}, i \in BOOLEAN : e = Entity(v, i)
        BY <1>2 DEF Entities
  <2>2. e.val = v /\ e.there = TRUE  BY <2>1 DEF Entity
  <2>3. e.inactive = i  BY <2>1 DEF Entity
  <2> QED  BY <2>1, <2>2, <2>3
<1> QED  BY <1>1, <1>2

LEMMA IsEntity == \A v \in Contents \cup {None} : \A i \in BOOLEAN : Entity(v, i) \in Entities
BY DEF Entities

LEMMA SimpleEntity == {Absent, Entity(None, FALSE), Entity(None, TRUE)} \subseteq Entities
<1>1. Absent \in Entities  BY DEF Entities
<1> QED  BY <1>1, IsEntity

LEMMA InitInv == Init => IInv
<1> SUFFICES ASSUME Init PROVE IInv  OBVIOUS
<1>1. Types1  BY DEF Init, Types1, Entities
<1>2. job \in Jobs
  <2>1. job = [pc |-> "idle", op |-> "none", s |-> None, todo |-> {}, added |-> FALSE, want |-> None]
        BY DEF Init, Idle
  <2>2. "idle" \in Stages /\ FALSE \in BOOLEAN /\ {} \in SUBSET Sets  BY DEF Stages
  <2> QED  BY <2>1, <2>2 DEF Jobs, None
<1>3. Linked  BY DEF Init, Linked
<1>4. Works  BY DEF Init, Works, Idle
<1> QED  BY <1>1, <1>2, <1>3, <1>4 DEF IInv

LEMMA SeesSame ==
    ASSUME NEW s, OnlyFor(s), NEW o \in Services \ {s}
    PROVE  View'[o] = View[o]
<1>1. SetsOf(o)' = SetsOf(o)  BY DEF OnlyFor, SetsOf
<1>2. Stored(o)' = Stored(o)  BY DEF OnlyFor, Stored
<1> QED  BY <1>1, <1>2 DEF OnlyFor, View

LEMMA SeesChange ==
    ASSUME NEW s \in Services, OnlyFor(s)
    PROVE  /\ View' = [View EXCEPT ![s] = View'[s]]
           /\ [View' EXCEPT ![s] = Gone] = [View EXCEPT ![s] = Gone]
<1>1. DOMAIN View = Services /\ DOMAIN View' = Services  BY DEF View
<1>2. View = [o \in Services |-> View[o]] /\ View' = [o \in Services |-> View'[o]]  BY DEF View
<1>3. \A o \in Services \ {s} : View'[o] = View[o]  BY SeesSame
<1>4. View' = [View EXCEPT ![s] = View'[s]]  BY <1>1, <1>2, <1>3
<1> QED  BY <1>1, <1>2, <1>3, <1>4

\* What is seen of a service that is stored, and of one that is not.
Seen(sets, e, p) == [sets   |-> sets,  enabled |-> ~e.inactive,
                     config |-> p.val, active  |-> ~p.inactive]

Sees == \A s \in Services :
    /\ Stored(s) => View[s] = Seen(SetsOf(s), entities[s], proto[s])
    /\ Stored(s) => View[s] \in Store!Whole
    /\ ~Stored(s) => View[s] = Gone

LEMMA SeenParts ==
    ASSUME NEW x, NEW e, NEW p
    PROVE  /\ Seen(x, e, p).sets = x
           /\ \A y : [Seen(x, e, p) EXCEPT !.sets = @ \cup {y}] = Seen(x \cup {y}, e, p)
           /\ \A y : [Seen(x, e, p) EXCEPT !.sets = @ \ {y}] = Seen(x \ {y}, e, p)
           /\ \A f : [Seen(x, e, p) EXCEPT !.enabled = ~f.inactive] = Seen(x, f, p)
           /\ \A q : q.val = p.val => [Seen(x, e, p) EXCEPT !.active = ~q.inactive] = Seen(x, e, q)
           /\ \A q : q.inactive = p.inactive => [Seen(x, e, p) EXCEPT !.config = q.val] = Seen(x, e, q)
BY DEF Seen

LEMMA SeesNow == Types1 => Sees
<1> SUFFICES ASSUME Types1, NEW s \in Services
             PROVE  /\ Stored(s) => View[s] = Seen(SetsOf(s), entities[s], proto[s])
                    /\ Stored(s) => View[s] \in Store!Whole
                    /\ ~Stored(s) => View[s] = Gone
    BY DEF Sees
<1>1. proto[s].val \in Contents \cup {None}
      BY EntityParts DEF Types1
<1>2. (~entities[s].inactive) \in BOOLEAN /\ (~proto[s].inactive) \in BOOLEAN  OBVIOUS
<1>3. SetsOf(s) \in SUBSET Sets  BY DEF SetsOf
<1>4. Stored(s) => View[s] = Seen(SetsOf(s), entities[s], proto[s])
      BY DEF View, Seen
<1>5. ~Stored(s) => View[s] = Gone  BY DEF View
<1>6. Stored(s) => View[s] \in Store!Whole
  <2> DEFINE on == ~entities[s].inactive
             act == ~proto[s].inactive
  <2>1. on \in BOOLEAN /\ act \in BOOLEAN  BY <1>2
  <2> HIDE DEF on, act
  <2>2. [sets |-> SetsOf(s), enabled |-> on, config |-> proto[s].val, active |-> act] \in Store!Whole
        BY <2>1, <1>1, <1>3 DEF Store!Whole
  <2> QED  BY <2>2, <1>4 DEF on, act, Seen
<1> QED  BY <1>4, <1>5, <1>6

LEMMA SeesNext == Types1' => Sees'
<1>1. (Types1 => Sees)'  BY SeesNow, PTL
<1> QED  BY <1>1

LEMMA NotGone == ASSUME NEW w \in Store!Whole PROVE w # Gone
BY SourcesAssumption DEF SourcesAssumption, Store!Whole

-----------------------------------------------------------------------------
(* A call goes on, and returns. *)

LEMMA GoesOn ==
    ASSUME IInv, NEW s \in Services, s = job.s, job.pc # "idle", OnlyFor(s),
           Types1', Linked', Stored(s)', shown' = shown,
           job' \in Jobs, job'.pc # "idle", job'.s = s, job'.op = job.op, job'.want = job.want,
           job'.added => SetsOf(s)' # {},
           job'.pc \in {"protocols", "copy"} => job'.added,
           job'.pc \in {"enable", "identify", "sets", "protocols", "copy"} => job.op = "migrate"
    PROVE  IInv' /\ UNCHANGED shown
<1>1. shown' = [View' EXCEPT ![s] = Gone]  BY SeesChange DEF IInv, Works
<1>2. SetsOf(job.s)' = SetsOf(s)' /\ Stored(job.s)' = Stored(s)'  BY DEF SetsOf, Stored
<1>3. Works'  BY <1>1, <1>2 DEF IInv, Works
<1> QED  BY <1>3 DEF IInv

LEMMA IsDone ==
    ASSUME IInv, NEW s \in Services, OnlyFor(s), Types1', Linked', shown' = View',
           \/ job.pc = "idle" /\ UNCHANGED job
           \/ job.pc # "idle" /\ s = job.s /\ job' = Idle
    PROVE  IInv' /\ shown' = [shown EXCEPT ![s] = View'[s]]
<1>1. View' = [View EXCEPT ![s] = View'[s]]  BY SeesChange
<1>2. shown = View \/ shown = [View EXCEPT ![s] = Gone]  BY DEF IInv, Works
<1>3. shown' = [shown EXCEPT ![s] = View'[s]]  BY <1>1, <1>2 DEF View
<1>4. job'.pc = "idle" /\ job' \in Jobs
  <2>1. CASE UNCHANGED job  BY <2>1 DEF IInv, Idle
  <2>2. CASE job' = Idle
    <3>1. "idle" \in Stages /\ FALSE \in BOOLEAN /\ {} \in SUBSET Sets  BY DEF Stages
    <3> QED  BY <2>2, <3>1 DEF Idle, Jobs, None
  <2> QED  BY <2>1, <2>2
<1>5. Works'  BY <1>4 DEF Works
<1> QED  BY <1>3, <1>4, <1>5 DEF IInv

\* What the requests of a client have in common.
LEMMA Answers ==
    ASSUME IInv, NEW s \in Services, Request(s), OnlyFor(s), Types1', Linked', shown' = View'
    PROVE  /\ IInv' /\ shown[s] = View[s] /\ shown[s] # Gone
           /\ shown' = [shown EXCEPT ![s] = View'[s]]
<1>1. job.pc = "idle" /\ UNCHANGED job /\ Stored(s)  BY DEF Request
<1>2. IInv' /\ shown' = [shown EXCEPT ![s] = View'[s]]  BY <1>1, IsDone
<1>3. shown = View  BY <1>1 DEF IInv, Works
<1>4. View[s] \in Store!Whole  BY <1>1, SeesNow DEF Sees, IInv
<1> QED  BY <1>2, <1>3, <1>4, NotGone

\* A call that makes a service returns with the service complete.
LEMMA Adds ==
    ASSUME IInv, NEW s \in Services, s = job.s, job.pc # "idle", Return,
           OnlyFor(s), Types1', Linked', Stored(s)', SetsOf(s)' # {}
    PROVE  IInv' /\ Store!Add(s)
<1>1. IInv' /\ shown' = [shown EXCEPT ![s] = View'[s]]  BY IsDone DEF Return
<1>2. shown[s] = Gone
  <2>1. shown = [View EXCEPT ![s] = Gone]  BY DEF IInv, Works
  <2> QED  BY <2>1 DEF View
<1>3. View'[s] \in Store!Whole /\ View'[s].sets = SetsOf(s)'  BY SeesNext, SeenParts DEF Sees
<1> QED  BY <1>1, <1>2, <1>3 DEF Store!Add

\* It returns with nothing made.
LEMMA Drops ==
    ASSUME IInv, NEW s \in Services, s = job.s, job.pc # "idle", Return,
           OnlyFor(s), Types1', Linked', ~Stored(s)'
    PROVE  IInv' /\ UNCHANGED shown
<1>1. IInv' /\ shown' = [shown EXCEPT ![s] = View'[s]]  BY IsDone DEF Return
<1>2. shown = [View EXCEPT ![s] = Gone]  BY DEF IInv, Works
<1>3. View'[s] = Gone  BY SeesNext DEF Sees
<1> QED  BY <1>1, <1>2, <1>3 DEF View

LEMMA Removes ==
    ASSUME Types1, Linked, NEW s \in Services, Remove(s)
    PROVE  OnlyFor(s) /\ Types1' /\ Linked' /\ ~Stored(s)'
<1>1. Absent \in Entities  BY DEF Entities
<1>2. Types1'  BY <1>1 DEF Types1, Remove
<1>3. OnlyFor(s)  BY DEF OnlyFor, Remove, Types1
<1>4. ~Stored(s)'  BY DEF Stored, Remove, Types1, Absent
<1>5. Linked'  BY DEF Linked, Stored, Remove, Types1
<1> QED  BY <1>2, <1>3, <1>4, <1>5

LEMMA Joins ==
    ASSUME Types1, Linked, NEW s \in Services, Stored(s), NEW set \in Sets, Join(set, s),
           UNCHANGED <<entities, proto>>
    PROVE  /\ OnlyFor(s) /\ Types1' /\ Linked' /\ Stored(s)'
           /\ SetsOf(s)' = SetsOf(s) \cup {set}
<1>1. links' = [links EXCEPT ![set] = @ \cup {s}]  BY DEF Join
<1>2. Types1'  BY <1>1 DEF Types1
<1>3. OnlyFor(s)  BY <1>1 DEF OnlyFor, Types1
<1>4. Stored(s)'  BY DEF Stored
<1>5. Linked'  BY <1>1 DEF Linked, Stored, Types1
<1>6. SetsOf(s)' = SetsOf(s) \cup {set}  BY <1>1 DEF SetsOf, Types1
<1> QED  BY <1>2, <1>3, <1>4, <1>5, <1>6

LEMMA GivesUp ==
    ASSUME IInv, job.pc # "idle", GiveUp
    PROVE  IInv' /\ UNCHANGED shown
<1>1. PICK s \in Services : s = job.s  BY DEF IInv, Works
<1>2. OnlyFor(s) /\ Types1' /\ Linked' /\ ~Stored(s)'  BY <1>1, Removes DEF IInv, GiveUp
<1> QED  BY <1>1, <1>2, Drops DEF GiveUp

\* Nothing of the services changes.
LEMMA Stands ==
    ASSUME IInv, NEW s \in Services, UNCHANGED <<entities, links, proto>>
    PROVE  OnlyFor(s) /\ Types1' /\ Linked' /\ Stored(s)' = Stored(s) /\ SetsOf(s)' = SetsOf(s)
BY DEF IInv, OnlyFor, Types1, Linked, Stored, SetsOf

-----------------------------------------------------------------------------
(* The requests of clients. *)

LEMMA ConfiguresInterface ==
    ASSUME IInv, NEW s \in Services, ConfigureInterface(s)
    PROVE  IInv' /\ UNCHANGED shown
<1>1. Request(s) /\ shown' = View' /\ UNCHANGED <<entities, links, proto>>  BY DEF ConfigureInterface
<1>2. OnlyFor(s) /\ Types1' /\ Linked' /\ Stored(s)' = Stored(s) /\ SetsOf(s)' = SetsOf(s)
      BY <1>1, Stands
<1>3. IInv' /\ shown[s] = View[s] /\ shown' = [shown EXCEPT ![s] = View'[s]]
      BY <1>1, <1>2, Answers
<1>4. View'[s] = View[s]
      BY <1>1, <1>2, SeesNow, SeesNext DEF Sees, IInv, Request
<1>5. shown' = [o \in Services |-> shown'[o]] /\ shown = [o \in Services |-> shown[o]]
      BY <1>1 DEF IInv, Works, View, Request
<1> QED  BY <1>3, <1>4, <1>5

LEMMA AddsToSet ==
    ASSUME IInv, NEW s \in Services, AddToSet(s)
    PROVE  IInv' /\ Store!Join(s)
<1>1. PICK set \in Sets : Join(set, s)  BY DEF AddToSet
<1>2. Request(s) /\ shown' = View' /\ UNCHANGED <<entities, proto>>  BY DEF AddToSet
<1>3. /\ OnlyFor(s) /\ Types1' /\ Linked' /\ Stored(s)'
      /\ SetsOf(s)' = SetsOf(s) \cup {set}
      BY <1>1, <1>2, Joins DEF Request, IInv
<1>4. /\ IInv' /\ shown[s] = View[s] /\ shown[s] # Gone
      /\ shown' = [shown EXCEPT ![s] = View'[s]]
      BY <1>2, <1>3, Answers
<1>5. View'[s] = [View[s] EXCEPT !.sets = @ \cup {set}]
  <2>1. View[s] = Seen(SetsOf(s), entities[s], proto[s])
        BY <1>2, SeesNow DEF Sees, IInv, Request
  <2>2. View'[s] = Seen(SetsOf(s) \cup {set}, entities[s], proto[s])
        BY <1>2, <1>3, SeesNext DEF Sees
  <2>3. [Seen(SetsOf(s), entities[s], proto[s]) EXCEPT !.sets = @ \cup {set}]
          = Seen(SetsOf(s) \cup {set}, entities[s], proto[s])
        BY DEF Seen
  <2> QED  BY <2>1, <2>2, <2>3
<1> QED  BY <1>4, <1>5 DEF Store!Join, Store!Become

LEMMA LeavesSet ==
    ASSUME IInv, NEW s \in Services, RemoveFromSet(s)
    PROVE  IInv' /\ Store!Leave(s)
<1>1. PICK set \in Sets : links' = [links EXCEPT ![set] = @ \ {s}]  BY DEF RemoveFromSet, SetsOf
<1>2. Request(s) /\ shown' = View' /\ UNCHANGED <<entities, proto>>  BY DEF RemoveFromSet
<1>3. OnlyFor(s) /\ Types1' /\ Linked' /\ Stored(s)'
      BY <1>1, <1>2 DEF IInv, OnlyFor, Types1, Linked, Stored, Request
<1>4. SetsOf(s)' = SetsOf(s) \ {set}  BY <1>1 DEF SetsOf, IInv, Types1
<1>5. /\ IInv' /\ shown[s] = View[s] /\ shown[s] # Gone
      /\ shown' = [shown EXCEPT ![s] = View'[s]]
      BY <1>2, <1>3, Answers
<1>6. View'[s] = [View[s] EXCEPT !.sets = @ \ {set}]
  <2>1. View[s] = Seen(SetsOf(s), entities[s], proto[s])
        BY <1>2, SeesNow DEF Sees, IInv, Request
  <2>2. View'[s] = Seen(SetsOf(s) \ {set}, entities[s], proto[s])
        BY <1>2, <1>3, <1>4, SeesNext DEF Sees
  <2>3. [Seen(SetsOf(s), entities[s], proto[s]) EXCEPT !.sets = @ \ {set}]
          = Seen(SetsOf(s) \ {set}, entities[s], proto[s])
        BY DEF Seen
  <2> QED  BY <2>1, <2>2, <2>3
<1> QED  BY <1>5, <1>6 DEF Store!Leave, Store!Become

LEMMA RemovesService ==
    ASSUME IInv, NEW s \in Services, RemoveService(s)
    PROVE  IInv' /\ Store!Remove(s)
<1>1. Request(s) /\ Remove(s) /\ shown' = View'  BY DEF RemoveService
<1>2. OnlyFor(s) /\ Types1' /\ Linked' /\ ~Stored(s)'  BY <1>1, Removes DEF IInv
<1>3. IInv' /\ shown[s] # Gone /\ shown' = [shown EXCEPT ![s] = View'[s]]
      BY <1>1, <1>2, Answers
<1>4. View'[s] = Gone  BY <1>2, SeesNext DEF Sees
<1> QED  BY <1>3, <1>4 DEF Store!Remove

LEMMA Enables ==
    ASSUME NEW e \in Entities, NEW b \in BOOLEAN
    PROVE  /\ SetEnabled(e, b) \in Entities
           /\ SetEnabled(e, b).val = e.val /\ SetEnabled(e, b).inactive \in BOOLEAN
           /\ e.there => SetEnabled(e, b).there
           /\ e \in {Absent, Entity(None, FALSE), Entity(None, TRUE)} =>
                SetEnabled(e, b) \in {Absent, Entity(None, FALSE), Entity(None, TRUE)}
<1>1. CASE e.there
  <2>1. SetEnabled(e, b) = Entity(e.val, ~b)  BY <1>1 DEF SetEnabled
  <2>2. Entity(e.val, ~b) \in Entities
    <3>1. e.val \in Contents \cup {None}  BY EntityParts
    <3>2. Entity(e.val, ~b) = Entity(e.val, TRUE) \/ Entity(e.val, ~b) = Entity(e.val, FALSE)
          BY DEF Entity
    <3> QED  BY <3>1, <3>2, IsEntity
  <2>3. /\ Entity(e.val, ~b).val = e.val /\ Entity(e.val, ~b).there
        /\ Entity(e.val, ~b).inactive \in BOOLEAN
        BY DEF Entity
  <2>4. e \in {Absent, Entity(None, FALSE), Entity(None, TRUE)} => e.val = None
        BY DEF Absent, Entity
  <2>5. (~b) = TRUE \/ (~b) = FALSE  OBVIOUS
  <2> QED  BY <2>1, <2>2, <2>3, <2>4, <2>5
<1>2. CASE ~e.there
  <2>1. e = Absent  BY <1>2, EntityParts
  <2>2. Absent.val = None /\ Entity(None, TRUE).val = None  BY DEF Absent, Entity
  <2>3. Absent.inactive \in BOOLEAN /\ Entity(None, TRUE).inactive \in BOOLEAN  BY DEF Absent, Entity
  <2>4. SetEnabled(e, b) \in {Absent, Entity(None, TRUE)}  BY <1>2 DEF SetEnabled
  <2>5. Entity(None, TRUE) \in Entities /\ Absent \in Entities  BY SimpleEntity
  <2> QED  BY <1>2, <2>1, <2>2, <2>3, <2>4, <2>5
<1> QED  BY <1>1, <1>2

LEMMA EnablesService ==
    ASSUME IInv, NEW s \in Services, EnableService(s)
    PROVE  IInv' /\ Store!Enable(s)
<1>1. PICK b \in BOOLEAN : entities' = [entities EXCEPT ![s] = SetEnabled(@, b)]  BY DEF EnableService
<1>2. Request(s) /\ shown' = View' /\ UNCHANGED <<links, proto>>  BY DEF EnableService
<1>3. entities[s] \in Entities /\ entities'[s] = SetEnabled(entities[s], b)
      BY <1>1, SimpleEntity DEF IInv, Types1
<1>4. Types1'  BY <1>1, <1>2, <1>3, Enables DEF IInv, Types1
<1>5. Stored(s)'  BY <1>2, <1>3, Enables DEF Stored, Request
<1>6. OnlyFor(s) /\ Linked' /\ SetsOf(s)' = SetsOf(s)
      BY <1>1, <1>2, <1>5 DEF IInv, OnlyFor, Types1, Linked, Stored, SetsOf
<1>7. /\ IInv' /\ shown[s] = View[s] /\ shown[s] # Gone
      /\ shown' = [shown EXCEPT ![s] = View'[s]]
      BY <1>2, <1>4, <1>6, Answers
<1>8. View'[s] = [View[s] EXCEPT !.enabled = ~entities'[s].inactive]
  <2>1. View[s] = Seen(SetsOf(s), entities[s], proto[s])
        BY <1>2, SeesNow DEF Sees, IInv, Request
  <2>2. View'[s] = Seen(SetsOf(s), entities'[s], proto[s])
        BY <1>2, <1>4, <1>5, <1>6, SeesNext DEF Sees
  <2> QED  BY <2>1, <2>2 DEF Seen
<1>9. (~entities'[s].inactive) \in BOOLEAN  OBVIOUS
<1> QED  BY <1>7, <1>8, <1>9 DEF Store!Enable, Store!Become

LEMMA EditsProtocol ==
    ASSUME IInv, NEW s \in Services, EditProtocol(s)
    PROVE  IInv' /\ (Store!Configure(s) \/ Store!Activate(s))
<1>1. Request(s) /\ shown' = View' /\ UNCHANGED <<entities, links>>  BY DEF EditProtocol
<1>2. proto[s] \in Entities  BY DEF IInv, Types1
<1> DEFINE News == {Entity(v, i) : v \in Values \cup {None}, i \in BOOLEAN}
<1>a. \/ \E b \in BOOLEAN : proto' = [proto EXCEPT ![s] = SetEnabled(proto[s], b)]
      \/ \E new \in News : proto' = [proto EXCEPT ![s] = SetProtocol(proto[s], new)]
      BY DEF EditProtocol
<1>b. \A new \in News : \E v \in Values \cup {None} : \E i \in BOOLEAN : new = Entity(v, i)
      OBVIOUS
<1> HIDE DEF News
<1>3. PICK q : /\ proto' = [proto EXCEPT ![s] = q] /\ q \in Entities
               /\ q.val = proto[s].val \/ q.inactive = proto[s].inactive
  <2>1. CASE \E b \in BOOLEAN : proto' = [proto EXCEPT ![s] = SetEnabled(proto[s], b)]
        BY <2>1, <1>2, Enables
  <2>2. CASE \E new \in News : proto' = [proto EXCEPT ![s] = SetProtocol(proto[s], new)]
    <3>0. PICK new \in News : proto' = [proto EXCEPT ![s] = SetProtocol(proto[s], new)]  BY <2>2
    <3>1. PICK v \in Values \cup {None}, i \in BOOLEAN : new = Entity(v, i)  BY <1>b
    <3>2. SetProtocol(proto[s], Entity(v, i)) = Entity(v, proto[s].inactive)  BY DEF SetProtocol, Entity
    <3>3. Entity(v, proto[s].inactive) \in Entities  BY <1>2, EntityParts, IsEntity DEF Contents
    <3>4. Entity(v, proto[s].inactive).inactive = proto[s].inactive  BY DEF Entity
    <3> QED  BY <3>0, <3>1, <3>2, <3>3, <3>4
  <2> QED  BY <2>1, <2>2, <1>a
<1>4. Types1' /\ proto'[s] = q  BY <1>1, <1>3 DEF IInv, Types1
<1>5. OnlyFor(s) /\ Linked' /\ Stored(s)' /\ SetsOf(s)' = SetsOf(s)
      BY <1>1, <1>3 DEF IInv, OnlyFor, Types1, Linked, Stored, SetsOf, Request
<1>6. /\ IInv' /\ shown[s] = View[s] /\ shown[s] # Gone
      /\ shown' = [shown EXCEPT ![s] = View'[s]]
      BY <1>1, <1>4, <1>5, Answers
<1>7. View[s] = Seen(SetsOf(s), entities[s], proto[s])
      BY <1>1, SeesNow DEF Sees, IInv, Request
<1>8. View'[s] = Seen(SetsOf(s), entities[s], q)
      BY <1>1, <1>4, <1>5, SeesNext DEF Sees
<1>9. CASE q.val = proto[s].val
  <2>1. View'[s] = [View[s] EXCEPT !.active = ~q.inactive]  BY <1>7, <1>8, <1>9 DEF Seen
  <2>2. (~q.inactive) \in BOOLEAN  OBVIOUS
  <2> QED  BY <1>6, <2>1, <2>2 DEF Store!Activate, Store!Become
<1>10. CASE q.inactive = proto[s].inactive
  <2>1. View'[s] = [View[s] EXCEPT !.config = q.val]  BY <1>7, <1>8, <1>10 DEF Seen
  <2>2. q.val \in Contents \cup {None}  BY <1>3, EntityParts
  <2> QED  BY <1>6, <2>1, <2>2 DEF Store!Configure, Store!Become
<1> QED  BY <1>3, <1>9, <1>10

-----------------------------------------------------------------------------
(* The calls that make a service. *)

LEMMA NothingHappens ==
    ASSUME IInv, UNCHANGED <<entities, links, proto, job, shown>>
    PROVE  IInv' /\ UNCHANGED shown
<1>1. Types1' /\ Linked'  BY DEF IInv, Types1, Linked, Stored
<1>2. View' = View /\ SetsOf(job.s)' = SetsOf(job.s) /\ Stored(job.s)' = Stored(job.s)
      BY DEF View, SetsOf, Stored
<1>3. Works'  BY <1>2 DEF IInv, Works
<1> QED  BY <1>1, <1>3 DEF IInv

LEMMA Begins ==
    ASSUME IInv, NEW s \in Services, NEW op \in {"create", "migrate"},
           NEW pc \in Stages \ {"idle", "identify", "sets", "protocols", "copy"}, NEW want \in Sources \cup {None},
           pc = "enable" => op = "migrate", op = "migrate" => want \in Sources, Begin(op, s, pc, want)
    PROVE  IInv' /\ UNCHANGED shown
<1>1. CASE UNCHANGED <<store, job, shown>>  BY <1>1, NothingHappens DEF store
<1>2. CASE /\ Create(s) /\ UNCHANGED shown
           /\ job' = [pc |-> pc, op |-> op, s |-> s, want |-> want, added |-> FALSE,
                      todo |-> IF op = "create" THEN {} ELSE want.sets]
  <2>1. job.pc = "idle" /\ ~Stored(s)  BY DEF Begin
  <2>2. /\ entities' = [entities EXCEPT ![s] = Entity(None, FALSE)]
        /\ UNCHANGED <<links, proto>>
        BY <1>2 DEF Create
  <2>3. Types1'  BY <2>2 DEF IInv, Types1
  <2>4. OnlyFor(s)  BY <2>2 DEF IInv, Types1, OnlyFor
  <2>5. Stored(s)'  BY <2>2 DEF IInv, Types1, Stored, Entity
  <2>6. Linked'  BY <2>2, <2>5 DEF IInv, Types1, Linked, Stored
  <2>7. shown' = [View' EXCEPT ![s] = Gone]
    <3>1. shown = View  BY <2>1 DEF IInv, Works
    <3>2. View[s] = Gone  BY <2>1 DEF View
    <3>3. [View EXCEPT ![s] = Gone] = View  BY <3>2 DEF View
    <3> QED  BY <3>1, <3>3, <1>2, <2>4, SeesChange
  <2>8. job' \in Jobs
    <3>1. (IF op = "create" THEN {} ELSE want.sets) \in SUBSET Sets
          BY SourcesAssumption DEF SourcesAssumption
    <3>2. FALSE \in BOOLEAN  OBVIOUS
    <3> QED  BY <1>2, <3>1, <3>2 DEF Jobs
  <2>9. Works'
    <3>1. job'.s = s /\ job'.pc = pc /\ job'.op = op /\ job'.want = want /\ ~job'.added  BY <1>2
    <3>2. Stored(job.s)'  BY <2>5, <3>1 DEF Stored
    <3> QED  BY <2>7, <3>1, <3>2 DEF Works
  <2> QED  BY <1>2, <2>3, <2>6, <2>8, <2>9 DEF IInv
<1> QED  BY <1>1, <1>2 DEF Begin

LEMMA Went ==
    ASSUME job \in Jobs, NEW pc \in Stages, Goto(pc)
    PROVE  /\ job' \in Jobs /\ job'.pc = pc /\ UNCHANGED shown
           /\ job'.s = job.s /\ job'.op = job.op /\ job'.want = job.want /\ job'.added = job.added
BY DEF Goto, Jobs

\* A step after which the services and their sets are as before.
LEMMA GoesQuietly ==
    ASSUME IInv, job.pc # "idle", UNCHANGED <<entities, links, proto>>, NEW pc \in Stages \ {"idle"},
           Goto(pc), pc \in {"protocols", "copy"} => job.added,
           pc \in {"enable", "identify", "sets", "protocols", "copy"} => job.op = "migrate"
    PROVE  IInv' /\ UNCHANGED shown
<1>1. PICK s \in Services : s = job.s  BY DEF IInv, Works
<1>2. OnlyFor(s) /\ Types1' /\ Linked' /\ Stored(s)' = Stored(s) /\ SetsOf(s)' = SetsOf(s)
      BY Stands
<1>3. Stored(s) /\ (job.added => SetsOf(s) # {})  BY <1>1 DEF IInv, Works
<1>4. /\ job' \in Jobs /\ job'.pc = pc /\ UNCHANGED shown
      /\ job'.s = job.s /\ job'.op = job.op /\ job'.want = job.want /\ job'.added = job.added
      BY Went DEF IInv
<1> QED  BY <1>1, <1>2, <1>3, <1>4, GoesOn

LEMMA Names == ASSUME IInv, SetName PROVE IInv' /\ UNCHANGED shown
<1>1. CASE GiveUp  BY <1>1, GivesUp DEF SetName
<1>2. CASE Goto("establish") /\ UNCHANGED store
      BY <1>2, GoesQuietly DEF SetName, store, Stages
<1> QED  BY <1>1, <1>2 DEF SetName

LEMMA EnablesNew == ASSUME IInv, EnableNew PROVE IInv' /\ UNCHANGED shown
<1>1. CASE GiveUp  BY <1>1, GivesUp DEF EnableNew
<1>2. CASE /\ entities' = [entities EXCEPT ![job.s] = SetEnabled(@, job.want.enabled)]
           /\ Goto("establish") /\ UNCHANGED <<links, proto>>
  <2>1. PICK s \in Services : s = job.s  BY DEF IInv, Works, EnableNew
  <2>2. job.want.enabled \in BOOLEAN
        BY SourcesAssumption DEF SourcesAssumption, IInv, Works, EnableNew
  <2>3. entities[s] \in Entities /\ entities[s].there
        BY <2>1, SimpleEntity DEF IInv, Types1, Works, Stored, EnableNew
  <2>4. entities' = [entities EXCEPT ![s] = SetEnabled(entities[s], job.want.enabled)]  BY <1>2, <2>1
  <2>5. Types1'  BY <1>2, <2>2, <2>3, <2>4, Enables DEF IInv, Types1
  <2>6. Stored(s)'  BY <2>2, <2>3, <2>4, Enables DEF IInv, Types1, Stored
  <2>7. OnlyFor(s) /\ Linked' /\ SetsOf(s)' = SetsOf(s)
        BY <1>2, <2>4, <2>6 DEF IInv, OnlyFor, Types1, Linked, Stored, SetsOf
  <2>8. job.added => SetsOf(s) # {}  BY <2>1 DEF IInv, Works, EnableNew
  <2>9. "establish" \in Stages  BY DEF Stages
  <2>10. /\ job' \in Jobs /\ job'.pc = "establish" /\ UNCHANGED shown
         /\ job'.s = job.s /\ job'.op = job.op /\ job'.want = job.want /\ job'.added = job.added
         BY <1>2, <2>9, Went DEF IInv
  <2>11. job.pc # "idle"  BY DEF EnableNew
  <2> QED  BY <2>1, <2>5, <2>6, <2>7, <2>8, <2>10, <2>11, GoesOn
<1> QED  BY <1>1, <1>2 DEF EnableNew

\* The protocol of the service that is made becomes another.
LEMMA SetsProtocol ==
    ASSUME IInv, job.pc # "idle", NEW pc \in Stages \ {"idle"}, Goto(pc),
           NEW q \in Entities, proto' = [proto EXCEPT ![job.s] = q], UNCHANGED <<entities, links>>,
           pc \in {"protocols", "copy"} => job.added,
           pc \in {"enable", "identify", "sets", "protocols", "copy"} => job.op = "migrate"
    PROVE  IInv' /\ UNCHANGED shown
<1>1. PICK s \in Services : s = job.s  BY DEF IInv, Works
<1>2. Types1'  BY DEF IInv, Types1
<1>3. OnlyFor(s) /\ Linked' /\ Stored(s)' = Stored(s) /\ SetsOf(s)' = SetsOf(s)
      BY <1>1 DEF IInv, OnlyFor, Types1, Linked, Stored, SetsOf
<1>4. Stored(s) /\ (job.added => SetsOf(s) # {})  BY <1>1 DEF IInv, Works
<1>5. /\ job' \in Jobs /\ job'.pc = pc /\ UNCHANGED shown
      /\ job'.s = job.s /\ job'.op = job.op /\ job'.want = job.want /\ job'.added = job.added
      BY Went DEF IInv
<1> QED  BY <1>1, <1>2, <1>3, <1>4, <1>5, GoesOn

LEMMA Establishes == ASSUME IInv, Establish PROVE IInv' /\ UNCHANGED shown
<1>1. CASE GiveUp  BY <1>1, GivesUp DEF Establish
<1>2. CASE ~GiveUp
  <2>1. /\ proto' = [proto EXCEPT ![job.s] = Entity(Init0, FALSE)] /\ UNCHANGED <<entities, links>>
        /\ Goto(IF job.op = "create" THEN "current" ELSE "identify")
        BY <1>2 DEF Establish
  <2>2. Entity(Init0, FALSE) \in Entities  BY IsEntity DEF Contents
  <2>3. job.op \in {"create", "migrate"}
        BY DEF IInv, Works, Establish
  <2> DEFINE pc == IF job.op = "create" THEN "current" ELSE "identify"
  <2>4. pc \in Stages \ {"idle", "protocols", "copy", "enable", "sets"} /\ (pc = "identify" => job.op = "migrate")
        BY <2>3 DEF Stages
  <2>5. Goto(pc) /\ job.pc # "idle"  BY <2>1 DEF Establish
  <2> HIDE DEF pc
  <2> QED  BY <2>1, <2>2, <2>4, <2>5, SetsProtocol
<1> QED  BY <1>1, <1>2

LEMMA Identifies == ASSUME IInv, SetServiceID PROVE IInv' /\ UNCHANGED shown
<1>1. Goto("sets") /\ job.pc = "identify" /\ UNCHANGED <<entities, links, proto>>
      BY DEF SetServiceID, store
<1>2. job.op = "migrate" /\ "sets" \in Stages \ {"idle"}  BY <1>1 DEF IInv, Works, Stages
<1> QED  BY <1>1, <1>2, GoesQuietly

LEMMA AddsProtocol == ASSUME IInv, AddProtocol PROVE IInv' /\ UNCHANGED shown
<1>1. job.added /\ job.op = "migrate" /\ job.want \in Sources  BY DEF IInv, Works, AddProtocol
<1>2. Goto("copy") /\ UNCHANGED <<entities, links>> /\ job.pc # "idle" /\ "copy" \in Stages \ {"idle"}
      BY DEF AddProtocol, Stages
<1>3. CASE UNCHANGED proto  BY <1>1, <1>2, <1>3, GoesQuietly
<1>4. CASE proto' = [proto EXCEPT ![job.s] =
                IF job.want.proto.there
                THEN SetEnabled(SetProtocol(@, job.want.proto), ~job.want.proto.inactive) ELSE @]
  <2> DEFINE e == proto[job.s]
             w == job.want.proto
             q == IF w.there THEN SetEnabled(SetProtocol(e, w), ~w.inactive) ELSE e
  <2>1. e \in Entities  BY DEF IInv, Types1, Works, AddProtocol
  <2>2. w \in Entities  BY <1>1, SourcesAssumption DEF SourcesAssumption
  <2>3. SetProtocol(e, w) \in Entities
        BY <2>1, <2>2, EntityParts, IsEntity DEF SetProtocol
  <2>4. (~w.inactive) \in BOOLEAN  OBVIOUS
  <2>5. SetEnabled(SetProtocol(e, w), ~w.inactive) \in Entities
        BY <2>3, <2>4, Enables
  <2>6. q \in Entities  BY <2>1, <2>5
  <2>7. proto' = [proto EXCEPT ![job.s] = q]  BY <1>4
  <2> QED  BY <1>1, <1>2, <2>6, <2>7, SetsProtocol
<1> QED  BY <1>3, <1>4 DEF AddProtocol

LEMMA RemovesMade ==
    ASSUME IInv, job.pc # "idle", Remove(job.s), Return
    PROVE  IInv' /\ UNCHANGED shown
<1>1. PICK s \in Services : s = job.s  BY DEF IInv, Works
<1>2. OnlyFor(s) /\ Types1' /\ Linked' /\ ~Stored(s)'  BY <1>1, Removes DEF IInv
<1> QED  BY <1>1, <1>2, Drops

LEMMA LooksUpSet == ASSUME IInv, CurrentSet PROVE IInv' /\ UNCHANGED shown
<1>1. CASE Remove(job.s) /\ Return  BY <1>1, RemovesMade DEF CurrentSet
<1>2. CASE ~(Remove(job.s) /\ Return)
  <2>1. PICK set \in Sets : job' = [job EXCEPT !.pc = "join", !.todo = {set}]
        BY <1>2 DEF CurrentSet
  <2>2. UNCHANGED <<entities, links, proto, shown>>  BY <1>2 DEF CurrentSet, store
  <2>3. PICK s \in Services : s = job.s  BY DEF IInv, Works, CurrentSet
  <2>4. OnlyFor(s) /\ Types1' /\ Linked' /\ Stored(s)' = Stored(s) /\ SetsOf(s)' = SetsOf(s)
        BY <2>2, Stands
  <2>5. Stored(s) /\ (job.added => SetsOf(s) # {})  BY <2>3 DEF IInv, Works, CurrentSet
  <2>6. "join" \in Stages /\ {set} \in SUBSET Sets /\ job \in Jobs  BY DEF Stages, IInv
  <2>7. /\ job' \in Jobs /\ job'.pc = "join" /\ job'.s = job.s /\ job'.op = job.op
        /\ job'.want = job.want /\ job'.added = job.added
        BY <2>1, <2>6 DEF Jobs
  <2>8. job.pc # "idle"  BY DEF CurrentSet
  <2> QED  BY <2>2, <2>3, <2>4, <2>5, <2>7, <2>8, GoesOn
<1> QED  BY <1>1, <1>2

LEMMA JoinsCurrent ==
    ASSUME IInv, JoinCurrent
    PROVE  IInv' /\ \E s \in Services : Store!Add(s)
<1>1. PICK s \in Services : s = job.s  BY DEF IInv, Works, JoinCurrent
<1>2. PICK set \in Sets : Join(set, s)  BY <1>1 DEF JoinCurrent, IInv, Jobs
<1>3. UNCHANGED <<entities, proto>> /\ Return /\ job.pc # "idle"  BY DEF JoinCurrent
<1>4. Stored(s)  BY <1>1, <1>3 DEF IInv, Works
<1>5. /\ OnlyFor(s) /\ Types1' /\ Linked' /\ Stored(s)'
      /\ SetsOf(s)' = SetsOf(s) \cup {set}
      BY <1>2, <1>3, <1>4, Joins DEF IInv
<1>6. SetsOf(s)' # {}  BY <1>5
<1> QED  BY <1>1, <1>3, <1>5, <1>6, Adds

LEMMA JoinsMapped == ASSUME IInv, JoinMapped PROVE IInv' /\ UNCHANGED shown
<1>1. PICK s \in Services : s = job.s  BY DEF IInv, Works, JoinMapped
<1>2. /\ UNCHANGED <<entities, proto, shown>> /\ job.pc = "sets" /\ job.op = "migrate"
      /\ job.todo \in SUBSET Sets
      BY DEF JoinMapped, IInv, Works, Jobs
<1>3. Stored(s) /\ (job.added => SetsOf(s) # {})  BY <1>1, <1>2 DEF IInv, Works
<1>4. PICK set \in job.todo :
        \/ /\ Join(set, s)
           /\ job' = [job EXCEPT !.todo = @ \ {set}, !.added = TRUE]
        \/ /\ UNCHANGED links
           /\ job' = [job EXCEPT !.todo = @ \ {set}]
      BY <1>1 DEF JoinMapped
<1>5. CASE Join(set, s) /\ job' = [job EXCEPT !.todo = @ \ {set}, !.added = TRUE]
  <2>1. /\ OnlyFor(s) /\ Types1' /\ Linked' /\ Stored(s)'
        /\ SetsOf(s)' = SetsOf(s) \cup {set}
        BY <1>2, <1>3, <1>5, Joins DEF IInv
  <2>2. TRUE \in BOOLEAN /\ job.todo \ {set} \in SUBSET Sets  BY <1>2
  <2>3. /\ job' \in Jobs /\ job'.pc = "sets" /\ job'.s = job.s /\ job'.op = job.op
        /\ job'.want = job.want
        BY <1>2, <1>5, <2>2 DEF Jobs, IInv
  <2>4. SetsOf(s)' # {}  BY <2>1
  <2> QED  BY <1>1, <1>2, <2>1, <2>3, <2>4, GoesOn
<1>6. CASE UNCHANGED links /\ job' = [job EXCEPT !.todo = @ \ {set}]
  <2>1. OnlyFor(s) /\ Types1' /\ Linked' /\ Stored(s)' = Stored(s) /\ SetsOf(s)' = SetsOf(s)
        BY <1>2, <1>6, Stands
  <2>2. job.todo \ {set} \in SUBSET Sets  BY <1>2
  <2>3. /\ job' \in Jobs /\ job'.pc = "sets" /\ job'.s = job.s /\ job'.op = job.op
        /\ job'.want = job.want /\ job'.added = job.added
        BY <1>2, <1>6, <2>2 DEF Jobs, IInv
  <2> QED  BY <1>1, <1>2, <1>3, <2>1, <2>3, GoesOn
<1> QED  BY <1>4, <1>5, <1>6

LEMMA EndsJoining == ASSUME IInv, Joined PROVE IInv' /\ UNCHANGED shown
<1>1. CASE job.added /\ Goto("protocols") /\ UNCHANGED store
  <2>1. "protocols" \in Stages \ {"idle"} /\ job.pc # "idle" /\ job.op = "migrate"
        BY DEF Stages, Joined, IInv, Works
  <2>2. UNCHANGED <<entities, links, proto>>  BY <1>1 DEF store
  <2> QED  BY <1>1, <2>1, <2>2, GoesQuietly
<1>2. CASE Remove(job.s) /\ Return  BY <1>2, RemovesMade DEF Joined
<1> QED  BY <1>1, <1>2 DEF Joined

LEMMA CopiesInterface ==
    ASSUME IInv, CopyInterface
    PROVE  IInv' /\ \E s \in Services : Store!Add(s)
<1>1. PICK s \in Services : s = job.s  BY DEF IInv, Works, CopyInterface
<1>2. UNCHANGED <<entities, links, proto>> /\ Return /\ job.pc # "idle"  BY DEF CopyInterface
<1>3. Stored(s) /\ SetsOf(s) # {}  BY <1>1 DEF IInv, Works, CopyInterface
<1>4. OnlyFor(s) /\ Types1' /\ Linked' /\ Stored(s)' = Stored(s) /\ SetsOf(s)' = SetsOf(s)
      BY <1>2, Stands
<1> QED  BY <1>1, <1>2, <1>3, <1>4, Adds

-----------------------------------------------------------------------------
(* Every step of NetConfig is one of the store, or none. *)

LEMMA Step == IInv /\ [Next]_vars => IInv' /\ [Store!Next]_shown
<1> SUFFICES ASSUME IInv, [Next]_vars PROVE IInv' /\ [Store!Next]_shown  OBVIOUS
<1>1. ASSUME NEW s \in Services, BeginCreate(s) PROVE IInv' /\ UNCHANGED shown
      BY <1>1, Begins DEF BeginCreate, Stages
<1>2. ASSUME NEW s \in Services, BeginMigrate(s) PROVE IInv' /\ UNCHANGED shown
      BY <1>2, Begins DEF BeginMigrate, Stages
<1>3. ASSUME NEW s \in Services, ConfigureInterface(s) PROVE IInv' /\ UNCHANGED shown
      BY <1>3, ConfiguresInterface
<1>4. ASSUME NEW s \in Services, AddToSet(s) PROVE IInv' /\ Store!Next
      BY <1>4, AddsToSet DEF Store!Next
<1>5. ASSUME NEW s \in Services, RemoveFromSet(s) PROVE IInv' /\ Store!Next
      BY <1>5, LeavesSet DEF Store!Next
<1>6. ASSUME NEW s \in Services, RemoveService(s) PROVE IInv' /\ Store!Next
      BY <1>6, RemovesService DEF Store!Next
<1>7. ASSUME NEW s \in Services, EnableService(s) PROVE IInv' /\ Store!Next
      BY <1>7, EnablesService DEF Store!Next
<1>8. ASSUME NEW s \in Services, EditProtocol(s) PROVE IInv' /\ Store!Next
      BY <1>8, EditsProtocol DEF Store!Next
<1>9. CASE SetName      BY <1>9, Names
<1>10. CASE EnableNew   BY <1>10, EnablesNew
<1>11. CASE Establish   BY <1>11, Establishes
<1>12. CASE CurrentSet  BY <1>12, LooksUpSet
<1>13. CASE JoinCurrent  BY <1>13, JoinsCurrent DEF Store!Next
<1>14. CASE JoinRefused  BY <1>14, GivesUp DEF JoinRefused
<1>15. CASE JoinMapped  BY <1>15, JoinsMapped
<1>16. CASE Joined      BY <1>16, EndsJoining
<1>17. CASE AddProtocol  BY <1>17, AddsProtocol
<1>18. CASE CopyInterface  BY <1>18, CopiesInterface DEF Store!Next
<1>19. CASE UNCHANGED vars  BY <1>19, NothingHappens DEF vars, store
<1>20. CASE SetServiceID  BY <1>20, Identifies
<1> QED  BY <1>1, <1>2, <1>3, <1>4, <1>5, <1>6, <1>7, <1>8, <1>9, <1>10, <1>11, <1>12, <1>13,
            <1>14, <1>15, <1>16, <1>17, <1>18, <1>19, <1>20 DEF Next

LEMMA Begun == Init => Store!Init
<1> SUFFICES ASSUME Init PROVE shown = [s \in Services |-> Gone]  BY DEF Store!Init
<1>1. \A s \in Services : ~Stored(s)  BY DEF Init, Stored, Absent
<1> QED  BY <1>1 DEF Init, View

\* A service is in the preferences whole or not at all: however the calls that
\* __SCNetworkServiceCreate and __SCNetworkServiceMigrateNew are made of fail,
\* what their callers see changes as in ServiceStore, one request at a time,
\* and one thing of one service with each.
THEOREM WholeOrNotAtAll == Spec => ImplementsStore
<1>1. Init => IInv /\ Store!Init  BY InitInv, Begun
<1>2. IInv /\ [Next]_vars => IInv' /\ [Store!Next]_shown  BY Step
<1> QED  BY <1>1, <1>2, PTL DEF Spec, ImplementsStore, Store!Spec

-----------------------------------------------------------------------------
(* The configuration that an object holds for its first set.               *)

Configs  == Contents \cup {None, Hollow}
Holdable == Configs \cup {Null}

\* what a held entry stands for
Means(c) == IF c = Null THEN None ELSE Get(c)

\* The interface of the service is one that services share.
Shares(s) == PerInterface(Layers[s][Len(Layers[s])])

\* While a configuration is not stored it is what was accepted last, and nothing
\* is held that has been stored: whether or not a set contains the service.
Agrees(s) == Shares(s) => Held(s, "Ethernet") = Get(mine[s])

HeldTypes ==
    /\ config \in [Slots -> Configs]
    /\ unsaved \in [Services -> [Types -> Holdable]]
    /\ mine \in [Services -> Configs]
    /\ faults \in 0..MaxFaults

HInv == HeldTypes /\ \A s \in Services : Agrees(s)

LEMMA SharedTypes ==
    ASSUME NEW s \in Services, Shares(s)
    PROVE  "Ethernet" \in Types /\ "Ethernet" \in Defaults(s)
<1>1. Len(Layers[s]) \in DOMAIN Layers[s] /\ Layers[s][Len(Layers[s])] = "Ethernet"
  BY NetConfigAssumption DEF Shares, PerInterface
<1>2. DefaultType("Ethernet") = "Ethernet"
  BY DEF DefaultType, Known, Hardware
<1> QED  BY <1>1, <1>2 DEF Types, Defaults, None

LEMMA LayerTypes ==
    ASSUME NEW s \in Services, NEW k \in DOMAIN Layers[s]
    PROVE  DefaultType(Layers[s][k]) \in Types
BY DEF Types

LEMMA GetFacts ==
    /\ \A c \in Configs : Get(c) \in Contents \cup {None}
    /\ \A c \in Holdable : Means(c) \in Contents \cup {None}
    /\ \A c \in Configs : c # Null /\ Means(c) = Get(c)
    /\ Means(Null) = None /\ Means(None) = None /\ Get(None) = None
BY NetConfigAssumption DEF Get, Means, Configs, Holdable, Contents, None, Hollow, Null, Init0

LEMMA FaultTypes ==
    ASSUME faults \in 0..MaxFaults, Fault \/ NoFault
    PROVE  faults' \in 0..MaxFaults
BY NetConfigAssumption DEF Fault, NoFault

\* What one service's object holds changes, and what was accepted with it.
LEMMA ObjectChanges ==
    ASSUME HInv, NEW s \in Services, NEW u \in [Types -> Holdable], NEW m \in Configs,
           unsaved' = [unsaved EXCEPT ![s] = u], mine' = [mine EXCEPT ![s] = m],
           config' \in [Slots -> Configs], Fault \/ NoFault,
           Shares(s) => Means(u["Ethernet"]) = Get(m)
    PROVE  HInv'
<1>1. HeldTypes'  BY FaultTypes DEF HInv, HeldTypes
<1>2. ASSUME NEW o \in Services PROVE Agrees(o)'
  <2>1. CASE o = s  BY <2>1 DEF HInv, HeldTypes, Agrees, Held, Means
  <2>2. CASE o # s
    <3>1. unsaved'[o] = unsaved[o] /\ mine'[o] = mine[o]  BY <2>2 DEF HInv, HeldTypes
    <3> QED  BY <3>1 DEF HInv, Agrees, Held
  <2> QED  BY <2>1, <2>2
<1> QED  BY <1>1, <1>2 DEF HInv

LEMMA ObjectsStand ==
    ASSUME HInv, UNCHANGED <<unsaved, mine>>, config' \in [Slots -> Configs], Fault \/ NoFault
    PROVE  HInv'
<1>1. HeldTypes'  BY FaultTypes DEF HInv, HeldTypes
<1>2. \A o \in Services : Agrees(o)'  BY DEF HInv, Agrees, Held
<1> QED  BY <1>1, <1>2 DEF HInv

LEMMA Released ==
    ASSUME HInv, NEW s \in Services, NEW ts
    PROVE  \E u \in [Types -> Holdable] :
             /\ Release(s, ts) = [unsaved EXCEPT ![s] = u]
             /\ \A t \in Types : u[t] = IF t \in ts THEN None ELSE unsaved[s][t]
<1> DEFINE w == [t \in Types |-> IF t \in ts THEN None ELSE unsaved[s][t]]
<1>1. None \in Holdable /\ unsaved[s] \in [Types -> Holdable]
      BY DEF HInv, HeldTypes, Holdable, Configs
<1>2. w \in [Types -> Holdable]  BY <1>1
<1>3. Release(s, ts) = [unsaved EXCEPT ![s] = w]  BY DEF Release
<1> QED  BY <1>2, <1>3

\* Types are stored and no longer held; if Ethernet is one of them, what was
\* accepted for it is forgotten, and only then.
LEMMA Saves ==
    ASSUME HInv, NEW s \in Services, NEW ts,
           unsaved' = Release(s, ts),
           \/ "Ethernet" \in ts /\ mine' = [mine EXCEPT ![s] = None]
           \/ "Ethernet" \notin ts /\ mine' = mine
           \/ ~Shares(s) /\ mine' = [mine EXCEPT ![s] = None],
           config' \in [Slots -> Configs], Fault \/ NoFault
    PROVE  HInv'
<1>1. PICK u \in [Types -> Holdable] :
             /\ unsaved' = [unsaved EXCEPT ![s] = u]
             /\ \A t \in Types : u[t] = IF t \in ts THEN None ELSE unsaved[s][t]
      BY Released
<1>2. mine[s] \in Configs /\ None \in Configs /\ mine = [mine EXCEPT ![s] = mine[s]]
      BY DEF HInv, HeldTypes, Configs
<1>3. Shares(s) => "Ethernet" \in Types  BY SharedTypes
<1>4. Shares(s) => Means(unsaved[s]["Ethernet"]) = Get(mine[s])
      BY DEF HInv, Agrees, Held, Means
<1>5. CASE "Ethernet" \in ts /\ mine' = [mine EXCEPT ![s] = None]
      BY <1>1, <1>2, <1>3, <1>5, GetFacts, ObjectChanges
<1>6. CASE "Ethernet" \notin ts /\ mine' = mine
  <2>1. mine' = [mine EXCEPT ![s] = mine[s]]  BY <1>2, <1>6
  <2>2. Shares(s) => Means(u["Ethernet"]) = Get(mine[s])  BY <1>1, <1>3, <1>4, <1>6
  <2> QED  BY <1>1, <1>2, <2>1, <2>2, ObjectChanges
<1>7. CASE ~Shares(s) /\ mine' = [mine EXCEPT ![s] = None]
      BY <1>1, <1>2, <1>7, ObjectChanges
<1> QED  BY <1>5, <1>6, <1>7

LEMMA Written ==
    ASSUME HInv, NEW paths, NEW c \in Configs
    PROVE  Write(paths, c) \in [Slots -> Configs]
BY DEF HInv, HeldTypes, Write

\* __SCNetworkInterfaceSetConfiguration
LEMMA SetsConfiguration ==
    ASSUME HInv, NEW s \in Services, NEW k, NEW type \in Types, NEW c \in Configs,
           NEW okToHold, SetConfiguration(s, k, type, c, okToHold)
    PROVE  HInv'
<1> DEFINE paths == Paths(s, k, type)
<1>1. config \in [Slots -> Configs] /\ mine[s] \in Configs /\ mine = [mine EXCEPT ![s] = mine[s]]
      BY DEF HInv, HeldTypes
<1>2. CASE /\ config' = Write(paths, c)
           /\ unsaved' = Release(s, {type}) /\ NoFault
           /\ mine' = [mine EXCEPT ![s] = IF type = "Ethernet" THEN None ELSE @]
  <2>1. config' \in [Slots -> Configs]  BY <1>2, Written
  <2>2. \/ "Ethernet" \in {type} /\ mine' = [mine EXCEPT ![s] = None]
        \/ "Ethernet" \notin {type} /\ mine' = mine
        BY <1>1, <1>2
  <2> QED  BY <1>2, <2>1, <2>2, Saves
<1>3. CASE /\ UNCHANGED <<unsaved, mine>> /\ Fault
           /\ \E written \in SUBSET paths : config' = Write(written, c)
      BY <1>3, Written, ObjectsStand
<1>4. CASE /\ UNCHANGED config /\ NoFault
           /\ unsaved' = [unsaved EXCEPT ![s][type] = IF c = None THEN Null ELSE c]
           /\ mine' = [mine EXCEPT ![s] = IF type = "Ethernet" THEN c ELSE @]
  <2>1. PICK v : v = IF c = None THEN Null ELSE c  OBVIOUS
  <2>2. v \in Holdable /\ Means(v) = Get(c)  BY <2>1, GetFacts DEF Holdable
  <2>3. PICK u : u = [unsaved[s] EXCEPT ![type] = v]  OBVIOUS
  <2>4. u \in [Types -> Holdable] /\ unsaved' = [unsaved EXCEPT ![s] = u]
        BY <1>4, <2>1, <2>2, <2>3 DEF HInv, HeldTypes
  <2>5. PICK m : m = IF type = "Ethernet" THEN c ELSE mine[s]  OBVIOUS
  <2>6. m \in Configs /\ mine' = [mine EXCEPT ![s] = m]  BY <1>1, <1>4, <2>5
  <2>7. Shares(s) => Means(u["Ethernet"]) = Get(m)
    <3>1. Shares(s) => Means(unsaved[s]["Ethernet"]) = Get(mine[s])
          BY DEF HInv, Agrees, Held, Means
    <3>2. Shares(s) => "Ethernet" \in Types  BY SharedTypes
    <3> QED  BY <2>2, <2>3, <2>5, <3>1, <3>2 DEF HInv, HeldTypes
  <2>8. config' \in [Slots -> Configs]  BY <1>1, <1>4
  <2> QED  BY <1>4, <2>4, <2>6, <2>7, <2>8, ObjectChanges
<1>5. CASE UNCHANGED <<config, unsaved, mine>> /\ NoFault
      BY <1>1, <1>5, ObjectsStand
<1> QED  BY <1>2, <1>3, <1>4, <1>5 DEF SetConfiguration

LEMMA DeepTypes ==
    ASSUME HInv, NEW s \in Services, NEW set \in Sets, NEW from \in Sets \cup {None}
    PROVE  CopyDeep(set, s, from) \in [Types -> Configs]
<1>1. \A d \in Sets, t \in Types : Get(config[<<d, Device[s], t>>]) \in Contents \cup {None}
  <2>1. \A d \in Sets, t \in Types : <<d, Device[s], t>> \in Slots  BY DEF Slots, Devices
  <2> QED  BY <2>1, GetFacts DEF HInv, HeldTypes
<1>2. \A t \in Types : Held(s, t) \in Contents \cup {None}
      BY GetFacts DEF HInv, HeldTypes, Held, Means
<1>3. \A t \in Types : GetDefaultConfiguration(set, s, t) \in Contents \cup {None}
      BY <1>1, <1>2 DEF GetDefaultConfiguration
<1> DEFINE extended == IF from = None \/ ~Shared(s) THEN {} ELSE ExtendedTypes(from, s)
<1>4. \A t \in extended : t \in Types /\ from \in Sets  BY DEF ExtendedTypes
<1> HIDE DEF extended
<1>5. ASSUME NEW t \in Types
      PROVE  (CASE t \in Defaults(s) -> GetDefaultConfiguration(set, s, t)
                [] t \in extended -> Get(config[<<from, Device[s], t>>])
                [] OTHER -> None) \in Configs
      BY <1>1, <1>3, <1>4 DEF Configs
<1> QED  BY <1>5 DEF CopyDeep, extended

\* SCNetworkSetAddService
LEMMA JoinHolds ==
    ASSUME HInv, NEW s \in Services, NEW set \in Sets, Join(set, s)
    PROVE  HInv'
<1>1. PICK old \in (IF SetsOf(s) = {} THEN {None} ELSE SetsOf(s)) :
        \E new \in {old, set} \cap Sets :
            SetDeep(set, s, CopyDeep(set, s, old), new, SetsOf(s) \cup {set})
      BY DEF Join
<1>2. PICK new, deep : /\ deep = CopyDeep(set, s, old)
                       /\ SetDeep(set, s, deep, new, SetsOf(s) \cup {set})
      BY <1>1
<1>3. deep \in [Types -> Configs]  BY <1>2, DeepTypes DEF SetsOf
<1> DEFINE first == {set} \X {Device[s]} \X Defaults(s)
           types == IF Shared(s) THEN ExtendedTypes(new, s) \ Defaults(s) ELSE {}
           rest  == (SetsOf(s) \cup {set}) \X {Device[s]} \X types
           Put(paths) == config' = [p \in Slots |-> IF p \in paths THEN deep[p[3]] ELSE config[p]]
<1>4. \/ /\ Put(first \cup rest) /\ unsaved' = Release(s, Defaults(s) \cup types)
         /\ mine' = [mine EXCEPT ![s] = None] /\ NoFault
      \/ /\ Put(rest) /\ unsaved' = Release(s, types) /\ UNCHANGED mine /\ Fault
      BY <1>2 DEF SetDeep
<1>5. Defaults(s) \subseteq Types /\ types \subseteq Types /\ "Ethernet" \notin types
      BY LayerTypes DEF Defaults, ExtendedTypes
<1>6. \A p \in first \cup rest : p[3] \in Types  BY <1>5
<1>7. config' \in [Slots -> Configs]
  <2>1. PICK paths : Put(paths) /\ \A p \in paths : p[3] \in Types  BY <1>4, <1>6
  <2> QED  BY <1>3, <2>1 DEF HInv, HeldTypes
<1> HIDE DEF first, types, rest, Put
<1>8. CASE /\ unsaved' = Release(s, Defaults(s) \cup types)
           /\ mine' = [mine EXCEPT ![s] = None] /\ NoFault
      BY <1>7, <1>8, SharedTypes, Saves
<1>9. CASE unsaved' = Release(s, types) /\ UNCHANGED mine /\ Fault
      BY <1>5, <1>7, <1>9, Saves
<1> QED  BY <1>4, <1>8, <1>9

LEMMA FreshHolds ==
    /\ Fresh \in [Types -> Holdable] /\ None \in Configs
    /\ \A s \in Services : Shares(s) => Means(Fresh["Ethernet"]) = Get(None)
BY SharedTypes, GetFacts DEF Fresh, Holdable, Configs

LEMMA RemoveHolds ==
    ASSUME HInv, NEW s \in Services, Remove(s), Fault \/ NoFault
    PROVE  HInv'
<1>1. config' \in [Slots -> Configs]  BY FreshHolds DEF Remove, HInv, HeldTypes
<1>2. unsaved' = [unsaved EXCEPT ![s] = Fresh] /\ mine' = [mine EXCEPT ![s] = None]
      BY DEF Remove
<1> QED  BY <1>1, <1>2, FreshHolds, ObjectChanges

LEMMA CreateHolds ==
    ASSUME HInv, NEW s \in Services, Create(s), NoFault
    PROVE  HInv'
<1>1. PICK o \in Services, same \in BOOLEAN :
        /\ same => Layers[o] = Layers[s]
        /\ unsaved' = [unsaved EXCEPT ![s] = IF same THEN unsaved[o] ELSE Fresh]
        /\ mine' = [mine EXCEPT ![s] = IF same THEN mine[o] ELSE None]
      BY Zenon DEF Create
<1>2. config' \in [Slots -> Configs]  BY DEF Create, HInv, HeldTypes
<1>3. CASE same
  <2>1. unsaved' = [unsaved EXCEPT ![s] = unsaved[o]] /\ mine' = [mine EXCEPT ![s] = mine[o]]
        BY <1>1, <1>3
  <2>2. unsaved[o] \in [Types -> Holdable] /\ mine[o] \in Configs  BY DEF HInv, HeldTypes
  <2>3. Shares(s) => Means(unsaved[o]["Ethernet"]) = Get(mine[o])
        BY <1>1, <1>3 DEF HInv, Agrees, Shares, Held, Means
  <2> QED  BY <1>2, <2>1, <2>2, <2>3, ObjectChanges
<1>4. CASE ~same
  <2>1. unsaved' = [unsaved EXCEPT ![s] = Fresh] /\ mine' = [mine EXCEPT ![s] = None]
        BY <1>1, <1>4
  <2> QED  BY <1>2, <2>1, FreshHolds, ObjectChanges
<1> QED  BY <1>3, <1>4

\* copyInterfaceConfiguration
LEMMA CopyHolds ==
    ASSUME HInv, IInv, CopyInterface
    PROVE  HInv'
<1>1. PICK s \in Services : s = job.s  BY DEF IInv, Works, CopyInterface
<1>2. job.want \in Sources  BY DEF IInv, Works, CopyInterface
<1>3. job.want.config \in Configs /\ None \in Configs
      BY <1>2, SourcesAssumption DEF Configs
<1> DEFINE slots(k) == (IF DefaultType(Layers[job.s][k]) = None THEN {}
                        ELSE Paths(job.s, k, DefaultType(Layers[job.s][k])))
                       \cup UNION {Paths(job.s, k, ext) :
                                    ext \in {e \in Extended : ValidExtended(job.s, k, e)}}
           all == UNION {slots(k) : k \in DOMAIN Layers[job.s]}
<1>4. PICK lost :
        /\ config' = [p \in Slots |-> IF p \in all \ lost
                        THEN IF p[3] = DefaultType(Layers[s][1]) THEN job.want.config ELSE None
                        ELSE config[p]]
        /\ IF lost = {} THEN NoFault ELSE Fault /\ \E t \in Types : \A p \in lost : p[3] = t
        /\ unsaved' = Release(s, {p[3] : p \in all} \ {p[3] : p \in lost})
        /\ mine' = [mine EXCEPT ![s] =
              IF "Ethernet" \in {p[3] : p \in all} \ {p[3] : p \in lost} THEN None ELSE @]
      BY <1>1 DEF CopyInterface
<1> HIDE DEF all
<1>5. config' \in [Slots -> Configs]  BY <1>3, <1>4 DEF HInv, HeldTypes
<1>6. PICK saved : saved = {p[3] : p \in all} \ {p[3] : p \in lost}  OBVIOUS
<1>7. mine' = [mine EXCEPT ![s] = IF "Ethernet" \in saved THEN None ELSE @]  BY <1>4, <1>6
<1>8. \/ "Ethernet" \in saved /\ mine' = [mine EXCEPT ![s] = None]
      \/ "Ethernet" \notin saved /\ mine' = mine
      BY <1>7 DEF HInv, HeldTypes
<1>9. unsaved' = Release(s, saved)  BY <1>4, <1>6
<1> QED  BY <1>4, <1>5, <1>8, <1>9, Saves

LEMMA QuietHolds ==
    ASSUME HInv, UNCHANGED <<config, unsaved, mine>>, Fault \/ NoFault
    PROVE  HInv'
<1>1. config' \in [Slots -> Configs]  BY DEF HInv, HeldTypes
<1> QED  BY <1>1, ObjectsStand

LEMMA BeginHolds ==
    ASSUME HInv, NEW s \in Services, NEW op, NEW pc, NEW want, Begin(op, s, pc, want)
    PROVE  HInv'
BY QuietHolds, CreateHolds DEF Begin, store

LEMMA ConfigureHolds ==
    ASSUME HInv, NEW s \in Services, ConfigureInterface(s)
    PROVE  HInv'
<1>1. PICK k \in DOMAIN Layers[s], c \in Values \cup {None, Hollow}, okToHold \in BOOLEAN :
        \E type \in {DefaultType(Layers[s][k])} \cup {e \in Extended : ValidExtended(s, k, e)} :
            SetConfiguration(s, k, type, c, okToHold)
      BY DEF ConfigureInterface
<1>2. c \in Configs /\ Extended \subseteq Types  BY DEF Configs, Contents, Types
<1>3. PICK type \in Types : SetConfiguration(s, k, type, c, okToHold)  BY <1>1, <1>2, LayerTypes
<1> QED  BY <1>2, <1>3, SetsConfiguration

LEMMA EstablishHolds ==
    ASSUME HInv, IInv, Establish
    PROVE  HInv'
<1>1. PICK s \in Services : s = job.s  BY DEF IInv, Works, Establish
<1>2. CASE GiveUp  BY <1>1, <1>2, RemoveHolds DEF GiveUp
<1>3. CASE SetConfiguration(s, 1, DefaultType(Layers[s][1]), Template(s), TRUE)
  <2>1. 1 \in DOMAIN Layers[s]  BY NetConfigAssumption
  <2>2. Template(s) \in Configs  BY DEF Template, Configs, Contents
  <2>3. PICK c \in Configs, type \in Types : c = Template(s) /\ type = DefaultType(Layers[s][1])
        BY <2>1, <2>2, LayerTypes
  <2> QED  BY <1>3, <2>3, SetsConfiguration
<1> QED  BY <1>1, <1>2, <1>3 DEF Establish

\* What is held agrees with what was accepted, after every step.
LEMMA HoldsStep == IInv /\ HInv /\ [Next]_vars => HInv'
<1> SUFFICES ASSUME IInv, HInv, [Next]_vars PROVE HInv'  OBVIOUS
<1>1. job.pc # "idle" => job.s \in Services  BY DEF IInv, Works
<1>2. job.todo \subseteq Sets  BY DEF IInv, Jobs
<1>3. ASSUME NEW s \in Services, BeginCreate(s) \/ BeginMigrate(s) PROVE HInv'
      BY <1>3, BeginHolds DEF BeginCreate, BeginMigrate
<1>4. ASSUME NEW s \in Services, ConfigureInterface(s) PROVE HInv'
      BY <1>4, ConfigureHolds
<1>5. ASSUME NEW s \in Services, AddToSet(s) PROVE HInv'
      BY <1>5, JoinHolds DEF AddToSet
<1>6. ASSUME NEW s \in Services, RemoveService(s) PROVE HInv'
      BY <1>6, RemoveHolds DEF RemoveService
<1>7. ASSUME NEW s \in Services, RemoveFromSet(s) \/ EnableService(s) \/ EditProtocol(s) PROVE HInv'
      BY <1>7, QuietHolds DEF RemoveFromSet, EnableService, EditProtocol
<1>8. CASE SetName
      BY <1>1, <1>8, QuietHolds, RemoveHolds DEF SetName, GiveUp, store
<1>9. CASE EnableNew
      BY <1>1, <1>9, QuietHolds, RemoveHolds DEF EnableNew, GiveUp
<1>10. CASE Establish  BY <1>10, EstablishHolds
<1>11. CASE CurrentSet
      BY <1>1, <1>11, QuietHolds, RemoveHolds DEF CurrentSet, store
<1>12. CASE JoinCurrent
      BY <1>1, <1>2, <1>12, JoinHolds DEF JoinCurrent
<1>13. CASE JoinRefused
      BY <1>1, <1>13, RemoveHolds DEF JoinRefused, GiveUp
<1>14. CASE JoinMapped
      BY <1>1, <1>2, <1>14, JoinHolds, QuietHolds DEF JoinMapped
<1>15. CASE Joined
      BY <1>1, <1>15, QuietHolds, RemoveHolds DEF Joined, store
<1>16. CASE AddProtocol
      BY <1>16, QuietHolds DEF AddProtocol
<1>17. CASE CopyInterface  BY <1>17, CopyHolds
<1>18. CASE UNCHANGED vars
      BY <1>18 DEF vars, store, HInv, HeldTypes, Agrees, Held
<1>19. CASE SetServiceID
      BY <1>19, QuietHolds DEF SetServiceID, store
<1> QED  BY <1>3, <1>4, <1>5, <1>6, <1>7, <1>8, <1>9, <1>10, <1>11, <1>12, <1>13, <1>14,
            <1>15, <1>16, <1>17, <1>18, <1>19 DEF Next

LEMMA InitHolds == Init => HInv
<1> SUFFICES ASSUME Init PROVE HInv  OBVIOUS
<1>1. HeldTypes  BY FreshHolds, NetConfigAssumption DEF Init, HeldTypes, NoFault
<1>2. ASSUME NEW s \in Services PROVE Agrees(s)
  <2>1. unsaved[s] = Fresh /\ mine[s] = None  BY DEF Init
  <2> QED  BY <2>1, FreshHolds DEF Agrees, Held, Means
<1> QED  BY <1>1, <1>2 DEF HInv

LEMMA AlwaysHolds == Spec => [](IInv /\ HInv)
<1>1. Init => IInv /\ HInv  BY InitInv, InitHolds
<1>2. IInv /\ HInv /\ [Next]_vars => IInv' /\ HInv'  BY Step, HoldsStep
<1> QED  BY <1>1, <1>2, PTL DEF Spec

\* Every state is well typed, whatever the calls that fail: what is stored and
\* what is held are configurations, and links and jobs are of stored services.
THEOREM NetConfigTypes == Spec => []TypeOK
<1> DEFINE Bounded == steps \in 0..MaxSteps
<1>1. Init => Bounded  BY NetConfigAssumption DEF Init
<1>2. Bounded /\ [Next]_vars => Bounded'
  <2> SUFFICES ASSUME Bounded, [Next]_vars PROVE Bounded'  OBVIOUS
  <2>1. SUFFICES steps' = steps \/ (steps < MaxSteps /\ steps' = steps + 1)
        BY NetConfigAssumption
  <2>2. ASSUME NEW s \in Services, BeginCreate(s) \/ BeginMigrate(s)
        PROVE  steps < MaxSteps /\ steps' = steps + 1
        BY <2>2, Zenon DEF BeginCreate, BeginMigrate, Begin
  <2>3. ASSUME NEW s \in Services,
               \/ ConfigureInterface(s) \/ AddToSet(s) \/ RemoveFromSet(s)
               \/ RemoveService(s) \/ EnableService(s) \/ EditProtocol(s)
        PROVE  steps < MaxSteps /\ steps' = steps + 1
    <3>1. Request(s)
          BY <2>3 DEF ConfigureInterface, AddToSet, RemoveFromSet, RemoveService,
             EnableService, EditProtocol
    <3> QED  BY <3>1 DEF Request
  <2>4. CASE SetName \/ EnableNew \/ Establish \/ SetServiceID \/ CurrentSet \/ JoinCurrent \/ JoinRefused
        BY <2>4, Zenon DEF SetName, EnableNew, Establish, SetServiceID, CurrentSet, JoinCurrent, JoinRefused,
           GiveUp
  <2>5. CASE JoinMapped \/ Joined \/ AddProtocol \/ CopyInterface \/ UNCHANGED vars
        BY <2>5, Zenon DEF JoinMapped, Joined, AddProtocol, CopyInterface, vars
  <2> QED  BY <2>2, <2>3, <2>4, <2>5 DEF Next
<1>3. IInv /\ HInv /\ Bounded => TypeOK
  <2> SUFFICES ASSUME IInv, HInv, Bounded PROVE TypeOK  OBVIOUS
  <2>1. entities \in [Services -> {Absent, Entity(None, FALSE), Entity(None, TRUE)}]
          /\ proto \in [Services -> Entities]
        BY DEF IInv, Types1
  <2>2. links \in [Sets -> SUBSET {s \in Services : Stored(s)}]
        BY DEF IInv, Types1, Linked
  <2>3. job.pc \in Stages /\ (job.pc # "idle" => Stored(job.s))
        BY DEF IInv, Jobs, Works
  <2>4. config \in [Slots -> Contents \cup {None, Hollow}]
          /\ unsaved \in [Services -> [Types -> Contents \cup {None, Hollow, Null}]]
          /\ mine \in [Services -> Contents \cup {None, Hollow}]
          /\ faults \in 0..MaxFaults
    <3>1. Contents \cup {None, Hollow, Null} = Holdable  BY DEF Holdable, Configs
    <3> QED  BY <3>1 DEF HInv, HeldTypes, Configs
  <2> QED  BY <2>1, <2>2, <2>3, <2>4 DEF TypeOK, Stages
<1> HIDE DEF Bounded
<1> QED  BY <1>1, <1>2, <1>3, AlwaysHolds, PTL DEF Spec

\* A service joins a set, and everything is stored.
LEMMA JoinDelivers ==
    ASSUME HInv, NEW s \in Services, NEW set \in Sets, Join(set, s), UNCHANGED faults, Shares(s)
    PROVE  Get(config'[<<set, Device[s], "Ethernet">>]) =
              IF Get(config[<<set, Device[s], "Ethernet">>]) # None
              THEN Get(config[<<set, Device[s], "Ethernet">>]) ELSE Get(mine[s])
<1> DEFINE p == <<set, Device[s], "Ethernet">>
<1>1. "Ethernet" \in Types /\ "Ethernet" \in Defaults(s)  BY SharedTypes
<1>2. p \in Slots  BY <1>1 DEF Slots, Devices
<1>3. ~Fault  BY DEF Fault, HInv, HeldTypes
<1>4. PICK old, new, deep : /\ deep = CopyDeep(set, s, old)
                            /\ SetDeep(set, s, deep, new, SetsOf(s) \cup {set})
      BY DEF Join
<1> DEFINE rest == (SetsOf(s) \cup {set}) \X {Device[s]}
                     \X (IF Shared(s) THEN ExtendedTypes(new, s) \ Defaults(s) ELSE {})
<1>5. config' = [q \in Slots |-> IF q \in ({set} \X {Device[s]} \X Defaults(s)) \cup rest
                                  THEN deep[q[3]] ELSE config[q]]
      BY <1>3, <1>4 DEF SetDeep
<1> HIDE DEF rest
<1>6. config'[p] = deep["Ethernet"]  BY <1>1, <1>2, <1>5
<1>7. deep["Ethernet"] = GetDefaultConfiguration(set, s, "Ethernet")
      BY <1>1, <1>4 DEF CopyDeep, ExtendedTypes
<1>8. Held(s, "Ethernet") = Get(mine[s])  BY DEF HInv, Agrees
<1>9. \A c \in Configs : Get(Get(c)) = Get(c)  BY DEF Get, None, Hollow
<1>10. config[p] \in Configs /\ mine[s] \in Configs  BY <1>2 DEF HInv, HeldTypes
<1> HIDE DEF p
<1>11. deep["Ethernet"] = IF Get(config[p]) = None THEN Get(mine[s]) ELSE Get(config[p])
      BY <1>7, <1>8 DEF GetDefaultConfiguration, p
<1> QED  BY <1>6, <1>9, <1>10, <1>11 DEF p

\* A set gains a service only by Join.
LEMMA OnlyJoined ==
    ASSUME IInv, [Next]_vars, NEW s \in Services, NEW set \in Sets,
           s \notin links[set], s \in links'[set]
    PROVE  Join(set, s)
<1>1. links # links' /\ links \in [Sets -> SUBSET Services]  BY DEF IInv, Types1
<1>2. ASSUME NEW o, Remove(o) PROVE FALSE  BY <1>2 DEF Remove
<1>3. ASSUME NEW o \in Services, NEW d \in Sets, Join(d, o) PROVE Join(set, s)
  <2>1. links' = [links EXCEPT ![d] = @ \cup {o}]  BY <1>3 DEF Join
  <2>2. d = set /\ o = s  BY <1>1, <2>1
  <2> QED  BY <1>3, <2>2
<1>4. ASSUME NEW o \in Services, RemoveFromSet(o) PROVE FALSE
      BY <1>1, <1>4 DEF RemoveFromSet
<1>5. ASSUME NEW o \in Services, AddToSet(o) PROVE Join(set, s)
      BY <1>3, <1>5 DEF AddToSet
<1>6. job.todo \subseteq Sets /\ (job.pc # "idle" => job.s \in Services)
      BY DEF IInv, Jobs, Works
<1>7. CASE JoinCurrent \/ JoinMapped
      BY <1>1, <1>3, <1>6, <1>7 DEF JoinCurrent, JoinMapped
<1>8. ASSUME NEW o \in Services,
             \/ BeginCreate(o) \/ BeginMigrate(o) \/ ConfigureInterface(o)
             \/ RemoveService(o) \/ EnableService(o) \/ EditProtocol(o)
      PROVE  FALSE
  <2>1. CASE BeginCreate(o) \/ BeginMigrate(o)
    <3>1. PICK op, pc, want : Begin(op, o, pc, want)  BY <2>1 DEF BeginCreate, BeginMigrate
    <3> QED  BY <1>1, <3>1 DEF Begin, Create, store
  <2>2. CASE ConfigureInterface(o) \/ RemoveService(o) \/ EnableService(o) \/ EditProtocol(o)
    <3>1. links' = links \/ Remove(o)
          BY <2>2 DEF ConfigureInterface, RemoveService, EnableService, EditProtocol
    <3> QED  BY <1>1, <1>2, <3>1
  <2> QED  BY <1>8, <2>1, <2>2
<1>9. ~(SetName \/ EnableNew \/ Establish \/ SetServiceID \/ CurrentSet \/ JoinRefused \/ Joined
          \/ AddProtocol \/ CopyInterface \/ UNCHANGED vars)
      BY <1>1, <1>2 DEF SetName, EnableNew, Establish, SetServiceID, CurrentSet, JoinRefused, Joined,
         AddProtocol, CopyInterface, GiveUp, vars, store
<1> QED  BY <1>4, <1>5, <1>7, <1>8, <1>9 DEF Next

\* However requests, migrations and failures have gone before: a configuration
\* that was held becomes that of the first set that takes the service, unless
\* that set has one; it is not lost by a write that failed, and not used twice.
THEOREM HeldGoesToSet == Spec => HeldIsDelivered
<1>1. ASSUME IInv, HInv, [Next]_vars, NEW s \in Services, NEW set \in Sets,
             PerInterface(Layers[s][Len(Layers[s])]),
             s \notin links[set], s \in links'[set], UNCHANGED faults
      PROVE  Get(config'[<<set, Device[s], "Ethernet">>]) =
                IF Get(config[<<set, Device[s], "Ethernet">>]) # None
                THEN Get(config[<<set, Device[s], "Ethernet">>]) ELSE Get(mine[s])
      BY <1>1, OnlyJoined, JoinDelivers DEF Shares
<1>2. IInv /\ HInv /\ [Next]_vars =>
        [\A s \in Services, set \in Sets :
            LET p == <<set, Device[s], "Ethernet">> IN
            (/\ PerInterface(Layers[s][Len(Layers[s])])
             /\ s \notin links[set] /\ s \in links'[set] /\ UNCHANGED faults)
                => Get(config'[p]) = IF Get(config[p]) # None THEN Get(config[p]) ELSE Get(mine[s])]_vars
      BY <1>1
<1> QED  BY <1>2, AlwaysHolds, PTL DEF Spec, HeldIsDelivered

=============================================================================
