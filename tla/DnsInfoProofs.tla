--------------------------- MODULE DnsInfoProofs ----------------------------
(***************************************************************************)
(* Proofs about DnsInfo.  What the file says when a write is over depends  *)
(* on where the loop over the resolvers is, on the domain it carries from  *)
(* one resolver to the next, and on what the other file holds between its  *)
(* opening and its renaming: Progress, DomainInv and Written say so at     *)
(* every step.                                                             *)
(***************************************************************************)
EXTENDS DnsInfo, TLAPS

Writing == pc \in {"write", "open", "fill", "rename"}

\* d is the last domain among the first n resolvers of c
UpTo(c, n, d) ==
    \/ d = None /\ \A i \in 1..n : c[i].domain = None
    \/ \E i \in 1..n : /\ c[i].domain # None /\ d = c[i].domain
                       /\ \A j \in (i + 1)..n : c[j].domain = None

\* Where the loop is.
Progress ==
    /\ Writing /\ conf # NoConfig => idx \in 1..(Len(conf) + 1)
    /\ pc \in {"open", "fill", "rename"} => conf # NoConfig /\ idx <= Len(conf)

DomainInv ==
    Writing /\ conf # NoConfig =>
        UpTo(conf, IF pc = "write" THEN idx - 1 ELSE idx, domain)

\* What the two files hold.
Written ==
    ~failed =>
        /\ pc = "rename" => tmp \in Contents(conf[idx], domain)
        /\ pc = "write" /\ conf # NoConfig /\ idx > 1 => file \in Contents(conf[idx - 1], domain)
        /\ pc \in {"register", "wait"} /\ HasResolvers(conf) =>
                file \in Expected(conf) /\ file # Missing

\* What a daemon that runs has seen.
Seen == pc \notin {"start", "down"} /\ ~pending /\ ~missed => conf = dns

\* A daemon that is down did not write.
DownFailed == pc = "down" => failed

IInv ==
    /\ TypeOK /\ domain \in Domains
    /\ Progress /\ DomainInv /\ Written /\ Seen /\ DownFailed

-----------------------------------------------------------------------------
(* The domain that is carried along. *)

LEMMA ConfType == ASSUME DnsAssumption, TypeOK, conf # NoConfig PROVE conf \in Seq(Resolvers)
BY DEF DnsAssumption, TypeOK

LEMMA MaxIsNat == MaxEvents \in Nat
BY DnsAssumption DEF DnsAssumption

LEMMA UpToNone == ASSUME NEW c PROVE UpTo(c, 0, None)
BY DEF UpTo

LEMMA UpToNext ==
    ASSUME NEW c \in Seq(Resolvers), NEW n \in 1..Len(c), NEW d, UpTo(c, n - 1, d)
    PROVE  UpTo(c, n, Carried(d, c[n]))
<1>1. CASE c[n].domain # None
  <2>1. Carried(d, c[n]) = c[n].domain  BY <1>1 DEF Carried
  <2> QED  BY <1>1, <2>1 DEF UpTo
<1>2. CASE c[n].domain = None
  <2>1. Carried(d, c[n]) = d  BY <1>2 DEF Carried
  <2>2. CASE d = None /\ \A i \in 1..(n - 1) : c[i].domain = None
    <3>1. \A i \in 1..n : c[i].domain = None  BY <1>2, <2>2
    <3> QED  BY <2>1, <2>2, <3>1 DEF UpTo
  <2>3. ASSUME NEW i \in 1..(n - 1), c[i].domain # None, d = c[i].domain,
               \A j \in (i + 1)..(n - 1) : c[j].domain = None
        PROVE  UpTo(c, n, d)
    <3>1. \A j \in (i + 1)..n : c[j].domain = None  BY <1>2, <2>3
    <3> QED  BY <2>3, <3>1 DEF UpTo
  <2> QED  BY <2>1, <2>2, <2>3 DEF UpTo
<1> QED  BY <1>1, <1>2

\* The loop ends with the domain that the property speaks of.
LEMMA UpToLast ==
    ASSUME NEW c \in Seq(Resolvers), NEW d, UpTo(c, Len(c), d)
    PROVE  LastDomain(c) = d
<1> DEFINE named == {i \in 1..Len(c) : c[i].domain # None}
<1>1. CASE named = {}
  <2>1. d = None  BY <1>1 DEF UpTo
  <2> QED  BY <1>1, <2>1 DEF LastDomain
<1>2. CASE named # {}
  <2>1. PICK i \in 1..Len(c) : /\ c[i].domain # None /\ d = c[i].domain
                               /\ \A j \in (i + 1)..Len(c) : c[j].domain = None
        BY <1>2 DEF UpTo
  <2>2. i \in named /\ \A j \in named : j <= i  BY <2>1
  <2>3. \A k \in named : (\A j \in named : j <= k) => k = i  BY <2>2
  <2>4. (CHOOSE k \in named : \A j \in named : j <= k) = i  BY <2>2, <2>3
  <2> QED  BY <1>2, <2>1, <2>4 DEF LastDomain
<1> QED  BY <1>1, <1>2

-----------------------------------------------------------------------------
(* The steps. *)

\* During a write the resolver and what may be written for it are known.
LEMMA AtResolver ==
    ASSUME IInv, conf # NoConfig, NEW k \in 1..Len(conf)
    PROVE  conf \in Seq(Resolvers) /\ conf[k] \in Resolvers /\ Contents(conf[k], domain) \subseteq Files
<1>1. conf \in Seq(Resolvers)  BY DnsAssumption, ConfType DEF IInv
<1>2. conf[k] \in Resolvers  BY <1>1
<1>3. domain \in Domains  BY DEF IInv
<1> QED  BY <1>1, <1>2, <1>3 DEF Files

\* What is true or false, and the rest.
Flags ==
    /\ pending \in BOOLEAN /\ registered \in BOOLEAN
    /\ missed \in BOOLEAN /\ failed \in BOOLEAN

Data ==
    /\ dns \in Configs /\ conf \in Configs \cup {NoConfig}
    /\ pc \in Labels /\ idx \in Nat \ {0}
    /\ tmp \in Files /\ file \in Files
    /\ events \in 0..MaxEvents

LEMMA TypeParts == TypeOK <=> Flags /\ Data
BY DEF TypeOK, Flags, Data

\* Counting a fault, or not, keeps the types.
LEMMA Counted ==
    ASSUME TypeOK, Fault \/ NoFault
    PROVE  failed' \in BOOLEAN /\ events' \in 0..MaxEvents
<1>1. failed' \in BOOLEAN  BY DEF TypeOK, Fault, NoFault
<1>2. events' \in 0..MaxEvents  BY MaxIsNat DEF TypeOK, Fault, NoFault, Event
<1> QED  BY <1>1, <1>2

LEMMA InitInv == Init => IInv
<1> SUFFICES ASSUME Init PROVE IInv  OBVIOUS
<1> USE DEF Init
<1>1. Flags  BY DEF Flags
<1>2. Data  BY MaxIsNat DEF Data, Labels, Files
<1>3. domain \in Domains  BY DEF Domains
<1>4. Progress /\ DomainInv /\ Written /\ Seen /\ DownFailed
      BY DEF Progress, DomainInv, Written, Seen, DownFailed, Writing
<1> QED  BY <1>1, <1>2, <1>3, <1>4, TypeParts DEF IInv

LEMMA CopyInv == ASSUME IInv, Copy PROVE IInv'
<1> USE DEF Copy
<1>0. Flags'  BY TypeParts DEF IInv, Flags
<1>1. TypeOK'
  <2>1. Data'  BY TypeParts DEF IInv, Data, Labels
  <2> QED  BY <1>0, <2>1 DEF TypeOK, Flags, Data
<1>2. (domain \in Domains)'  BY DEF Domains
<1>3. conf' # NoConfig => conf' \in Seq(Resolvers)  BY <1>1, DnsAssumption DEF TypeOK, DnsAssumption
<1>4. Progress'  BY <1>3 DEF Progress, Writing
<1>5. DomainInv'  BY DEF DomainInv, UpTo
<1>6. Written' /\ Seen' /\ DownFailed'  BY DEF Written, Seen, DownFailed
<1> QED  BY <1>1, <1>2, <1>4, <1>5, <1>6 DEF IInv

LEMMA WriteInv == ASSUME IInv, Write PROVE IInv'
<1> USE DEF Write
<1>1. Seen' /\ DownFailed'  BY DEF IInv, Seen, DownFailed
<1>2. CASE conf = NoConfig \/ (conf # NoConfig /\ idx > Len(conf))
  <2>0. pc' = (IF registered THEN "wait" ELSE "register") /\ UNCHANGED <<domain, file>>
    <3>1. idx \in Nat /\ (conf # NoConfig => Len(conf) \in Nat)
          BY DnsAssumption, ConfType DEF IInv, TypeOK
    <3> QED  BY <1>2, <3>1
  <2>1. TypeOK'  BY <2>0 DEF IInv, TypeOK, Labels
  <2>2. (domain \in Domains)'  BY <2>0 DEF IInv
  <2>3. Progress' /\ DomainInv'  BY <2>0 DEF Progress, DomainInv, Writing
  <2>4. ASSUME ~failed, HasResolvers(conf) PROVE file \in Expected(conf) /\ file # Missing
    <3>1. conf # NoConfig /\ conf \in Seq(Resolvers) /\ Len(conf) > 0
          BY <2>4, DnsAssumption, ConfType DEF IInv, HasResolvers
    <3>2. idx = Len(conf) + 1  BY <1>2, <3>1 DEF IInv, Progress, Writing
    <3>3. UpTo(conf, Len(conf), domain)  BY <3>1, <3>2 DEF IInv, DomainInv, Writing
    <3>4. file \in Contents(conf[Len(conf)], domain)  BY <2>4, <3>1, <3>2 DEF IInv, Written
    <3>5. file # Missing  BY <3>1, <3>4, FilesAssumption DEF FilesAssumption, IInv
    <3> QED  BY <3>1, <3>3, <3>4, <3>5, UpToLast DEF Expected
  <2>5. Written'  BY <2>0, <2>4 DEF Written
  <2> QED  BY <1>1, <2>1, <2>2, <2>3, <2>5 DEF IInv
<1>3. CASE conf # NoConfig /\ idx <= Len(conf)
  <2>0. /\ domain' = Carried(domain, conf[idx]) /\ file' = Missing /\ pc' = "open"
        /\ conf \in Seq(Resolvers) /\ idx \in 1..Len(conf)
        BY <1>3, DnsAssumption, ConfType DEF IInv, TypeOK, Resolver
  <2>1. TypeOK'  BY <2>0 DEF IInv, TypeOK, Labels, Files
  <2>2. (domain \in Domains)'  BY <2>0, AtResolver DEF IInv, Carried, Domains
  <2>3. Progress'  BY <1>3, <2>0 DEF Progress, Writing
  <2>4. UpTo(conf, idx - 1, domain)  BY <1>3 DEF IInv, DomainInv, Writing
  <2>5. DomainInv'  BY <2>0, <2>4, UpToNext DEF DomainInv
  <2>6. Written'  BY <2>0 DEF Written
  <2> QED  BY <1>1, <2>1, <2>2, <2>3, <2>5, <2>6 DEF IInv
<1> QED  BY <1>2, <1>3

\* The loop goes on to the next resolver.
LEMMA NextResolver ==
    ASSUME IInv, pc \in {"open", "rename"}, pc' = "write", idx' = idx + 1, UNCHANGED <<conf, domain>>
    PROVE  Progress' /\ DomainInv'
<1>1. conf # NoConfig /\ conf \in Seq(Resolvers) /\ idx \in 1..Len(conf)
      BY DnsAssumption, ConfType DEF IInv, Progress, TypeOK
<1>2. UpTo(conf, idx, domain)  BY <1>1 DEF IInv, DomainInv, Writing
<1> QED  BY <1>1, <1>2 DEF Progress, DomainInv, Writing

LEMMA OpenInv == ASSUME IInv, Open PROVE IInv'
<1> USE DEF Open
<1>1. Seen' /\ DownFailed' /\ (domain \in Domains)'  BY DEF IInv, Seen, DownFailed
<1>2. TypeOK'  BY Counted DEF IInv, TypeOK, Labels, Files
<1>3. CASE tmp' = Partial /\ pc' = "fill" /\ UNCHANGED idx /\ NoFault
  <2>1. Progress' /\ DomainInv' /\ Written'
        BY <1>3 DEF IInv, Progress, DomainInv, Written, Writing, NoFault
  <2> QED  BY <1>1, <1>2, <2>1 DEF IInv
<1>4. CASE Fault /\ pc' = "write" /\ idx' = idx + 1
  <2>1. Written'  BY <1>4 DEF Written, Fault
  <2> QED  BY <1>1, <1>2, <1>4, <2>1, NextResolver DEF IInv
<1> QED  BY <1>3, <1>4

LEMMA FillInv == ASSUME IInv, Fill PROVE IInv'
<1> USE DEF Fill
<1>1. Seen' /\ DownFailed' /\ (domain \in Domains)'  BY DEF IInv, Seen, DownFailed
<1>2. conf # NoConfig /\ idx \in 1..Len(conf)
      BY DnsAssumption, ConfType DEF IInv, Progress, TypeOK
<1>3. tmp' \in Files  BY <1>2, AtResolver DEF IInv, TypeOK, Resolver
<1>4. TypeOK'  BY <1>3, Counted DEF IInv, TypeOK, Labels
<1>5. Progress' /\ DomainInv'  BY DEF IInv, Progress, DomainInv, Writing
<1>6. Written'  BY DEF Written, Fault, Resolver
<1> QED  BY <1>1, <1>4, <1>5, <1>6 DEF IInv

LEMMA RenameInv == ASSUME IInv, Rename PROVE IInv'
<1> USE DEF Rename
<1>1. Seen' /\ DownFailed' /\ (domain \in Domains)'  BY DEF IInv, Seen, DownFailed
<1>2. TypeOK'  BY Counted DEF IInv, TypeOK, Labels, Files
<1>3. Progress' /\ DomainInv'  BY NextResolver
<1>4. idx \in Nat  BY DEF IInv, TypeOK
<1>5. Written'  BY <1>4 DEF IInv, Written, Fault, NoFault
<1> QED  BY <1>1, <1>2, <1>3, <1>5 DEF IInv

LEMMA RegisterInv == ASSUME IInv, Register PROVE IInv'
<1> USE DEF Register
<1>1. TypeOK'  BY Counted DEF IInv, TypeOK, Labels
<1>2. Progress' /\ DomainInv'  BY DEF Progress, DomainInv, Writing
<1>3. Written'  BY DEF IInv, Written, Fault, NoFault
<1>4. Seen' /\ DownFailed' /\ (domain \in Domains)'  BY DEF IInv, Seen, DownFailed, Fault
<1> QED  BY <1>1, <1>2, <1>3, <1>4 DEF IInv

\* A change is announced, or came before the registration.
LEMMA ChangeInv == ASSUME IInv, Change PROVE IInv'
<1> USE DEF Change
<1>1. TypeOK'  BY MaxIsNat DEF IInv, TypeOK, Event
<1>2. Progress' /\ DomainInv'  BY DEF IInv, Progress, DomainInv, Writing
<1>3. Written' /\ DownFailed' /\ (domain \in Domains)'  BY DEF IInv, Written, DownFailed
<1>4. Seen'  BY DEF IInv, Seen, TypeOK
<1> QED  BY <1>1, <1>2, <1>3, <1>4 DEF IInv

\* A crash and a restart.
LEMMA DownInv == ASSUME IInv, Crash \/ Restart PROVE IInv'
<1> USE DEF Crash, Restart
<1>1. TypeOK'
  <2>1. Flags'  BY TypeParts DEF IInv, Flags
  <2>2. Data'  BY TypeParts, MaxIsNat DEF IInv, Data, Labels, Event
  <2> QED  BY <2>1, <2>2 DEF TypeOK, Flags, Data
<1>2. Progress' /\ DomainInv' /\ Written' /\ Seen'
      BY DEF IInv, Progress, DomainInv, Written, Seen, Writing
<1>3. DownFailed' /\ (domain \in Domains)'  BY DEF IInv, DownFailed
<1> QED  BY <1>1, <1>2, <1>3 DEF IInv

LEMMA StutterInv == ASSUME IInv, UNCHANGED vars PROVE IInv'
BY DEF vars, IInv, TypeOK, Progress, DomainInv, Written, Seen, DownFailed, Writing

LEMMA Invariance == Spec => []IInv
<1>1. IInv /\ [Next]_vars => IInv'
  <2> SUFFICES ASSUME IInv, [Next]_vars PROVE IInv'  OBVIOUS
  <2> QED  BY CopyInv, WriteInv, OpenInv, FillInv, RenameInv, RegisterInv, ChangeInv,
              DownInv, StutterInv DEF Next, Daemon
<1> QED  BY InitInv, <1>1, PTL DEF Spec

-----------------------------------------------------------------------------
(* The theorems. *)

\* Every state of the daemon and its two files is well typed.
THEOREM DnsTypes == Spec => []TypeOK
<1>1. IInv => TypeOK  BY DEF IInv
<1> QED  BY <1>1, Invariance, PTL

\* A daemon that waits, with nothing pending, has seen the last change: no
\* order of changes, writes, failures and crashes loses a notification after
\* the registration (main.c:254-296).
THEOREM LastChangeSeen == Spec => []NothingLost
<1>1. IInv => NothingLost  BY DEF IInv, Seen, NothingLost
<1> QED  BY <1>1, Invariance, PTL

\* After a write without a failed call the file is that of the configuration,
\* for any number of resolvers and whatever was there before (write_dns).
THEOREM FilePublished == Spec => []Published
<1>1. IInv => Published  BY DEF IInv, Written, Published
<1> QED  BY <1>1, Invariance, PTL

\* The file is missing only during a write, after a failure, or when there is
\* nothing to say (empty_dns, set_dns).
THEOREM FileIsThere == Spec => []NoGap
<1>1. ASSUME IInv, file = Missing, ~failed, HasResolvers(conf), pc = "write", idx # 1
      PROVE  FALSE
  <2>1. conf # NoConfig /\ conf \in Seq(Resolvers) /\ idx \in Nat \ {0}
        BY <1>1, DnsAssumption, ConfType DEF IInv, TypeOK, HasResolvers
  <2>2. idx - 1 \in 1..Len(conf)  BY <1>1, <2>1 DEF IInv, Progress, Writing
  <2>3. file \in Contents(conf[idx - 1], domain)  BY <1>1, <2>1 DEF IInv, Written
  <2> QED  BY <1>1, <2>1, <2>2, <2>3, FilesAssumption DEF FilesAssumption, IInv
<1>2. ASSUME IInv, file = Missing, ~failed, HasResolvers(conf)
      PROVE  pc \in {"start", "write", "open", "fill", "rename"}
  BY <1>2 DEF IInv, Written, DownFailed, TypeOK, Labels
<1>3. IInv => NoGap  BY <1>1, <1>2 DEF NoGap
<1> QED  BY <1>3, Invariance, PTL

=============================================================================
