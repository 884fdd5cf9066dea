---------------------------- MODULE HalFilesProofs ----------------------------
(* Theorems about the file layer for every number of descriptors, all names  *)
(* and any number of files on the host: the table is sound whatever fails,   *)
(* a locked device stays closed, and the layer implements FileTable.         *)
(* Each call is first described by what it does to the table: nothing that   *)
(* can be seen, one descriptor more, or one less.                            *)
EXTENDS HalFiles, SequenceTheorems, WellFoundedInduction, TLAPS

\* A set of natural numbers that is not empty has a least member.
LEMMA LeastMember ==
  ASSUME NEW S \in SUBSET Nat, S # {}
  PROVE  Min(S) \in S /\ \A y \in S : Min(S) <= y
<1>1. PICK m \in S : \A k \in S : <<k, m>> \notin OpToRel(<, Nat)
  BY WFMin, NatLessThanWellFounded, Zenon
<1>2. \A k \in S : k \in Nat /\ m \in Nat /\ <<k, m>> \in Nat \X Nat
  OBVIOUS
<1>3. \A k \in S : ~(k < m)
  BY <1>1, <1>2, Zenon DEF OpToRel
<1>4. \A k \in S : m <= k
  BY <1>2, <1>3
<1> QED
  BY <1>4, Zenon DEF Min

\* The states of the table.
TableState ==
  [fd : [Fds -> Descriptor], max : -1..(MaxFd - 1), host : [Handles -> Names \cup {None}]]

\* What the constants are.
LEMMA Constant ==
  /\ MaxFd \in Nat /\ MaxFd > 3 /\ Stdio \subseteq Fds /\ Fds \subseteq Nat
  /\ None \notin Handles /\ None \notin {Console, Null, HostFs} /\ None \notin Names
  /\ HostFs # Console /\ HostFs # Null
  /\ Free \in Descriptor
BY HalAssumption DEF Stdio, Fds, Free, Descriptor, Modes

\* The descriptor that alt_get_fd finds is the least free one.
LEMMA GetFdLeast ==
  ASSUME NEW s \in TableState
  PROVE  /\ GetFd(s) \in Fds \cup {MaxFd}
         /\ GetFd(s) # MaxFd => s.fd[GetFd(s)].dev = None
         /\ \A i \in Fds : s.fd[i].dev = None => GetFd(s) <= i
<1> DEFINE S == {i \in Fds : s.fd[i].dev = None} \cup {MaxFd}
<1>1. S \in SUBSET Nat /\ S # {}
  BY Constant
<1>2. Min(S) \in S /\ \A y \in S : Min(S) <= y
  BY <1>1, LeastMember
<1>3. GetFd(s) = Min(S)
  BY DEF GetFd
<1> HIDE DEF S
<1>4. MaxFd \notin Fds
  BY Constant DEF Fds
<1> QED
  BY <1>2, <1>3, <1>4 DEF S

\* A table is made of its parts.
LEMMA TableParts ==
  ASSUME NEW fd \in [Fds -> Descriptor], NEW max \in -1..(MaxFd - 1),
         NEW host \in [Handles -> Names \cup {None}], NEW u,
         u = [fd |-> fd, max |-> max, host |-> host]
  PROVE  u \in TableState /\ u.fd = fd /\ u.max = max /\ u.host = host
BY DEF TableState

\* What alt_get_fd writes to the entry it has found.
LEMMA AllocateParts ==
  ASSUME NEW s \in TableState, NEW i \in Fds, NEW dev
  PROVE  Allocate(s, i, dev) =
           [fd |-> [s.fd EXCEPT ![i] = [s.fd[i] EXCEPT !.dev = dev]],
            max |-> IF i > s.max THEN i ELSE s.max, host |-> s.host]
<1>1. s = [fd |-> s.fd, max |-> s.max, host |-> s.host] /\ s.fd \in [Fds -> Descriptor]
  BY DEF TableState
<1> DEFINE m == IF i > s.max THEN i ELSE s.max
<1>2. Allocate(s, i, dev) = [s EXCEPT !.fd[i].dev = dev, !.max = m]
  BY DEF Allocate
<1> HIDE DEF m
<1>3. Allocate(s, i, dev) =
        [fd |-> [s.fd EXCEPT ![i] = [s.fd[i] EXCEPT !.dev = dev]], max |-> m, host |-> s.host]
  BY <1>1, <1>2
<1> QED
  BY <1>3 DEF m

\* The table after alt_open has filled in the entry it has found.
Entered(s, i, dev, mode, nb, isdev) ==
  [Allocate(s, i, dev) EXCEPT !.fd[i].acc = mode, !.fd[i].nonblock = nb, !.fd[i].isdev = isdev]

\* The entry has what was written to it, and the rest of the table is as it was.
LEMMA EnteredEffect ==
  ASSUME NEW s \in TableState, NEW i \in Fds, NEW dev \in {Console, Null, HostFs},
         NEW mode \in Modes, NEW nb \in BOOLEAN, NEW isdev \in BOOLEAN, NEW u,
         u = Entered(s, i, dev, mode, nb, isdev)
  PROVE  /\ u \in TableState
         /\ u.fd[i].dev = dev /\ (u.fd[i].isdev <=> isdev)
         /\ u.fd[i].priv = s.fd[i].priv /\ (u.fd[i].excl <=> s.fd[i].excl)
         /\ \A j \in Fds \ {i} : u.fd[j] = s.fd[j]
         /\ u.max = (IF i > s.max THEN i ELSE s.max)
         /\ u.host = s.host
<1> DEFINE a == [s.fd[i] EXCEPT !.dev = dev]
           b == [a EXCEPT !.acc = mode]
           c == [b EXCEPT !.nonblock = nb]
           d == [c EXCEPT !.isdev = isdev]
           m == IF i > s.max THEN i ELSE s.max
<1>1. s = [fd |-> s.fd, max |-> s.max, host |-> s.host] /\ s.fd \in [Fds -> Descriptor]
      /\ s.max \in -1..(MaxFd - 1) /\ s.host \in [Handles -> Names \cup {None}]
  BY DEF TableState
<1>2. Allocate(s, i, dev) = [fd |-> [s.fd EXCEPT ![i] = a], max |-> m, host |-> s.host]
  BY AllocateParts
<1>3. a \in Descriptor /\ b \in Descriptor /\ c \in Descriptor /\ d \in Descriptor
  BY <1>1 DEF Descriptor
<1>4. d.dev = dev /\ (d.isdev <=> isdev) /\ d.priv = s.fd[i].priv /\ (d.excl <=> s.fd[i].excl)
  <2>1. s.fd[i] \in Descriptor
    BY <1>1
  <2> QED
    BY <2>1 DEF Descriptor
<1> HIDE DEF a, b, c, d, m
<1>5. [[s.fd EXCEPT ![i] = a] EXCEPT ![i] = b] = [s.fd EXCEPT ![i] = b]
      /\ [[s.fd EXCEPT ![i] = b] EXCEPT ![i] = c] = [s.fd EXCEPT ![i] = c]
      /\ [[s.fd EXCEPT ![i] = c] EXCEPT ![i] = d] = [s.fd EXCEPT ![i] = d]
  BY <1>1
<1>6. u = [fd |-> [s.fd EXCEPT ![i] = d], max |-> m, host |-> s.host]
  <2> DEFINE ua == Allocate(s, i, dev)
             ub == [ua EXCEPT !.fd[i].acc = mode]
             uc == [ub EXCEPT !.fd[i].nonblock = nb]
             ud == [uc EXCEPT !.fd[i].isdev = isdev]
  <2>1. u = ud
    BY DEF Entered
  <2>2. ub = [fd |-> [s.fd EXCEPT ![i] = b], max |-> m, host |-> s.host]
    <3>1. [s.fd EXCEPT ![i] = a][i] = a
      BY <1>1
    <3> QED
      BY <1>1, <1>2, <1>5, <3>1 DEF b
  <2> HIDE DEF ub
  <2>3. uc = [fd |-> [s.fd EXCEPT ![i] = c], max |-> m, host |-> s.host]
    <3>1. [s.fd EXCEPT ![i] = b][i] = b
      BY <1>1
    <3> QED
      BY <1>1, <2>2, <1>5, <3>1 DEF c
  <2> HIDE DEF uc
  <2>4. ud = [fd |-> [s.fd EXCEPT ![i] = d], max |-> m, host |-> s.host]
    <3>1. [s.fd EXCEPT ![i] = c][i] = c
      BY <1>1
    <3> QED
      BY <1>1, <2>3, <1>5, <3>1 DEF d
  <2> QED
    BY <2>1, <2>4
<1>7. m \in -1..(MaxFd - 1) /\ [s.fd EXCEPT ![i] = d] \in [Fds -> Descriptor]
  <2>1. i \in 0..(MaxFd - 1) /\ s.max \in -1..(MaxFd - 1) /\ MaxFd \in Nat
    BY <1>1, Constant DEF Fds
  <2> QED
    BY <1>1, <1>3, <2>1 DEF m
<1> DEFINE f == [s.fd EXCEPT ![i] = d]
<1>8. f \in [Fds -> Descriptor] /\ u = [fd |-> f, max |-> m, host |-> s.host]
  BY <1>6, <1>7
<1>9. f[i] = d /\ \A j \in Fds \ {i} : f[j] = s.fd[j]
  BY <1>1
<1> HIDE DEF f
<1>10. u \in TableState /\ u.fd = f /\ u.max = m /\ u.host = s.host
  BY <1>1, <1>7, <1>8, TableParts
<1> QED
  BY <1>4, <1>9, <1>10 DEF m

\* A released descriptor is free, and keeps what the driver left in it.
LEMMA ReleaseEffect ==
  ASSUME NEW s \in TableState, NEW i \in Fds
  PROVE  /\ Release(s, i) \in TableState
         /\ i \in Stdio => Release(s, i) = s
         /\ i \notin Stdio => /\ Release(s, i).fd[i].dev = None /\ ~Release(s, i).fd[i].isdev
                            /\ ~Release(s, i).fd[i].excl
         /\ \A j \in Fds \ {i} : Release(s, i).fd[j] = s.fd[j]
         /\ Release(s, i).max = s.max /\ Release(s, i).host = s.host
<1>1. s = [fd |-> s.fd, max |-> s.max, host |-> s.host] /\ s.fd \in [Fds -> Descriptor]
  BY DEF TableState
<1>2. CASE i \in Stdio
  BY <1>2 DEF Release
<1>3. CASE i \notin Stdio
  <2> DEFINE d == [Free EXCEPT !.priv = s.fd[i].priv]
  <2>1. d \in Descriptor
    BY <1>1, Constant DEF Descriptor
  <2>4. d.dev = None /\ ~d.isdev /\ ~d.excl
    BY DEF Free
  <2> HIDE DEF d
  <2>2. Release(s, i) = [s EXCEPT !.fd[i] = d]
    BY <1>3 DEF Release, d
  <2>3. Release(s, i) = [fd |-> [s.fd EXCEPT ![i] = d], max |-> s.max, host |-> s.host]
    BY <1>1, <2>2
  <2> QED
    BY <1>1, <1>3, <2>1, <2>3, <2>4 DEF TableState
<1> QED
  BY <1>2, <1>3

\* An entry in front of a list of one.
LEMMA Joined ==
  ASSUME NEW a, NEW b
  PROVE  <<a>> \o <<b>> = <<a, b>>
<1> DEFINE S == {a, b}
<1>1. <<a>> \in Seq(S) /\ <<b>> \in Seq(S) /\ <<a, b>> \in Seq(S)
  OBVIOUS
<1>2. Len(<<a>>) = 1 /\ Len(<<b>>) = 1 /\ Len(<<a, b>>) = 2
  OBVIOUS
<1> HIDE DEF S
<1>3. <<a>> \o <<b>> \in Seq(S) /\ Len(<<a>> \o <<b>>) = 2
  BY <1>1, <1>2
<1>4. (<<a>> \o <<b>>)[1] = a /\ (<<a>> \o <<b>>)[2] = b
  BY <1>1, <1>2
<1>5. \A i \in 1 .. Len(<<a>> \o <<b>>) : (<<a>> \o <<b>>)[i] = <<a, b>>[i]
  BY <1>3, <1>4
<1> QED
  BY <1>1, <1>2, <1>3, <1>5, SeqEqual

\* Until main there are two devices and one file system, and before those there
\* is the null device.
LEMMA DevicesFound ==
  ASSUME BootInv, NEW name
  PROVE  /\ FindDev(name) \in {Console, Null, None}
         /\ FindFile(name) \in {HostFs, None}
         /\ phase # "init" => FindDev(ConsoleName) = Console
<1> DEFINE D(n) == {i \in DOMAIN devList : devList[i].name = n}
           F == {i \in DOMAIN fsList : IsPrefix(fsList[i].name, name)}
           con == [dev |-> Console, name |-> ConsoleName]
           nul == [dev |-> Null, name |-> NullName]
           hfs == [dev |-> HostFs, name |-> HostFsName]
<1>0. /\ phase = "init" => devList = <<nul>> /\ fsList = <<>>
      /\ phase # "init" => devList = <<con>> \o <<nul>> /\ fsList = <<hfs>>
  BY DEF BootInv
<1> HIDE DEF con, nul, hfs
<1>1. \/ devList = <<nul>> /\ fsList = <<>>
      \/ devList = <<con, nul>> /\ fsList = <<hfs>>
  BY <1>0, Joined
<1>2. phase # "init" => devList = <<con, nul>>
  BY <1>0, Joined
<1> USE DEF con, nul, hfs
<1>3. /\ \A i \in DOMAIN devList : devList[i].dev \in {Console, Null}
      /\ \A i \in DOMAIN fsList : fsList[i].dev = HostFs
      /\ DOMAIN devList \subseteq 1..2 /\ DOMAIN fsList \subseteq 1..1
  BY <1>1
<1>4. \A n : D(n) \in SUBSET Nat
  BY <1>3
<1>5. \A n : D(n) # {} => Min(D(n)) \in D(n) /\ \A y \in D(n) : Min(D(n)) <= y
  BY <1>4, LeastMember
<1>6. F # {} => Min(F) \in F
  <2>1. F \in SUBSET Nat
    BY <1>3
  <2> HIDE DEF F
  <2> QED
    BY <2>1, LeastMember
<1>7. \A n : FindDev(n) = (IF D(n) = {} THEN None ELSE devList[Min(D(n))].dev)
  BY DEF FindDev, FirstDev
<1>8. FindFile(name) = (IF F = {} THEN None ELSE fsList[Min(F)].dev)
  BY DEF FindFile, FirstDev
<1>9. ASSUME phase # "init" PROVE FindDev(ConsoleName) = Console
  <2>1. devList = <<con, nul>>
    BY <1>2, <1>9
  <2>2. 1 \in D(ConsoleName) /\ D(ConsoleName) \subseteq 1..2 /\ devList[1].dev = Console
    BY <2>1
  <2>3. Min(D(ConsoleName)) \in 1..2 /\ Min(D(ConsoleName)) <= 1
    BY <1>5, <2>2
  <2>4. Min(D(ConsoleName)) = 1
    BY <2>3
  <2> QED
    BY <1>7, <2>2, <2>4
<1>10. FindDev(name) \in {Console, Null, None}
  BY <1>3, <1>5, <1>7
<1>11. FindFile(name) \in {HostFs, None}
  <2> HIDE DEF F
  <2>1. F \subseteq DOMAIN fsList
    BY DEF F
  <2> QED
    BY <1>3, <1>6, <1>8, <2>1
<1> QED
  BY <1>9, <1>10, <1>11

\* A table in which the same descriptors stand for the same files.
Alike(s, u) ==
  /\ u \in TableState /\ u.host = s.host /\ s.max <= u.max
  /\ \A j \in Fds : /\ u.fd[j].dev = s.fd[j].dev
                    /\ s.fd[j].dev = HostFs => u.fd[j].priv = s.fd[j].priv
                    /\ u.fd[j].isdev => s.fd[j].isdev
                    /\ u.fd[j].excl => u.fd[j].isdev

\* A table with a new descriptor i for a device, or for the file name that the
\* host has opened as h.
Added(s, u, i, dev, name, h) ==
  /\ u \in TableState /\ i \in Fds \ Stdio /\ s.fd[i].dev = None
  /\ \A j \in Fds : s.fd[j].dev = None => i <= j
  /\ dev \in {Console, Null, HostFs} /\ u.fd[i].dev = dev
  /\ u.fd[i].isdev => dev # HostFs
  /\ ~u.fd[i].excl
  /\ \A j \in Fds \ {i} : u.fd[j] = s.fd[j]
  /\ u.max = (IF i > s.max THEN i ELSE s.max)
  /\ IF dev = HostFs
       THEN /\ h \in Handles /\ s.host[h] = None /\ u.fd[i].priv = h
            /\ name \in Names /\ u.host = [s.host EXCEPT ![h] = name]
       ELSE /\ u.host = s.host
            /\ \A j \in Fds : s.fd[j].dev = dev => ~s.fd[j].excl

\* What the invariant says of single descriptors.
LEMMA InvParts ==
  ASSUME TableInv
  PROVE  /\ t \in TableState /\ t.fd \in [Fds -> Descriptor]
         /\ t.max \in -1..(MaxFd - 1) /\ t.host \in [Handles -> Names \cup {None}]
         /\ InUse \subseteq Fds /\ \A i \in Fds : i \in InUse <=> t.fd[i].dev # None
         /\ \A i \in Stdio : i \in Fds /\ t.fd[i].dev \in {Console, Null}
         /\ \A i \in Fds : t.fd[i].excl => t.fd[i].isdev /\ t.fd[i].dev \in {Console, Null}
         /\ \A i \in Fds : t.fd[i].isdev => t.fd[i].dev \in {Console, Null}
         /\ \A i \in Fds : t.fd[i].excl => i <= t.max
<1>1. t \in TableState /\ DeviceInv /\ MaxInv /\ BootInv
  BY DEF TableInv, TypeOK, TableState
<1>2. t.fd \in [Fds -> Descriptor] /\ t.max \in -1..(MaxFd - 1)
      /\ t.host \in [Handles -> Names \cup {None}]
  BY <1>1 DEF TableState
<1>3. InUse \subseteq Fds /\ \A i \in Fds : i \in InUse <=> t.fd[i].dev # None
  BY DEF InUse
<1>4. /\ \A i \in Stdio : i \in Fds /\ t.fd[i].dev \in {Console, Null}
      /\ \A i \in Fds : t.fd[i].excl => t.fd[i].isdev /\ t.fd[i].dev \in {Console, Null}
      /\ \A i \in Fds : t.fd[i].isdev => t.fd[i].dev \in {Console, Null}
  BY <1>1, Constant DEF DeviceInv
<1>5. ASSUME NEW i \in Fds, t.fd[i].excl PROVE i <= t.max
  <2>1. phase \in {"main", "exit"}
    BY <1>1, <1>5 DEF BootInv
  <2>2. i \in InUse
    BY <1>3, <1>4, <1>5, Constant
  <2> QED
    BY <1>1, <2>1, <2>2 DEF MaxInv
<1> QED
  BY <1>1, <1>2, <1>3, <1>4, <1>5

\* An open adds the least free descriptor, or changes nothing that can be seen
\* and returns an error: on a device that is locked, on a file that the host
\* refuses, without a device of that name or a free descriptor.
LEMMA OpenedEffect ==
  ASSUME TableInv, NEW name, NEW mode \in Modes, NEW nb \in BOOLEAN,
         NEW h \in HostAnswers(t), h # None => name \in Names,
         NEW o, o = Opened(t, name, mode, nb, h)
  PROVE  /\ \/ o.rc = -1 /\ Alike(t, o.t)
            \/ /\ o.rc \in Fds
               /\ o.rc = GetFd(t)
               /\ \E dev : Added(t, o.t, o.rc, dev, name, h) /\ FindDev(name) \in {dev, None}
         /\ FindDev(name) # None /\ GetFd(t) # MaxFd /\ (\A j \in Fds : ~t.fd[j].excl) => o.rc # -1
<1> DEFINE dev == IF FindDev(name) # None THEN FindDev(name) ELSE FindFile(name)
           isafs == FindDev(name) = None
           i == GetFd(t)
           s1 == Entered(t, i, dev, mode, nb, ~isafs)
           s2 == [s1 EXCEPT !.fd[i].priv = h, !.host[h] = name]
<1>1. o = IF dev = None \/ i = MaxFd THEN [t |-> t, rc |-> -1]
          ELSE IF ~isafs /\ Locked(s1, i) THEN [t |-> Release(s1, i), rc |-> -1]
          ELSE IF ~isafs THEN [t |-> s1, rc |-> i]
          ELSE IF h = None THEN [t |-> Release(s1, i), rc |-> -1]
          ELSE [t |-> s2, rc |-> i]
  BY DEF Opened, Entered
<1>2. /\ FindDev(name) \in {Console, Null, None} /\ FindFile(name) \in {HostFs, None}
      /\ None \notin {Console, Null, HostFs} /\ HostFs # Console /\ HostFs # Null /\ None \notin Handles
  BY DevicesFound, Constant DEF TableInv
<1>3. /\ dev \in {Console, Null, HostFs, None} /\ (isafs => dev \in {HostFs, None})
      /\ (~isafs => dev \in {Console, Null} /\ FindDev(name) = dev)
  BY <1>2
<1>4. /\ t \in TableState /\ t.fd \in [Fds -> Descriptor] /\ t.max \in -1..(MaxFd - 1)
      /\ t.host \in [Handles -> Names \cup {None}] /\ Stdio \subseteq Fds
      /\ \A j \in Stdio : t.fd[j].dev # None
      /\ \A j \in Fds : t.fd[j].excl => t.fd[j].isdev
      /\ \A j \in Fds : t.fd[j].excl => j <= t.max
      /\ \A j \in Fds : t.fd[j].isdev => t.fd[j].dev # None
  BY <1>2, InvParts, Constant
<1>5. ASSUME dev = None \/ i = MaxFd PROVE o.rc = -1 /\ Alike(t, o.t)
  <2>1. o.rc = -1 /\ o.t = t
    BY <1>1, <1>5
  <2> QED
    BY <1>4, <2>1 DEF Alike
<1>6. ASSUME dev # None, i # MaxFd
      PROVE  /\ i \in Fds \ Stdio /\ t.fd[i].dev = None
             /\ \A j \in Fds : t.fd[j].dev = None => i <= j
             /\ s1 \in TableState /\ dev \in {Console, Null, HostFs}
             /\ s1.fd[i].dev = dev /\ (s1.fd[i].isdev <=> ~isafs)
             /\ ~s1.fd[i].excl /\ s1.fd[i].priv = t.fd[i].priv
             /\ \A j \in Fds \ {i} : s1.fd[j] = t.fd[j]
             /\ s1.max = (IF i > t.max THEN i ELSE t.max) /\ s1.host = t.host
  <2>1. i \in Fds \cup {MaxFd} /\ (i # MaxFd => t.fd[i].dev = None)
        /\ \A j \in Fds : t.fd[j].dev = None => i <= j
    BY <1>4, GetFdLeast
  <2>2. i \in Fds \ Stdio /\ t.fd[i].dev = None
    BY <1>4, <1>6, <2>1
  <2>3. dev \in {Console, Null, HostFs} /\ (~isafs) \in BOOLEAN
    BY <1>3, <1>6
  <2>4. ~t.fd[i].excl /\ t.fd[i] \in Descriptor
    BY <1>4, <2>2
  <2> DEFINE inner == ~isafs
  <2> HIDE DEF i, dev, isafs, inner
  <2>5. inner \in BOOLEAN /\ (inner <=> ~isafs) /\ s1 = Entered(t, i, dev, mode, nb, inner)
    BY <2>3 DEF inner
  <2> HIDE DEF s1
  <2>6. /\ s1 \in TableState /\ s1.fd[i].dev = dev /\ (s1.fd[i].isdev <=> inner)
        /\ s1.fd[i].priv = t.fd[i].priv /\ (s1.fd[i].excl <=> t.fd[i].excl)
        /\ \A j \in Fds \ {i} : s1.fd[j] = t.fd[j]
        /\ s1.max = (IF i > t.max THEN i ELSE t.max) /\ s1.host = t.host
    BY <1>4, <2>2, <2>3, <2>5, EnteredEffect
  <2> QED
    BY <2>1, <2>2, <2>3, <2>4, <2>5, <2>6
<1> HIDE DEF i, dev, isafs, s1, s2
<1>7. ASSUME dev # None, i # MaxFd, o = [t |-> Release(s1, i), rc |-> -1]
      PROVE  o.rc = -1 /\ Alike(t, o.t)
  <2>1. /\ o.t \in TableState /\ o.t.fd[i].dev = None /\ ~o.t.fd[i].isdev /\ ~o.t.fd[i].excl
        /\ \A j \in Fds \ {i} : o.t.fd[j] = s1.fd[j]
        /\ o.t.max = s1.max /\ o.t.host = s1.host
    BY <1>6, <1>7, ReleaseEffect
  <2>2. t.max <= o.t.max
    <3>1. i \in Int /\ t.max \in Int
      BY <1>4, <1>6, <1>7, Constant DEF Fds
    <3> QED
      BY <1>6, <1>7, <2>1, <3>1
  <2> QED
    BY <1>2, <1>4, <1>6, <1>7, <2>1, <2>2 DEF Alike
<1>8. ASSUME dev # None, i # MaxFd, ~isafs, ~Locked(s1, i)
      PROVE  o.rc = i /\ Added(t, o.t, i, dev, name, h)
  <2>1. o.t = s1 /\ o.rc = i
    BY <1>1, <1>8
  <2>2. ASSUME NEW j \in Fds, t.fd[j].dev = dev PROVE ~t.fd[j].excl
    <3>1. j # i
      BY <1>2, <1>3, <1>6, <1>8, <2>2
    <3>2. s1.fd[j] = t.fd[j] /\ s1.fd[i].dev = dev
      BY <1>6, <1>8, <3>1
    <3>3. j <= t.max => j \in 0..s1.max
      BY <1>4, <1>6, <1>8, Constant DEF Fds
    <3> QED
      BY <1>4, <1>8, <2>2, <3>1, <3>2, <3>3 DEF Locked
  <2> QED
    BY <1>2, <1>3, <1>6, <1>8, <2>1, <2>2 DEF Added
<1>9. ASSUME dev # None, i # MaxFd, isafs, h # None
      PROVE  o.rc = i /\ Added(t, o.t, i, dev, name, h)
  <2>1. o.t = s2 /\ o.rc = i
    BY <1>1, <1>9
  <2>2. h \in Handles /\ t.host[h] = None /\ name \in Names /\ dev = HostFs
    BY <1>3, <1>9 DEF HostAnswers
  <2> DEFINE d == [s1.fd[i] EXCEPT !.priv = h]
  <2>3. s1 = [fd |-> s1.fd, max |-> s1.max, host |-> s1.host] /\ s1.fd \in [Fds -> Descriptor]
        /\ s1.max \in -1..(MaxFd - 1) /\ s1.host \in [Handles -> Names \cup {None}]
    BY <1>6, <1>9 DEF TableState
  <2>4. d \in Descriptor /\ d.dev = s1.fd[i].dev /\ d.priv = h /\ (d.isdev <=> s1.fd[i].isdev)
        /\ (d.excl <=> s1.fd[i].excl)
    BY <1>6, <1>9, <2>2, <2>3 DEF Descriptor
  <2>5. s2 = [fd |-> [s1.fd EXCEPT ![i] = d], max |-> s1.max,
              host |-> [s1.host EXCEPT ![h] = name]]
    <3> DEFINE x == [s1 EXCEPT !.fd[i].priv = h]
    <3>1. x = [fd |-> [s1.fd EXCEPT ![i] = d], max |-> s1.max, host |-> s1.host]
      BY <2>3
    <3>2. s2 = [x EXCEPT !.host[h] = name]
      BY DEF s2
    <3> HIDE DEF x, d
    <3> QED
      BY <3>1, <3>2
  <2> HIDE DEF d
  <2> DEFINE f == [s1.fd EXCEPT ![i] = d]
             g == [s1.host EXCEPT ![h] = name]
  <2>6. f \in [Fds -> Descriptor] /\ g \in [Handles -> Names \cup {None}]
    BY <1>6, <1>9, <2>2, <2>3, <2>4
  <2>7. f[i] = d /\ \A j \in Fds \ {i} : f[j] = s1.fd[j]
    BY <1>6, <1>9, <2>3
  <2>8. g = [t.host EXCEPT ![h] = name]
    BY <1>6, <1>9
  <2> HIDE DEF f, g
  <2>9. s2 \in TableState /\ s2.fd = f /\ s2.max = s1.max /\ s2.host = g
    BY <2>3, <2>5, <2>6, TableParts DEF f, g
  <2>10. dev \in {Console, Null, HostFs} /\ ~s2.fd[i].isdev /\ ~s2.fd[i].excl /\ s2.fd[i].dev = dev
         /\ s2.fd[i].priv = h
    BY <1>6, <1>9, <2>4, <2>7, <2>9
  <2> QED
    BY <1>6, <1>9, <2>1, <2>2, <2>7, <2>8, <2>9, <2>10 DEF Added
<1>10. FindDev(name) \in {dev, None}
  BY <1>3 DEF isafs
<1>11. i = GetFd(t)
  BY DEF i
<1>12. \/ o.rc = -1 /\ Alike(t, o.t)
       \/ o.rc = i /\ i # MaxFd /\ dev # None /\ Added(t, o.t, i, dev, name, h)
  BY <1>1, <1>5, <1>7, <1>8, <1>9
<1>13. ASSUME FindDev(name) # None, i # MaxFd, \A j \in Fds : ~t.fd[j].excl
       PROVE  o.rc # -1
  <2>1. ~isafs /\ dev # None
    BY <1>2, <1>13 DEF isafs, dev
  <2>2. ~Locked(s1, i)
    <3>1. SUFFICES ASSUME NEW j \in 0..s1.max, j # i, s1.fd[j].excl
                   PROVE  FALSE
      BY DEF Locked
    <3>2. i \in Int /\ t.max \in Int /\ MaxFd \in Int /\ i <= MaxFd - 1 /\ t.max <= MaxFd - 1
      BY <1>4, <1>6, <1>13, <2>1, Constant DEF Fds
    <3>3. j \in Fds
      BY <1>6, <1>13, <2>1, <3>2 DEF Fds
    <3> QED
      BY <1>6, <1>13, <2>1, <3>1, <3>3
  <2> QED
    BY <1>1, <1>6, <1>13, <2>1, <2>2, Constant
<1> QED
  BY <1>6, <1>10, <1>11, <1>12, <1>13

\* A table without descriptor i, and without the file that the host had open
\* for it.
Removed(s, u, i) ==
  /\ u \in TableState /\ i \in Fds \ Stdio
  /\ u.fd[i].dev = None /\ ~u.fd[i].isdev /\ ~u.fd[i].excl
  /\ \A j \in Fds \ {i} : u.fd[j] = s.fd[j]
  /\ u.max = s.max
  /\ u.host = IF s.fd[i].dev = HostFs THEN [s.host EXCEPT ![s.fd[i].priv] = None] ELSE s.host

\* A close leaves the standard descriptors and removes any other.
LEMMA ClosedEffect ==
  ASSUME NEW s \in TableState, NEW i \in Fds,
         s.fd[i].dev = HostFs => i \notin Stdio /\ s.fd[i].priv \in Handles,
         NEW u, u = Closed(s, i)
  PROVE  /\ i \in Stdio => u = s
         /\ i \notin Stdio => Removed(s, u, i)
<1>1. CASE s.fd[i].dev # HostFs
  <2>1. u = Release(s, i)
    BY <1>1 DEF Closed
  <2> QED
    BY <1>1, <2>1, ReleaseEffect DEF Removed
<1>2. CASE s.fd[i].dev = HostFs
  <2> DEFINE p == s.fd[i].priv
             g == [s.host EXCEPT ![p] = None]
             x == [s EXCEPT !.host[p] = None]
  <2>1. s = [fd |-> s.fd, max |-> s.max, host |-> s.host] /\ s.fd \in [Fds -> Descriptor]
        /\ s.max \in -1..(MaxFd - 1) /\ s.host \in [Handles -> Names \cup {None}]
    BY DEF TableState
  <2>2. u = Release(x, i) /\ p \in Handles
    BY <1>2 DEF Closed
  <2> HIDE DEF p
  <2>3. x = [fd |-> s.fd, max |-> s.max, host |-> g] /\ g \in [Handles -> Names \cup {None}]
    <3>1. g \in [Handles -> Names \cup {None}]
      BY <2>1
    <3>2. x = [s EXCEPT !.host = g]
      OBVIOUS
    <3> HIDE DEF g, x
    <3> QED
      BY <2>1, <3>1, <3>2
  <2> HIDE DEF x, g
  <2>4. x \in TableState /\ x.fd = s.fd /\ x.max = s.max /\ x.host = g
    BY <2>1, <2>3, TableParts
  <2>5. /\ u \in TableState /\ u.fd[i].dev = None /\ ~u.fd[i].isdev /\ ~u.fd[i].excl
        /\ \A j \in Fds \ {i} : u.fd[j] = s.fd[j]
        /\ u.max = s.max /\ u.host = g
    BY <1>2, <2>2, <2>4, ReleaseEffect
  <2> QED
    BY <1>2, <2>5 DEF Removed, g, p
<1> QED
  BY <1>1, <1>2

\* A descriptor for a file of the host names a file that the host has open.
LEMMA HostHandles ==
  ASSUME TableInv, NEW i \in InUse, t.fd[i].dev = HostFs
  PROVE  /\ i \in Fds \ Stdio /\ t.fd[i].priv \in Handles /\ t.host[t.fd[i].priv] \in Names
<1>1. i \in OnHost /\ HostInv
  BY DEF OnHost, TableInv
<1>2. t.fd[i].priv \in {h \in Handles : t.host[h] # None}
  BY <1>1 DEF HostInv
<1> QED
  BY <1>2, InvParts, Constant

\* A step that leaves the same descriptors in place keeps the invariant, and
\* what the table shows.
LEMMA AlikeStep ==
  ASSUME TableInv, phase = "main", UNCHANGED <<phase, devList, fsList>>, Alike(t, t'),
         reached' \in Names \cup {Console, Null, None}, rc' \in {"ok", "error"}
  PROVE  /\ TableInv'
         /\ InUse' = InUse /\ \A i \in InUse : Target(t', i) = Target(t, i)
         /\ \A i \in Fds : Sharing(t', i) = Sharing(t, i)
<1>1. /\ t' \in TableState /\ t'.host = t.host /\ t.max <= t'.max
      /\ \A j \in Fds : /\ t'.fd[j].dev = t.fd[j].dev
                        /\ t.fd[j].dev = HostFs => t'.fd[j].priv = t.fd[j].priv
                        /\ t'.fd[j].isdev => t.fd[j].isdev
                        /\ t'.fd[j].excl => t'.fd[j].isdev
  BY DEF Alike
<1>2. InUse' = InUse /\ OnHost' = OnHost /\ OnHost \subseteq InUse /\ InUse \subseteq Fds
  BY <1>1 DEF InUse, OnHost
<1>3. TypeOK'
  BY <1>1 DEF TableInv, TypeOK, TableState
<1>4. HostInv'
  <2>1. \A i \in OnHost : t'.fd[i].priv = t.fd[i].priv
    BY <1>1, <1>2 DEF OnHost
  <2> QED
    BY <1>1, <1>2, <2>1 DEF TableInv, HostInv
<1>5. DeviceInv'
  BY <1>1, InvParts, Constant DEF DeviceInv
<1>6. MaxInv'
  <2>1. t.max \in Int /\ t'.max \in Int /\ Fds \subseteq Int /\ Stdio \subseteq Int
    BY <1>1, InvParts, Constant DEF TableState, Stdio
  <2>2. MaxInv /\ phase' = phase
    BY DEF TableInv
  <2>3. ASSUME NEW i \in Fds, i <= t.max PROVE i <= t'.max
    BY <1>1, <2>1, <2>3
  <2> QED
    BY <1>2, <2>2, <2>3, Constant DEF MaxInv
<1>7. BootInv'
  BY DEF TableInv, BootInv
<1>8. \A i \in InUse : Target(t', i) = Target(t, i)
  BY <1>1, <1>2 DEF Target
<1>9. \A i \in Fds : Sharing(t', i) = Sharing(t, i)
  BY <1>1 DEF Sharing
<1> QED
  BY <1>2, <1>3, <1>4, <1>5, <1>6, <1>7, <1>8, <1>9 DEF TableInv

\* A new descriptor keeps the invariant: the host's handle is not that of
\* another descriptor.
LEMMA AddedStep ==
  ASSUME TableInv, phase = "main", UNCHANGED <<phase, devList, fsList>>,
         NEW i, NEW dev, NEW name, NEW h, Added(t, t', i, dev, name, h),
         reached' \in Names \cup {Console, Null, None}, rc' \in {"ok", "error"}
  PROVE  /\ TableInv'
         /\ i \notin InUse /\ InUse' = InUse \cup {i}
         /\ Target(t', i) \in Names \cup {Console, Null}
         /\ \A j \in InUse : Target(t', j) = Target(t, j)
         /\ \A j \in Fds : t.fd[j].excl => Sharing(t', j) \subseteq Sharing(t, j)
<1>1. /\ t' \in TableState /\ i \in Fds \ Stdio /\ t.fd[i].dev = None
      /\ dev \in {Console, Null, HostFs} /\ t'.fd[i].dev = dev
      /\ (t'.fd[i].isdev => dev # HostFs) /\ ~t'.fd[i].excl
      /\ \A j \in Fds \ {i} : t'.fd[j] = t.fd[j]
      /\ t'.max = (IF i > t.max THEN i ELSE t.max)
      /\ dev = HostFs => /\ h \in Handles /\ t.host[h] = None /\ t'.fd[i].priv = h
                         /\ name \in Names /\ t'.host = [t.host EXCEPT ![h] = name]
      /\ dev # HostFs => /\ t'.host = t.host
                         /\ \A j \in Fds : t.fd[j].dev = dev => ~t.fd[j].excl
  BY DEF Added
<1>2. i \notin InUse /\ InUse' = InUse \cup {i} /\ InUse \subseteq Fds
      /\ OnHost \subseteq InUse /\ OnHost' = IF dev = HostFs THEN OnHost \cup {i} ELSE OnHost
  <2>1. InUse' = InUse \cup {i} /\ i \notin InUse /\ InUse \subseteq Fds
    BY <1>1, Constant DEF InUse
  <2> QED
    BY <1>1, <2>1 DEF OnHost
<1>3. \A j \in OnHost : t.fd[j].priv \in Handles /\ t.host[t.fd[j].priv] \in Names
  BY HostHandles DEF OnHost
<1>4. dev = HostFs => /\ t'.host[h] = name /\ \A k \in Handles \ {h} : t'.host[k] = t.host[k]
                      /\ \A j \in OnHost : t.fd[j].priv # h
  <2>1. t.host \in [Handles -> Names \cup {None}]
    BY InvParts
  <2> QED
    BY <1>1, <1>3, <2>1, Constant
<1>5. TypeOK'
  BY <1>1 DEF TableInv, TypeOK, TableState
<1>6. \A j \in InUse : t'.fd[j] = t.fd[j]
  BY <1>1, <1>2
<1>7. HostInv'
  <2>1. HostInv
    BY DEF TableInv
  <2>2. CASE dev # HostFs
    <3>1. OnHost' = OnHost /\ t'.host = t.host /\ \A j \in OnHost : t'.fd[j] = t.fd[j]
      BY <1>1, <1>2, <1>6, <2>2
    <3> QED
      BY <2>1, <3>1 DEF HostInv
  <2>3. CASE dev = HostFs
    <3>1. /\ OnHost' = OnHost \cup {i} /\ t'.fd[i].priv = h
          /\ \A j \in OnHost : t'.fd[j].priv = t.fd[j].priv /\ t.fd[j].priv # h
      BY <1>1, <1>2, <1>4, <1>6, <2>3
    <3>2. {k \in Handles : t'.host[k] # None} = {k \in Handles : t.host[k] # None} \cup {h}
      BY <1>1, <1>4, <2>3, Constant
    <3>3. {t'.fd[j].priv : j \in OnHost'} = {t.fd[j].priv : j \in OnHost} \cup {h}
      BY <3>1
    <3>4. \A j, k \in OnHost' : t'.fd[j].priv = t'.fd[k].priv => j = k
      BY <2>1, <3>1 DEF HostInv
    <3> QED
      BY <2>1, <3>2, <3>3, <3>4 DEF HostInv
  <2> QED
    BY <2>2, <2>3
<1>8. DeviceInv'
  <2>1. ASSUME NEW j \in Fds
        PROVE  /\ j \in Stdio => t'.fd[j].dev \in {Console, Null}
               /\ t'.fd[j].isdev => t'.fd[j].dev \in {Console, Null}
               /\ t'.fd[j].excl => t'.fd[j].isdev
    <3>1. CASE j = i
      BY <1>1, <3>1
    <3>2. CASE j # i
      BY <1>1, <3>2, InvParts
    <3> QED
      BY <3>1, <3>2
  <2> QED
    BY <2>1, Constant DEF DeviceInv
<1>9. MaxInv'
  <2>1. t.max \in Int /\ Fds \subseteq Int /\ i \in Int
    BY <1>1, InvParts, Constant
  <2>2. ASSUME NEW j \in Fds, j <= t.max PROVE j <= t'.max
    BY <1>1, <2>1, <2>2
  <2>3. i <= t'.max
    BY <1>1, <2>1
  <2>4. MaxInv /\ phase' = phase
    BY DEF TableInv
  <2> QED
    BY <1>2, <2>2, <2>3, <2>4, Constant DEF MaxInv
<1>10. BootInv'
  BY DEF TableInv, BootInv
<1>11. ASSUME NEW j \in InUse PROVE Target(t', j) = Target(t, j)
  <2>1. t'.fd[j] = t.fd[j]
    BY <1>6
  <2>2. CASE t.fd[j].dev = HostFs
    <3>1. t.fd[j].priv \in Handles /\ (dev = HostFs => t.fd[j].priv # h)
      BY <1>3, <1>4, <2>2 DEF OnHost
    <3> QED
      BY <1>1, <1>4, <2>1, <2>2, <3>1 DEF Target
  <2>3. CASE t.fd[j].dev # HostFs
    BY <2>1, <2>3 DEF Target
  <2> QED
    BY <2>2, <2>3
<1>12. Target(t', i) \in Names \cup {Console, Null}
  BY <1>1, <1>4 DEF Target
<1>13. ASSUME NEW j \in Fds, t.fd[j].excl PROVE Sharing(t', j) \subseteq Sharing(t, j)
  <2>1. t.fd[j].dev \in {Console, Null} /\ j # i
    BY <1>1, <1>13, InvParts, Constant
  <2>2. t.fd[j].dev # dev
    BY <1>1, <1>13, <2>1, Constant
  <2>3. t'.fd[j] = t.fd[j]
    BY <1>1, <2>1
  <2> QED
    BY <1>1, <2>2, <2>3 DEF Sharing
<1> QED
  BY <1>2, <1>5, <1>7, <1>8, <1>9, <1>10, <1>11, <1>12, <1>13 DEF TableInv

\* A descriptor less keeps the invariant: its file was open for it alone.
LEMMA RemovedStep ==
  ASSUME TableInv, phase = "main", UNCHANGED <<phase, devList, fsList>>,
         NEW i \in InUse, Removed(t, t', i),
         reached' \in Names \cup {Console, Null, None}, rc' \in {"ok", "error"}
  PROVE  /\ TableInv'
         /\ InUse' = InUse \ {i}
         /\ \A j \in InUse \ {i} : Target(t', j) = Target(t, j)
         /\ \A j \in Fds : t.fd[j].excl /\ t'.fd[j].excl => Sharing(t', j) \subseteq Sharing(t, j)
<1> DEFINE p == t.fd[i].priv
<1>1. /\ t' \in TableState /\ i \in Fds \ Stdio
      /\ t'.fd[i].dev = None /\ ~t'.fd[i].isdev /\ ~t'.fd[i].excl
      /\ \A j \in Fds \ {i} : t'.fd[j] = t.fd[j]
      /\ t'.max = t.max
      /\ t.fd[i].dev = HostFs => t'.host = [t.host EXCEPT ![p] = None]
      /\ t.fd[i].dev # HostFs => t'.host = t.host
  BY DEF Removed
<1>2. /\ InUse' = InUse \ {i} /\ InUse \subseteq Fds
      /\ OnHost \subseteq InUse /\ OnHost' = OnHost \ {i}
      /\ i \in OnHost <=> t.fd[i].dev = HostFs
  <2>1. InUse' = InUse \ {i} /\ InUse \subseteq Fds
    BY <1>1, Constant DEF InUse
  <2> QED
    BY <1>1, <2>1 DEF OnHost
<1>3. /\ \A j \in OnHost : t.fd[j].priv \in Handles /\ t.host[t.fd[j].priv] \in Names
      /\ \A j, k \in OnHost : t.fd[j].priv = t.fd[k].priv => j = k
      /\ {t.fd[j].priv : j \in OnHost} = {k \in Handles : t.host[k] # None}
  BY HostHandles DEF OnHost, TableInv, HostInv
<1>4. t.fd[i].dev = HostFs => /\ p \in Handles
                              /\ t'.host[p] = None /\ \A k \in Handles \ {p} : t'.host[k] = t.host[k]
                              /\ \A j \in OnHost \ {i} : t.fd[j].priv # p
  <2>1. t.host \in [Handles -> Names \cup {None}]
    BY InvParts
  <2> QED
    BY <1>1, <1>2, <1>3, <2>1
<1>5. TypeOK'
  BY <1>1 DEF TableInv, TypeOK, TableState
<1>6. \A j \in InUse \ {i} : t'.fd[j] = t.fd[j]
  BY <1>1, <1>2
<1>7. HostInv'
  <2>1. CASE t.fd[i].dev # HostFs
    <3>1. OnHost' = OnHost /\ t'.host = t.host /\ \A j \in OnHost : t'.fd[j] = t.fd[j]
      BY <1>1, <1>2, <1>6, <2>1
    <3> QED
      BY <1>3, <3>1 DEF HostInv
  <2>2. CASE t.fd[i].dev = HostFs
    <3>1. \A j \in OnHost' : j \in OnHost \ {i} /\ t'.fd[j].priv = t.fd[j].priv /\ t.fd[j].priv # p
      BY <1>1, <1>2, <1>4, <1>6, <2>2
    <3>2. {k \in Handles : t'.host[k] # None} = {k \in Handles : t.host[k] # None} \ {p}
      BY <1>4, <2>2
    <3>3. {t.fd[j].priv : j \in OnHost} = {t.fd[j].priv : j \in OnHost \ {i}} \cup {p}
      BY <1>2, <2>2
    <3>4. {t'.fd[j].priv : j \in OnHost'} = {t.fd[j].priv : j \in OnHost \ {i}}
      BY <1>2, <3>1
    <3>5. p \notin {t.fd[j].priv : j \in OnHost \ {i}}
      BY <1>4, <2>2
    <3>6. {t'.fd[j].priv : j \in OnHost'} = {k \in Handles : t'.host[k] # None}
      BY <1>3, <3>2, <3>3, <3>4, <3>5
    <3>7. \A j, k \in OnHost' : t'.fd[j].priv = t'.fd[k].priv => j = k
      BY <1>3, <3>1
    <3> QED
      BY <3>6, <3>7 DEF HostInv
  <2> QED
    BY <2>1, <2>2
<1>8. DeviceInv'
  <2>1. ASSUME NEW j \in Fds
        PROVE  /\ j \in Stdio => t'.fd[j].dev \in {Console, Null}
               /\ t'.fd[j].isdev => t'.fd[j].dev \in {Console, Null}
               /\ t'.fd[j].excl => t'.fd[j].isdev
    <3>1. CASE j = i
      BY <1>1, <3>1
    <3>2. CASE j # i
      BY <1>1, <3>2, InvParts
    <3> QED
      BY <3>1, <3>2
  <2> QED
    BY <2>1, Constant DEF DeviceInv
<1>9. MaxInv'
  <2>1. MaxInv /\ phase' = phase
    BY DEF TableInv
  <2> QED
    BY <1>1, <1>2, <2>1 DEF MaxInv
<1>10. BootInv'
  BY DEF TableInv, BootInv
<1>11. ASSUME NEW j \in InUse \ {i} PROVE Target(t', j) = Target(t, j)
  <2>1. t'.fd[j] = t.fd[j]
    BY <1>6
  <2>2. CASE t.fd[j].dev = HostFs
    <3>1. t.fd[j].priv \in Handles /\ (t.fd[i].dev = HostFs => t.fd[j].priv # p)
      BY <1>3, <1>4, <2>2 DEF OnHost
    <3> QED
      BY <1>1, <1>4, <2>1, <2>2, <3>1 DEF Target
  <2>3. CASE t.fd[j].dev # HostFs
    BY <2>1, <2>3 DEF Target
  <2> QED
    BY <2>2, <2>3
<1>12. ASSUME NEW j \in Fds, t.fd[j].excl, t'.fd[j].excl
       PROVE  Sharing(t', j) \subseteq Sharing(t, j)
  <2>1. t.fd[j].dev # None /\ j # i
    BY <1>1, <1>12, InvParts, Constant
  <2>2. t'.fd[j] = t.fd[j]
    BY <1>1, <2>1
  <2> QED
    BY <1>1, <2>1, <2>2 DEF Sharing
<1> QED
  BY <1>2, <1>5, <1>7, <1>8, <1>9, <1>10, <1>11, <1>12 DEF TableInv

\* A descriptor that is opened and closed again leaves nothing behind.
LEMMA OpenedAndClosed ==
  ASSUME TableInv, NEW s, NEW u, NEW i, NEW dev, NEW name, NEW h,
         Added(t, s, i, dev, name, h), Removed(s, u, i)
  PROVE  Alike(t, u)
<1>1. /\ i \in Fds /\ t.fd[i].dev = None /\ s.fd[i].dev = dev
      /\ \A j \in Fds \ {i} : s.fd[j] = t.fd[j]
      /\ s.max = (IF i > t.max THEN i ELSE t.max)
      /\ dev = HostFs => /\ h \in Handles /\ t.host[h] = None /\ s.fd[i].priv = h
                         /\ s.host = [t.host EXCEPT ![h] = name]
      /\ dev # HostFs => s.host = t.host
  BY DEF Added
<1>2. /\ u \in TableState
      /\ u.fd[i].dev = None /\ ~u.fd[i].isdev /\ ~u.fd[i].excl
      /\ \A j \in Fds \ {i} : u.fd[j] = s.fd[j]
      /\ u.max = s.max
      /\ dev = HostFs => u.host = [s.host EXCEPT ![h] = None]
      /\ dev # HostFs => u.host = s.host
  BY <1>1 DEF Removed
<1>3. u.host = t.host
  <2>1. t.host \in [Handles -> Names \cup {None}]
    BY InvParts
  <2> QED
    BY <1>1, <1>2, <2>1
<1>4. t.max <= u.max
  <2>1. t.max \in Int /\ i \in Int
    BY <1>1, InvParts, Constant
  <2> QED
    BY <1>1, <1>2, <2>1
<1>5. ASSUME NEW j \in Fds
      PROVE  /\ u.fd[j].dev = t.fd[j].dev
             /\ t.fd[j].dev = HostFs => u.fd[j].priv = t.fd[j].priv
             /\ u.fd[j].isdev => t.fd[j].isdev
             /\ u.fd[j].excl => u.fd[j].isdev
  <2>1. CASE j = i
    BY <1>1, <1>2, <2>1, Constant
  <2>2. CASE j # i
    BY <1>1, <1>2, <2>2, InvParts
  <2> QED
    BY <2>1, <2>2
<1> QED
  BY <1>2, <1>3, <1>4, <1>5 DEF Alike

-----------------------------------------------------------------------------
\* An entry that is changed in its flags is the same to everyone else.
LEMMA FlagsAlike ==
  ASSUME TableInv, NEW i \in Fds, NEW d \in Descriptor,
         d.dev = t.fd[i].dev, d.priv = t.fd[i].priv,
         d.isdev => t.fd[i].isdev, d.excl => d.isdev,
         NEW u, u = [t EXCEPT !.fd[i] = d]
  PROVE  Alike(t, u)
<1>1. t = [fd |-> t.fd, max |-> t.max, host |-> t.host] /\ t.fd \in [Fds -> Descriptor]
      /\ t.max \in -1..(MaxFd - 1) /\ t.host \in [Handles -> Names \cup {None}]
  BY InvParts DEF TableState
<1> DEFINE f == [t.fd EXCEPT ![i] = d]
<1>2. u = [fd |-> f, max |-> t.max, host |-> t.host] /\ f \in [Fds -> Descriptor]
      /\ f[i] = d /\ \A j \in Fds \ {i} : f[j] = t.fd[j]
  BY <1>1
<1> HIDE DEF f
<1>3. u \in TableState /\ u.fd = f /\ u.max = t.max /\ u.host = t.host
  BY <1>1, <1>2, TableParts
<1>4. t.max <= u.max
  BY <1>1, <1>3, Constant
<1>5. ASSUME NEW j \in Fds
      PROVE  /\ u.fd[j].dev = t.fd[j].dev
             /\ t.fd[j].dev = HostFs => u.fd[j].priv = t.fd[j].priv
             /\ u.fd[j].isdev => t.fd[j].isdev
             /\ u.fd[j].excl => u.fd[j].isdev
  <2>1. CASE j = i
    BY <1>2, <1>3, <2>1
  <2>2. CASE j # i
    BY <1>2, <1>3, <2>2, InvParts
  <2> QED
    BY <2>1, <2>2
<1> QED
  BY <1>3, <1>4, <1>5 DEF Alike

\* A call may leave the table alone.
LEMMA SameAlike ==
  ASSUME TableInv
  PROVE  Alike(t, t)
<1>1. t.max \in Int
  BY InvParts, Constant
<1> QED
  BY <1>1, InvParts DEF Alike

\* fcntl and the two requests of ioctl only touch the flags.
LEMMA FlagCalls ==
  ASSUME TableInv, NEW i \in InUse, NEW nb \in BOOLEAN
  PROVE  /\ Alike(t, [t EXCEPT !.fd[i].nonblock = nb])
         /\ t.fd[i].isdev => Alike(t, Lock(t, i)) /\ Alike(t, Unlock(t, i))
<1> DEFINE e == t.fd[i]
           a == [e EXCEPT !.nonblock = nb]
           b == [e EXCEPT !.excl = TRUE]
           c == [e EXCEPT !.excl = FALSE]
<1>1. i \in Fds /\ e \in Descriptor /\ (e.excl => e.isdev)
  BY InvParts
<1>2. /\ [t EXCEPT !.fd[i].nonblock = nb] = [t EXCEPT !.fd[i] = a]
      /\ [t EXCEPT !.fd[i].excl = TRUE] = [t EXCEPT !.fd[i] = b]
      /\ [t EXCEPT !.fd[i].excl = FALSE] = [t EXCEPT !.fd[i] = c]
  OBVIOUS
<1>3. /\ a \in Descriptor /\ a.dev = e.dev /\ a.priv = e.priv /\ (a.isdev <=> e.isdev)
      /\ (a.excl <=> e.excl)
  BY <1>1 DEF Descriptor
<1>4. b \in Descriptor /\ b.dev = e.dev /\ b.priv = e.priv /\ (b.isdev <=> e.isdev)
  BY <1>1 DEF Descriptor
<1>5. c \in Descriptor /\ c.dev = e.dev /\ c.priv = e.priv /\ (c.isdev <=> e.isdev) /\ ~c.excl
  BY <1>1 DEF Descriptor
<1> HIDE DEF a, b, c
<1>6. Alike(t, [t EXCEPT !.fd[i] = a])
  BY <1>1, <1>3, FlagsAlike
<1>7. e.isdev => Alike(t, [t EXCEPT !.fd[i] = b])
  BY <1>1, <1>4, FlagsAlike
<1>8. Alike(t, [t EXCEPT !.fd[i] = c])
  BY <1>1, <1>5, FlagsAlike
<1> QED
  BY <1>2, <1>6, <1>7, <1>8, SameAlike DEF Lock, Unlock

-----------------------------------------------------------------------------
\* alt_io_redirect: the console takes the place of a standard descriptor, by
\* way of the first descriptor above them.
LEMMA RedirectStep ==
  ASSUME TableInv, NEW i \in Stdio, NEW mode \in Modes, NEW this, NEW next,
         OpenFd(i, mode, this, next), this \in {"stdout", "stdin", "stderr"},
         next \in {"stdin", "stderr", "main"}
  PROVE  /\ TableInv'
         /\ InUse = Stdio /\ InUse' = Stdio
         /\ Target(t', i) = Console
         /\ \A j \in Stdio \ {i} : Target(t', j) = Target(t, j)
         /\ \A j \in Fds : ~t.fd[j].excl
         /\ UNCHANGED answer
<1> DEFINE o == Opened(t, ConsoleName, mode, FALSE, None)
           k == o.rc
           s == o.t
           x == [s EXCEPT !.fd[i] = s.fd[k]]
<1>1. /\ phase = this /\ phase' = next /\ UNCHANGED <<devList, fsList, reached, rc>>
      /\ t' = IF k = -1 THEN s ELSE Release(x, k)
  BY DEF OpenFd, answer
<1>2. /\ InUse = Stdio /\ \A j \in Fds : ~t.fd[j].excl
      /\ FindDev(ConsoleName) = Console /\ Console # None
  BY <1>1, DevicesFound, Constant DEF TableInv, BootInv
<1>3. GetFd(t) # MaxFd
  <2>1. 3 \in Fds /\ 3 \notin Stdio
    BY Constant DEF Fds, Stdio
  <2>2. t.fd[3].dev = None
    BY <1>2, <2>1, InvParts
  <2> QED
    BY <2>1, <2>2, GetFdLeast, InvParts, Constant
<1>4. \E dev : Added(t, s, k, dev, ConsoleName, None) /\ dev = Console
  <2>1. None \in HostAnswers(t) /\ FALSE \in BOOLEAN
    BY DEF HostAnswers
  <2>2. k # -1 /\ \E dev : Added(t, s, k, dev, ConsoleName, None) /\ FindDev(ConsoleName) \in {dev, None}
    BY <1>2, <1>3, <2>1, OpenedEffect
  <2> QED
    BY <1>2, <2>2
<1> HIDE DEF o
<1>5. /\ s \in TableState /\ k \in Fds \ Stdio /\ s.fd[k].dev = Console /\ ~s.fd[k].excl
      /\ t.fd[k].dev = None
      /\ \A j \in Fds \ {k} : s.fd[j] = t.fd[j]
      /\ s.max = (IF k > t.max THEN k ELSE t.max) /\ s.host = t.host
  BY <1>4, Constant DEF Added
<1>6. x \in TableState /\ x.fd[i] = s.fd[k] /\ (\A j \in Fds \ {i} : x.fd[j] = s.fd[j])
      /\ x.max = s.max /\ x.host = s.host
  <2>1. s = [fd |-> s.fd, max |-> s.max, host |-> s.host] /\ s.fd \in [Fds -> Descriptor]
        /\ s.max \in -1..(MaxFd - 1) /\ s.host \in [Handles -> Names \cup {None}]
    BY <1>5 DEF TableState
  <2> DEFINE d == s.fd[k]
             f == [s.fd EXCEPT ![i] = d]
  <2>2. i \in Fds /\ d \in Descriptor
    BY <1>5, <2>1, Constant
  <2> HIDE DEF d
  <2>3. f \in [Fds -> Descriptor] /\ f[i] = d /\ \A j \in Fds \ {i} : f[j] = s.fd[j]
    BY <2>1, <2>2
  <2>4. x = [s EXCEPT !.fd = f]
    BY DEF d
  <2> HIDE DEF s, f, x
  <2>5. x = [fd |-> f, max |-> s.max, host |-> s.host]
    BY <2>1, <2>4
  <2>6. x \in TableState /\ x.fd = f /\ x.max = s.max /\ x.host = s.host
    BY <2>1, <2>3, <2>5, TableParts
  <2> QED
    BY <2>3, <2>6 DEF d
<1> HIDE DEF k, s, x
<1>7. k # -1 /\ k # i /\ k \in Fds
  BY <1>5, Constant
<1>8. /\ t' \in TableState /\ t'.fd[k].dev = None /\ ~t'.fd[k].isdev /\ ~t'.fd[k].excl
      /\ \A j \in Fds \ {k} : t'.fd[j] = x.fd[j]
      /\ t'.max = x.max /\ t'.host = x.host
  BY <1>1, <1>5, <1>6, <1>7, ReleaseEffect
<1>9. /\ i \in Fds /\ t'.fd[i].dev = Console /\ ~t'.fd[i].excl
      /\ \A j \in Fds \ {i, k} : t'.fd[j] = t.fd[j]
      /\ t'.max = (IF k > t.max THEN k ELSE t.max) /\ t'.host = t.host
  BY <1>5, <1>6, <1>7, <1>8, Constant
<1>10. ASSUME NEW j \in Fds
       PROVE  /\ IF j \in Stdio THEN t'.fd[j].dev \in {Console, Null} ELSE t'.fd[j].dev = None
              /\ t'.fd[j].isdev => t'.fd[j].dev \in {Console, Null}
              /\ ~t'.fd[j].excl
  <2>1. CASE j = i
    BY <1>9, <2>1
  <2>2. CASE j = k
    BY <1>5, <1>8, <2>2
  <2>3. CASE j # i /\ j # k
    BY <1>2, <1>9, <2>3, InvParts
  <2> QED
    BY <2>1, <2>2, <2>3
<1>11. InUse' = Stdio /\ OnHost = {} /\ OnHost' = {}
  <2>1. InUse' = Stdio
    BY <1>10, Constant DEF InUse
  <2>2. OnHost = {}
    BY <1>2, InvParts, Constant DEF OnHost
  <2>3. OnHost' = {}
    BY <1>10, <2>1, Constant DEF OnHost
  <2> QED
    BY <2>1, <2>2, <2>3
<1>12. TypeOK'
  BY <1>1, <1>8 DEF TableInv, TypeOK, TableState
<1>13. HostInv'
  BY <1>9, <1>11 DEF TableInv, HostInv
<1>14. DeviceInv'
  BY <1>10, Constant DEF DeviceInv
<1>15. MaxInv'
  <2>1. k \in Int /\ t.max \in Int /\ k > 2
    BY <1>5, InvParts, Constant DEF Fds, Stdio
  <2>2. t'.max > 2
    BY <1>9, <2>1
  <2>3. t'.max \in Int
    BY <1>9, <2>1
  <2> QED
    BY <1>11, <2>2, <2>3 DEF MaxInv, Stdio
<1>16. BootInv'
  <2>1. \A j \in Fds : ~t'.fd[j].excl
    BY <1>2, <1>8, <1>9
  <2> QED
    BY <1>1, <1>11, <2>1 DEF TableInv, BootInv
<1>17. Target(t', i) = Console
  BY <1>9, Constant DEF Target
<1>18. ASSUME NEW j \in Stdio \ {i} PROVE Target(t', j) = Target(t, j)
  <2>1. t'.fd[j] = t.fd[j] /\ t.fd[j].dev # HostFs
    BY <1>5, <1>9, InvParts, Constant
  <2> QED
    BY <2>1 DEF Target
<1> QED
  BY <1>1, <1>2, <1>11, <1>12, <1>13, <1>14, <1>15, <1>16, <1>17, <1>18 DEF TableInv, answer

-----------------------------------------------------------------------------
\* The calls of the program, as Next lists them.
OpenOrStat ==
  \E name \in Names, h \in HostAnswers(t) :
    \/ Stat(name, h)
    \/ \E mode \in OpenModes, nb \in BOOLEAN : Open(name, mode, nb, h)

OnDescriptor ==
  \E i \in InUse \cup {-1} :
    \/ Close(i) \/ Read(i) \/ Write(i) \/ Lseek(i) \/ Fstat(i) \/ Isatty(i)
    \/ \E nb \in BOOLEAN : SetFlags(i, nb)
    \/ \E request \in {"EXCL", "NXCL", "TIMEOUT", "CONNECTED"} : Ioctl(i, request)

\* The effect that a call may have: none on the table, a descriptor more or a
\* descriptor less.
Effect ==
  /\ phase = "main" /\ UNCHANGED <<phase, devList, fsList>> /\ rc' \in {"ok", "error"}
  /\ \/ Alike(t, t') /\ (reached' = None \/ \E i \in InUse : reached' = Target(t, i))
     \/ /\ reached' = None /\ rc' = "ok"
        /\ \E i, dev, name, h : Added(t, t', i, dev, name, h)
     \/ reached' = None /\ \E i \in InUse : Removed(t, t', i)

\* A descriptor in use stands for a device or for a file with a name.
LEMMA TargetType ==
  ASSUME TableInv, NEW i \in InUse
  PROVE  Target(t, i) \in Names \cup {Console, Null}
<1>1. i \in Fds /\ t.fd[i] \in Descriptor /\ t.fd[i].dev # None
  BY InvParts
<1> QED
  BY <1>1, HostHandles, Constant DEF Target, Descriptor

\* open and stat: a new descriptor, or nothing to be seen.
LEMMA OpenEffect ==
  ASSUME TableInv, OpenOrStat
  PROVE  Effect
<1>1. PICK name \in Names, h \in HostAnswers(t) :
        \/ Stat(name, h)
        \/ \E mode \in OpenModes, nb \in BOOLEAN : Open(name, mode, nb, h)
  BY DEF OpenOrStat
<1>2. CASE Stat(name, h)
  <2> DEFINE o == Opened(t, name, "RDONLY", FALSE, h)
             u == Closed(o.t, o.rc)
  <2>1. /\ Calls /\ reached' = None
        /\ t' = IF o.rc = -1 THEN o.t ELSE u
        /\ \E r \in IF o.rc = -1 THEN {"error"} ELSE FstatReturns(o.t, o.rc) : rc' = r
    BY <1>2 DEF Stat, Returns
  <2>2. rc' \in {"ok", "error"}
    BY <2>1 DEF FstatReturns
  <2>3. "RDONLY" \in Modes /\ FALSE \in BOOLEAN
    BY DEF Modes
  <2>4. \/ o.rc = -1 /\ Alike(t, o.t)
        \/ o.rc \in Fds /\ \E dev : Added(t, o.t, o.rc, dev, name, h)
    BY <2>3, OpenedEffect
  <2> HIDE DEF o
  <2>5. CASE o.rc = -1 /\ Alike(t, o.t)
    BY <2>1, <2>2, <2>5 DEF Calls, Effect
  <2>6. ASSUME o.rc \in Fds, NEW dev, Added(t, o.t, o.rc, dev, name, h)
        PROVE  Effect
    <3>1. o.t \in TableState /\ o.rc \notin Stdio /\ o.rc # -1
          /\ (o.t.fd[o.rc].dev = HostFs => o.t.fd[o.rc].priv \in Handles)
      BY <2>6, Constant DEF Added
    <3>2. Removed(o.t, u, o.rc)
      BY <2>6, <3>1, ClosedEffect
    <3>3. Alike(t, u)
      BY <2>6, <3>2, OpenedAndClosed
    <3> QED
      BY <2>1, <2>2, <3>1, <3>3 DEF Calls, Effect
  <2> QED
    BY <2>4, <2>5, <2>6
<1>3. ASSUME NEW mode \in OpenModes, NEW nb \in BOOLEAN, Open(name, mode, nb, h)
      PROVE  Effect
  <2> DEFINE o == Opened(t, name, mode, nb, h)
  <2>1. Calls /\ t' = o.t /\ reached' = None /\ rc' = IF o.rc = -1 THEN "error" ELSE "ok"
    BY <1>3 DEF Open, Returns
  <2>2. mode \in Modes
    BY HalAssumption DEF Modes
  <2>3. \/ o.rc = -1 /\ Alike(t, o.t)
        \/ o.rc \in Fds /\ \E dev : Added(t, o.t, o.rc, dev, name, h)
    BY <2>2, OpenedEffect
  <2> HIDE DEF o
  <2>4. \A k \in Fds : k # -1
    BY Constant
  <2> QED
    BY <2>1, <2>3, <2>4 DEF Calls, Effect
<1> QED
  BY <1>1, <1>2, <1>3

\* The calls on a descriptor: only close removes one.
LEMMA DescriptorEffect ==
  ASSUME TableInv, OnDescriptor
  PROVE  Effect
<1>1. PICK i \in InUse \cup {-1} :
        \/ Close(i) \/ Read(i) \/ Write(i) \/ Lseek(i) \/ Fstat(i) \/ Isatty(i)
        \/ \E nb \in BOOLEAN : SetFlags(i, nb)
        \/ \E request \in {"EXCL", "NXCL", "TIMEOUT", "CONNECTED"} : Ioctl(i, request)
  BY DEF OnDescriptor
<1>2. (i < 0 <=> i = -1) /\ (i >= 0 <=> i # -1) /\ (i # -1 => i \in InUse /\ i \in Fds)
  <2>1. \A k \in InUse : k \in Fds /\ k \in Nat
    BY InvParts, Constant
  <2> QED
    BY <2>1
<1>3. ASSUME Calls, UNCHANGED t, rc' \in {"ok", "error"}, reached' = None \/ (i \in InUse /\ reached' = Target(t, i))
      PROVE  Effect
  BY <1>3, SameAlike DEF Calls, Effect
<1>4. CASE Close(i)
  <2>1. /\ Calls /\ reached' = None /\ rc' \in {"ok", "error"}
        /\ t' = IF i < 0 THEN t ELSE Closed(t, i)
    BY <1>4 DEF Close, Returns, CloseReturns, HostReturns
  <2>2. CASE i = -1
    BY <1>2, <1>3, <2>1, <2>2
  <2>3. CASE i # -1
    <3>1. t' = Closed(t, i) /\ i \in InUse /\ i \in Fds /\ t \in TableState
      BY <1>2, <2>1, <2>3, InvParts
    <3>2. t.fd[i].dev = HostFs => i \notin Stdio /\ t.fd[i].priv \in Handles
      BY <3>1, HostHandles
    <3>3. (i \in Stdio => t' = t) /\ (i \notin Stdio => Removed(t, t', i))
      BY <3>1, <3>2, ClosedEffect
    <3> QED
      BY <1>3, <2>1, <3>1, <3>3 DEF Calls, Effect
  <2> QED
    BY <2>2, <2>3
<1>5. CASE Read(i) \/ Write(i) \/ Lseek(i)
  <2>1. PICK allowed \in BOOLEAN : Through(i, allowed) /\ (allowed => i >= 0)
    <3>1. CASE Read(i)
      BY <3>1 DEF Read
    <3>2. CASE Write(i)
      BY <3>2 DEF Write
    <3>3. CASE Lseek(i)
      BY <3>3 DEF Lseek
    <3> QED
      BY <1>5, <3>1, <3>2, <3>3
  <2>2. Calls /\ UNCHANGED t /\ rc' \in {"ok", "error"} /\ (reached' = None \/ (allowed /\ reached' = Target(t, i)))
    BY <2>1 DEF Through, Reaches, Returns, HostReturns
  <2> QED
    BY <1>2, <1>3, <2>1, <2>2
<1>6. CASE Fstat(i)
  <2>1. Calls /\ UNCHANGED t /\ rc' \in {"ok", "error"}
        /\ (reached' = None \/ (~(i < 0) /\ reached' = Target(t, i)))
    BY <1>6 DEF Fstat, Reaches, Returns, FstatReturns
  <2> QED
    BY <1>2, <1>3, <2>1
<1>7. CASE Isatty(i)
  <2>1. Calls /\ UNCHANGED t
        /\ \/ i < 0 /\ Returns("error")
           \/ /\ ~(i < 0)
              /\ \E kind \in Kinds(t, i) :
                   Reaches(i, CASE kind = "character" -> {"ok"} [] kind = "regular" -> {"error"}
                                [] kind = "error" -> {"ok", "error"})
    BY <1>7 DEF Isatty
  <2>2. \A kind \in Kinds(t, i) : kind \in {"regular", "character", "error"}
    BY DEF Kinds, HostKinds
  <2>3. CASE i < 0
    BY <1>3, <2>1, <2>3 DEF Returns
  <2>4. CASE ~(i < 0)
    <3>1. PICK kind \in {"regular", "character", "error"} :
            Reaches(i, CASE kind = "character" -> {"ok"} [] kind = "regular" -> {"error"}
                         [] kind = "error" -> {"ok", "error"})
      BY <2>1, <2>2, <2>4
    <3>2. reached' = Target(t, i) /\ rc' \in {"ok", "error"}
      BY <3>1 DEF Reaches
    <3> QED
      BY <1>2, <1>3, <2>1, <2>4, <3>2
  <2> QED
    BY <2>3, <2>4
<1>8. ASSUME NEW nb \in BOOLEAN, SetFlags(i, nb) PROVE Effect
  <2>1. Calls /\ reached' = None /\ rc' \in {"ok", "error"}
        /\ t' = IF i < 0 THEN t ELSE [t EXCEPT !.fd[i].nonblock = nb]
    BY <1>8 DEF SetFlags, Returns
  <2>2. CASE i = -1
    BY <1>2, <1>3, <2>1, <2>2
  <2>3. CASE i # -1
    <3>1. t' = [t EXCEPT !.fd[i].nonblock = nb] /\ i \in InUse
      BY <1>2, <2>1, <2>3
    <3>2. Alike(t, t')
      BY <3>1, FlagCalls
    <3> QED
      BY <2>1, <3>2 DEF Calls, Effect
  <2> QED
    BY <2>2, <2>3
<1>9. ASSUME NEW request \in {"EXCL", "NXCL", "TIMEOUT", "CONNECTED"}, Ioctl(i, request) PROVE Effect
  <2>1. Calls
    BY <1>9 DEF Ioctl
  <2>2. \/ i < 0 /\ Returns("error") /\ UNCHANGED t
        \/ /\ i >= 0 /\ t.fd[i].isdev
           /\ t' = Lock(t, i) /\ Returns(IF Shared(t, i) THEN "error" ELSE "ok")
        \/ i >= 0 /\ t.fd[i].isdev /\ t' = Unlock(t, i) /\ Returns("ok")
        \/ /\ i >= 0 /\ UNCHANGED t
           /\ \/ Reaches(i, ConsoleReturns(request))
              \/ Returns("error")
    BY <1>9 DEF Ioctl
  <2>3. CASE UNCHANGED t
    <3>1. rc' \in {"ok", "error"} /\ (reached' = None \/ (i >= 0 /\ reached' = Target(t, i)))
      BY <2>2 DEF Returns, Reaches, ConsoleReturns
    <3> QED
      BY <1>2, <1>3, <2>1, <2>3, <3>1
  <2>4. CASE i >= 0 /\ t.fd[i].isdev /\ (t' = Lock(t, i) \/ t' = Unlock(t, i))
             /\ \E r \in {"ok", "error"} : Returns(r)
    <3>1. Alike(t, t')
      BY <1>2, <2>4, FlagCalls
    <3> QED
      BY <2>1, <2>4, <3>1 DEF Calls, Effect, Returns
  <2>5. \/ UNCHANGED t
        \/ /\ i >= 0 /\ t.fd[i].isdev /\ (t' = Lock(t, i) \/ t' = Unlock(t, i))
           /\ \E r \in {"ok", "error"} : Returns(r)
    BY <2>2
  <2> QED
    BY <2>3, <2>4, <2>5
<1> QED
  BY <1>1, <1>4, <1>5, <1>6, <1>7, <1>8, <1>9

-----------------------------------------------------------------------------
\* The steps of the system by their effect.
LEMMA StepCases ==
  ASSUME TableInv, [Next]_vars
  PROVE  \/ RegisterDevices \/ Redirect \/ MainReturns \/ UNCHANGED vars \/ Effect
BY OpenEffect, DescriptorEffect DEF Next, OpenOrStat, OnDescriptor, Spin

\* main closes its standard output, which stays.
LEMMA MainReturnsFrame ==
  ASSUME TableInv, MainReturns
  PROVE  phase = "main" /\ phase' = "exit" /\ UNCHANGED <<devList, fsList, t, answer>>
<1>1. 1 \in Stdio /\ 1 \in Fds /\ t \in TableState /\ t.fd[1].dev # HostFs
  BY InvParts, Constant DEF Stdio
<1>2. Closed(t, 1) = t
  BY <1>1, ClosedEffect
<1> QED
  BY <1>2 DEF MainReturns

\* The table as it is linked.
LEMMA InitTable == Init => TableInv
<1> SUFFICES ASSUME Init PROVE TableInv
  OBVIOUS
<1> DEFINE e(i) == IF i \in Stdio THEN [Free EXCEPT !.dev = Null] ELSE Free
<1>1. /\ phase = "init" /\ devList = <<[dev |-> Null, name |-> NullName]>> /\ fsList = <<>>
      /\ t = [fd |-> [i \in Fds |-> e(i)], max |-> -1, host |-> [h \in Handles |-> None]]
      /\ reached = None /\ rc = "ok"
  BY DEF Init
<1>2. ASSUME NEW i \in Fds
      PROVE  /\ e(i) \in Descriptor /\ ~e(i).excl /\ ~e(i).isdev
             /\ IF i \in Stdio THEN e(i).dev = Null ELSE e(i).dev = None
  <2>1. [Free EXCEPT !.dev = Null] \in Descriptor
    BY Constant DEF Descriptor
  <2>2. ~[Free EXCEPT !.dev = Null].excl /\ ~[Free EXCEPT !.dev = Null].isdev
        /\ [Free EXCEPT !.dev = Null].dev = Null
    BY DEF Free
  <2>3. ~Free.excl /\ ~Free.isdev /\ Free.dev = None
    BY DEF Free
  <2> QED
    BY <2>1, <2>2, <2>3, Constant
<1> HIDE DEF e
<1>3. /\ t.fd = [i \in Fds |-> e(i)] /\ t.max = -1 /\ t.host = [h \in Handles |-> None]
      /\ t.fd \in [Fds -> Descriptor]
  BY <1>1, <1>2
<1>4. t \in TableState
  BY <1>1, <1>3, TableParts, Constant
<1>5. \A i \in Fds : /\ ~t.fd[i].excl /\ ~t.fd[i].isdev
                     /\ IF i \in Stdio THEN t.fd[i].dev = Null ELSE t.fd[i].dev = None
  BY <1>2, <1>3
<1>6. InUse = Stdio
  BY <1>5, Constant DEF InUse
<1>7. OnHost = {}
  BY <1>5, <1>6, Constant DEF OnHost
<1>8. TypeOK
  BY <1>1, <1>4 DEF TypeOK, TableState
<1>9. HostInv
  <2>1. {h \in Handles : t.host[h] # None} = {}
    BY <1>3
  <2> QED
    BY <1>7, <2>1 DEF HostInv
<1>10. DeviceInv
  BY <1>5, Constant DEF DeviceInv
<1>11. MaxInv
  BY <1>1, <1>6 DEF MaxInv
<1>12. BootInv
  BY <1>1, <1>5, <1>6 DEF BootInv
<1> QED
  BY <1>8, <1>9, <1>10, <1>11, <1>12 DEF TableInv

\* alt_main registers the devices and the file system.
LEMMA RegisterStep ==
  ASSUME TableInv, RegisterDevices
  PROVE  TableInv' /\ UNCHANGED <<t, answer>>
<1> DEFINE con == [dev |-> Console, name |-> ConsoleName]
           nul == [dev |-> Null, name |-> NullName]
           hfs == [dev |-> HostFs, name |-> HostFsName]
<1>1. /\ phase = "init" /\ phase' = "stdout" /\ UNCHANGED <<t, answer>>
      /\ devList' = <<con>> \o devList /\ fsList' = <<hfs>> \o fsList
  BY DEF RegisterDevices, DevListInsert, FsReg
<1>2. devList = <<nul>> /\ fsList = <<>>
  BY <1>1 DEF TableInv, BootInv
<1>3. <<hfs>> \in Seq({hfs})
  OBVIOUS
<1>4. devList' = <<con>> \o <<nul>> /\ fsList' = <<hfs>>
  BY <1>1, <1>2, <1>3, ConcatEmptySeq
<1>5. InUse' = InUse /\ OnHost' = OnHost
  BY <1>1 DEF InUse, OnHost
<1>6. TypeOK' /\ HostInv' /\ DeviceInv' /\ MaxInv'
  BY <1>1, <1>5 DEF TableInv, TypeOK, answer, HostInv, DeviceInv, MaxInv
<1>7. BootInv'
  BY <1>1, <1>4, <1>5 DEF TableInv, BootInv
<1> QED
  BY <1>1, <1>6, <1>7 DEF TableInv

\* Each step keeps the invariant of the table, and the devices that are locked
\* closed.
LEMMA NextTable ==
  ASSUME TableInv, [Next]_vars
  PROVE  /\ TableInv'
         /\ \A i \in Fds : t.fd[i].excl /\ t'.fd[i].excl => Sharing(t', i) \subseteq Sharing(t, i)
<1>1. CASE UNCHANGED vars
  <2>1. UNCHANGED <<phase, devList, fsList, t, reached, rc>>
    BY <1>1 DEF vars, answer
  <2>2. InUse' = InUse /\ OnHost' = OnHost
    BY <2>1 DEF InUse, OnHost
  <2>3. TableInv'
    BY <2>1, <2>2 DEF TableInv, TypeOK, HostInv, DeviceInv, MaxInv, BootInv
  <2> QED
    BY <2>1, <2>3
<1>2. CASE RegisterDevices
  BY <1>2, RegisterStep
<1>3. CASE Redirect
  <2>1. 0 \in Stdio /\ 1 \in Stdio /\ 2 \in Stdio /\ "WRONLY" \in Modes /\ "RDONLY" \in Modes
    BY DEF Stdio, Modes
  <2> QED
    BY <1>3, <2>1, RedirectStep DEF Redirect
<1>4. CASE MainReturns
  <2>1. phase = "main" /\ phase' = "exit" /\ UNCHANGED <<devList, fsList, t, reached, rc>>
    BY <1>4, MainReturnsFrame DEF answer
  <2>2. InUse' = InUse /\ OnHost' = OnHost
    BY <2>1 DEF InUse, OnHost
  <2>3. TableInv'
    BY <2>1, <2>2 DEF TableInv, TypeOK, HostInv, DeviceInv, MaxInv, BootInv
  <2> QED
    BY <2>1, <2>3
<1>5. CASE Effect
  <2>1. reached' \in Names \cup {Console, Null, None}
    BY <1>5, TargetType DEF Effect
  <2>2. CASE Alike(t, t')
    <3>1. TableInv' /\ \A i \in Fds : Sharing(t', i) = Sharing(t, i)
      BY <1>5, <2>1, <2>2, AlikeStep DEF Effect
    <3> QED
      BY <3>1
  <2>3. ASSUME NEW i, NEW dev, NEW name, NEW h, Added(t, t', i, dev, name, h)
        PROVE  /\ TableInv'
               /\ \A j \in Fds : t.fd[j].excl => Sharing(t', j) \subseteq Sharing(t, j)
    BY <1>5, <2>1, <2>3, AddedStep DEF Effect
  <2>4. ASSUME NEW i \in InUse, Removed(t, t', i)
        PROVE  /\ TableInv'
               /\ \A j \in Fds : t.fd[j].excl /\ t'.fd[j].excl => Sharing(t', j) \subseteq Sharing(t, j)
    BY <1>5, <2>1, <2>4, RemovedStep DEF Effect
  <2> QED
    BY <1>5, <2>2, <2>3, <2>4 DEF Effect
<1> QED
  BY <1>1, <1>2, <1>3, <1>4, <1>5, StepCases

\* Whatever fails, in whatever order: the host has exactly the files open that
\* descriptors stand for, each by one, no free descriptor is locked and
\* alt_max_fd misses none (alt_open.c, alt_close.c, alt_release_fd.c).
THEOREM TableSound ==  Spec => []TableInv
<1>1. TableInv /\ [Next]_vars => TableInv'
  BY NextTable
<1> QED
  BY <1>1, InitTable, PTL DEF Spec

\* While a descriptor is locked its device gets no further one (alt_fd_lock.c:44).
THEOREM LocksHold ==  Spec => LockedStaysClosed
<1> DEFINE Closed1 == \A i \in Fds : t.fd[i].excl /\ t'.fd[i].excl => Sharing(t', i) \subseteq Sharing(t, i)
<1>1. TableInv /\ [Next]_vars => [Closed1]_vars
  BY NextTable
<1>2. LockedStaysClosed <=> [][Closed1]_vars
  BY PTL DEF LockedStaysClosed
<1> QED
  BY <1>1, <1>2, TableSound, PTL DEF Spec

-----------------------------------------------------------------------------
(* The file layer implements the table of FileTable. *)

\* The files that the descriptors stand for.
Files == [i \in InUse |-> Target(t, i)]

\* Before alt_main the standard descriptors are those of the null device.
LEMMA TableStarts == Init => Table!Init
<1> SUFFICES ASSUME Init PROVE Table!Init
  OBVIOUS
<1>1. TableInv /\ phase = "init" /\ reached = None /\ rc = "ok"
  BY InitTable DEF Init
<1>2. InUse = Stdio
  BY <1>1 DEF TableInv, BootInv
<1>3. \A i \in Stdio : Target(t, i) \in Names \cup {Console, Null}
  BY <1>1, <1>2, TargetType
<1>4. Files \in [Stdio -> Names \cup {Console, Null}]
  BY <1>2, <1>3 DEF Files
<1> QED
  BY <1>1, <1>4 DEF Table!Init, Table!Stdio, Stdio, Files

\* An effect on the table is an operation of FileTable.
LEMMA EffectImplements ==
  ASSUME TableInv, Effect
  PROVE  Table!Next
<1> USE DEF Files
<1>1. phase = "main" /\ UNCHANGED <<phase, devList, fsList>> /\ rc' \in {"ok", "error"}
      /\ reached' \in Names \cup {Console, Null, None}
  BY TargetType DEF Effect
<1>2. \A i \in InUse : Files[i] = Target(t, i) /\ DOMAIN Files = InUse
  OBVIOUS
<1>3. CASE Alike(t, t') /\ (reached' = None \/ \E i \in InUse : reached' = Target(t, i))
  <2>1. InUse' = InUse /\ \A i \in InUse : Target(t', i) = Target(t, i)
    BY <1>1, <1>3, AlikeStep
  <2>2. Files' = Files
    BY <2>1
  <2>3. CASE reached' = None
    BY <1>1, <2>2, <2>3 DEF Table!Next, Table!Answer
  <2>4. ASSUME NEW i \in InUse, reached' = Target(t, i) PROVE Table!Next
    <3>1. i \in DOMAIN Files /\ reached' = Files[i]
      BY <2>4
    <3> HIDE DEF Files
    <3> QED
      BY <1>1, <2>2, <3>1 DEF Files, Table!Next, Table!Use
  <2> QED
    BY <1>3, <2>3, <2>4
<1>4. ASSUME reached' = None, rc' = "ok", NEW i, NEW dev, NEW name, NEW h,
             Added(t, t', i, dev, name, h)
      PROVE  Table!Next
  <2> DEFINE free == Fds \ InUse
             f == Target(t', i)
  <2>1. /\ i \notin InUse /\ InUse' = InUse \cup {i}
        /\ f \in Names \cup {Console, Null}
        /\ \A j \in InUse : Target(t', j) = Target(t, j)
    BY <1>1, <1>4, AddedStep
  <2>2. i \in free /\ \A j \in free : i <= j
    BY <2>1, <1>4, InvParts DEF Added
  <2>3. free \in SUBSET Nat /\ free # {}
    BY <2>2, Constant
  <2>4. Min(free) \in free /\ \A j \in free : Min(free) <= j
    BY <2>3, LeastMember
  <2> HIDE DEF free
  <2>5. Min(free) = i
    <3>1. Min(free) \in Nat /\ i \in Nat /\ Min(free) <= i /\ i <= Min(free)
      BY <2>2, <2>3, <2>4
    <3> QED
      BY <3>1
  <2>6. Files' = [j \in InUse \cup {i} |-> IF j \in InUse THEN Files[j] ELSE f]
    BY <2>1
  <2>7. free = Fds \ DOMAIN Files /\ DOMAIN Files = InUse
    BY DEF free
  <2>8. Table!Min(free) = i
    BY <2>5 DEF Table!Min, Min
  <2>9. /\ free # {} /\ Table!Min(Fds \ DOMAIN Files) = i
        /\ Files' = [j \in DOMAIN Files \cup {i} |-> IF j \in DOMAIN Files THEN Files[j] ELSE f]
    BY <2>3, <2>6, <2>7, <2>8
  <2> HIDE DEF f
  <2>10. Table!Open
    BY <1>4, <2>1, <2>7, <2>9, Zenon DEF Table!Open
  <2> QED
    BY <2>10 DEF Table!Next
<1>5. ASSUME reached' = None, NEW i \in InUse, Removed(t, t', i)
      PROVE  Table!Next
  <2>1. InUse' = InUse \ {i} /\ \A j \in InUse \ {i} : Target(t', j) = Target(t, j)
    BY <1>1, <1>5, RemovedStep
  <2>2. i \notin Stdio
    BY <1>5 DEF Removed
  <2>3. Files' = [j \in DOMAIN Files \ ({i} \ Stdio) |-> Files[j]]
    BY <2>1, <2>2
  <2>4. Table!Close
    BY <1>1, <1>5, <2>3 DEF Table!Close, Table!Stdio, Stdio
  <2> QED
    BY <2>4 DEF Table!Next
<1> QED
  BY <1>3, <1>4, <1>5 DEF Effect

\* Each step is an operation of FileTable or changes nothing that it shows.
LEMMA TableStep ==
  ASSUME TableInv, [Next]_vars
  PROVE  Table!Next \/ UNCHANGED <<Files, reached, rc>>
<1> USE DEF Files
<1>1. CASE UNCHANGED vars
  BY <1>1 DEF vars, answer, InUse, Target
<1>2. CASE RegisterDevices
  <2>1. UNCHANGED <<t, reached, rc>>
    BY <1>2, RegisterStep DEF answer
  <2> QED
    BY <2>1 DEF InUse, Target
<1>3. CASE Redirect
  <2>1. PICK i \in Stdio, mode \in Modes, this \in {"stdout", "stdin", "stderr"},
             next \in {"stdin", "stderr", "main"} : OpenFd(i, mode, this, next)
    BY <1>3 DEF Redirect, Stdio, Modes
  <2>2. /\ InUse = Stdio /\ InUse' = Stdio /\ Target(t', i) = Console
        /\ \A j \in Stdio \ {i} : Target(t', j) = Target(t, j)
        /\ UNCHANGED <<reached, rc>>
    BY <2>1, RedirectStep DEF answer
  <2>3. Files' = [Files EXCEPT ![i] = Console] /\ DOMAIN Files = Stdio
    BY <2>2
  <2>4. Table!Redirect
    BY <2>2, <2>3 DEF Table!Redirect, Table!Stdio, Stdio
  <2> QED
    BY <2>4 DEF Table!Next
<1>4. CASE MainReturns
  <2>1. UNCHANGED <<t, reached, rc>>
    BY <1>4, MainReturnsFrame DEF answer
  <2> QED
    BY <2>1 DEF InUse, Target
<1>5. CASE Effect
  BY <1>5, EffectImplements
<1> QED
  BY <1>1, <1>2, <1>3, <1>4, <1>5, StepCases

\* The file layer is the table of descriptors that a program relies on: an open
\* that fails at any of its steps changes no descriptor, a new one is the least
\* free one, and a call reaches the file its descriptor was opened on.
THEOREM Implements ==  Spec => ImplementsFileTable
<1>1. Init => Table!Init
  BY TableStarts
<1>2. TableInv /\ [Next]_vars => [Table!Next]_<<Files, reached, rc>>
  BY TableStep
<1>3. TableInv /\ [Next]_vars => [Table!Next]_<<[i \in InUse |-> Target(t, i)], reached, rc>>
  BY <1>2 DEF Files
<1> QED
  BY <1>1, <1>3, TableSound, PTL DEF Spec, ImplementsFileTable, Table!Spec
==============================================================================
