------------------------------- MODULE HalFiles -------------------------------
(* The HAL's file layer: the table of file descriptors, the lists of devices *)
(* and file systems, the system calls above them, and the host file system   *)
(* whose files live on the other side of the debugger. One call is one step, *)
(* since only one thread calls and no interrupt routine uses the table.      *)
EXTENDS Integers, FiniteSetsExt, SequencesExt

CONSTANTS
  MaxFd,       \* ALT_MAX_FD
  Console, Null, HostFs,                 \* the devices and the file system
  ConsoleName, NullName, HostFsName,     \* their names, as sequences of components
  Names,       \* the names the program opens
  OpenModes,   \* the access modes it opens them with
  Handles,     \* what the host answers to an open
  None

ASSUME HalAssumption ==
  /\ MaxFd \in Nat /\ MaxFd > 3
  /\ None \notin Handles \cup {Console, Null, HostFs} \cup Names
  /\ HostFs \notin {Console, Null}
  /\ OpenModes \subseteq {"RDONLY", "WRONLY", "RDWR"}

VARIABLES
  phase,       \* how far alt_main has come
  devList, fsList,
  t,           \* the table: alt_fd_list, alt_max_fd, and the files the host has open
  reached, rc  \* the file that the last call reached, or None, and what it returned

answer == <<reached, rc>>
vars == <<phase, devList, fsList, t, answer>>

Fds == 0..(MaxFd - 1)
Stdio == 0..2
Modes == {"RDONLY", "WRONLY", "RDWR"}

(* alt_fd: fd_flags is the access mode, O_NONBLOCK, ALT_FD_EXCL, ALT_FD_DEV. *)
Descriptor ==
  [dev : {Console, Null, HostFs, None}, priv : Handles \cup {None},
   acc : Modes, nonblock : BOOLEAN, excl : BOOLEAN, isdev : BOOLEAN]
Free == [dev |-> None, priv |-> None, acc |-> "RDONLY", nonblock |-> FALSE, excl |-> FALSE, isdev |-> FALSE]

(* alt_fd_list, alt_dev_list and alt_fs_list as they are linked.             *)
Init ==
  /\ phase = "init"
  /\ devList = <<[dev |-> Null, name |-> NullName]>> /\ fsList = <<>>
  /\ t = [fd |-> [i \in Fds |-> IF i \in Stdio THEN [Free EXCEPT !.dev = Null] ELSE Free],
          max |-> -1, host |-> [h \in Handles |-> None]]
  /\ reached = None /\ rc = "ok"

(* alt_find_dev, alt_find_file: the first entry that matches.                *)
FirstDev(list, hits) == IF hits = {} THEN None ELSE list[Min(hits)].dev
FindDev(name) == FirstDev(devList, {i \in DOMAIN devList : devList[i].name = name})
FindFile(name) == FirstDev(fsList, {i \in DOMAIN fsList : IsPrefix(fsList[i].name, name)})

(* alt_get_fd; MaxFd stands for -EMFILE.                                     *)
GetFd(s) == Min({i \in Fds : s.fd[i].dev = None} \cup {MaxFd})

Allocate(s, i, dev) ==
  [s EXCEPT !.fd[i].dev = dev, !.max = IF i > s.max THEN i ELSE s.max]

(* Faulty: the standard descriptors are released as well.                    *)
ReleaseAny(s, i) == [s EXCEPT !.fd[i] = [Free EXCEPT !.priv = s.fd[i].priv]]

(* alt_release_fd: the standard descriptors stay.                            *)
Release(s, i) ==
  IF i \in Stdio THEN s ELSE [s EXCEPT !.fd[i] = [Free EXCEPT !.priv = s.fd[i].priv]]

(* Faulty: the highest descriptor is left out.                               *)
LockedBelow(s, i) ==
  \E j \in 0..(s.max - 1) : j # i /\ s.fd[j].dev = s.fd[i].dev /\ s.fd[j].excl

(* alt_file_locked                                                           *)
Locked(s, i) ==
  \E j \in 0..s.max : j # i /\ s.fd[j].dev = s.fd[i].dev /\ s.fd[j].excl

(* alt_open: the table after it and the descriptor, or -1. h is the host's   *)
(* handle for the file, None if the host cannot open it.                     *)
Opened(s, name, mode, nb, h) ==
  LET dev   == IF FindDev(name) # None THEN FindDev(name) ELSE FindFile(name)
      isafs == FindDev(name) = None
      i     == GetFd(s)
      s1    == [Allocate(s, i, dev) EXCEPT !.fd[i].acc = mode, !.fd[i].nonblock = nb,
                                           !.fd[i].isdev = ~isafs]
  IN IF dev = None \/ i = MaxFd THEN [t |-> s, rc |-> -1]
     ELSE IF ~isafs /\ Locked(s1, i) THEN [t |-> Release(s1, i), rc |-> -1]
     ELSE IF ~isafs THEN [t |-> s1, rc |-> i]
     ELSE IF h = None THEN [t |-> Release(s1, i), rc |-> -1]
     ELSE [t |-> [s1 EXCEPT !.fd[i].priv = h, !.host[h] = name], rc |-> i]

(* Faulty: the driver is not called.                                         *)
ClosedHereOnly(s, i) == Release(s, i)

(* alt_close: the driver's close, whose failure keeps nothing open, and the  *)
(* release.                                                                  *)
Closed(s, i) ==
  Release(IF s.fd[i].dev = HostFs THEN [s EXCEPT !.host[s.fd[i].priv] = None] ELSE s, i)

(* The host gives a new file a handle that it does not use.                  *)
HostAnswers(s) == {h \in Handles : s.host[h] = None} \cup {None}

(* alt_hostfs_read, _write and _seek: a count or an error from the host      *)
HostReturns == {"ok", "error"}

(* The driver's close: the console's waits for what is left to send, or, when *)
(* it must not block, gives up.                                               *)
CloseReturns(s, i) ==
  IF s.fd[i].dev = HostFs THEN HostReturns
  ELSE {"ok"} \cup {r \in {"error"} : s.fd[i].dev = Console /\ s.fd[i].nonblock}

(* alt_hostfs_fstat: the kind of file, when the host can tell                *)
HostKinds == {"regular", "character", "error"}

(* The file a driver is asked about when it is called for descriptor i.      *)
Target(s, i) == IF s.fd[i].dev = HostFs THEN s.host[s.fd[i].priv] ELSE s.fd[i].dev

------------------------------------------------------------------------------
(* Boot: alt_main, alt_sys_init.                                             *)

(* alt_llist_insert puts an entry in front; without a name it is refused.    *)
DevListInsert(list, dev, name) == <<[dev |-> dev, name |-> name]>> \o list
FsReg(dev, name) == DevListInsert(fsList, dev, name)

RegisterDevices ==
  /\ phase = "init" /\ phase' = "stdout"
  /\ devList' = DevListInsert(devList, Console, ConsoleName)
  /\ fsList' = FsReg(HostFs, HostFsName)
  /\ UNCHANGED <<t, answer>>

(* alt_open_fd and alt_io_redirect                                           *)
OpenFd(i, mode, this, next) ==
  LET o == Opened(t, ConsoleName, mode, FALSE, None) IN
  /\ phase = this /\ phase' = next
  /\ t' = IF o.rc = -1 THEN o.t ELSE Release([o.t EXCEPT !.fd[i] = o.t.fd[o.rc]], o.rc)
  /\ UNCHANGED <<devList, fsList, answer>>

Redirect == \/ OpenFd(1, "WRONLY", "stdout", "stdin")
            \/ OpenFd(0, "RDONLY", "stdin", "stderr")
            \/ OpenFd(2, "WRONLY", "stderr", "main")

(* main returns: close(STDOUT_FILENO), exit                                  *)
MainReturns ==
  /\ phase = "main" /\ phase' = "exit"
  /\ t' = Closed(t, 1)
  /\ UNCHANGED <<devList, fsList, answer>>

(* _exit                                                                     *)
Spin == phase = "exit" /\ UNCHANGED vars

------------------------------------------------------------------------------
(* The program's calls, with descriptors that it has opened, with -1 that a  *)
(* failed open gave it, or with the standard ones.                           *)

InUse == {i \in Fds : t.fd[i].dev # None}
Calls == phase = "main" /\ UNCHANGED <<phase, devList, fsList>>

Returns(r) == reached' = None /\ rc' = r
Reaches(i, returns) == reached' = Target(t, i) /\ rc' \in returns

Open(name, mode, nb, h) ==
  LET o == Opened(t, name, mode, nb, h) IN
  /\ Calls
  /\ t' = o.t /\ Returns(IF o.rc = -1 THEN "error" ELSE "ok")

Close(i) ==
  /\ Calls
  /\ t' = IF i < 0 THEN t ELSE Closed(t, i)
  /\ \E r \in IF i < 0 THEN {"error"} ELSE CloseReturns(t, i) : Returns(r)

(* A driver without the function is not asked.                               *)
Provides(dev, op) ==
  \/ dev = HostFs
  \/ dev = Console /\ op \in {"read", "write"}
  \/ dev = Null /\ op = "write"

(* alt_read, alt_write and alt_lseek leave the table alone. The console's    *)
(* driver fails when it would block or the host has gone.                    *)
Through(i, allowed) ==
  /\ Calls /\ UNCHANGED t
  /\ IF allowed THEN Reaches(i, IF t.fd[i].dev = Null THEN {"ok"} ELSE HostReturns)
     ELSE Returns("error")

Read(i) == Through(i, i >= 0 /\ t.fd[i].acc # "WRONLY" /\ Provides(t.fd[i].dev, "read"))
Write(i) == Through(i, i >= 0 /\ t.fd[i].acc # "RDONLY" /\ Provides(t.fd[i].dev, "write"))
Lseek(i) == Through(i, i >= 0 /\ Provides(t.fd[i].dev, "lseek"))

(* alt_fstat: a device without the function is a character device.           *)
Kinds(s, i) == IF Provides(s.fd[i].dev, "fstat") THEN HostKinds ELSE {"character"}
FstatReturns(s, i) == {IF k = "error" THEN "error" ELSE "ok" : k \in Kinds(s, i)}

Fstat(i) ==
  /\ Calls /\ UNCHANGED t
  /\ IF i < 0 THEN Returns("error") ELSE Reaches(i, FstatReturns(t, i))

(* alt_isatty, "ok" for 1 and "error" for 0: when fstat fails the kind that  *)
(* is compared is whatever the stack held.                                   *)
Isatty(i) ==
  /\ Calls /\ UNCHANGED t
  /\ IF i < 0 THEN Returns("error")
     ELSE \E kind \in Kinds(t, i) :
            Reaches(i, CASE kind = "character" -> {"ok"} [] kind = "regular" -> {"error"}
                         [] kind = "error" -> {"ok", "error"})

(* alt_stat: open for reading, fstat and close, also of a failed open.       *)
Stat(name, h) ==
  LET o == Opened(t, name, "RDONLY", FALSE, h) IN
  /\ Calls
  /\ t' = IF o.rc = -1 THEN o.t ELSE Closed(o.t, o.rc)
  /\ \E r \in IF o.rc = -1 THEN {"error"} ELSE FstatReturns(o.t, o.rc) : Returns(r)

(* alt_fcntl, F_SETFL: the access mode and the HAL's own flags stay.         *)
SetFlags(i, nb) ==
  /\ Calls
  /\ t' = IF i < 0 THEN t ELSE [t EXCEPT !.fd[i].nonblock = nb]
  /\ Returns(IF i < 0 THEN "error" ELSE "ok")

(* alt_fd_lock: the descriptors below the highest ever used are looked at.   *)
Shared(s, i) == \E j \in 0..(s.max - 1) : j # i /\ s.fd[j].dev = s.fd[i].dev
Lock(s, i) == IF Shared(s, i) THEN s ELSE [s EXCEPT !.fd[i].excl = TRUE]

Unlock(s, i) == [s EXCEPT !.fd[i].excl = FALSE]

(* The console's TIOCSTIMEOUT and TIOCGCONNECTED fail without a system clock. *)
ConsoleReturns(request) ==
  IF request \in {"TIMEOUT", "CONNECTED"} THEN {"ok", "error"} ELSE {"error"}

(* alt_ioctl: TIOCEXCL and TIOCNXCL of a device, else the driver's ioctl,    *)
(* which only the console has.                                               *)
Ioctl(i, request) ==
  /\ Calls
  /\ \/ i < 0 /\ Returns("error") /\ UNCHANGED t
     \/ /\ i >= 0 /\ t.fd[i].isdev /\ request = "EXCL"
        /\ t' = Lock(t, i) /\ Returns(IF Shared(t, i) THEN "error" ELSE "ok")
     \/ /\ i >= 0 /\ t.fd[i].isdev /\ request = "NXCL"
        /\ t' = Unlock(t, i) /\ Returns("ok")
     \/ /\ i >= 0 /\ ~(t.fd[i].isdev /\ request \in {"EXCL", "NXCL"})
        /\ UNCHANGED t
        /\ IF t.fd[i].dev = Console THEN Reaches(i, ConsoleReturns(request))
           ELSE Returns("error")

Next ==
  \/ RegisterDevices \/ Redirect \/ MainReturns \/ Spin
  \/ \E name \in Names, h \in HostAnswers(t) :
       \/ Stat(name, h)
       \/ \E mode \in OpenModes, nb \in BOOLEAN : Open(name, mode, nb, h)
  \/ \E i \in InUse \cup {-1} :
       \/ Close(i) \/ Read(i) \/ Write(i) \/ Lseek(i) \/ Fstat(i) \/ Isatty(i)
       \/ \E nb \in BOOLEAN : SetFlags(i, nb)
       \/ \E request \in {"EXCL", "NXCL", "TIMEOUT", "CONNECTED"} : Ioctl(i, request)

Spec == Init /\ [][Next]_vars
------------------------------------------------------------------------------
(* Properties.                                                               *)

TypeOK ==
  /\ phase \in {"init", "stdout", "stdin", "stderr", "main", "exit"}
  /\ t \in [fd : [Fds -> Descriptor], max : -1..(MaxFd - 1), host : [Handles -> Names \cup {None}]]
  /\ reached \in Names \cup {Console, Null, None} /\ rc \in {"ok", "error"}

OnHost == {i \in InUse : t.fd[i].dev = HostFs}

(* The host has exactly those files open that a descriptor stands for, each  *)
(* by one descriptor.                                                        *)
HostInv ==
  /\ {t.fd[i].priv : i \in OnHost} = {h \in Handles : t.host[h] # None}
  /\ \A i, j \in OnHost : t.fd[i].priv = t.fd[j].priv => i = j

(* The standard descriptors stand for a device from the first step on, and   *)
(* only those of devices are locked.                                         *)
DeviceInv ==
  /\ \A i \in Stdio : t.fd[i].dev \in {Console, Null}
  /\ \A i \in Fds : t.fd[i].isdev => t.fd[i].dev \in {Console, Null}
  /\ \A i \in Fds : t.fd[i].excl => t.fd[i].isdev

(* alt_max_fd bounds the search for other descriptors: once the program runs *)
(* it is above the standard ones, which are put in the table without it.     *)
MaxInv ==
  /\ \A i \in InUse \ Stdio : i <= t.max
  /\ phase \in {"main", "exit"} => \A i \in Stdio : i <= t.max

(* Until main there are the standard descriptors only.                       *)
BootInv ==
  /\ phase \notin {"main", "exit"} => InUse = Stdio /\ \A i \in Fds : ~t.fd[i].excl
  /\ LET devs == <<[dev |-> Null, name |-> NullName]>> IN
     IF phase = "init" THEN devList = devs /\ fsList = <<>>
     ELSE /\ devList = <<[dev |-> Console, name |-> ConsoleName]>> \o devs
          /\ fsList = <<[dev |-> HostFs, name |-> HostFsName]>>

(* Whatever opens, stats and closes fail, in whatever order: no file of the  *)
(* host is leaked, closed twice or shared, no free descriptor keeps a lock,  *)
(* and alt_max_fd bounds the search of alt_file_locked without missing a     *)
(* descriptor.                                                               *)
TableInv == TypeOK /\ HostInv /\ DeviceInv /\ MaxInv /\ BootInv

Sharing(s, i) == {j \in Fds \ {i} : s.fd[j].dev = s.fd[i].dev}

(* While a descriptor is locked no further descriptor of its device comes    *)
(* into being, as alt_fd_lock.c:44 says: "Further calls to open() for this   *)
(* device will fail until the lock is released".                             *)
LockedStaysClosed ==
  [][\A i \in Fds : t.fd[i].excl /\ t'.fd[i].excl => Sharing(t', i) \subseteq Sharing(t, i)]_vars

(* The file layer is the table of FileTable: an open that returns an error,  *)
(* at any of its steps, leaves every descriptor as it was, a new descriptor  *)
(* is the least free one, one that could not be closed is free all the same, *)
(* the standard ones stay, and a call reaches the file that its descriptor   *)
(* was opened on, although the host uses its handles again.                  *)
Table == INSTANCE FileTable WITH
  Descriptors <- Fds,
  Files <- Names \cup {Console, Null},
  files <- [i \in InUse |-> Target(t, i)]

ImplementsFileTable == Table!Spec
==============================================================================
