------------------------------ MODULE UnixLock ------------------------------
(***************************************************************************)
(* The locking methods of os_unix.c.  POSIX advisory locks belong to a     *)
(* process, not to a handle: handles of one process do not exclude each    *)
(* other, and closing any descriptor of a file drops every lock the        *)
(* process has on it.  unixInodeInfo makes up for both: it counts, for     *)
(* each process and file, who holds what, and keeps descriptors open that  *)
(* must not be closed yet.                                                 *)
(*                                                                         *)
(* A step is one fcntl or close with the memory accesses around it.  A     *)
(* call holds pInode->pLockMutex from its first to its last step, so that  *)
(* only calls of different processes interleave, except for unixClose,     *)
(* which lets go of the mutex before it closes the descriptor.             *)
(***************************************************************************)
EXTENDS Integers, FiniteSets

CONSTANTS Handle,        \* unixFile objects for one database file
          Proc,          \* processes
          ProcOf,        \* the process of each handle
          MultiThreaded  \* may two handles of a process be in use at once?

ASSUME UnixLockAssumption ==
  /\ IsFiniteSet(Handle)
  /\ ProcOf \in [Handle -> Proc]
  /\ MultiThreaded \in BOOLEAN

VARIABLES open,          \* open[h]: is the handle open?
          eFileLock,     \* unixFile.eFileLock
          pc,            \* where a call of the handle is
          want,          \* the level that call is about
          iLock,         \* unixInodeInfo.eFileLock of each process
          nShared,       \* unixInodeInfo.nShared
          nLock,         \* unixInodeInfo.nLock
          nUnused,       \* length of unixInodeInfo.pUnused
          pend,          \* what each process holds on PENDING_BYTE,
          res,           \* on RESERVED_BYTE,
          shr            \* and on the SHARED range: "n", "r" or "w"

vars == <<open, eFileLock, pc, want, iLock, nShared, nLock, nUnused,
          pend, res, shr>>

NO == 0
SHARED == 1
RESERVED == 2
PENDING == 3
EXCLUSIVE == 4

HandlesOf(p) == {h \in Handle : ProcOf[h] = p}

Init ==
  /\ open = [h \in Handle |-> TRUE]
  /\ eFileLock = [h \in Handle |-> NO]
  /\ pc = [h \in Handle |-> "idle"]
  /\ want = [h \in Handle |-> NO]
  /\ iLock = [p \in Proc |-> NO]
  /\ nShared = [p \in Proc |-> 0]
  /\ nLock = [p \in Proc |-> 0]
  /\ nUnused = [p \in Proc |-> 0]
  /\ pend = [p \in Proc |-> "n"]
  /\ res = [p \in Proc |-> "n"]
  /\ shr = [p \in Proc |-> "n"]

(* fcntl(F_SETLK): a read lock needs that no other process has a write     *)
(* lock, a write lock that none has any                                    *)
ReadOK(b, p)  == \A q \in Proc \ {p} : b[q] # "w"
WriteOK(b, p) == \A q \in Proc \ {p} : b[q] = "n"

(* sqlite3_mutex_enter(pInode->pLockMutex) *)
CanEnter(h) ==
  /\ open[h] /\ pc[h] = "idle"
  /\ \A g \in HandlesOf(ProcOf[h]) :
       pc[g] = "idle" \/ (MultiThreaded /\ pc[g] = "closing")

(* unixEnterMutex(): one open or close at a time in a process *)
NoneClosing(h) == \A g \in HandlesOf(ProcOf[h]) : pc[g] = "idle"

Goto(h, l) == pc' = [pc EXCEPT ![h] = l]
SetLock(h, l) == eFileLock' = [eFileLock EXCEPT ![h] = l]
SetInode(h, l) == iLock' = [iLock EXCEPT ![ProcOf[h]] = l]

-----------------------------------------------------------------------------
(* unixLock *)

(* Faulty variant: handles of one process do not look at each other. *)
Precluded_dropped(h, l) == FALSE

(* A handle of the same process that is in the way: SQLITE_BUSY *)
Precluded(h, l) ==
  /\ eFileLock[h] # iLock[ProcOf[h]]
  /\ iLock[ProcOf[h]] >= PENDING \/ l > SHARED

(* Faulty variant: the reference count is not taken. *)
Counted_not(f, p) == f

Counted(f, p) == [f EXCEPT ![p] = @ + 1]

(* Somebody in this process has the SHARED lock already: count one more. *)
LockCounted(h) ==
  LET p == ProcOf[h]
  IN  /\ CanEnter(h) /\ eFileLock[h] = NO
      /\ ~Precluded(h, SHARED)
      /\ iLock[p] \in {SHARED, RESERVED}
      /\ SetLock(h, SHARED)
      /\ nShared' = Counted(nShared, p)
      /\ nLock' = Counted(nLock, p)
      /\ UNCHANGED <<open, pc, want, iLock, nUnused, pend, res, shr>>

(* The first SHARED lock of a process: a read lock on the pending byte ... *)
LockShared(h) ==
  LET p == ProcOf[h]
  IN  /\ CanEnter(h) /\ eFileLock[h] = NO
      /\ ~Precluded(h, SHARED)
      /\ iLock[p] \notin {SHARED, RESERVED}
      /\ ReadOK(pend, p)
      /\ pend' = [pend EXCEPT ![p] = "r"]
      /\ Goto(h, "range")
      /\ UNCHANGED <<open, eFileLock, want, iLock, nShared, nLock, nUnused,
                     res, shr>>

(* ... one on the shared range ... *)
ReadRange(h) ==
  LET p == ProcOf[h]
  IN  /\ pc[h] = "range"
      /\ \/ /\ ReadOK(shr, p)
            /\ shr' = [shr EXCEPT ![p] = "r"]
            /\ Goto(h, "got")
         \/ /\ ~ReadOK(shr, p)
            /\ Goto(h, "missed")
            /\ UNCHANGED shr
      /\ UNCHANGED <<open, eFileLock, want, iLock, nShared, nLock, nUnused,
                     pend, res>>

(* ... and the pending byte is free again. *)
DropPending(h) ==
  LET p == ProcOf[h]
  IN  /\ pc[h] \in {"got", "missed"}
      /\ pend' = [pend EXCEPT ![p] = "n"]
      /\ Goto(h, "idle")
      /\ \/ /\ pc[h] = "got"
            /\ SetLock(h, SHARED)
            /\ SetInode(h, SHARED)
            /\ nShared' = [nShared EXCEPT ![p] = 1]
            /\ nLock' = [nLock EXCEPT ![p] = @ + 1]
         \/ /\ pc[h] = "missed"
            /\ UNCHANGED <<eFileLock, iLock, nShared, nLock>>
      /\ UNCHANGED <<open, want, nUnused, res, shr>>

LockReserved(h) ==
  LET p == ProcOf[h]
  IN  /\ CanEnter(h) /\ eFileLock[h] = SHARED
      /\ ~Precluded(h, RESERVED)
      /\ WriteOK(res, p)
      /\ res' = [res EXCEPT ![p] = "w"]
      /\ SetLock(h, RESERVED)
      /\ SetInode(h, RESERVED)
      /\ UNCHANGED <<open, pc, want, nShared, nLock, nUnused, pend, shr>>

(* On the way to EXCLUSIVE a RESERVED lock becomes a PENDING one; with     *)
(* other readers in the process the call ends there.                       *)
LockPending(h) ==
  LET p == ProcOf[h]
  IN  /\ CanEnter(h) /\ eFileLock[h] = RESERVED
      /\ ~Precluded(h, EXCLUSIVE)
      /\ WriteOK(pend, p)
      /\ pend' = [pend EXCEPT ![p] = "w"]
      /\ SetLock(h, PENDING)
      /\ SetInode(h, PENDING)
      /\ Goto(h, IF nShared[p] > 1 THEN "idle" ELSE "excl")
      /\ UNCHANGED <<open, want, nShared, nLock, nUnused, res, shr>>

(* The write lock on the shared range, for a handle that has SHARED (a hot *)
(* journal) or PENDING *)
LockExclusive(h) ==
  LET p == ProcOf[h]
      asks == /\ CanEnter(h) /\ eFileLock[h] \in {SHARED, PENDING}
              /\ ~Precluded(h, EXCLUSIVE)
              /\ nShared[p] <= 1
  IN  /\ \/ /\ asks \/ pc[h] = "excl"
            /\ WriteOK(shr, p)
            /\ shr' = [shr EXCEPT ![p] = "w"]
            /\ SetLock(h, EXCLUSIVE)
            /\ SetInode(h, EXCLUSIVE)
         \/ /\ pc[h] = "excl" /\ ~WriteOK(shr, p)
            /\ UNCHANGED <<shr, eFileLock, iLock>>
      /\ Goto(h, "idle")
      /\ UNCHANGED <<open, want, nShared, nLock, nUnused, pend, res>>

-----------------------------------------------------------------------------
(* posixUnlock *)

Unlock(h, l) ==
  /\ CanEnter(h) /\ eFileLock[h] > l
  /\ want' = [want EXCEPT ![h] = l]
  /\ Goto(h, IF eFileLock[h] = SHARED THEN "count"
             ELSE IF l = SHARED THEN "downgrade" ELSE "release")
  /\ UNCHANGED <<open, eFileLock, iLock, nShared, nLock, nUnused,
                 pend, res, shr>>

(* The write lock on the shared range becomes a read lock ... *)
Downgrade(h) ==
  /\ pc[h] = "downgrade"
  /\ shr' = [shr EXCEPT ![ProcOf[h]] = "r"]
  /\ Goto(h, "release")
  /\ UNCHANGED <<open, eFileLock, want, iLock, nShared, nLock, nUnused,
                 pend, res>>

(* ... before the pending and the reserved byte are released. *)
Release(h) ==
  /\ pc[h] = "release"
  /\ pend' = [pend EXCEPT ![ProcOf[h]] = "n"]
  /\ res' = [res EXCEPT ![ProcOf[h]] = "n"]
  /\ SetInode(h, SHARED)
  /\ \/ /\ want[h] = SHARED
        /\ SetLock(h, SHARED)
        /\ Goto(h, "idle")
     \/ /\ want[h] = NO
        /\ Goto(h, "count")
        /\ UNCHANGED eFileLock
  /\ UNCHANGED <<open, want, nShared, nLock, nUnused, shr>>

(* Faulty variant: the descriptors set aside are never closed. *)
CloseUnused_never(p, n) == UNCHANGED nUnused

(* closePendingFds, when no lock of the process is left *)
CloseUnused(p, n) ==
  nUnused' = [nUnused EXCEPT ![p] = IF n = 0 THEN 0 ELSE @]

(* The last handle of the process to let go releases the whole file; then  *)
(* the descriptors in pUnused can be closed (closePendingFds).             *)
CountDown(h) ==
  LET p == ProcOf[h]
      last == nShared[p] = 1
  IN  /\ pc[h] = "count"
      /\ nShared' = [nShared EXCEPT ![p] = @ - 1]
      /\ nLock' = [nLock EXCEPT ![p] = @ - 1]
      /\ iLock' = [iLock EXCEPT ![p] = IF last THEN NO ELSE @]
      /\ pend' = [pend EXCEPT ![p] = IF last THEN "n" ELSE @]
      /\ res' = [res EXCEPT ![p] = IF last THEN "n" ELSE @]
      /\ shr' = [shr EXCEPT ![p] = IF last THEN "n" ELSE @]
      /\ CloseUnused(p, nLock[p] - 1)
      /\ SetLock(h, NO)
      /\ Goto(h, "idle")
      /\ UNCHANGED <<open, want>>

-----------------------------------------------------------------------------
(* unixClose, after unixUnlock(NO_LOCK), and unixOpen *)

(* Faulty variant: the descriptor is closed whatever locks there are. *)
Outstanding_ignored(p) == FALSE

Outstanding(p) == nLock[p] > 0

(* With locks outstanding in this process the descriptor is only set       *)
(* aside (setPendingFd).                                                   *)
Close(h) ==
  LET p == ProcOf[h]
  IN  /\ CanEnter(h) /\ NoneClosing(h) /\ eFileLock[h] = NO
      /\ \/ /\ Outstanding(p)
            /\ nUnused' = [nUnused EXCEPT ![p] = @ + 1]
            /\ open' = [open EXCEPT ![h] = FALSE]
            /\ UNCHANGED pc
         \/ /\ ~Outstanding(p)
            /\ Goto(h, "closing")
            /\ UNCHANGED <<open, nUnused>>
      /\ UNCHANGED <<eFileLock, want, iLock, nShared, nLock, pend, res, shr>>

(* close(2) drops every lock of the process on the file. *)
CloseFd(h) ==
  LET p == ProcOf[h]
  IN  /\ pc[h] = "closing"
      /\ pend' = [pend EXCEPT ![p] = "n"]
      /\ res' = [res EXCEPT ![p] = "n"]
      /\ shr' = [shr EXCEPT ![p] = "n"]
      /\ open' = [open EXCEPT ![h] = FALSE]
      /\ Goto(h, "idle")
      /\ UNCHANGED <<eFileLock, want, iLock, nShared, nLock, nUnused>>

(* A descriptor that was set aside is used again (findReusableFd). *)
Open(h) ==
  LET p == ProcOf[h]
  IN  /\ ~open[h] /\ NoneClosing(h)
      /\ open' = [open EXCEPT ![h] = TRUE]
      /\ nUnused' = [nUnused EXCEPT ![p] = IF @ > 0 THEN @ - 1 ELSE 0]
      /\ UNCHANGED <<eFileLock, pc, want, iLock, nShared, nLock,
                     pend, res, shr>>

(* A process ends and is started again. *)
Crash(p) ==
  LET reset(f, v) == [h \in Handle |-> IF ProcOf[h] = p THEN v ELSE f[h]]
  IN  /\ open' = reset(open, TRUE)
      /\ eFileLock' = reset(eFileLock, NO)
      /\ pc' = reset(pc, "idle")
      /\ want' = reset(want, NO)
      /\ iLock' = [iLock EXCEPT ![p] = NO]
      /\ nShared' = [nShared EXCEPT ![p] = 0]
      /\ nLock' = [nLock EXCEPT ![p] = 0]
      /\ nUnused' = [nUnused EXCEPT ![p] = 0]
      /\ pend' = [pend EXCEPT ![p] = "n"]
      /\ res' = [res EXCEPT ![p] = "n"]
      /\ shr' = [shr EXCEPT ![p] = "n"]

Next ==
  \/ \E h \in Handle :
       \/ LockCounted(h) \/ LockShared(h) \/ ReadRange(h) \/ DropPending(h)
       \/ LockReserved(h) \/ LockPending(h) \/ LockExclusive(h)
       \/ \E l \in {NO, SHARED} : Unlock(h, l)
       \/ Downgrade(h) \/ Release(h) \/ CountDown(h)
       \/ Close(h) \/ CloseFd(h) \/ Open(h)
  \/ \E p \in Proc : Crash(p)

Spec == Init /\ [][Next]_vars

-----------------------------------------------------------------------------
(* The level a handle has for the others: it gives up what it had above    *)
(* SHARED with the fcntl that lets others in, before the call ends.        *)
Level(h) ==
  IF \/ pc[h] = "release" /\ want[h] = SHARED /\ eFileLock[h] = EXCLUSIVE
     \/ pc[h] = "count" /\ eFileLock[h] # EXCLUSIVE
  THEN SHARED ELSE eFileLock[h]

FL == INSTANCE FileLock WITH lock <- [h \in Handle |-> Level(h)]

(* Levels, byte locks and counters are what they are declared to be. *)
TypeOK ==
  /\ open \in [Handle -> BOOLEAN]
  /\ eFileLock \in [Handle -> 0..4]
  /\ pc \in [Handle -> {"idle", "range", "got", "missed", "excl",
                        "downgrade", "release", "count", "closing"}]
  /\ want \in [Handle -> {NO, SHARED}]
  /\ iLock \in [Proc -> 0..4]
  /\ nShared \in [Proc -> Nat] /\ nLock \in [Proc -> Nat]
  /\ nUnused \in [Proc -> Nat]
  /\ pend \in [Proc -> {"n", "r", "w"}]
  /\ res \in [Proc -> {"n", "w"}]
  /\ shr \in [Proc -> {"n", "r", "w"}]

(* The POSIX locks of processes, with the bookkeeping of each process,     *)
(* give every handle the lock levels FileLock promises.                    *)
ImplementsFileLock == FL!Spec

(* A handle that has a lock has it for other processes too: closing        *)
(* another handle of the same process has not dropped it.                  *)
LocksBacked ==
  \A h \in Handle : eFileLock[h] > NO => shr[ProcOf[h]] # "n"

(* Faulty variant: only the reserved byte is asked, which never conflicts  *)
(* with the process that asks.                                             *)
CheckReservedLock_byte(h) == \E q \in Proc \ {ProcOf[h]} : res[q] = "w"

(* unixCheckReservedLock *)
CheckReservedLock(h) ==
  \/ iLock[ProcOf[h]] > SHARED
  \/ \E q \in Proc \ {ProcOf[h]} : res[q] = "w"

(* unixCheckReservedLock tells a reader whether another handle intends to  *)
(* write, whichever process that is in: what hasHotJournal relies on not   *)
(* to roll back a journal that is in use.                                  *)
CheckReservedExact ==
  \A h \in Handle : CanEnter(h) /\ eFileLock[h] = SHARED =>
    (CheckReservedLock(h) <=> FL!CheckReserved(h))

Holders(p) == {h \in HandlesOf(p) : eFileLock[h] > NO}

(* The counters of unixInodeInfo are the number of handles of the process  *)
(* with a lock, and descriptors are only set aside while there are some.   *)
CountsExact ==
  \A p \in Proc :
    /\ nShared[p] = Cardinality(Holders(p))
    /\ nLock[p] = nShared[p]
    /\ nUnused[p] > 0 => nLock[p] > 0
=============================================================================
