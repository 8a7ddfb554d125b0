------------------------------ MODULE FileLock ------------------------------
(***************************************************************************)
(* What the locking methods of the operating-system layer promise to the   *)
(* pager: the five lock levels of a database file, taken and dropped one   *)
(* handle at a time.  UnixLock shows how os_unix.c keeps the promise with  *)
(* POSIX advisory locks; Pager relies on it.                               *)
(***************************************************************************)
EXTENDS Integers

CONSTANT Handle          \* the open handles on one database file

VARIABLE lock            \* lock[h]: the level handle h holds

(* os.h: NO_LOCK .. EXCLUSIVE_LOCK *)
NO_LOCK        == 0
SHARED_LOCK    == 1
RESERVED_LOCK  == 2
PENDING_LOCK   == 3
EXCLUSIVE_LOCK == 4
Level          == 0..4

Others(h) == Handle \ {h}

(* A new reader gets in unless somebody is writing.  A PENDING lock keeps  *)
(* new readers out too, but not in a process that already has a reader.    *)
Shared(h) ==
  /\ lock[h] = NO_LOCK
  /\ \A g \in Others(h) : lock[g] # EXCLUSIVE_LOCK
  /\ lock' = [lock EXCEPT ![h] = SHARED_LOCK]

(* One handle at a time announces that it will write. *)
Reserved(h) ==
  /\ lock[h] = SHARED_LOCK
  /\ \A g \in Others(h) : lock[g] < RESERVED_LOCK
  /\ lock' = [lock EXCEPT ![h] = RESERVED_LOCK]

(* The writer waits for the present readers to finish. *)
Pending(h) ==
  /\ lock[h] = RESERVED_LOCK
  /\ lock' = [lock EXCEPT ![h] = PENDING_LOCK]

Alone(h) == \A g \in Others(h) : lock[g] = NO_LOCK

(* From PENDING on the way to a commit, from SHARED to roll a hot journal  *)
(* back: in both cases nobody else holds anything.                         *)
Exclusive(h) ==
  /\ lock[h] \in {SHARED_LOCK, RESERVED_LOCK, PENDING_LOCK}
  /\ Alone(h)
  /\ lock' = [lock EXCEPT ![h] = EXCLUSIVE_LOCK]

Unlock(h, l) ==
  /\ l \in {NO_LOCK, SHARED_LOCK}
  /\ lock[h] > l
  /\ lock' = [lock EXCEPT ![h] = l]

(* A process ends: the kernel drops the locks of all its handles. *)
Drop(H) == lock' = [h \in Handle |-> IF h \in H THEN NO_LOCK ELSE lock[h]]

(* xCheckReservedLock: does another handle intend to write? *)
CheckReserved(h) == \E g \in Others(h) : lock[g] >= RESERVED_LOCK

Init == lock = [h \in Handle |-> NO_LOCK]

Next ==
  \/ \E h \in Handle : \/ Shared(h)
                       \/ Reserved(h)
                       \/ Pending(h)
                       \/ Exclusive(h)
                       \/ \E l \in {NO_LOCK, SHARED_LOCK} : Unlock(h, l)
  \/ \E H \in SUBSET Handle : Drop(H)

Spec == Init /\ [][Next]_lock
=============================================================================
