---------------------------- MODULE PagerProofs -----------------------------
(***************************************************************************)
(* What holds of the pager in every mix of journal modes, for every number *)
(* of connections, pages, transactions and failures: the shape of its      *)
(* state, the locks a call holds at each of its steps, and what each       *)
(* action does to the files.                                               *)
(***************************************************************************)
EXTENDS Pager, WellFoundedInduction, TLAPS

-----------------------------------------------------------------------------
(* Facts about the operators of Pager *)

(* A non-empty set of naturals has a least element, and Min is it. *)
LEMMA MinProperty ==
  ASSUME NEW T \in SUBSET Nat, T # {}
  PROVE  /\ Min(T) \in T
         /\ \A y \in T : Min(T) <= y
  <1>0. OpToRel(<, Nat) = {ss \in Nat \X Nat : ss[1] < ss[2]}
    BY DEF OpToRel
  <1> DEFINE R == {ss \in Nat \X Nat : ss[1] < ss[2]}
  <1>1. IsWellFoundedOn(R, Nat)
    BY <1>0, NatLessThanWellFounded
  <1>2. PICK x \in T : \A y \in T : ~(<<y, x>> \in R)
    <2> HIDE DEF R
    <2> QED  BY <1>1, WFMin
  <1>3. ASSUME NEW y \in T PROVE x <= y
    <2>1. ~(<<y, x>> \in R) /\ x \in Nat /\ y \in Nat
      BY <1>2
    <2> QED  BY <2>1
  <1> QED
    BY <1>3 DEF Min

(* A non-empty set of naturals with a bound has a largest one: Max. *)
LEMMA MaxProperty ==
  ASSUME NEW n \in Nat, NEW T \in SUBSET (0..n), T # {}
  PROVE  /\ Max(T) \in T
         /\ \A y \in T : Max(T) >= y
  <1> DEFINE U == {n - x : x \in T}
  <1>1. U \in SUBSET Nat /\ U # {}
    <2>1. PICK t \in T : TRUE
      OBVIOUS
    <2>2. n - t \in U
      OBVIOUS
    <2>3. \A u \in U : u \in Nat
      OBVIOUS
    <2> QED  BY <2>2, <2>3
  <1>2. Min(U) \in U /\ \A y \in U : Min(U) <= y
    <2> HIDE DEF U
    <2> QED  BY <1>1, MinProperty
  <1>3. PICK x \in T : Min(U) = n - x
    BY <1>2
  <1>4. \A y \in T : x >= y
    BY <1>2, <1>3
  <1> QED
    BY <1>4 DEF Max
-----------------------------------------------------------------------------
(* The types of a slot, of a journal file and of the two file systems *)
Slot ==
  {s \in [k : {"zero", "hdr", "rec", "bad"}, pg : Nat, val : Int, seed : Nat] :
     s.k = "rec" => s.pg \in Page}

Files == [Inode -> Seq(Slot)]
Pages == [Page -> Int]
FileSystem == [db : Pages, dir : {0} \cup Inode, file : Files]
Medium == [db : Pages, dir : {0} \cup Inode, file : Files, behind : SUBSET Page]

LEMMA SlotTypes ==
  /\ ZeroSlot \in Slot /\ BadSlot \in Slot
  /\ \A n, s \in Nat : NewHdr(n, s) \in Slot
  /\ \A p \in Page, v \in Int, s \in Nat : Record(p, v, s) \in Slot
  BY DEF ZeroSlot, BadSlot, NewHdr, Record, Slot, Page

(* PutSlot replaces a slot or appends one. *)
LEMMA PutSlotProperty ==
  ASSUME NEW S \in Seq(Slot), NEW i \in 1..(Len(S) + 1), NEW s \in Slot
  PROVE  /\ PutSlot(S, i, s) \in Seq(Slot)
         /\ Len(PutSlot(S, i, s)) = IF i > Len(S) THEN i ELSE Len(S)
         /\ PutSlot(S, i, s)[i] = s
         /\ \A n \in 1..Len(S) : n # i => PutSlot(S, i, s)[n] = S[n]
  BY DEF PutSlot

(* The size of a database file is the number of its last page. *)
LEMMA SizeOfProperty ==
  ASSUME NEW db
  PROVE  /\ SizeOf(db) \in 0..MaxPage
         /\ SizeOf(db) = 0 \/ db[SizeOf(db)] # Absent
         /\ \A p \in Page : p > SizeOf(db) => db[p] = Absent
  <1> DEFINE T == {0} \cup {p \in Page : db[p] # Absent}
  <1>1. MaxPage \in Nat
    BY PagerAssumption
  <1>2. T \in SUBSET (0..MaxPage) /\ T # {}
    BY <1>1 DEF Page
  <1>3. Max(T) \in T /\ \A y \in T : Max(T) >= y
    <2> HIDE DEF T
    <2> QED  BY <1>1, <1>2, MaxProperty
  <1> QED
    BY <1>1, <1>2, <1>3 DEF SizeOf, Page

LEMMA TruncateType ==
  ASSUME NEW db \in Pages, NEW n \in Nat
  PROVE  TruncateTo(db, n) \in Pages
  BY PagerAssumption DEF TruncateTo, Pages, Page, Absent

(* What a power failure leaves of a journal file is one, no longer than    *)
(* the longer of the two; a slot both agree on is kept, any other is one   *)
(* of the two or damaged.                                                  *)
LEMMA SlotsLeftProperty ==
  ASSUME NEW S \in Seq(Slot), NEW T \in Seq(Slot), NEW U \in SlotsLeft(S, T)
  PROVE  /\ U \in Seq(Slot)
         /\ Len(U) <= Len(S) \/ Len(U) <= Len(T)
         /\ Len(U) >= Len(S) \/ Len(U) >= Len(T)
         /\ Len(S) <= Len(T) => Len(S) <= Len(U)
         /\ \A n \in 1..Len(U) :
              \/ U[n] = BadSlot
              \/ n <= Len(S) /\ U[n] = S[n]
              \/ n <= Len(T) /\ U[n] = T[n]
         /\ \A n \in 1..Len(U) :
              n <= Len(S) /\ n <= Len(T) /\ S[n] = T[n] => U[n] = S[n]
  <1> DEFINE Old(n) == IF n <= Len(S) THEN S[n] ELSE BadSlot
             New(n) == IF n <= Len(T) THEN T[n] ELSE S[n]
             lengths == IF Len(S) <= Len(T) THEN Len(S)..Len(T)
                        ELSE {Len(S), Len(T)}
             W == [1..Max(lengths) -> Outcome]
             F(m, w) == [n \in 1..m |-> IF Old(n) = New(n) THEN Old(n)
                                       ELSE Left(w[n], Old(n), New(n), BadSlot)]
  <1>0. SlotsLeft(S, T) = {F(m, w) : m \in lengths, w \in W}
    BY DEF SlotsLeft
  <1>1. PICK m \in lengths, w \in W : U = F(m, w)
    <2> HIDE DEF lengths, W, F
    <2> QED  BY <1>0
  <1>2. lengths \in SUBSET (0..(Len(S) + Len(T))) /\ lengths # {}
    OBVIOUS
  <1>3. m \in Nat /\ m <= Max(lengths) /\ Max(lengths) \in Nat
    <2>1. Max(lengths) \in lengths /\ \A y \in lengths : Max(lengths) >= y
      <3>1. Len(S) + Len(T) \in Nat
        OBVIOUS
      <3> HIDE DEF lengths
      <3> QED  BY <1>2, <3>1, MaxProperty
    <2>2. m \in 0..(Len(S) + Len(T)) /\ Max(lengths) \in 0..(Len(S) + Len(T))
      BY <1>2, <2>1
    <2>3. Max(lengths) >= m
      BY <2>1
    <2> QED  BY <2>2, <2>3
  <1>4. Len(U) = m /\ DOMAIN U = 1..m
    BY <1>1, <1>3
  <1>5. ASSUME NEW n \in 1..m
        PROVE  /\ U[n] \in {Old(n), New(n), BadSlot}
               /\ Old(n) = New(n) => U[n] = Old(n)
    <2>1. U[n] = IF Old(n) = New(n) THEN Old(n)
                 ELSE Left(w[n], Old(n), New(n), BadSlot)
      BY <1>1, <1>3
    <2>2. w[n] \in Outcome
      <3> HIDE DEF lengths
      <3> QED  BY <1>3
    <2> QED  BY <2>1, <2>2 DEF Left, Outcome
  <1>6. ASSUME NEW n \in 1..m
        PROVE  n <= Len(S) \/ n <= Len(T)
    OBVIOUS
  <1>7. ASSUME NEW n \in 1..m
        PROVE  U[n] \in Slot
    BY <1>5, <1>6, SlotTypes
  <1>8. U \in Seq(Slot)
    <2>1. U \in [1..m -> Slot]
      BY <1>1, <1>7
    <2> HIDE DEF F, lengths
    <2> QED  BY <1>3, <2>1
  <1> QED
    BY <1>3, <1>4, <1>5, <1>6, <1>8

-----------------------------------------------------------------------------
(* The inductive invariant *)

(* Where a call of a connection can be *)
Entering == {"exists", "reserved", "first", "vers", "excl"}
Replaying == {"hdr", "rec", "rsync", "fin", "finsync"}
Committing == {"cc", "jsync", "jnrec", "jsync2"}
Writers == {"CACHEMOD", "DBMOD", "FINISHED"}

PagerRecord ==
  [pc : {"idle", "open", "hsync", "jexcl", "wpage", "dbsync"}
          \cup Entering \cup Replaying \cup Committing,
   eState : {"OPEN", "READER", "LOCKED", "ERROR"} \cup Writers,
   cache : Pages, dirty : SUBSET Page, needSync : SUBSET Page,
   inJournal : SUBSET Page, jfd : {0} \cup Inode, dirSync : BOOLEAN,
   joff : Nat, jhdr : Nat, last : Nat, nRec : Nat, dbSize : Nat, orig : Nat,
   vers : Int, held : BOOLEAN, seed : Nat, k : Nat, left : Int,
   hot : BOOLEAN, spill : {0} \cup Page]

Types ==
  /\ 1 \in Page
  /\ os \in FileSystem /\ disk \in Medium
  /\ lock \in [Conn -> FL!Level]
  /\ conn \in [Conn -> PagerRecord]
  /\ mode \in [Conn -> Modes]
  /\ txn \in 0..MaxTxn

(* One handle above SHARED at a time, and an EXCLUSIVE one is alone. *)
Locks ==
  \A c, d \in Conn : c # d =>
    /\ lock[c] >= FL!RESERVED_LOCK => lock[d] <= FL!SHARED_LOCK
    /\ lock[c] = FL!EXCLUSIVE_LOCK => lock[d] = FL!NO_LOCK

(* What each step of a call knows of the connection's state and lock l *)
Control(r, l) ==
  /\ r.pc = "idle" => ~r.hot /\ r.eState # "FINISHED"
  /\ r.pc \in Entering => r.eState = "OPEN" /\ l = FL!SHARED_LOCK /\ ~r.hot
  /\ r.pc = "open" => r.eState = "OPEN" /\ l = FL!EXCLUSIVE_LOCK /\ ~r.hot
  /\ r.pc = "hsync" => r.hot
  /\ r.pc \in Replaying /\ ~r.hot => r.eState \in Writers
  /\ r.pc \in {"hdr", "rec", "rsync"} /\ ~r.hot => r.eState # "FINISHED"
  /\ r.pc = "rsync" /\ ~r.hot => r.eState = "DBMOD"
  /\ r.pc \in {"hdr", "rec"} => r.k >= 1
  /\ r.pc \in Committing \cup {"jexcl"} => r.eState \in {"CACHEMOD", "DBMOD"}
  /\ r.pc \in Committing => l = FL!EXCLUSIVE_LOCK
  /\ r.pc \in {"wpage", "dbsync"} => r.eState = "DBMOD"
  /\ r.hot => /\ r.eState = "OPEN" /\ r.jfd # 0 /\ l = FL!EXCLUSIVE_LOCK
              /\ r.pc \in Replaying \cup {"hsync"}
  /\ r.pc = "idle" /\ r.eState = "OPEN" => l = FL!NO_LOCK
  /\ r.eState = "READER" => r.pc = "idle" /\ l = FL!SHARED_LOCK
  /\ r.eState = "LOCKED" => r.pc = "idle" /\ l = FL!RESERVED_LOCK
  /\ r.eState = "ERROR" => r.pc = "idle" /\ l >= FL!SHARED_LOCK
  /\ r.eState = "CACHEMOD" => l >= FL!RESERVED_LOCK
  /\ r.eState \in {"DBMOD", "FINISHED"} => l = FL!EXCLUSIVE_LOCK

(* Which pages a connection has changed and has still to write *)
Changes(r) ==
  /\ r.eState \in {"OPEN", "READER", "LOCKED"} => r.dirty = {}
  /\ r.pc \notin Replaying /\ r.eState # "ERROR" => r.needSync \subseteq r.dirty
  /\ r.spill # 0 => r.spill \in r.dirty
  /\ r.spill # 0 => r.pc \in Committing \cup {"jexcl", "wpage"} \/ r.eState = "ERROR"
  /\ r.spill = 0 /\ r.pc \in {"jsync", "jnrec", "jsync2", "wpage"} => r.dirty # {}
  /\ r.spill = 0 /\ r.pc = "wpage" => r.needSync = {}
  /\ r.spill # 0 /\ r.pc = "wpage" => r.spill \notin r.needSync

(* A writer has a journal, and has written it up to joff; the number n of  *)
(* the last journal leaves room for one that is about to become a writer.  *)
HasJournal(r, file, n) ==
  /\ r.eState = "LOCKED" => n < MaxTxn
  /\ r.eState \in Writers =>
       /\ r.jfd # 0
       /\ r.pc # "finsync" => r.joff <= Len(file[r.jfd])
       /\ r.joff >= 1 /\ r.jhdr \in 1..(r.joff + 1)

Shape ==
  /\ Types
  /\ Locks
  /\ \A c \in Conn : /\ Control(conn[c], lock[c])
                    /\ Changes(conn[c])
                    /\ HasJournal(conn[c], os.file, txn)

-----------------------------------------------------------------------------
USE DEF Entering, Replaying, Committing, Writers, FL!NO_LOCK, FL!SHARED_LOCK,
        FL!RESERVED_LOCK, FL!PENDING_LOCK, FL!EXCLUSIVE_LOCK, FL!Level

(* What Shape says of one connection *)
LEMMA Own ==
  ASSUME Shape, NEW c \in Conn
  PROVE  /\ conn[c] \in PagerRecord /\ lock[c] \in 0..4
         /\ Control(conn[c], lock[c]) /\ Changes(conn[c])
         /\ HasJournal(conn[c], os.file, txn)
  BY DEF Shape, Types

(* The file systems of a state of that shape *)
LEMMA Stored ==
  ASSUME Shape
  PROVE  /\ os \in FileSystem /\ disk \in Medium
         /\ os.db \in Pages /\ disk.db \in Pages
         /\ os.file \in Files /\ disk.file \in Files
         /\ os.dir \in {0} \cup Inode /\ disk.dir \in {0} \cup Inode
         /\ disk.behind \in SUBSET Page
         /\ 1 \in Page /\ mode \in [Conn -> Modes] /\ txn \in 0..MaxTxn
  BY DEF Shape, Types, FileSystem, Medium

(* One operation of FileLock, or none *)
LockStep(c) ==
  \/ lock' = lock
  \/ FL!Shared(c) \/ FL!Reserved(c) \/ FL!Pending(c) \/ FL!Exclusive(c)
  \/ FL!Unlock(c, FL!NO_LOCK) \/ FL!Unlock(c, FL!SHARED_LOCK)

(* Each operation of FileLock keeps the locks of two connections apart. *)
LEMMA LocksKept ==
  ASSUME Types, Locks, NEW c \in Conn, LockStep(c)
  PROVE  /\ Locks'
         /\ lock' \in [Conn -> FL!Level]
         /\ \A d \in Conn : d # c => lock'[d] = lock[d]
  <1> USE DEF FL!Others, FL!Alone
  <1>1. lock \in [Conn -> 0..4]
    BY DEF Types
  <1>2. CASE lock' = lock
    BY <1>1, <1>2 DEF Locks
  <1>3. CASE FL!Shared(c)
    BY <1>1, <1>3 DEF Locks, FL!Shared
  <1>4. CASE FL!Reserved(c)
    BY <1>1, <1>4 DEF Locks, FL!Reserved
  <1>5. CASE FL!Pending(c)
    BY <1>1, <1>5 DEF Locks, FL!Pending
  <1>6. CASE FL!Exclusive(c)
    BY <1>1, <1>6 DEF Locks, FL!Exclusive
  <1>7. CASE FL!Unlock(c, 0)
    BY <1>1, <1>7 DEF Locks, FL!Unlock
  <1>8. CASE FL!Unlock(c, 1)
    BY <1>1, <1>8 DEF Locks, FL!Unlock
  <1> QED  BY <1>2, <1>3, <1>4, <1>5, <1>6, <1>7, <1>8 DEF LockStep

(* A step of connection c leaves the others as they are; what it does to   *)
(* journal files concerns none of them, if it holds the RESERVED lock.     *)
LEMMA ShapeFrame ==
  ASSUME Shape, NEW c \in Conn, NEW q \in PagerRecord,
         conn' = [conn EXCEPT ![c] = q],
         LockStep(c),
         Control(q, lock'[c]), Changes(q), HasJournal(q, os'.file, txn'),
         os' \in FileSystem, disk' \in Medium, mode' = mode, txn' \in 0..MaxTxn,
         (os'.file = os.file /\ txn' = txn) \/ lock[c] >= FL!RESERVED_LOCK
  PROVE  Shape'
  <1>0. /\ Locks' /\ lock' \in [Conn -> FL!Level]
        /\ \A d \in Conn : d # c => lock'[d] = lock[d]
    BY LocksKept DEF Shape
  <1>1. Types'
    BY <1>0 DEF Shape, Types
  <1>2. ASSUME NEW d \in Conn
        PROVE  /\ Control(conn'[d], lock'[d])
               /\ Changes(conn'[d])
               /\ HasJournal(conn'[d], os'.file, txn')
    <2>1. CASE d = c
      BY <2>1 DEF Shape, Types
    <2>2. CASE d # c
      <3>1. conn'[d] = conn[d] /\ lock'[d] = lock[d]
        BY <1>0, <2>2 DEF Shape, Types
      <3>2. Control(conn[d], lock[d]) /\ Changes(conn[d]) /\ HasJournal(conn[d], os.file, txn)
        BY DEF Shape
      <3>3. CASE os'.file = os.file /\ txn' = txn
        BY <3>1, <3>2, <3>3
      <3>4. CASE lock[c] >= FL!RESERVED_LOCK
        <4>1. lock[d] <= FL!SHARED_LOCK
          BY <2>2, <3>4 DEF Shape, Locks
        <4>2. lock[d] \in 0..4
          BY DEF Shape, Types
        <4>3. conn[d].eState \notin Writers \cup {"LOCKED"}
          BY <3>2, <4>1, <4>2 DEF Control
        <4> QED  BY <3>1, <3>2, <4>3 DEF HasJournal
      <3> QED  BY <3>3, <3>4
    <2> QED  BY <2>1, <2>2
  <1> QED
    BY <1>0, <1>1, <1>2 DEF Shape

-----------------------------------------------------------------------------
(* Shape is inductive: one lemma for each action. *)
LEMMA SharedLockShape ==
  ASSUME Shape, NEW c \in Conn, SharedLock(c)
  PROVE  Shape'
  <1> DEFINE q == [conn[c] EXCEPT !.pc = "exists"]
  <1>1. /\ conn[c] \in PagerRecord /\ Control(conn[c], lock[c]) /\ Changes(conn[c])
        /\ HasJournal(conn[c], os.file, txn) /\ lock[c] \in 0..4
    BY Own
  <1>2. q \in PagerRecord
    BY <1>1 DEF PagerRecord
  <1>3. /\ conn[c].pc = "idle" /\ conn[c].eState = "OPEN" /\ lock'[c] = 1
        /\ LockStep(c) /\ conn' = [conn EXCEPT ![c] = q]
    BY DEF SharedLock, Idle, LockStep, FL!Shared, Shape, Types, Goto, Set
  <1>4. Control(q, lock'[c]) /\ Changes(q) /\ HasJournal(q, os.file, txn)
    BY <1>1, <1>3 DEF Control, Changes, HasJournal, PagerRecord
  <1> HIDE DEF q
  <1> QED
    BY <1>2, <1>3, <1>4, Stored, ShapeFrame DEF SharedLock

LEMMA JournalExistsShape ==
  ASSUME Shape, NEW c \in Conn,
         JournalExists(c) \/ CheckReservedLock(c) \/ FirstByte(c)
  PROVE  Shape'
  <1>1. /\ conn[c] \in PagerRecord /\ Control(conn[c], lock[c]) /\ Changes(conn[c])
        /\ HasJournal(conn[c], os.file, txn) /\ lock[c] \in 0..4
    BY Own
  <1>2. /\ conn[c].pc \in Entering /\ UNCHANGED <<os, disk, lock, mode, txn>>
        /\ \E l \in Entering : Goto(c, l)
    BY DEF JournalExists, CheckReservedLock, FirstByte, At
  <1>3. PICK l \in Entering : Goto(c, l)
    BY <1>2
  <1> DEFINE q == [conn[c] EXCEPT !.pc = l]
  <1>4. q \in PagerRecord
    BY <1>1 DEF PagerRecord
  <1>5. Control(q, lock[c]) /\ Changes(q) /\ HasJournal(q, os.file, txn)
    BY <1>1, <1>2 DEF Control, Changes, HasJournal, PagerRecord
  <1>6. conn' = [conn EXCEPT ![c] = q] /\ LockStep(c)
    BY <1>2, <1>3 DEF Goto, Set, LockStep
  <1> HIDE DEF q
  <1> QED
    BY <1>2, <1>4, <1>5, <1>6, Stored, ShapeFrame

LEMMA GetShape ==
  ASSUME Shape, NEW c \in Conn, NEW p \in Page, Get(c, p)
  PROVE  Shape'
  <1> DEFINE r == conn[c]
             v == IF p = 1 THEN os.db[1] ELSE r.vers
             q == [r EXCEPT !.cache[p] = os.db[p], !.vers = v]
  <1>1. /\ r \in PagerRecord /\ Control(r, lock[c]) /\ Changes(r)
        /\ HasJournal(r, os.file, txn) /\ lock[c] \in 0..4
    BY Own
  <1>2. q \in PagerRecord
    <2>1. os.db[p] \in Int /\ v \in Int
      BY <1>1, Stored DEF Pages, PagerRecord
    <2> HIDE DEF v
    <2> QED  BY <1>1, <2>1 DEF PagerRecord, Pages
  <1>3. Control(q, lock[c]) /\ Changes(q) /\ HasJournal(q, os.file, txn)
    BY <1>1 DEF Control, Changes, HasJournal, PagerRecord
  <1>4. conn' = [conn EXCEPT ![c] = q] /\ LockStep(c)
    BY DEF Get, Set, LockStep
  <1> HIDE DEF q
  <1> QED
    BY <1>2, <1>3, <1>4, Stored, ShapeFrame DEF Get

LEMMA HotLockShape ==
  ASSUME Shape, NEW c \in Conn, HotLock(c)
  PROVE  Shape'
  <1>1. /\ conn[c] \in PagerRecord /\ Control(conn[c], lock[c]) /\ Changes(conn[c])
        /\ HasJournal(conn[c], os.file, txn) /\ lock[c] \in 0..4 /\ conn[c].pc = "excl"
    BY Own DEF HotLock, At
  <1>2. CASE FL!Exclusive(c) /\ Goto(c, "open")
    <2> DEFINE q == [conn[c] EXCEPT !.pc = "open"]
    <2>1. q \in PagerRecord
      BY <1>1 DEF PagerRecord
    <2>2. /\ lock'[c] = 4 /\ LockStep(c) /\ conn' = [conn EXCEPT ![c] = q]
      BY <1>2 DEF LockStep, FL!Exclusive, Shape, Types, Goto, Set
    <2>3. Control(q, lock'[c]) /\ Changes(q) /\ HasJournal(q, os.file, txn)
      BY <1>1, <2>2 DEF Control, Changes, HasJournal, PagerRecord
    <2> HIDE DEF q
    <2> QED
      BY <2>1, <2>2, <2>3, Stored, ShapeFrame DEF HotLock
  <1>3. CASE FL!Unlock(c, FL!NO_LOCK) /\ Set(c, Unlocked(conn[c]))
    <2> DEFINE q == Unlocked(conn[c])
    <2>1. q \in PagerRecord
      BY <1>1 DEF PagerRecord, Unlocked
    <2>2. /\ lock'[c] = 0 /\ LockStep(c) /\ conn' = [conn EXCEPT ![c] = q]
      BY <1>3 DEF LockStep, FL!Unlock, Shape, Types, Set
    <2>3. Control(q, lock'[c]) /\ Changes(q) /\ HasJournal(q, os.file, txn)
      BY <1>1, <2>2 DEF Control, Changes, HasJournal, PagerRecord, Unlocked
    <2> HIDE DEF q
    <2> QED
      BY <2>1, <2>2, <2>3, Stored, ShapeFrame DEF HotLock
  <1> QED
    BY <1>2, <1>3 DEF HotLock

LEMMA HotOpenShape ==
  ASSUME Shape, NEW c \in Conn, HotOpen(c)
  PROVE  Shape'
  <1>1. /\ conn[c] \in PagerRecord /\ Control(conn[c], lock[c]) /\ Changes(conn[c])
        /\ HasJournal(conn[c], os.file, txn) /\ lock[c] \in 0..4 /\ conn[c].pc = "open"
    BY Own DEF HotOpen, At
  <1>2. CASE FL!Unlock(c, FL!SHARED_LOCK) /\ Goto(c, "vers")
    <2> DEFINE q == [conn[c] EXCEPT !.pc = "vers"]
    <2>1. q \in PagerRecord
      BY <1>1 DEF PagerRecord
    <2>2. /\ lock'[c] = 1 /\ LockStep(c) /\ conn' = [conn EXCEPT ![c] = q]
      BY <1>2 DEF LockStep, FL!Unlock, Shape, Types, Goto, Set
    <2>3. Control(q, lock'[c]) /\ Changes(q) /\ HasJournal(q, os.file, txn)
      BY <1>1, <2>2 DEF Control, Changes, HasJournal, PagerRecord
    <2> HIDE DEF q
    <2> QED
      BY <2>1, <2>2, <2>3, Stored, ShapeFrame DEF HotOpen
  <1>3. CASE os.dir # 0 /\ UNCHANGED lock
    <2> DEFINE q == [conn[c] EXCEPT !.pc = "hsync", !.hot = TRUE,
                                    !.jfd = os.dir, !.dirSync = FALSE]
    <2>1. q \in PagerRecord
      BY <1>1, Stored DEF PagerRecord
    <2>2. /\ lock'[c] = lock[c] /\ LockStep(c) /\ conn' = [conn EXCEPT ![c] = q]
      BY <1>3 DEF LockStep, HotOpen, Set
    <2>3. Control(q, lock[c]) /\ Changes(q) /\ HasJournal(q, os.file, txn)
      BY <1>1, <1>3 DEF Control, Changes, HasJournal, PagerRecord
    <2> HIDE DEF q
    <2> QED
      BY <2>1, <2>2, <2>3, Stored, ShapeFrame DEF HotOpen
  <1> QED
    BY <1>2, <1>3 DEF HotOpen

(* Fsync writes what the kernel has of the journal to the medium. *)
LEMMA FsyncType ==
  ASSUME Shape, NEW c \in Conn, conn[c].jfd # 0
  PROVE  /\ Fsync(c) \in Medium /\ Journal(c) \in Seq(Slot) /\ conn[c].jfd \in Inode
         /\ Fsync(c).db = disk.db /\ Fsync(c).behind = disk.behind
         /\ Fsync(c).file = [disk.file EXCEPT ![conn[c].jfd] = Journal(c)]
         /\ Fsync(c).dir = IF conn[c].dirSync THEN os.dir ELSE disk.dir
  <1>1. conn[c].jfd \in Inode /\ conn[c].dirSync \in BOOLEAN
    BY Own DEF PagerRecord
  <1>2. Journal(c) \in Seq(Slot)
    BY <1>1, Stored DEF Journal, Files
  <1> QED
    BY <1>1, <1>2, Stored DEF Fsync, Medium, Files

LEMMA HotSyncShape ==
  ASSUME Shape, NEW c \in Conn, HotSync(c)
  PROVE  Shape'
  <1> DEFINE r == conn[c]
             n == Len(Journal(c)) + 1
             q == [r EXCEPT !.pc = "hdr", !.k = 1, !.jhdr = n]
  <1>1. /\ r \in PagerRecord /\ Control(r, lock[c]) /\ Changes(r)
        /\ HasJournal(r, os.file, txn) /\ lock[c] \in 0..4 /\ r.pc = "hsync"
    BY Own DEF HotSync, At
  <1>2. Fsync(c) \in Medium /\ n \in Nat
    <2>1. r.jfd # 0
      BY <1>1 DEF Control
    <2>2. Fsync(c) \in Medium /\ Journal(c) \in Seq(Slot)
      BY <2>1, FsyncType
    <2> QED  BY <2>2
  <1>3. q \in PagerRecord
    <2> HIDE DEF n
    <2> QED  BY <1>1, <1>2 DEF PagerRecord
  <1>4. lock'[c] = lock[c] /\ LockStep(c) /\ conn' = [conn EXCEPT ![c] = q]
    BY DEF LockStep, HotSync, Set
  <1>5. Control(q, lock[c]) /\ Changes(q) /\ HasJournal(q, os.file, txn)
    BY <1>1 DEF Control, Changes, HasJournal, PagerRecord
  <1> HIDE DEF q
  <1> QED
    BY <1>2, <1>3, <1>4, <1>5, Stored, ShapeFrame DEF HotSync

LEMMA CheckVersionShape ==
  ASSUME Shape, NEW c \in Conn, CheckVersion(c)
  PROVE  Shape'
  <1> DEFINE r == conn[c]
             n == SizeOf(os.db)
             ch == IF Fresh(r) THEN r.cache ELSE NoPages
             q == [r EXCEPT !.pc = "idle", !.eState = "READER", !.held = TRUE,
                            !.cache = ch, !.dbSize = n]
  <1>1. /\ r \in PagerRecord /\ Control(r, lock[c]) /\ Changes(r)
        /\ HasJournal(r, os.file, txn) /\ lock[c] \in 0..4 /\ r.pc = "vers"
    BY Own DEF CheckVersion, At
  <1>2. n \in Nat /\ ch \in Pages
    BY <1>1, SizeOfProperty, PagerAssumption DEF PagerRecord, NoPages, Pages, Absent
  <1>3. q \in PagerRecord
    <2> HIDE DEF n, ch
    <2> QED  BY <1>1, <1>2 DEF PagerRecord
  <1>4. lock'[c] = lock[c] /\ LockStep(c) /\ conn' = [conn EXCEPT ![c] = q]
    BY DEF LockStep, CheckVersion, Set
  <1>5. Control(q, lock[c]) /\ Changes(q) /\ HasJournal(q, os.file, txn)
    <2> HIDE DEF n, ch
    <2> QED  BY <1>1 DEF Control, Changes, HasJournal, PagerRecord
  <1> HIDE DEF q
  <1> QED
    BY <1>3, <1>4, <1>5, Stored, ShapeFrame DEF CheckVersion

(* A connection with a journal reads a slot of it. *)
LEMMA SlotRead ==
  ASSUME Shape, NEW c \in Conn, conn[c].pc \in {"hdr", "rec"}
  PROVE  /\ Journal(c) \in Seq(Slot) /\ conn[c].jfd \in Inode
         /\ conn[c].k \in Nat /\ conn[c].k >= 1
         /\ conn[c].k <= Len(Journal(c)) => /\ 1 \in 1..Len(Journal(c))
                                            /\ Journal(c)[1] \in Slot
                                            /\ Journal(c)[conn[c].k] \in Slot
  <1>1. /\ conn[c] \in PagerRecord /\ Control(conn[c], lock[c])
        /\ HasJournal(conn[c], os.file, txn)
    BY Own
  <1>2. conn[c].jfd # 0 /\ conn[c].k >= 1
    BY <1>1 DEF Control, HasJournal
  <1>3. Journal(c) \in Seq(Slot) /\ conn[c].jfd \in Inode
    BY <1>2, FsyncType
  <1> QED
    BY <1>1, <1>2, <1>3 DEF PagerRecord

LEMMA AfterPlaybackShape ==
  ASSUME Shape, NEW c \in Conn, conn[c].pc \in {"hdr", "rec"},
         NEW ch \in Pages
  PROVE  LET q == [conn[c] EXCEPT !.pc = AfterPlayback(conn[c]), !.cache = ch]
         IN  /\ q \in PagerRecord
             /\ Control(q, lock[c]) /\ Changes(q) /\ HasJournal(q, os.file, txn)
  <1>1. /\ conn[c] \in PagerRecord /\ Control(conn[c], lock[c]) /\ Changes(conn[c])
        /\ HasJournal(conn[c], os.file, txn) /\ lock[c] \in 0..4
    BY Own
  <1> DEFINE r == conn[c]
             a == AfterPlayback(r)
             q == [r EXCEPT !.pc = a, !.cache = ch]
  <1>2. a \in {"rsync", "fin"} /\ (a = "rsync" => r.hot \/ r.eState = "DBMOD")
    BY DEF AfterPlayback, DbTouched
  <1> HIDE DEF a
  <1>3. q \in PagerRecord
    BY <1>1, <1>2 DEF PagerRecord
  <1>4. Control(q, lock[c]) /\ Changes(q) /\ HasJournal(q, os.file, txn)
    BY <1>1, <1>2 DEF Control, Changes, HasJournal, PagerRecord
  <1> QED  BY <1>3, <1>4 DEF a

LEMMA ReadHdrShape ==
  ASSUME Shape, NEW c \in Conn, ReadHdr(c)
  PROVE  Shape'
  <1> DEFINE r == conn[c]
             S == Journal(c)
             ok == r.k <= Len(S) /\ (S[r.k].k = "hdr" \/ OwnLast(r))
             n == IF S[r.k].val = 0 /\ OwnLast(r) THEN Len(S) - r.k
                  ELSE S[r.k].val
             size == IF r.k = 1 THEN S[1].pg ELSE r.dbSize
  <1>1. /\ r \in PagerRecord /\ Control(r, lock[c]) /\ Changes(r)
        /\ HasJournal(r, os.file, txn) /\ lock[c] \in 0..4 /\ r.pc = "hdr"
    BY Own DEF ReadHdr, At
  <1>2. /\ S \in Seq(Slot) /\ r.k \in Nat /\ r.k >= 1
        /\ r.k <= Len(S) => S[1] \in Slot /\ S[r.k] \in Slot
    BY <1>1, SlotRead
  <1>3. CASE ~ok /\ Goto(c, AfterPlayback(r)) /\ UNCHANGED <<os, disk>>
    <2> DEFINE q == [r EXCEPT !.pc = AfterPlayback(r), !.cache = r.cache]
    <2>1. r.cache \in Pages
      BY <1>1 DEF PagerRecord
    <2>2. q \in PagerRecord /\ Control(q, lock[c]) /\ Changes(q) /\ HasJournal(q, os.file, txn)
      BY <1>1, <2>1, AfterPlaybackShape
    <2>3. q = [r EXCEPT !.pc = AfterPlayback(r)]
      BY <1>1 DEF PagerRecord
    <2>4. lock'[c] = lock[c] /\ LockStep(c) /\ conn' = [conn EXCEPT ![c] = q]
      BY <1>3, <2>3 DEF LockStep, ReadHdr, Goto, Set
    <2> HIDE DEF q
    <2> QED
      BY <1>3, <2>2, <2>4, Stored, ShapeFrame DEF ReadHdr
  <1>4. CASE /\ ok
             /\ Set(c, [r EXCEPT !.pc = IF n = 0 THEN "hdr" ELSE "rec",
                                 !.left = n, !.seed = S[r.k].seed,
                                 !.k = @ + 1, !.dbSize = size])
             /\ IF r.k = 1 /\ DbTouched(r)
                THEN /\ os' = [os EXCEPT !.db = TruncateTo(@, size)]
                     /\ disk' = Behind({p \in Page : os.db[p] # os'.db[p]})
                ELSE UNCHANGED <<os, disk>>
    <2> DEFINE l == IF n = 0 THEN "hdr" ELSE "rec"
               sd == S[r.k].seed
               kk == r.k + 1
               q == [r EXCEPT !.pc = l, !.left = n, !.seed = sd, !.k = kk,
                              !.dbSize = size]
    <2>1. S[1].pg \in Nat /\ S[r.k].val \in Int /\ sd \in Nat
      BY <1>2, <1>4 DEF Slot
    <2>2. /\ n \in Int /\ size \in Nat /\ l \in {"hdr", "rec"}
          /\ kk \in Nat /\ kk >= 1
      <3>1. n \in Int
        BY <1>2, <2>1
      <3>2. size \in Nat
        BY <1>1, <2>1 DEF PagerRecord
      <3> QED  BY <1>2, <3>1, <3>2
    <2>3. lock'[c] = lock[c] /\ LockStep(c) /\ conn' = [conn EXCEPT ![c] = q]
      BY <1>4 DEF LockStep, ReadHdr, Set
    <2>4. os' \in FileSystem /\ os'.file = os.file /\ disk' \in Medium
      <3>1. TruncateTo(os.db, size) \in Pages
        <4> HIDE DEF size
        <4> QED  BY <2>2, Stored, TruncateType
      <3>2. CASE r.k = 1 /\ DbTouched(r)
        <4> HIDE DEF size
        <4>1. os' = [os EXCEPT !.db = TruncateTo(os.db, size)]
          BY <1>4, <3>2 DEF size
        <4>2. \E P \in SUBSET Page : disk' = [disk EXCEPT !.behind = disk.behind \cup P]
          <5>1. disk' = [disk EXCEPT !.behind = disk.behind \cup {p \in Page : os.db[p] # os'.db[p]}]
            BY <1>4, <3>2 DEF Behind, size
          <5> QED  BY <5>1
        <4> QED  BY <3>1, <4>1, <4>2, Stored DEF FileSystem, Medium
      <3>3. CASE ~(r.k = 1 /\ DbTouched(r))
        BY <1>4, <3>3, Stored
      <3> QED  BY <3>2, <3>3
    <2> HIDE DEF n, size, l, sd, kk
    <2>5. q \in PagerRecord
      BY <1>1, <2>1, <2>2 DEF PagerRecord
    <2>6. Control(q, lock[c]) /\ Changes(q) /\ HasJournal(q, os.file, txn)
      BY <1>1, <1>2, <2>2 DEF Control, Changes, HasJournal, PagerRecord
    <2> HIDE DEF q
    <2> QED
      BY <2>3, <2>4, <2>5, <2>6, Stored, ShapeFrame DEF ReadHdr
  <1> QED
    BY <1>3, <1>4 DEF ReadHdr

LEMMA PlayRecordShape ==
  ASSUME Shape, NEW c \in Conn, PlayRecord(c)
  PROVE  Shape'
  <1> DEFINE r == conn[c]
             S == Journal(c)
             s == S[r.k]
             ch == IF r.hot THEN NoPages ELSE r.cache
             l == IF r.left = 1 THEN "hdr" ELSE "rec"
             nl == r.left - 1
             kk == r.k + 1
             next == [r EXCEPT !.pc = l, !.left = nl, !.k = kk, !.cache = ch]
  <1>1. /\ r \in PagerRecord /\ Control(r, lock[c]) /\ Changes(r)
        /\ HasJournal(r, os.file, txn) /\ lock[c] \in 0..4 /\ r.pc = "rec"
    BY Own DEF PlayRecord, At
  <1>2. /\ S \in Seq(Slot) /\ r.k \in Nat /\ r.k >= 1
        /\ r.k <= Len(S) => S[r.k] \in Slot
    BY <1>1, SlotRead
  <1>3. /\ ch \in Pages /\ nl \in Int /\ kk \in Nat /\ kk >= 1 /\ l \in {"hdr", "rec"}
    <2>1. r.cache \in Pages /\ r.left \in Int
      BY <1>1 DEF PagerRecord
    <2>2. NoPages \in Pages
      BY DEF NoPages, Pages, Absent
    <2> QED  BY <1>2, <2>1, <2>2
  <1>4. ASSUME IsRecord(r, S)
        PROVE  s \in Slot /\ s.pg \in Page /\ s.val \in Int
    BY <1>2, <1>4 DEF IsRecord, Slot
  <1>5. os' \in FileSystem /\ os'.file = os.file /\ disk' \in Medium
    <2>1. CASE ToFile(r, S)
      <3>1. s.pg \in Page /\ s.val \in Int
        BY <1>4, <2>1 DEF ToFile, Plays
      <3>2. os' = [os EXCEPT !.db[s.pg] = s.val]
        BY <2>1 DEF PlayRecord
      <3>3. disk' = [disk EXCEPT !.behind = disk.behind \cup {s.pg}]
        BY <2>1 DEF PlayRecord, Behind
      <3> HIDE DEF s
      <3> QED
        BY <3>1, <3>2, <3>3, Stored DEF FileSystem, Medium, Pages
    <2>2. CASE ~ToFile(r, S)
      BY <2>2, Stored DEF PlayRecord
    <2> QED  BY <2>1, <2>2
  <1>6. lock'[c] = lock[c] /\ LockStep(c)
    BY DEF LockStep, PlayRecord
  <1>7. /\ next \in PagerRecord
        /\ Control(next, lock[c]) /\ Changes(next) /\ HasJournal(next, os.file, txn)
    <2> HIDE DEF ch, nl, kk, l
    <2>1. next \in PagerRecord
      BY <1>1, <1>3 DEF PagerRecord
    <2> QED
      BY <1>1, <1>3, <2>1 DEF Control, Changes, HasJournal, PagerRecord
  <1>8. CASE Set(c, [r EXCEPT !.pc = AfterPlayback(r), !.cache = ch])
    <2> DEFINE q == [r EXCEPT !.pc = AfterPlayback(r), !.cache = ch]
    <2> HIDE DEF ch
    <2>1. q \in PagerRecord /\ Control(q, lock[c]) /\ Changes(q) /\ HasJournal(q, os.file, txn)
      BY <1>1, <1>3, AfterPlaybackShape
    <2>2. conn' = [conn EXCEPT ![c] = q]
      BY <1>8 DEF Set
    <2> HIDE DEF q
    <2> QED
      BY <1>5, <1>6, <2>1, <2>2, Stored, ShapeFrame DEF PlayRecord
  <1>9. CASE Set(c, next)
    <2> HIDE DEF next
    <2>1. conn' = [conn EXCEPT ![c] = next]
      BY <1>9 DEF Set
    <2> QED
      BY <1>5, <1>6, <1>7, <2>1, Stored, ShapeFrame DEF PlayRecord
  <1>10. CASE Plays(r, S) /\ Set(c, [next EXCEPT !.cache[s.pg] = s.val,
                                 !.vers = IF s.pg = 1 THEN s.val ELSE @])
    <2> DEFINE v == IF s.pg = 1 THEN s.val ELSE next.vers
               q == [next EXCEPT !.cache[s.pg] = s.val, !.vers = v]
    <2>1. s.pg \in Page /\ s.val \in Int
      BY <1>4, <1>10 DEF Plays
    <2>2. conn' = [conn EXCEPT ![c] = q]
      BY <1>10 DEF Set
    <2> HIDE DEF next, s
    <2>3. v \in Int
      BY <1>7, <2>1 DEF PagerRecord
    <2>4. q \in PagerRecord
      <3> HIDE DEF v
      <3> QED  BY <1>7, <2>1, <2>3 DEF PagerRecord, Pages
    <2>5. Control(q, lock[c]) /\ Changes(q) /\ HasJournal(q, os.file, txn)
      <3> HIDE DEF v
      <3> QED  BY <1>7 DEF Control, Changes, HasJournal, PagerRecord
    <2> HIDE DEF q
    <2> QED
      BY <1>5, <1>6, <2>2, <2>4, <2>5, Stored, ShapeFrame DEF PlayRecord
  <1> QED
    BY <1>8, <1>9, <1>10 DEF PlayRecord

(* SyncDb writes the pages to the medium. *)
LEMMA SyncDbType ==
  ASSUME Shape
  PROVE  SyncDb \in Medium
  BY Stored DEF SyncDb, Medium

LEMMA PlaybackSyncShape ==
  ASSUME Shape, NEW c \in Conn, PlaybackSync(c)
  PROVE  Shape'
  <1> DEFINE q == [conn[c] EXCEPT !.pc = "fin"]
  <1>1. /\ conn[c] \in PagerRecord /\ Control(conn[c], lock[c]) /\ Changes(conn[c])
        /\ HasJournal(conn[c], os.file, txn) /\ lock[c] \in 0..4 /\ conn[c].pc = "rsync"
    BY Own DEF PlaybackSync, At
  <1>2. q \in PagerRecord
    BY <1>1 DEF PagerRecord
  <1>3. Control(q, lock[c]) /\ Changes(q) /\ HasJournal(q, os.file, txn)
    BY <1>1 DEF Control, Changes, HasJournal, PagerRecord
  <1>4. lock'[c] = lock[c] /\ LockStep(c) /\ conn' = [conn EXCEPT ![c] = q]
    BY DEF LockStep, PlaybackSync, Goto, Set
  <1> HIDE DEF q
  <1> QED
    BY <1>2, <1>3, <1>4, Stored, SyncDbType, ShapeFrame DEF PlaybackSync

(* The fields the end of a transaction clears *)
LEMMA Cleared ==
  ASSUME NEW r \in PagerRecord
  PROVE  /\ [r EXCEPT !.needSync = {}, !.inJournal = {}, !.joff = 0, !.jhdr = 0] \in PagerRecord
         /\ [r EXCEPT !.last = 0, !.nRec = 0, !.orig = 0, !.k = 0] \in PagerRecord
         /\ [r EXCEPT !.left = 0] \in PagerRecord
         /\ [r EXCEPT !.seed = 0, !.hot = FALSE, !.spill = 0] \in PagerRecord
  <1>1. [r EXCEPT !.needSync = {}, !.inJournal = {}, !.joff = 0, !.jhdr = 0] \in PagerRecord
    BY DEF PagerRecord
  <1>2. [r EXCEPT !.last = 0, !.nRec = 0, !.orig = 0, !.k = 0] \in PagerRecord
    BY DEF PagerRecord
  <1>3. [r EXCEPT !.left = 0] \in PagerRecord
    BY DEF PagerRecord
  <1>4. [r EXCEPT !.seed = 0, !.hot = FALSE, !.spill = 0] \in PagerRecord
    BY DEF PagerRecord
  <1> QED  BY <1>1, <1>2, <1>3, <1>4

(* What the end of a transaction leaves *)
LEMMA EndedShape ==
  ASSUME NEW r \in PagerRecord, NEW file, NEW n
  PROVE  /\ Ended(r) \in PagerRecord
         /\ Control(Ended(r), 1) /\ Changes(Ended(r)) /\ HasJournal(Ended(r), file, n)
  <1> DEFINE ch == TruncateTo(r.cache, r.dbSize)
             l == IF r.hot THEN "vers" ELSE "idle"
             e == IF r.hot THEN "OPEN" ELSE "READER"
             a1 == [r EXCEPT !.pc = l, !.eState = e, !.cache = ch, !.dirty = {}]
             a2 == [a1 EXCEPT !.needSync = {}, !.inJournal = {}, !.joff = 0, !.jhdr = 0]
             a3 == [a2 EXCEPT !.last = 0, !.nRec = 0, !.orig = 0, !.k = 0]
             a4 == [a3 EXCEPT !.left = 0]
             q == [a4 EXCEPT !.seed = 0, !.hot = FALSE, !.spill = 0]
  <1>1. Ended(r) = q
    BY DEF Ended
  <1>2. ch \in Pages
    BY TruncateType DEF PagerRecord
  <1>3. \/ l = "vers" /\ e = "OPEN"
        \/ l = "idle" /\ e = "READER"
    OBVIOUS
  <1> HIDE DEF ch, l, e
  <1>4. a1 \in PagerRecord
    BY <1>2, <1>3 DEF PagerRecord
  <1>5. a2 \in PagerRecord
    <2> HIDE DEF a1
    <2> QED  BY <1>4, Cleared
  <1>6. a3 \in PagerRecord
    <2> HIDE DEF a2
    <2> QED  BY <1>5, Cleared
  <1>7. q \in PagerRecord
    <2>1. a4 \in PagerRecord
      <3> HIDE DEF a3
      <3> QED  BY <1>6, Cleared
    <2> HIDE DEF a4
    <2> QED  BY <2>1, Cleared
  <1>8. /\ q.pc = l /\ q.eState = e /\ q.dirty = {} /\ q.needSync = {}
        /\ q.hot = FALSE /\ q.spill = 0
    BY DEF PagerRecord
  <1> HIDE DEF q
  <1>9. Control(q, 1) /\ Changes(q) /\ HasJournal(q, file, n)
    BY <1>3, <1>8 DEF Control, Changes, HasJournal
  <1> QED  BY <1>1, <1>7, <1>9

LEMMA EndTransactionShape ==
  ASSUME Shape, NEW c \in Conn, NEW r \in PagerRecord, EndTransaction(c, r),
         os' \in FileSystem, disk' \in Medium, mode' = mode, txn' = txn,
         os'.file = os.file
  PROVE  Shape'
  <1>1. lock'[c] = 1 /\ LockStep(c) /\ conn' = [conn EXCEPT ![c] = Ended(r)]
    BY DEF EndTransaction, Set, LockStep, FL!Unlock, Shape, Types
  <1>2. /\ Ended(r) \in PagerRecord
        /\ Control(Ended(r), 1) /\ Changes(Ended(r)) /\ HasJournal(Ended(r), os'.file, txn')
    BY EndedShape
  <1> QED
    BY <1>1, <1>2, Stored, ShapeFrame

(* A write to a journal file *)
LEMMA FileWritten ==
  ASSUME Shape, NEW i \in Inode, NEW S \in Seq(Slot), NEW d \in {0} \cup Inode
  PROVE  LET o == [os EXCEPT !.file[i] = S, !.dir = d]
         IN  /\ o \in FileSystem /\ o.db = os.db /\ o.dir = d
             /\ o.file = [os.file EXCEPT ![i] = S]
             /\ o.file[i] = S
  BY Stored DEF FileSystem, Files

LEMMA FinalizeShape ==
  ASSUME Shape, NEW c \in Conn, Finalize(c)
  PROVE  Shape'
  <1> DEFINE r == conn[c]
  <1>1. /\ r \in PagerRecord /\ Control(r, lock[c]) /\ Changes(r)
        /\ HasJournal(r, os.file, txn) /\ lock[c] \in 0..4 /\ r.pc = "fin"
    BY Own DEF Finalize, At
  <1>2. r.jfd # 0 /\ lock[c] >= 2
    BY <1>1 DEF Control, HasJournal
  <1>3. CASE /\ os' = [os EXCEPT !.dir = 0]
             /\ EndTransaction(c, [r EXCEPT !.jfd = 0, !.dirSync = FALSE])
             /\ UNCHANGED disk
    <2>1. [r EXCEPT !.jfd = 0, !.dirSync = FALSE] \in PagerRecord
      BY <1>1 DEF PagerRecord
    <2>2. os' \in FileSystem /\ os'.file = os.file
      BY <1>3, Stored DEF FileSystem
    <2> QED
      BY <1>3, <2>1, <2>2, Stored, EndTransactionShape DEF Finalize
  <1>4. CASE EndTransaction(c, r) /\ UNCHANGED <<os, disk>>
    BY <1>1, <1>4, Stored, EndTransactionShape DEF Finalize
  <1>5. CASE /\ os' = [os EXCEPT !.file[r.jfd] =
                         IF mode[c] = "TRUNCATE" THEN <<>>
                         ELSE PutSlot(@, 1, ZeroSlot)]
             /\ Goto(c, "finsync")
             /\ UNCHANGED <<disk, lock>>
    <2> DEFINE S == IF mode[c] = "TRUNCATE" THEN <<>>
                    ELSE PutSlot(Journal(c), 1, ZeroSlot)
               q == [r EXCEPT !.pc = "finsync"]
    <2>1. Journal(c) \in Seq(Slot) /\ r.jfd \in Inode
      BY <1>2, FsyncType
    <2>2. S \in Seq(Slot)
      <3>1. PutSlot(Journal(c), 1, ZeroSlot) \in Seq(Slot)
        BY <2>1, PutSlotProperty, SlotTypes
      <3> QED  BY <3>1
    <2>3. os' = [os EXCEPT !.file[r.jfd] = S]
      BY <1>5 DEF Journal
    <2>4. os' \in FileSystem
      <3> HIDE DEF S
      <3> QED  BY <2>1, <2>2, <2>3, Stored DEF FileSystem, Files
    <2>5. q \in PagerRecord
      BY <1>1 DEF PagerRecord
    <2>6. Control(q, lock[c]) /\ Changes(q) /\ HasJournal(q, os'.file, txn')
      <3>1. Control(q, lock[c]) /\ Changes(q)
        BY <1>1 DEF Control, Changes, PagerRecord
      <3>2. HasJournal(q, os'.file, txn')
        <4>1. txn' = txn
          BY DEF Finalize
        <4> HIDE DEF S
        <4> QED  BY <1>1, <4>1 DEF HasJournal, PagerRecord
      <3> QED  BY <3>1, <3>2
    <2>7. lock'[c] = lock[c] /\ LockStep(c) /\ conn' = [conn EXCEPT ![c] = q]
      BY <1>5 DEF LockStep, Goto, Set
    <2> HIDE DEF q, S
    <2> QED
      BY <1>2, <1>5, <2>4, <2>5, <2>6, <2>7, Stored, ShapeFrame DEF Finalize
  <1> QED
    BY <1>3, <1>4, <1>5 DEF Finalize

LEMMA FinalizeSyncShape ==
  ASSUME Shape, NEW c \in Conn, FinalizeSync(c)
  PROVE  Shape'
  <1>1. /\ conn[c] \in PagerRecord /\ Control(conn[c], lock[c])
        /\ HasJournal(conn[c], os.file, txn) /\ conn[c].pc = "finsync"
    BY Own DEF FinalizeSync, At
  <1>2. conn[c].jfd # 0
    BY <1>1 DEF Control, HasJournal
  <1>3. Fsync(c) \in Medium
    BY <1>2, FsyncType
  <1>4. [conn[c] EXCEPT !.dirSync = FALSE] \in PagerRecord
    BY <1>1 DEF PagerRecord
  <1> QED
    BY <1>3, <1>4, Stored, EndTransactionShape DEF FinalizeSync

LEMMA JournalForgotten ==
  ASSUME NEW r \in PagerRecord
  PROVE  /\ [r EXCEPT !.pc = "idle", !.eState = "OPEN"] \in PagerRecord
         /\ [r EXCEPT !.jfd = 0, !.dirSync = FALSE] \in PagerRecord
         /\ [r EXCEPT !.inJournal = {}, !.joff = 0, !.jhdr = 0, !.last = 0] \in PagerRecord
  <1>1. [r EXCEPT !.pc = "idle", !.eState = "OPEN"] \in PagerRecord
    BY DEF PagerRecord
  <1>2. [r EXCEPT !.jfd = 0, !.dirSync = FALSE] \in PagerRecord
    BY DEF PagerRecord
  <1>3. [r EXCEPT !.inJournal = {}, !.joff = 0, !.jhdr = 0, !.last = 0] \in PagerRecord
    BY DEF PagerRecord
  <1> QED  BY <1>1, <1>2, <1>3

LEMMA UnlockedShape ==
  ASSUME NEW r \in PagerRecord, NEW file, NEW n, Changes(r), r.dirty = {},
         r.needSync \subseteq r.dirty, ~r.hot, r.spill = 0
  PROVE  /\ Unlocked(r) \in PagerRecord
         /\ Control(Unlocked(r), 0) /\ Changes(Unlocked(r))
         /\ HasJournal(Unlocked(r), file, n)
  <1> DEFINE a0 == [r EXCEPT !.pc = "idle", !.eState = "OPEN"]
             a == [a0 EXCEPT !.jfd = 0, !.dirSync = FALSE]
             q == [a EXCEPT !.inJournal = {}, !.joff = 0, !.jhdr = 0, !.last = 0]
  <1>1. Unlocked(r) = q
    BY DEF Unlocked
  <1>2. q \in PagerRecord
    <2>1. a \in PagerRecord
      <3>1. a0 \in PagerRecord
        BY JournalForgotten
      <3> HIDE DEF a0
      <3> QED  BY <3>1, JournalForgotten
    <2> HIDE DEF a
    <2> QED  BY <2>1, JournalForgotten
  <1>3. /\ q.pc = "idle" /\ q.eState = "OPEN" /\ q.dirty = {} /\ q.needSync = {}
        /\ q.hot = FALSE /\ q.spill = 0
    BY DEF PagerRecord
  <1> HIDE DEF q
  <1>4. Control(q, 0) /\ Changes(q) /\ HasJournal(q, file, n)
    BY <1>3 DEF Control, Changes, HasJournal
  <1> QED  BY <1>1, <1>2, <1>4

LEMMA EndReadShape ==
  ASSUME Shape, NEW c \in Conn, EndRead(c)
  PROVE  Shape'
  <1> DEFINE q == Unlocked(conn[c])
  <1>1. /\ conn[c] \in PagerRecord /\ Control(conn[c], lock[c]) /\ Changes(conn[c])
        /\ conn[c].pc = "idle" /\ conn[c].eState = "READER"
    BY Own DEF EndRead, Idle
  <1>2. lock'[c] = 0 /\ LockStep(c) /\ conn' = [conn EXCEPT ![c] = q]
    BY DEF EndRead, LockStep, FL!Unlock, Shape, Types, Set
  <1>3. /\ conn[c].dirty = {} /\ conn[c].needSync \subseteq conn[c].dirty
        /\ ~conn[c].hot /\ conn[c].spill = 0
    BY <1>1 DEF Changes, Control
  <1>4. q \in PagerRecord /\ Control(q, 0) /\ Changes(q) /\ HasJournal(q, os.file, txn)
    BY <1>1, <1>3, UnlockedShape
  <1> HIDE DEF q
  <1> QED
    BY <1>2, <1>4, Stored, ShapeFrame DEF EndRead

LEMMA BeginShape ==
  ASSUME Shape, NEW c \in Conn, Begin(c)
  PROVE  Shape'
  <1> DEFINE q == [conn[c] EXCEPT !.eState = "LOCKED", !.orig = conn[c].dbSize, !.joff = 0]
  <1>1. /\ conn[c] \in PagerRecord /\ Control(conn[c], lock[c]) /\ Changes(conn[c])
        /\ HasJournal(conn[c], os.file, txn) /\ lock[c] \in 0..4
        /\ conn[c].pc = "idle" /\ conn[c].eState = "READER" /\ txn < MaxTxn
    BY Own DEF Begin, Idle
  <1>2. q \in PagerRecord
    BY <1>1 DEF PagerRecord
  <1>3. lock'[c] = 2 /\ LockStep(c) /\ conn' = [conn EXCEPT ![c] = q]
    BY DEF Begin, LockStep, FL!Reserved, Shape, Types, Set
  <1>4. Control(q, 2) /\ Changes(q) /\ HasJournal(q, os.file, txn)
    BY <1>1 DEF Control, Changes, HasJournal, PagerRecord
  <1> HIDE DEF q
  <1> QED
    BY <1>2, <1>3, <1>4, Stored, ShapeFrame DEF Begin

LEMMA CommitShape ==
  ASSUME Shape, NEW c \in Conn, Commit(c)
  PROVE  Shape'
  <1> DEFINE q == [conn[c] EXCEPT !.pc = "jexcl", !.spill = 0]
  <1>1. /\ conn[c] \in PagerRecord /\ Control(conn[c], lock[c]) /\ Changes(conn[c])
        /\ HasJournal(conn[c], os.file, txn) /\ lock[c] \in 0..4
        /\ conn[c].pc = "idle" /\ conn[c].eState \in {"CACHEMOD", "DBMOD"}
    BY Own DEF Commit, Idle
  <1>2. q \in PagerRecord
    BY <1>1 DEF PagerRecord
  <1>3. lock'[c] = lock[c] /\ LockStep(c) /\ conn' = [conn EXCEPT ![c] = q]
    BY DEF Commit, LockStep, Set
  <1>4. Control(q, lock[c]) /\ Changes(q) /\ HasJournal(q, os.file, txn)
    BY <1>1 DEF Control, Changes, HasJournal, PagerRecord
  <1> HIDE DEF q
  <1> QED
    BY <1>2, <1>3, <1>4, Stored, ShapeFrame DEF Commit

LEMMA SpillShape ==
  ASSUME Shape, NEW c \in Conn, NEW p \in Page, Spill(c, p)
  PROVE  Shape'
  <1> DEFINE r == conn[c]
             l == IF p \in r.needSync \/ r.eState = "CACHEMOD" THEN "jexcl" ELSE "wpage"
             q == [r EXCEPT !.pc = l, !.spill = p]
  <1>1. /\ r \in PagerRecord /\ Control(r, lock[c]) /\ Changes(r)
        /\ HasJournal(r, os.file, txn) /\ lock[c] \in 0..4
        /\ r.pc = "idle" /\ r.eState \in {"CACHEMOD", "DBMOD"} /\ p \in r.dirty
    BY Own DEF Spill, Idle
  <1>2. /\ l \in {"jexcl", "wpage"}
        /\ l = "wpage" => p \notin r.needSync /\ r.eState = "DBMOD"
    BY <1>1
  <1>3. lock'[c] = lock[c] /\ LockStep(c) /\ conn' = [conn EXCEPT ![c] = q]
    BY DEF Spill, LockStep, Set
  <1> HIDE DEF l
  <1>4. q \in PagerRecord
    BY <1>1, <1>2 DEF PagerRecord
  <1>5. p # 0
    BY PagerAssumption DEF Page
  <1>6. Control(q, lock[c]) /\ Changes(q) /\ HasJournal(q, os.file, txn)
    BY <1>1, <1>2, <1>5 DEF Control, Changes, HasJournal, PagerRecord
  <1> HIDE DEF q
  <1> QED
    BY <1>3, <1>4, <1>6, Stored, ShapeFrame DEF Spill

LEMMA ExclusiveLockShape ==
  ASSUME Shape, NEW c \in Conn, ExclusiveLock(c)
  PROVE  Shape'
  <1> DEFINE r == conn[c]
             l == IF r.spill = 0 THEN "cc" ELSE "jsync"
  <1>1. /\ r \in PagerRecord /\ Control(r, lock[c]) /\ Changes(r)
        /\ HasJournal(r, os.file, txn) /\ lock[c] \in 0..4 /\ r.pc = "jexcl"
    BY Own DEF ExclusiveLock, At
  <1>2. CASE FL!Pending(c) /\ UNCHANGED conn
    <2>1. lock'[c] = 3 /\ lock[c] = 2 /\ LockStep(c) /\ conn' = [conn EXCEPT ![c] = r]
      BY <1>2 DEF LockStep, FL!Pending, Shape, Types
    <2>2. Control(r, 3)
      BY <1>1, <2>1 DEF Control
    <2> QED
      BY <1>1, <2>1, <2>2, Stored, ShapeFrame DEF ExclusiveLock
  <1>3. CASE (FL!Exclusive(c) \/ (lock[c] = 4 /\ UNCHANGED lock)) /\ Goto(c, l)
    <2> DEFINE q == [r EXCEPT !.pc = l]
    <2>1. lock'[c] = 4 /\ LockStep(c) /\ conn' = [conn EXCEPT ![c] = q]
      BY <1>3 DEF LockStep, FL!Exclusive, Shape, Types, Goto, Set
    <2>2. l \in {"cc", "jsync"} /\ (r.spill = 0 => l = "cc")
      OBVIOUS
    <2> HIDE DEF l
    <2>3. q \in PagerRecord
      BY <1>1, <2>2 DEF PagerRecord
    <2>4. Control(q, 4) /\ Changes(q) /\ HasJournal(q, os.file, txn)
      <3>1. /\ q.pc = l /\ q.eState = r.eState /\ q.hot = r.hot /\ q.spill = r.spill
            /\ q.dirty = r.dirty /\ q.needSync = r.needSync /\ q.k = r.k /\ q.jfd = r.jfd
            /\ q.joff = r.joff /\ q.jhdr = r.jhdr
        BY <1>1 DEF PagerRecord
      <3> HIDE DEF q
      <3>2. Control(q, 4)
        BY <1>1, <2>2, <3>1 DEF Control
      <3>3. Changes(q)
        BY <1>1, <2>2, <3>1 DEF Changes, Control
      <3>4. HasJournal(q, os.file, txn)
        BY <1>1, <2>2, <3>1 DEF HasJournal
      <3> QED  BY <3>2, <3>3, <3>4
    <2> HIDE DEF q
    <2> QED
      BY <2>1, <2>3, <2>4, Stored, ShapeFrame DEF ExclusiveLock
  <1>4. CASE Set(c, [r EXCEPT !.pc = "idle", !.spill = 0]) /\ UNCHANGED lock
    <2> DEFINE q == [r EXCEPT !.pc = "idle", !.spill = 0]
    <2>1. lock'[c] = lock[c] /\ LockStep(c) /\ conn' = [conn EXCEPT ![c] = q]
      BY <1>4 DEF LockStep, Set
    <2>2. q \in PagerRecord
      BY <1>1 DEF PagerRecord
    <2>3. Control(q, lock[c]) /\ Changes(q) /\ HasJournal(q, os.file, txn)
      BY <1>1 DEF Control, Changes, HasJournal, PagerRecord
    <2> HIDE DEF q
    <2> QED
      BY <2>1, <2>2, <2>3, Stored, ShapeFrame DEF ExclusiveLock
  <1>5. \/ FL!Pending(c) /\ UNCHANGED conn
        \/ (FL!Exclusive(c) \/ (lock[c] = 4 /\ UNCHANGED lock)) /\ Goto(c, l)
        \/ Set(c, [r EXCEPT !.pc = "idle", !.spill = 0]) /\ UNCHANGED lock
    BY DEF ExclusiveLock
  <1> QED
    BY <1>2, <1>3, <1>4, <1>5

-----------------------------------------------------------------------------
(* pager_open_journal *)
LEMMA NewJournalShape ==
  ASSUME NEW r \in PagerRecord
  PROVE  [r EXCEPT !.joff = 1, !.jhdr = 1, !.last = 1, !.nRec = 0] \in PagerRecord
  BY DEF PagerRecord

LEMMA OpenJournalShape ==
  ASSUME NEW r \in PagerRecord, txn \in Nat, txn < MaxTxn, os.dir \in {0} \cup Inode
  PROVE  LET q == OpenJournal(r)
         IN  /\ q \in PagerRecord
             /\ q.eState = "CACHEMOD" /\ q.seed = txn + 1 /\ q.jfd \in Inode
             /\ q.joff = 1 /\ q.jhdr = 1 /\ q.last = 1 /\ q.nRec = 0
             /\ q.jfd = IF r.jfd # 0 THEN r.jfd ELSE IF os.dir # 0 THEN os.dir ELSE txn + 1
             /\ q.dirSync = IF r.jfd # 0 THEN r.dirSync ELSE TRUE
             /\ q.pc = r.pc /\ q.cache = r.cache /\ q.dirty = r.dirty
             /\ q.needSync = r.needSync /\ q.inJournal = r.inJournal
             /\ q.dbSize = r.dbSize /\ q.orig = r.orig /\ q.vers = r.vers
             /\ q.held = r.held /\ q.hot = r.hot /\ q.spill = r.spill /\ q.k = r.k
             /\ q.left = r.left
  <1> DEFINE i == IF r.jfd # 0 THEN r.jfd ELSE IF os.dir # 0 THEN os.dir ELSE txn + 1
             b == IF r.jfd # 0 THEN r.dirSync ELSE TRUE
             n == txn + 1
             a == [r EXCEPT !.eState = "CACHEMOD", !.seed = n, !.jfd = i, !.dirSync = b]
             q == [a EXCEPT !.joff = 1, !.jhdr = 1, !.last = 1, !.nRec = 0]
  <1>1. OpenJournal(r) = q
    BY DEF OpenJournal
  <1>2. i \in Inode /\ b \in BOOLEAN /\ n \in Nat
    <2>1. MaxTxn \in Nat
      BY PagerAssumption
    <2>2. n \in Nat /\ txn + 1 \in Inode
      BY <2>1 DEF Inode
    <2>3. r.jfd \in {0} \cup Inode /\ r.dirSync \in BOOLEAN
      BY DEF PagerRecord
    <2> QED  BY <2>2, <2>3
  <1>3. a \in PagerRecord
    <2> HIDE DEF i, b, n
    <2> QED  BY <1>2 DEF PagerRecord
  <1>4. /\ a.eState = "CACHEMOD" /\ a.seed = n /\ a.jfd = i /\ a.dirSync = b
        /\ a.pc = r.pc /\ a.cache = r.cache /\ a.dirty = r.dirty
        /\ a.needSync = r.needSync /\ a.inJournal = r.inJournal
        /\ a.dbSize = r.dbSize /\ a.orig = r.orig /\ a.vers = r.vers
        /\ a.held = r.held /\ a.hot = r.hot /\ a.spill = r.spill /\ a.k = r.k
        /\ a.left = r.left
    <2> HIDE DEF i, b, n
    <2> QED  BY DEF PagerRecord
  <1>6. q \in PagerRecord
    <2> HIDE DEF a
    <2> QED  BY <1>3, NewJournalShape
  <1>7. /\ q.joff = 1 /\ q.jhdr = 1 /\ q.last = 1 /\ q.nRec = 0
        /\ q.eState = a.eState /\ q.seed = a.seed /\ q.jfd = a.jfd /\ q.dirSync = a.dirSync
        /\ q.pc = a.pc /\ q.cache = a.cache /\ q.dirty = a.dirty
        /\ q.needSync = a.needSync /\ q.inJournal = a.inJournal
        /\ q.dbSize = a.dbSize /\ q.orig = a.orig /\ q.vers = a.vers
        /\ q.held = a.held /\ q.hot = a.hot /\ q.spill = a.spill /\ q.k = a.k
        /\ q.left = a.left
    <2> HIDE DEF a
    <2> QED  BY <1>3 DEF PagerRecord
  <1> HIDE DEF a, q
  <1> QED
    BY <1>1, <1>2, <1>4, <1>6, <1>7

(* pagerAddPageToRollbackJournal: the record goes behind the last slot. *)
LEMMA JournaledShape ==
  ASSUME NEW r \in PagerRecord, NEW p \in Page
  PROVE  LET q == Journaled(r, p)
         IN  /\ q \in PagerRecord
             /\ q.joff = IF MustJournal(r, p) THEN r.joff + 1 ELSE r.joff
             /\ q.nRec = IF MustJournal(r, p) THEN r.nRec + 1 ELSE r.nRec
             /\ q.needSync = IF MustJournal(r, p) THEN r.needSync \cup {p} ELSE r.needSync
             /\ q.inJournal = IF MustJournal(r, p) THEN r.inJournal \cup {p} ELSE r.inJournal
             /\ q.pc = r.pc /\ q.eState = r.eState /\ q.cache = r.cache
             /\ q.dirty = r.dirty /\ q.jfd = r.jfd /\ q.dirSync = r.dirSync
             /\ q.jhdr = r.jhdr /\ q.last = r.last /\ q.dbSize = r.dbSize
             /\ q.orig = r.orig /\ q.vers = r.vers /\ q.held = r.held
             /\ q.seed = r.seed /\ q.k = r.k /\ q.left = r.left /\ q.hot = r.hot
             /\ q.spill = r.spill
  <1>1. CASE ~MustJournal(r, p)
    BY <1>1 DEF Journaled
  <1>2. CASE MustJournal(r, p)
    <2> DEFINE j == r.joff + 1
               n == r.nRec + 1
               N == r.needSync \cup {p}
               J == r.inJournal \cup {p}
               q == [r EXCEPT !.joff = j, !.nRec = n, !.needSync = N, !.inJournal = J]
    <2>1. Journaled(r, p) = q
      BY <1>2 DEF Journaled
    <2>2. j \in Nat /\ n \in Nat /\ N \in SUBSET Page /\ J \in SUBSET Page
      BY DEF PagerRecord
    <2> HIDE DEF j, n, N, J
    <2>3. q \in PagerRecord
      BY <2>2 DEF PagerRecord
    <2>4. /\ q.joff = j /\ q.nRec = n /\ q.needSync = N /\ q.inJournal = J
          /\ q.pc = r.pc /\ q.eState = r.eState /\ q.cache = r.cache
          /\ q.dirty = r.dirty /\ q.jfd = r.jfd /\ q.dirSync = r.dirSync
          /\ q.jhdr = r.jhdr /\ q.last = r.last /\ q.dbSize = r.dbSize
          /\ q.orig = r.orig /\ q.vers = r.vers /\ q.held = r.held
          /\ q.seed = r.seed /\ q.k = r.k /\ q.left = r.left /\ q.hot = r.hot
          /\ q.spill = r.spill
      BY DEF PagerRecord
    <2> HIDE DEF q
    <2> QED
      BY <1>2, <2>1, <2>3, <2>4 DEF j, n, N, J
  <1> QED  BY <1>1, <1>2

LEMMA JournalPageShape ==
  ASSUME NEW S \in Seq(Slot), NEW r \in PagerRecord, NEW p \in Page,
         r.joff <= Len(S)
  PROVE  LET T == JournalPage(S, r, p)
         IN  /\ T \in Seq(Slot)
             /\ Len(T) >= Len(S) /\ Len(T) >= Journaled(r, p).joff
             /\ \A n \in 1..r.joff : T[n] = S[n]
             /\ MustJournal(r, p) =>
                  /\ T[r.joff + 1] = Record(p, r.cache[p], r.seed)
                  /\ Len(T) = IF r.joff + 1 > Len(S) THEN r.joff + 1 ELSE Len(S)
                  /\ \A n \in 1..Len(S) : n # r.joff + 1 => T[n] = S[n]
             /\ ~MustJournal(r, p) => T = S
  <1>1. CASE ~MustJournal(r, p)
    BY <1>1 DEF JournalPage, Journaled, PagerRecord
  <1>2. CASE MustJournal(r, p)
    <2> DEFINE i == r.joff + 1
               s == Record(p, r.cache[p], r.seed)
    <2>1. r.joff \in Nat /\ Len(S) \in Nat /\ i \in 1..(Len(S) + 1)
      BY DEF PagerRecord
    <2>2. s \in Slot
      BY SlotTypes DEF PagerRecord, Pages
    <2>3. JournalPage(S, r, p) = PutSlot(S, i, s)
      BY <1>2 DEF JournalPage
    <2>4. Journaled(r, p).joff = i
      BY <1>2, JournaledShape
    <2>5. /\ PutSlot(S, i, s) \in Seq(Slot)
          /\ Len(PutSlot(S, i, s)) = IF i > Len(S) THEN i ELSE Len(S)
          /\ PutSlot(S, i, s)[i] = s
          /\ \A n \in 1..Len(S) : n # i => PutSlot(S, i, s)[n] = S[n]
      <3> HIDE DEF i, s
      <3> QED  BY <2>1, <2>2, PutSlotProperty
    <2> HIDE DEF s
    <2> QED
      BY <1>2, <2>1, <2>3, <2>4, <2>5 DEF s
  <1> QED  BY <1>1, <1>2

(* The connection and its journal after a page was changed: q0 is the      *)
(* connection with an open journal, S0 that journal before the page is     *)
(* added to it.                                                            *)
Written(q0, p) ==
  LET j == Journaled(q0, p)
  IN  [j EXCEPT !.dirty = j.dirty \cup {p}, !.cache[p] = q0.seed,
                !.needSync = IF p > q0.orig /\ q0.eState # "DBMOD" THEN j.needSync \cup {p}
                             ELSE j.needSync,
                !.dbSize = IF p > j.dbSize THEN p ELSE j.dbSize]

LEMMA WrittenShape ==
  ASSUME NEW r \in PagerRecord, NEW p \in Page
  PROVE  LET q == Written(r, p)
             j == Journaled(r, p)
         IN  /\ q \in PagerRecord
             /\ q.dirty = r.dirty \cup {p}
             /\ q.cache = [r.cache EXCEPT ![p] = r.seed]
             /\ q.needSync = IF p > r.orig /\ r.eState # "DBMOD" THEN j.needSync \cup {p}
                             ELSE j.needSync
             /\ q.dbSize = IF p > r.dbSize THEN p ELSE r.dbSize
             /\ q.joff = j.joff /\ q.nRec = j.nRec /\ q.inJournal = j.inJournal
             /\ q.pc = r.pc /\ q.eState = r.eState
             /\ q.jfd = r.jfd /\ q.dirSync = r.dirSync
             /\ q.jhdr = r.jhdr /\ q.last = r.last
             /\ q.orig = r.orig /\ q.vers = r.vers /\ q.held = r.held
             /\ q.seed = r.seed /\ q.k = r.k /\ q.left = r.left /\ q.hot = r.hot
             /\ q.spill = r.spill
  <1> DEFINE j == Journaled(r, p)
             D == j.dirty \cup {p}
             C == [j.cache EXCEPT ![p] = r.seed]
             N == IF p > r.orig /\ r.eState # "DBMOD" THEN j.needSync \cup {p} ELSE j.needSync
             z == IF p > j.dbSize THEN p ELSE j.dbSize
             q == [j EXCEPT !.dirty = D, !.cache = C, !.needSync = N, !.dbSize = z]
  <1>1. /\ j \in PagerRecord
        /\ j.pc = r.pc /\ j.eState = r.eState /\ j.cache = r.cache
        /\ j.dirty = r.dirty /\ j.jfd = r.jfd /\ j.dirSync = r.dirSync
        /\ j.jhdr = r.jhdr /\ j.last = r.last /\ j.dbSize = r.dbSize
        /\ j.orig = r.orig /\ j.vers = r.vers /\ j.held = r.held
        /\ j.seed = r.seed /\ j.k = r.k /\ j.left = r.left /\ j.hot = r.hot
        /\ j.spill = r.spill
    BY JournaledShape
  <1>2. Written(r, p) = q
    BY DEF Written
  <1> HIDE DEF j
  <1>3. r.seed \in Nat
    BY DEF PagerRecord
  <1>4. D \in SUBSET Page /\ N \in SUBSET Page
    <2>1. j.dirty \in SUBSET Page /\ j.needSync \in SUBSET Page
      BY <1>1 DEF PagerRecord
    <2> QED  BY <2>1
  <1>5. C \in Pages
    <2>1. j.cache \in Pages
      BY <1>1 DEF PagerRecord
    <2> QED  BY <1>3, <2>1 DEF Pages
  <1>6. z \in Nat
    <2>1. j.dbSize \in Nat
      BY <1>1 DEF PagerRecord
    <2>2. p \in Nat
      BY PagerAssumption DEF Page
    <2> QED  BY <2>1, <2>2
  <1> HIDE DEF D, C, N, z
  <1>7. q \in PagerRecord
    BY <1>1, <1>4, <1>5, <1>6 DEF PagerRecord
  <1>8. /\ q.dirty = D /\ q.cache = C /\ q.needSync = N /\ q.dbSize = z
        /\ q.joff = j.joff /\ q.nRec = j.nRec /\ q.inJournal = j.inJournal
        /\ q.pc = j.pc /\ q.eState = j.eState
        /\ q.jfd = j.jfd /\ q.dirSync = j.dirSync
        /\ q.jhdr = j.jhdr /\ q.last = j.last
        /\ q.orig = j.orig /\ q.vers = j.vers /\ q.held = j.held
        /\ q.seed = j.seed /\ q.k = j.k /\ q.left = j.left /\ q.hot = j.hot
        /\ q.spill = j.spill
    BY <1>1 DEF PagerRecord
  <1> HIDE DEF q
  <1> QED
    BY <1>1, <1>2, <1>7, <1>8 DEF j, D, C, N, z

(* What Write does, whether it opens the journal first or not *)
LEMMA WriteEffect ==
  ASSUME Shape, NEW c \in Conn, NEW p \in Page, Write(c, p)
  PROVE  \E q0 \in PagerRecord, S \in Seq(Slot) :
           /\ \/ /\ conn[c].eState = "LOCKED" /\ q0 = OpenJournal(conn[c])
                 /\ S = PutSlot(os.file[q0.jfd], 1, NewHdr(conn[c].orig, q0.seed))
                 /\ txn' = txn + 1
                 /\ os'.dir = IF conn[c].jfd = 0 THEN q0.jfd ELSE os.dir
              \/ /\ conn[c].eState \in {"CACHEMOD", "DBMOD"} /\ q0 = conn[c]
                 /\ S = os.file[q0.jfd] /\ txn' = txn /\ os'.dir = os.dir
           /\ q0.jfd \in Inode /\ q0.joff <= Len(S)
           /\ conn' = [conn EXCEPT ![c] = Written(q0, p)]
           /\ os'.file = [os.file EXCEPT ![q0.jfd] = JournalPage(S, q0, p)]
           /\ os'.db = os.db /\ os' \in FileSystem
  <1> DEFINE r == conn[c]
             open == r.eState = "LOCKED"
             q0 == IF open THEN OpenJournal(r) ELSE r
             S == IF open THEN PutSlot(os.file[q0.jfd], 1, NewHdr(r.orig, q0.seed))
                  ELSE os.file[q0.jfd]
             d == IF open /\ r.jfd = 0 THEN q0.jfd ELSE os.dir
  <1>1. /\ r \in PagerRecord /\ Control(r, lock[c])
        /\ HasJournal(r, os.file, txn) /\ r.eState \in {"LOCKED", "CACHEMOD", "DBMOD"}
        /\ r.pc = "idle"
    BY Own DEF Write, Idle
  <1>2. /\ q0 \in PagerRecord /\ q0.jfd \in Inode /\ S \in Seq(Slot) /\ q0.joff <= Len(S)
        /\ d \in {0} \cup Inode /\ q0.orig = r.orig /\ q0.dirty = r.dirty
        /\ q0.dbSize = r.dbSize
        /\ q0.eState # "DBMOD" <=> r.eState # "DBMOD"
    <2>1. CASE open
      <3>1. txn \in Nat /\ txn < MaxTxn
        BY <1>1, <2>1, Stored DEF HasJournal
      <3>2. /\ q0 \in PagerRecord /\ q0.jfd \in Inode /\ q0.joff = 1 /\ q0.orig = r.orig
            /\ q0.dirty = r.dirty /\ q0.eState = "CACHEMOD" /\ q0.seed \in Nat
            /\ q0.dbSize = r.dbSize
        <4>1. q0 = OpenJournal(r)
          BY <2>1
        <4>2. /\ OpenJournal(r) \in PagerRecord /\ OpenJournal(r).jfd \in Inode
              /\ OpenJournal(r).joff = 1 /\ OpenJournal(r).orig = r.orig
              /\ OpenJournal(r).dirty = r.dirty /\ OpenJournal(r).eState = "CACHEMOD"
              /\ OpenJournal(r).seed = txn + 1 /\ OpenJournal(r).dbSize = r.dbSize
          <5> HIDE DEF r
          <5> QED  BY <1>1, <3>1, Stored, OpenJournalShape
        <4> HIDE DEF q0
        <4> QED  BY <3>1, <4>1, <4>2
      <3>3. os.file[q0.jfd] \in Seq(Slot) /\ NewHdr(r.orig, q0.seed) \in Slot
        BY <1>1, <3>2, Stored, SlotTypes DEF Files, PagerRecord
      <3>4. S \in Seq(Slot) /\ Len(S) >= 1
        <4> DEFINE U == os.file[q0.jfd]
                   h == NewHdr(r.orig, q0.seed)
        <4>1. S = PutSlot(U, 1, h)
          BY <2>1
        <4>2. U \in Seq(Slot) /\ h \in Slot /\ 1 \in 1..(Len(U) + 1)
          BY <3>3
        <4> HIDE DEF U, h, S
        <4>3. /\ PutSlot(U, 1, h) \in Seq(Slot)
              /\ Len(PutSlot(U, 1, h)) = IF 1 > Len(U) THEN 1 ELSE Len(U)
          BY <4>2, PutSlotProperty
        <4> QED  BY <4>1, <4>2, <4>3
      <3> HIDE DEF q0, S
      <3> QED  BY <2>1, <3>2, <3>4, Stored
    <2>2. CASE ~open
      <3>1. q0 = r /\ r.jfd # 0 /\ r.joff <= Len(os.file[r.jfd])
        BY <1>1, <2>2 DEF HasJournal
      <3>2. r.jfd \in Inode
        BY <1>1, <3>1 DEF PagerRecord
      <3>3. os.file[r.jfd] \in Seq(Slot)
        BY <3>2, Stored DEF Files
      <3> QED  BY <1>1, <2>2, <3>1, <3>2, <3>3, Stored
    <2> QED  BY <2>1, <2>2
  <1>3. os' = [os EXCEPT !.file[q0.jfd] = JournalPage(S, q0, p), !.dir = d]
    BY DEF Write
  <1>4. Set(c, [Journaled(q0, p) EXCEPT
                  !.dirty = @ \cup {p}, !.cache[p] = q0.seed,
                  !.needSync = IF p > r.orig /\ r.eState # "DBMOD" THEN @ \cup {p} ELSE @,
                  !.dbSize = IF p > @ THEN p ELSE @])
    BY DEF Write
  <1>5. txn' = IF open THEN txn + 1 ELSE txn
    BY DEF Write
  <1>6. \/ /\ r.eState = "LOCKED" /\ q0 = OpenJournal(r)
           /\ S = PutSlot(os.file[q0.jfd], 1, NewHdr(r.orig, q0.seed))
           /\ txn' = txn + 1
           /\ d = IF r.jfd = 0 THEN q0.jfd ELSE os.dir
        \/ /\ r.eState \in {"CACHEMOD", "DBMOD"} /\ q0 = r
           /\ S = os.file[q0.jfd] /\ txn' = txn /\ d = os.dir
    BY <1>1, <1>5
  <1> HIDE DEF q0, S, d, r
  <1>7. JournalPage(S, q0, p) \in Seq(Slot)
    BY <1>2, JournalPageShape
  <1>8. /\ os'.dir = d /\ os'.db = os.db /\ os' \in FileSystem
        /\ os'.file = [os.file EXCEPT ![q0.jfd] = JournalPage(S, q0, p)]
    BY <1>2, <1>3, <1>7, Stored DEF FileSystem, Files
  <1>9. conn' = [conn EXCEPT ![c] = Written(q0, p)]
    BY <1>2, <1>4 DEF Set, Written
  <1> QED
    BY <1>2, <1>6, <1>8, <1>9 DEF r

LEMMA WriteShape ==
  ASSUME Shape, NEW c \in Conn, NEW p \in Page, Write(c, p)
  PROVE  Shape'
  <1>1. /\ conn[c] \in PagerRecord /\ Control(conn[c], lock[c]) /\ Changes(conn[c])
        /\ HasJournal(conn[c], os.file, txn) /\ lock[c] \in 0..4
        /\ conn[c].eState \in {"LOCKED", "CACHEMOD", "DBMOD"} /\ conn[c].pc = "idle"
    BY Own DEF Write, Idle
  <1>2. PICK q0 \in PagerRecord, S \in Seq(Slot) :
           /\ \/ /\ conn[c].eState = "LOCKED" /\ q0 = OpenJournal(conn[c])
                 /\ S = PutSlot(os.file[q0.jfd], 1, NewHdr(conn[c].orig, q0.seed))
                 /\ txn' = txn + 1
                 /\ os'.dir = IF conn[c].jfd = 0 THEN q0.jfd ELSE os.dir
              \/ /\ conn[c].eState \in {"CACHEMOD", "DBMOD"} /\ q0 = conn[c]
                 /\ S = os.file[q0.jfd] /\ txn' = txn /\ os'.dir = os.dir
           /\ q0.jfd \in Inode /\ q0.joff <= Len(S)
           /\ conn' = [conn EXCEPT ![c] = Written(q0, p)]
           /\ os'.file = [os.file EXCEPT ![q0.jfd] = JournalPage(S, q0, p)]
           /\ os'.db = os.db /\ os' \in FileSystem
    BY WriteEffect
  <1>3. txn \in 0..MaxTxn /\ txn' \in 0..MaxTxn /\ os.dir \in {0} \cup Inode
    BY <1>1, <1>2, Stored, PagerAssumption DEF HasJournal
  <1>4. /\ q0.eState \in {"CACHEMOD", "DBMOD"} /\ (q0.eState = "DBMOD" => conn[c].eState = "DBMOD")
        /\ q0.pc = "idle" /\ ~q0.hot /\ q0.spill = 0
        /\ q0.needSync \subseteq q0.dirty
        /\ q0.joff >= 1 /\ q0.jhdr \in 1..(q0.joff + 1)
    <2>1. /\ ~conn[c].hot /\ conn[c].spill = 0 /\ conn[c].needSync \subseteq conn[c].dirty
      BY <1>1 DEF Control, Changes
    <2>2. CASE conn[c].eState = "LOCKED" /\ q0 = OpenJournal(conn[c])
      <3>1. txn \in Nat /\ txn < MaxTxn
        BY <1>1, <1>3, <2>2 DEF HasJournal
      <3>2. /\ OpenJournal(conn[c]).eState = "CACHEMOD"
            /\ OpenJournal(conn[c]).pc = conn[c].pc /\ OpenJournal(conn[c]).hot = conn[c].hot
            /\ OpenJournal(conn[c]).spill = conn[c].spill
            /\ OpenJournal(conn[c]).needSync = conn[c].needSync
            /\ OpenJournal(conn[c]).dirty = conn[c].dirty
            /\ OpenJournal(conn[c]).joff = 1 /\ OpenJournal(conn[c]).jhdr = 1
        BY <1>1, <1>3, <3>1, OpenJournalShape
      <3> QED  BY <1>1, <2>1, <2>2, <3>2
    <2>3. CASE conn[c].eState \in {"CACHEMOD", "DBMOD"} /\ q0 = conn[c]
      BY <1>1, <2>1, <2>3 DEF HasJournal
    <2> QED  BY <1>2, <2>2, <2>3
  <1> DEFINE q == Written(q0, p)
             j == Journaled(q0, p)
  <1>5. /\ q \in PagerRecord
        /\ q.dirty = q0.dirty \cup {p} /\ q.pc = "idle" /\ q.eState = q0.eState
        /\ q.needSync \subseteq q.dirty /\ ~q.hot /\ q.spill = 0
        /\ q.jfd = q0.jfd /\ q.joff = j.joff /\ q.jhdr = q0.jhdr
    <2>1. j.needSync \subseteq q0.dirty \cup {p}
      BY <1>4, JournaledShape
    <2> HIDE DEF q, j
    <2>2. /\ q \in PagerRecord
          /\ q.dirty = q0.dirty \cup {p} /\ q.pc = q0.pc /\ q.eState = q0.eState
          /\ q.needSync = IF p > q0.orig /\ q0.eState # "DBMOD" THEN j.needSync \cup {p}
                          ELSE j.needSync
          /\ q.hot = q0.hot /\ q.spill = q0.spill
          /\ q.jfd = q0.jfd /\ q.joff = j.joff /\ q.jhdr = q0.jhdr
      BY WrittenShape DEF q, j
    <2> QED  BY <1>4, <2>1, <2>2
  <1>6. /\ j.joff \in Nat /\ j.joff >= q0.joff
        /\ Len(JournalPage(S, q0, p)) >= j.joff
    <2>1. q0.joff \in Nat
      BY DEF PagerRecord
    <2>2. j.joff = IF MustJournal(q0, p) THEN q0.joff + 1 ELSE q0.joff
      BY JournaledShape
    <2>3. Len(JournalPage(S, q0, p)) >= j.joff
      BY <1>2, JournalPageShape
    <2> HIDE DEF j
    <2> QED  BY <2>1, <2>2, <2>3
  <1> HIDE DEF q, j
  <1>7. os'.file[q.jfd] = JournalPage(S, q0, p)
    BY <1>2, <1>5, Stored DEF Files
  <1>8. Control(q, lock[c]) /\ Changes(q)
    BY <1>1, <1>4, <1>5 DEF Control, Changes
  <1>9. HasJournal(q, os'.file, txn')
    <2>1. q.joff \in Nat /\ q.jfd # 0 /\ q0.joff \in Nat /\ Len(os'.file[q.jfd]) \in Nat
      <3>1. q0.jfd # 0
        BY <1>2, PagerAssumption DEF Inode
      <3>2. JournalPage(S, q0, p) \in Seq(Slot)
        BY <1>2, JournalPageShape
      <3>3. q.joff \in Nat
        BY <1>5 DEF PagerRecord
      <3>4. q0.joff \in Nat
        BY DEF PagerRecord
      <3> QED  BY <1>5, <1>7, <3>1, <3>2, <3>3, <3>4
    <2>2. q.joff <= Len(os'.file[q.jfd])
      BY <1>5, <1>6, <1>7, <2>1
    <2> QED  BY <1>4, <1>5, <1>6, <2>1, <2>2 DEF HasJournal
  <1>10. lock[c] >= 2 /\ lock'[c] = lock[c] /\ LockStep(c) /\ disk' = disk /\ mode' = mode
    BY <1>1 DEF Control, Write, LockStep
  <1> QED
    BY <1>2, <1>3, <1>5, <1>8, <1>9, <1>10, Stored, ShapeFrame DEF q

-----------------------------------------------------------------------------
(* A connection that commits or spills has a journal. *)
LEMMA JournalOpen ==
  ASSUME Shape, NEW c \in Conn, conn[c].eState \in Writers
  PROVE  /\ conn[c].jfd \in Inode /\ conn[c].jfd # 0 /\ Journal(c) \in Seq(Slot)
         /\ conn[c].joff \in Nat /\ conn[c].joff >= 1
         /\ conn[c].jhdr \in 1..(conn[c].joff + 1)
         /\ lock[c] >= FL!RESERVED_LOCK
         /\ conn[c].pc # "finsync" => conn[c].joff <= Len(Journal(c))
  <1>1. /\ conn[c] \in PagerRecord /\ HasJournal(conn[c], os.file, txn)
        /\ Control(conn[c], lock[c])
    BY Own
  <1>2. conn[c].jfd # 0
    BY <1>1 DEF HasJournal
  <1>3. conn[c].jfd \in Inode /\ Journal(c) \in Seq(Slot)
    BY <1>2, FsyncType
  <1>4. conn[c].joff \in Nat
    BY <1>1 DEF PagerRecord
  <1> QED
    BY <1>1, <1>2, <1>3, <1>4 DEF HasJournal, Journal, Control

LEMMA ChangeCounterEffect ==
  ASSUME Shape, NEW c \in Conn, ChangeCounter(c)
  PROVE  LET r == conn[c]
             j == Journaled(r, 1)
             q == conn'[c]
         IN  /\ q \in PagerRecord /\ conn' = [conn EXCEPT ![c] = q]
             /\ q.pc = "jsync" /\ q.dirty = r.dirty \cup {1}
             /\ q.cache = [r.cache EXCEPT ![1] = r.vers + 1]
             /\ q.needSync = j.needSync /\ q.dbSize = r.dbSize
             /\ q.joff = j.joff /\ q.nRec = j.nRec /\ q.inJournal = j.inJournal
             /\ q.eState = r.eState /\ q.jfd = r.jfd /\ q.dirSync = r.dirSync
             /\ q.jhdr = r.jhdr /\ q.last = r.last
             /\ q.orig = r.orig /\ q.vers = r.vers /\ q.held = r.held
             /\ q.seed = r.seed /\ q.k = r.k /\ q.left = r.left /\ q.hot = r.hot
             /\ q.spill = r.spill
             /\ os' \in FileSystem /\ os'.db = os.db /\ os'.dir = os.dir
             /\ os'.file = [os.file EXCEPT ![r.jfd] = JournalPage(Journal(c), r, 1)]
             /\ JournalPage(Journal(c), r, 1) \in Seq(Slot)
             /\ Len(JournalPage(Journal(c), r, 1)) >= j.joff
  <1> DEFINE r == conn[c]
             j == Journaled(r, 1)
             D == j.dirty \cup {1}
             C == [j.cache EXCEPT ![1] = r.vers + 1]
             q == [j EXCEPT !.pc = "jsync", !.cache = C, !.dirty = D]
  <1>1. /\ r \in PagerRecord /\ Control(r, lock[c]) /\ r.pc = "cc" /\ 1 \in Page
    BY Own, Stored DEF ChangeCounter, At
  <1>2. r.eState \in {"CACHEMOD", "DBMOD"}
    BY <1>1 DEF Control
  <1>3. /\ r.jfd \in Inode /\ Journal(c) \in Seq(Slot) /\ r.joff <= Len(Journal(c))
    BY <1>1, <1>2, JournalOpen
  <1>4. /\ j \in PagerRecord
        /\ j.pc = r.pc /\ j.eState = r.eState /\ j.cache = r.cache
        /\ j.dirty = r.dirty /\ j.jfd = r.jfd /\ j.dirSync = r.dirSync
        /\ j.jhdr = r.jhdr /\ j.last = r.last /\ j.dbSize = r.dbSize
        /\ j.orig = r.orig /\ j.vers = r.vers /\ j.held = r.held
        /\ j.seed = r.seed /\ j.k = r.k /\ j.left = r.left /\ j.hot = r.hot
        /\ j.spill = r.spill
    <2> HIDE DEF r
    <2> QED  BY <1>1, JournaledShape
  <1>5. /\ JournalPage(Journal(c), r, 1) \in Seq(Slot)
        /\ Len(JournalPage(Journal(c), r, 1)) >= j.joff
    <2> HIDE DEF r
    <2> QED  BY <1>1, <1>3, JournalPageShape
  <1>6. os' = [os EXCEPT !.file[r.jfd] = JournalPage(Journal(c), r, 1)]
    BY DEF ChangeCounter, Journal
  <1>7. conn' = [conn EXCEPT ![c] = q]
    BY DEF ChangeCounter, Set
  <1>8. /\ os' \in FileSystem /\ os'.db = os.db /\ os'.dir = os.dir
        /\ os'.file = [os.file EXCEPT ![r.jfd] = JournalPage(Journal(c), r, 1)]
    <2> DEFINE T == JournalPage(Journal(c), r, 1)
    <2> HIDE DEF T
    <2> QED  BY <1>3, <1>5, <1>6, Stored DEF FileSystem, Files, T
  <1>9. D \in SUBSET Page /\ C \in Pages
    <2>1. r.vers + 1 \in Int /\ r.dirty \in SUBSET Page /\ r.cache \in Pages
      BY <1>1 DEF PagerRecord
    <2> HIDE DEF j, r
    <2> QED  BY <1>1, <1>4, <2>1 DEF Pages
  <1>10. conn'[c] = q
    BY <1>7 DEF Shape, Types
  <1> HIDE DEF j
  <1>11. C = [r.cache EXCEPT ![1] = r.vers + 1] /\ D = r.dirty \cup {1}
    BY <1>4
  <1> HIDE DEF D, C
  <1>12. q \in PagerRecord
    BY <1>4, <1>9 DEF PagerRecord
  <1>13. /\ q.pc = "jsync" /\ q.cache = C /\ q.dirty = D
         /\ q.needSync = j.needSync /\ q.dbSize = j.dbSize
         /\ q.joff = j.joff /\ q.nRec = j.nRec /\ q.inJournal = j.inJournal
         /\ q.eState = j.eState /\ q.jfd = j.jfd /\ q.dirSync = j.dirSync
         /\ q.jhdr = j.jhdr /\ q.last = j.last
         /\ q.orig = j.orig /\ q.vers = j.vers /\ q.held = j.held
         /\ q.seed = j.seed /\ q.k = j.k /\ q.left = j.left /\ q.hot = j.hot
         /\ q.spill = j.spill
    BY <1>4 DEF PagerRecord
  <1> HIDE DEF q
  <1> QED
    BY <1>4, <1>5, <1>7, <1>8, <1>10, <1>11, <1>12, <1>13 DEF j

LEMMA ChangeCounterShape ==
  ASSUME Shape, NEW c \in Conn, ChangeCounter(c)
  PROVE  Shape'
  <1> DEFINE r == conn[c]
             j == Journaled(r, 1)
             q == conn'[c]
             T == JournalPage(Journal(c), r, 1)
  <1>1. /\ r \in PagerRecord /\ Control(r, lock[c]) /\ Changes(r) /\ r.pc = "cc"
        /\ HasJournal(r, os.file, txn) /\ 1 \in Page /\ lock[c] \in 0..4
    BY Own, Stored DEF ChangeCounter, At
  <1>2. /\ q \in PagerRecord /\ conn' = [conn EXCEPT ![c] = q]
        /\ q.pc = "jsync" /\ q.dirty = r.dirty \cup {1}
        /\ q.needSync = j.needSync /\ q.joff = j.joff
        /\ q.eState = r.eState /\ q.jfd = r.jfd /\ q.jhdr = r.jhdr
        /\ q.k = r.k /\ q.hot = r.hot /\ q.spill = r.spill
        /\ os' \in FileSystem /\ os'.file = [os.file EXCEPT ![r.jfd] = T]
        /\ T \in Seq(Slot) /\ Len(T) >= j.joff
    BY ChangeCounterEffect
  <1>3. /\ j.needSync \subseteq r.needSync \cup {1} /\ j.joff \in Nat /\ j.joff >= r.joff
    <2>1. r.joff \in Nat
      BY <1>1 DEF PagerRecord
    <2>2. /\ j.joff = IF MustJournal(r, 1) THEN r.joff + 1 ELSE r.joff
          /\ j.needSync = IF MustJournal(r, 1) THEN r.needSync \cup {1} ELSE r.needSync
      <3> HIDE DEF r
      <3> QED  BY <1>1, JournaledShape
    <2> HIDE DEF j
    <2> QED  BY <2>1, <2>2
  <1>4. r.eState \in {"CACHEMOD", "DBMOD"} /\ lock[c] = 4
    BY <1>1 DEF Control
  <1>5. r.jfd \in Inode /\ r.jfd # 0 /\ r.joff >= 1 /\ r.joff \in Nat /\ r.jhdr \in 1..(r.joff + 1)
    BY <1>4, JournalOpen
  <1> HIDE DEF j, q, T, r
  <1>6. os'.file[r.jfd] = T
    BY <1>2, <1>5, Stored DEF Files
  <1>7. Control(q, lock[c]) /\ Changes(q)
    BY <1>1, <1>2, <1>3, <1>4 DEF Control, Changes
  <1>8. txn' = txn /\ LockStep(c) /\ lock'[c] = lock[c] /\ disk' = disk /\ mode' = mode
    BY DEF ChangeCounter, LockStep
  <1>9. HasJournal(q, os'.file, txn')
    <2>1. Len(T) \in Nat /\ q.joff \in Nat
      BY <1>2, <1>3
    <2> QED
      BY <1>1, <1>2, <1>3, <1>4, <1>5, <1>6, <1>8, <2>1 DEF HasJournal
  <1>10. /\ q \in PagerRecord /\ conn' = [conn EXCEPT ![c] = q] /\ Control(q, lock'[c])
         /\ disk' \in Medium /\ txn' \in 0..MaxTxn /\ lock[c] >= 2
    BY <1>2, <1>4, <1>7, <1>8, Stored
  <1> QED
    BY <1>2, <1>7, <1>8, <1>9, <1>10, ShapeFrame

(* syncJournal, first part: what it leaves of the journal *)
Unrecognised(S, n) == IF StaleHdr(S, n) THEN [S EXCEPT ![n].k = "bad"] ELSE S

LEMMA UnrecognisedType ==
  ASSUME NEW S \in Seq(Slot), NEW n \in Nat, n >= 1
  PROVE  /\ Unrecognised(S, n) \in Seq(Slot) /\ Len(Unrecognised(S, n)) = Len(S)
         /\ ~StaleHdr(Unrecognised(S, n), n)
         /\ \A i \in 1..Len(S) : i # n => Unrecognised(S, n)[i] = S[i]
         /\ \A i \in 1..Len(S) : Unrecognised(S, n)[i].seed = S[i].seed
  <1>1. CASE StaleHdr(S, n)
    <2>1. n \in 1..Len(S)
      BY <1>1 DEF StaleHdr
    <2>2. S[n] \in Slot
      BY <2>1
    <2> DEFINE t == [S[n] EXCEPT !.k = "bad"]
    <2>3. t \in Slot /\ t.k = "bad" /\ t.seed = S[n].seed
      BY <2>2 DEF Slot
    <2>4. Unrecognised(S, n) = [S EXCEPT ![n] = t]
      BY <1>1 DEF Unrecognised
    <2> HIDE DEF t
    <2> QED  BY <2>1, <2>3, <2>4 DEF StaleHdr
  <1>2. CASE ~StaleHdr(S, n)
    BY <1>2 DEF Unrecognised
  <1> QED  BY <1>1, <1>2

LEMMA JournalSyncEffect ==
  ASSUME Shape, NEW c \in Conn, JournalSync(c)
  PROVE  LET r == conn[c]
             T == Unrecognised(Journal(c), r.joff + 1)
         IN  /\ os' \in FileSystem /\ os'.db = os.db /\ os'.dir = os.dir
             /\ os'.file = [os.file EXCEPT ![r.jfd] = T]
             /\ disk' \in Medium /\ disk'.db = disk.db /\ disk'.behind = disk.behind
             /\ disk'.dir = IF r.dirSync THEN os.dir ELSE disk.dir
             /\ disk'.file = [disk.file EXCEPT ![r.jfd] = T]
             /\ conn' = [conn EXCEPT ![c] = [r EXCEPT !.pc = "jnrec", !.dirSync = FALSE]]
             /\ T \in Seq(Slot) /\ Len(T) = Len(Journal(c)) /\ r.jfd \in Inode
  <1> DEFINE r == conn[c]
             S == Journal(c)
             T == Unrecognised(S, r.joff + 1)
  <1>1. /\ r \in PagerRecord /\ Control(r, lock[c]) /\ r.pc = "jsync"
    BY Own DEF JournalSync, At
  <1>2. r.eState \in Writers
    BY <1>1 DEF Control
  <1>3. r.jfd \in Inode /\ r.jfd # 0 /\ S \in Seq(Slot) /\ r.joff \in Nat
    BY <1>2, JournalOpen
  <1>4. T \in Seq(Slot) /\ Len(T) = Len(S)
    <2>1. r.joff + 1 \in Nat /\ r.joff + 1 >= 1
      BY <1>3
    <2> HIDE DEF S, r
    <2> QED  BY <1>3, <2>1, UnrecognisedType
  <1>5. /\ Fsync(c) \in Medium /\ Fsync(c).db = disk.db /\ Fsync(c).behind = disk.behind
        /\ Fsync(c).file = [disk.file EXCEPT ![r.jfd] = S]
        /\ Fsync(c).dir = IF r.dirSync THEN os.dir ELSE disk.dir
    BY <1>3, FsyncType
  <1>6. /\ os' = [os EXCEPT !.file[r.jfd] = T]
        /\ disk' = [Fsync(c) EXCEPT !.file[r.jfd] = os'.file[r.jfd]]
        /\ conn' = [conn EXCEPT ![c] = [r EXCEPT !.pc = "jnrec", !.dirSync = FALSE]]
    BY DEF JournalSync, Set, Unrecognised, Journal
  <1> HIDE DEF T, S
  <1>7. /\ os' \in FileSystem /\ os'.db = os.db /\ os'.dir = os.dir
        /\ os'.file = [os.file EXCEPT ![r.jfd] = T] /\ os'.file[r.jfd] = T
    BY <1>3, <1>4, <1>6, Stored DEF FileSystem, Files
  <1> DEFINE F == Fsync(c)
  <1> HIDE DEF F, r
  <1>8. /\ disk' = [F EXCEPT !.file[r.jfd] = T] /\ F \in Medium
        /\ F.db = disk.db /\ F.behind = disk.behind
        /\ F.file = [disk.file EXCEPT ![r.jfd] = S]
        /\ F.dir = IF r.dirSync THEN os.dir ELSE disk.dir
    BY <1>5, <1>6, <1>7 DEF F
  <1>9. disk' \in Medium /\ disk'.db = F.db /\ disk'.behind = F.behind /\ disk'.dir = F.dir
        /\ disk'.file = [F.file EXCEPT ![r.jfd] = T]
    BY <1>3, <1>4, <1>8 DEF Medium, Files
  <1>10. disk'.file = [disk.file EXCEPT ![r.jfd] = T]
    BY <1>8, <1>9, Stored DEF Files
  <1> QED
    BY <1>3, <1>4, <1>6, <1>7, <1>8, <1>9, <1>10 DEF T, S, r

LEMMA JournalSyncShape ==
  ASSUME Shape, NEW c \in Conn, JournalSync(c)
  PROVE  Shape'
  <1> DEFINE r == conn[c]
             T == Unrecognised(Journal(c), r.joff + 1)
             q == [r EXCEPT !.pc = "jnrec", !.dirSync = FALSE]
  <1>1. /\ r \in PagerRecord /\ Control(r, lock[c]) /\ Changes(r) /\ r.pc = "jsync"
        /\ HasJournal(r, os.file, txn) /\ lock[c] \in 0..4
    BY Own DEF JournalSync, At
  <1>2. /\ os' \in FileSystem /\ os'.file = [os.file EXCEPT ![r.jfd] = T]
        /\ disk' \in Medium /\ conn' = [conn EXCEPT ![c] = q]
        /\ Len(T) = Len(Journal(c)) /\ r.jfd \in Inode
    BY JournalSyncEffect
  <1>3. q \in PagerRecord
    BY <1>1 DEF PagerRecord
  <1> HIDE DEF T
  <1>4. os'.file[r.jfd] = T
    BY <1>2, Stored DEF Files
  <1>5. Len(os'.file[r.jfd]) = Len(os.file[r.jfd])
    BY <1>2, <1>4 DEF Journal
  <1>6. Control(q, lock[c]) /\ Changes(q)
    BY <1>1 DEF Control, Changes, PagerRecord
  <1>7. HasJournal(q, os'.file, txn)
    BY <1>1, <1>5 DEF HasJournal, PagerRecord
  <1>8. /\ txn' = txn /\ LockStep(c) /\ lock'[c] = lock[c] /\ mode' = mode /\ lock[c] >= 2
    <2>1. txn' = txn /\ lock' = lock /\ mode' = mode
      BY DEF JournalSync
    <2>2. LockStep(c)
      BY <2>1 DEF LockStep
    <2>3. lock[c] >= 2
      <3> HIDE DEF q, r, T
      <3> QED  BY <1>1 DEF Control
    <2> QED  BY <2>1, <2>2, <2>3
  <1> HIDE DEF q, r
  <1>9. Control(q, lock'[c]) /\ txn' \in 0..MaxTxn /\ HasJournal(q, os'.file, txn')
    BY <1>6, <1>7, <1>8, Stored
  <1> QED
    BY <1>2, <1>3, <1>6, <1>8, <1>9, ShapeFrame

(* ... and the second part gives the header its magic and record count. *)
LEMMA JournalCountEffect ==
  ASSUME Shape, NEW c \in Conn, JournalCount(c)
  PROVE  LET r == conn[c]
             S == Journal(c)
             s == [S[r.jhdr] EXCEPT !.k = "hdr", !.val = r.nRec]
         IN  /\ os' \in FileSystem /\ os'.db = os.db /\ os'.dir = os.dir
             /\ os'.file = [os.file EXCEPT ![r.jfd] = [S EXCEPT ![r.jhdr] = s]]
             /\ conn' = [conn EXCEPT ![c] = [r EXCEPT !.pc = "jsync2"]]
             /\ [S EXCEPT ![r.jhdr] = s] \in Seq(Slot) /\ r.jfd \in Inode
             /\ Len([S EXCEPT ![r.jhdr] = s]) = Len(S)
             /\ r.jhdr \in 1..r.joff => s \in Slot
  <1> DEFINE r == conn[c]
             S == Journal(c)
             s == [S[r.jhdr] EXCEPT !.k = "hdr", !.val = r.nRec]
             T == [S EXCEPT ![r.jhdr] = s]
  <1>1. /\ r \in PagerRecord /\ Control(r, lock[c]) /\ r.pc = "jnrec"
    BY Own DEF JournalCount, At
  <1>2. r.eState \in Writers
    BY <1>1 DEF Control
  <1>3. /\ r.jfd \in Inode /\ r.jfd # 0 /\ S \in Seq(Slot) /\ r.joff \in Nat
        /\ r.joff <= Len(S) /\ r.jhdr \in Nat /\ r.nRec \in Nat /\ r.jhdr >= 1
    BY <1>1, <1>2, JournalOpen DEF PagerRecord
  <1>4. T \in Seq(Slot) /\ Len(T) = Len(S) /\ (r.jhdr \in 1..r.joff => s \in Slot)
    <2>1. CASE r.jhdr \in 1..Len(S)
      <3>1. S[r.jhdr] \in Slot
        BY <1>3, <2>1
      <3>2. s \in Slot
        <4> DEFINE x == S[r.jhdr]
                   n == r.nRec
        <4>1. x \in Slot /\ n \in Int
          BY <1>3, <3>1
        <4> HIDE DEF x, n
        <4> DEFINE y == [x EXCEPT !.k = "hdr", !.val = n]
        <4>2. x \in [k : {"zero", "hdr", "rec", "bad"}, pg : Nat, val : Int, seed : Nat]
          BY <4>1 DEF Slot
        <4>3. y \in [k : {"zero", "hdr", "rec", "bad"}, pg : Nat, val : Int, seed : Nat]
          BY <4>1, <4>2
        <4>4. y.k = "hdr"
          BY <4>2
        <4>5. y \in Slot
          <5> HIDE DEF y
          <5> QED  BY <4>3, <4>4 DEF Slot
        <4> QED  BY <4>5 DEF x, n
      <3> HIDE DEF s, S
      <3> QED  BY <1>3, <2>1, <3>2
    <2>2. CASE r.jhdr \notin 1..Len(S)
      <3> HIDE DEF s, S
      <3>1. T = S
        BY <1>3, <2>2
      <3>2. ~(r.jhdr \in 1..r.joff)
        BY <1>3, <2>2
      <3> HIDE DEF T
      <3> QED  BY <1>3, <3>1, <3>2
    <2> QED  BY <2>1, <2>2
  <1>5. /\ os' = [os EXCEPT !.file[r.jfd] = T]
        /\ conn' = [conn EXCEPT ![c] = [r EXCEPT !.pc = "jsync2"]]
    <2>1. os' = [os EXCEPT !.file[r.jfd][r.jhdr] = [@ EXCEPT !.k = "hdr", !.val = r.nRec]]
      BY DEF JournalCount
    <2>2. os' = [os EXCEPT !.file[r.jfd] = [os.file[r.jfd] EXCEPT ![r.jhdr] =
                   [os.file[r.jfd][r.jhdr] EXCEPT !.k = "hdr", !.val = r.nRec]]]
      BY <2>1
    <2> QED  BY <2>2 DEF JournalCount, Goto, Set, Journal
  <1> HIDE DEF T
  <1>6. /\ os' \in FileSystem /\ os'.db = os.db /\ os'.dir = os.dir
        /\ os'.file = [os.file EXCEPT ![r.jfd] = T]
    BY <1>3, <1>4, <1>5, Stored DEF FileSystem, Files
  <1> QED
    BY <1>3, <1>4, <1>5, <1>6 DEF T

LEMMA JournalCountShape ==
  ASSUME Shape, NEW c \in Conn, JournalCount(c)
  PROVE  Shape'
  <1> DEFINE r == conn[c]
             S == Journal(c)
             s == [S[r.jhdr] EXCEPT !.k = "hdr", !.val = r.nRec]
             T == [S EXCEPT ![r.jhdr] = s]
             q == [r EXCEPT !.pc = "jsync2"]
  <1>1. /\ r \in PagerRecord /\ Control(r, lock[c]) /\ Changes(r) /\ r.pc = "jnrec"
        /\ HasJournal(r, os.file, txn) /\ lock[c] \in 0..4
    BY Own DEF JournalCount, At
  <1>2. /\ os' \in FileSystem /\ os'.file = [os.file EXCEPT ![r.jfd] = T]
        /\ conn' = [conn EXCEPT ![c] = q]
        /\ Len(T) = Len(Journal(c)) /\ r.jfd \in Inode
    BY JournalCountEffect
  <1>3. q \in PagerRecord
    BY <1>1 DEF PagerRecord
  <1> HIDE DEF T
  <1>4. os'.file[r.jfd] = T
    BY <1>2, Stored DEF Files
  <1>5. Len(os'.file[r.jfd]) = Len(os.file[r.jfd])
    BY <1>2, <1>4 DEF Journal
  <1>6. Control(q, lock[c]) /\ Changes(q)
    BY <1>1 DEF Control, Changes, PagerRecord
  <1>7. HasJournal(q, os'.file, txn)
    BY <1>1, <1>5 DEF HasJournal, PagerRecord
  <1>8. /\ txn' = txn /\ LockStep(c) /\ lock'[c] = lock[c] /\ mode' = mode /\ lock[c] >= 2
        /\ disk' = disk
    BY <1>1 DEF JournalCount, LockStep, Control
  <1> HIDE DEF q, r
  <1>9. Control(q, lock'[c]) /\ txn' \in 0..MaxTxn /\ HasJournal(q, os'.file, txn') /\ disk' \in Medium
    BY <1>6, <1>7, <1>8, Stored
  <1> QED
    BY <1>2, <1>3, <1>6, <1>8, <1>9, ShapeFrame

(* Once the header is synced the database file may be written; a spill     *)
(* starts another header first.                                            *)
Sealed(r) ==
  [r EXCEPT !.pc = "wpage", !.eState = "DBMOD", !.needSync = {},
            !.dirSync = FALSE, !.jhdr = r.joff + 1]
NextHeader(S, r) == PutSlot(S, r.joff + 1, NewHdr(r.orig, r.seed))

LEMMA JournalSync2Effect ==
  ASSUME Shape, NEW c \in Conn, JournalSync2(c)
  PROVE  LET r == conn[c]
             n == r.joff + 1
             T == NextHeader(Journal(c), r)
             q == Sealed(r)
         IN  /\ r.jfd \in Inode
             /\ disk' \in Medium /\ disk'.db = disk.db /\ disk'.behind = disk.behind
             /\ disk'.dir = IF r.dirSync THEN os.dir ELSE disk.dir
             /\ disk'.file = [disk.file EXCEPT ![r.jfd] = Journal(c)]
             /\ T \in Seq(Slot) /\ Len(T) >= n
             /\ os' \in FileSystem /\ os'.db = os.db /\ os'.dir = os.dir
             /\ \/ /\ r.spill = 0 /\ os' = os
                   /\ conn' = [conn EXCEPT ![c] = [q EXCEPT !.last = IF Aligned THEN n ELSE 0]]
                \/ /\ r.spill # 0 /\ os'.file = [os.file EXCEPT ![r.jfd] = T]
                   /\ conn' = [conn EXCEPT ![c] = [q EXCEPT !.last = n, !.joff = n, !.nRec = 0]]
  <1> DEFINE r == conn[c]
             n == r.joff + 1
             T == NextHeader(Journal(c), r)
             q == Sealed(r)
  <1>1. /\ r \in PagerRecord /\ Control(r, lock[c]) /\ r.pc = "jsync2"
    BY Own DEF JournalSync2, At
  <1>2. r.eState \in Writers
    BY <1>1 DEF Control
  <1>3. /\ r.jfd \in Inode /\ r.jfd # 0 /\ Journal(c) \in Seq(Slot) /\ r.joff \in Nat
        /\ r.joff <= Len(Journal(c))
    BY <1>1, <1>2, JournalOpen
  <1>4. disk' \in Medium /\ disk'.db = disk.db /\ disk'.behind = disk.behind
        /\ disk'.dir = (IF r.dirSync THEN os.dir ELSE disk.dir)
        /\ disk'.file = [disk.file EXCEPT ![r.jfd] = Journal(c)]
    <2>1. /\ Fsync(c) \in Medium /\ Fsync(c).db = disk.db /\ Fsync(c).behind = disk.behind
          /\ Fsync(c).file = [disk.file EXCEPT ![r.jfd] = Journal(c)]
          /\ Fsync(c).dir = IF r.dirSync THEN os.dir ELSE disk.dir
      BY <1>3, FsyncType
    <2>2. disk' = Fsync(c)
      BY DEF JournalSync2
    <2> QED  BY <2>1, <2>2
  <1>5. T \in Seq(Slot) /\ Len(T) >= n
    <2> DEFINE h == NewHdr(r.orig, r.seed)
               S == Journal(c)
    <2>1. h \in Slot
      BY <1>1, SlotTypes DEF PagerRecord
    <2>2. n \in 1..(Len(S) + 1) /\ S \in Seq(Slot)
      BY <1>3
    <2> HIDE DEF h, S, n
    <2>3. PutSlot(S, n, h) \in Seq(Slot) /\ Len(PutSlot(S, n, h)) = IF n > Len(S) THEN n ELSE Len(S)
      BY <2>1, <2>2, PutSlotProperty
    <2>4. T = PutSlot(S, n, h)
      BY DEF NextHeader, h, S, n
    <2> QED  BY <2>2, <2>3, <2>4
  <1>6. CASE r.spill = 0
    <2>1. os' = os /\ conn' = [conn EXCEPT ![c] = [q EXCEPT !.last = IF Aligned THEN n ELSE 0]]
      BY <1>6 DEF JournalSync2, Set, Sealed
    <2> QED  BY <1>3, <1>4, <1>5, <1>6, <2>1, Stored
  <1>7. CASE r.spill # 0
    <2>1. os' = [os EXCEPT !.file[r.jfd] = T]
      BY <1>7 DEF JournalSync2, Journal, NextHeader
    <2>2. /\ os' \in FileSystem /\ os'.db = os.db /\ os'.dir = os.dir
          /\ os'.file = [os.file EXCEPT ![r.jfd] = T]
      <3> HIDE DEF T
      <3> QED  BY <1>3, <1>5, <2>1, Stored DEF FileSystem, Files
    <2>3. conn' = [conn EXCEPT ![c] = [q EXCEPT !.last = n, !.joff = n, !.nRec = 0]]
      BY <1>7 DEF JournalSync2, Set, Sealed
    <2> QED  BY <1>3, <1>4, <1>5, <1>7, <2>2, <2>3
  <1> QED  BY <1>6, <1>7

LEMMA JournalSync2Shape ==
  ASSUME Shape, NEW c \in Conn, JournalSync2(c)
  PROVE  Shape'
  <1> DEFINE r == conn[c]
             n == r.joff + 1
             T == NextHeader(Journal(c), r)
             q == Sealed(r)
  <1>1. /\ r \in PagerRecord /\ Control(r, lock[c]) /\ Changes(r) /\ r.pc = "jsync2"
        /\ HasJournal(r, os.file, txn) /\ lock[c] \in 0..4
    BY Own DEF JournalSync2, At
  <1>2. /\ r.jfd \in Inode /\ disk' \in Medium /\ T \in Seq(Slot) /\ Len(T) >= n
        /\ os' \in FileSystem
        /\ \/ /\ r.spill = 0 /\ os' = os
              /\ conn' = [conn EXCEPT ![c] = [q EXCEPT !.last = IF Aligned THEN n ELSE 0]]
           \/ /\ r.spill # 0 /\ os'.file = [os.file EXCEPT ![r.jfd] = T]
              /\ conn' = [conn EXCEPT ![c] = [q EXCEPT !.last = n, !.joff = n, !.nRec = 0]]
    BY JournalSync2Effect
  <1>3. /\ r.joff \in Nat /\ n \in Nat /\ r.eState \in {"CACHEMOD", "DBMOD"} /\ lock[c] = 4
    BY <1>1 DEF PagerRecord, Control
  <1>4. /\ q \in PagerRecord
    <2>1. q = [r EXCEPT !.pc = "wpage", !.eState = "DBMOD", !.needSync = {},
                        !.dirSync = FALSE, !.jhdr = n]
      BY DEF Sealed
    <2> DEFINE a == [r EXCEPT !.pc = "wpage", !.eState = "DBMOD", !.needSync = {}]
    <2>2. a \in PagerRecord
      BY <1>1 DEF PagerRecord
    <2> DEFINE b == [a EXCEPT !.dirSync = FALSE]
    <2>3. q = [b EXCEPT !.jhdr = n]
      BY <2>1
    <2>4. n \in Nat
      BY <1>3
    <2>5. b \in PagerRecord
      <3> HIDE DEF a
      <3> QED  BY <2>2 DEF PagerRecord
    <2> HIDE DEF n, b, q, r
    <2> QED  BY <2>3, <2>4, <2>5 DEF PagerRecord
  <1>5. /\ q.pc = "wpage" /\ q.eState = "DBMOD" /\ q.needSync = {} /\ q.jhdr = n
        /\ q.joff = r.joff /\ q.spill = r.spill /\ q.dirty = r.dirty /\ q.hot = r.hot
        /\ q.jfd = r.jfd /\ q.k = r.k
    BY <1>1 DEF PagerRecord, Sealed
  <1> HIDE DEF q
  <1>6. /\ ~r.hot /\ (r.spill # 0 => r.spill \in r.dirty) /\ (r.spill = 0 => r.dirty # {})
    BY <1>1, <1>3 DEF Control, Changes
  <1>7. r.jfd # 0 /\ r.joff <= Len(os.file[r.jfd]) /\ r.joff >= 1
    BY <1>1, <1>3 DEF HasJournal
  <1>8. /\ txn' = txn /\ LockStep(c) /\ lock'[c] = lock[c] /\ mode' = mode /\ lock[c] >= 2
        /\ txn' \in 0..MaxTxn
    BY <1>3, Stored DEF JournalSync2, LockStep
  <1>9. CASE r.spill = 0
    <2> DEFINE l == IF Aligned THEN n ELSE 0
               u == [q EXCEPT !.last = l]
    <2>1. u \in PagerRecord
      <3>1. l \in Nat
        BY <1>3
      <3> HIDE DEF l
      <3> QED  BY <1>4, <3>1 DEF PagerRecord
    <2>2. /\ u.pc = "wpage" /\ u.eState = "DBMOD" /\ u.needSync = {} /\ u.jhdr = n
          /\ u.joff = r.joff /\ u.spill = r.spill /\ u.dirty = r.dirty /\ u.hot = r.hot
          /\ u.jfd = r.jfd /\ u.k = r.k
      BY <1>4, <1>5 DEF PagerRecord
    <2>3. conn' = [conn EXCEPT ![c] = u] /\ os' = os
      BY <1>2, <1>9
    <2> HIDE DEF u, r
    <2>4. Control(u, lock'[c]) /\ Changes(u)
      BY <1>3, <1>6, <1>8, <2>2 DEF Control, Changes
    <2>5. HasJournal(u, os'.file, txn')
      BY <1>3, <1>7, <1>8, <2>2, <2>3 DEF HasJournal
    <2> QED
      BY <1>2, <1>8, <2>1, <2>3, <2>4, <2>5, ShapeFrame
  <1>10. CASE r.spill # 0
    <2> DEFINE u == [q EXCEPT !.last = n, !.joff = n, !.nRec = 0]
    <2>1. u \in PagerRecord
      <3> HIDE DEF n
      <3> QED  BY <1>3, <1>4 DEF PagerRecord
    <2>2. /\ u.pc = "wpage" /\ u.eState = "DBMOD" /\ u.needSync = {} /\ u.jhdr = n
          /\ u.joff = n /\ u.spill = r.spill /\ u.dirty = r.dirty /\ u.hot = r.hot
          /\ u.jfd = r.jfd /\ u.k = r.k
      BY <1>4, <1>5 DEF PagerRecord
    <2>3. conn' = [conn EXCEPT ![c] = u] /\ os'.file = [os.file EXCEPT ![r.jfd] = T]
      BY <1>2, <1>10
    <2> HIDE DEF u, T, r
    <2>4. Control(u, lock'[c]) /\ Changes(u)
      BY <1>3, <1>6, <1>8, <2>2 DEF Control, Changes
    <2>5. os'.file[r.jfd] = T
      BY <1>2, <2>3, Stored DEF Files
    <2>6. HasJournal(u, os'.file, txn')
      BY <1>2, <1>3, <1>7, <1>8, <2>2, <2>5 DEF HasJournal
    <2> QED
      BY <1>2, <1>8, <2>1, <2>3, <2>4, <2>6, ShapeFrame
  <1> QED  BY <1>9, <1>10

(* pager_write_pagelist always has a page to write. *)
LEMMA WritePageEffect ==
  ASSUME Shape, NEW c \in Conn, conn[c].pc = "wpage"
  PROVE  LET r == conn[c]
             p == Min(ToWrite(r))
         IN  /\ p \in Page /\ p \in r.dirty /\ p \in ToWrite(r) /\ ToWrite(r) \subseteq r.dirty
             /\ r.spill # 0 => p = r.spill
             /\ \A x \in ToWrite(r) : p <= x
             /\ \A v \in Int : [os EXCEPT !.db[p] = v] \in FileSystem
             /\ Behind({p}) \in Medium
  <1> DEFINE r == conn[c]
             p == Min(ToWrite(r))
  <1>1. /\ r \in PagerRecord /\ Changes(r)
    BY Own
  <1>2. ToWrite(r) \subseteq r.dirty /\ ToWrite(r) # {} /\ (r.spill # 0 => ToWrite(r) = {r.spill})
    BY <1>1 DEF Changes, ToWrite
  <1>3. r.dirty \subseteq Page /\ Page \subseteq Nat
    BY <1>1, PagerAssumption DEF PagerRecord, Page
  <1>4. p \in ToWrite(r) /\ \A x \in ToWrite(r) : p <= x
    <2> DEFINE W == ToWrite(r)
    <2>1. W \in SUBSET Nat /\ W # {}
      BY <1>2, <1>3
    <2> HIDE DEF W
    <2>2. Min(W) \in W /\ \A x \in W : Min(W) <= x
      BY <2>1, MinProperty
    <2> QED  BY <2>2 DEF W
  <1>5. p \in r.dirty /\ p \in Page
    BY <1>2, <1>3, <1>4
  <1> HIDE DEF p
  <1>6. \A v \in Int : [os EXCEPT !.db[p] = v] \in FileSystem
    BY <1>5, Stored DEF FileSystem, Pages
  <1>7. Behind({p}) \in Medium
    BY <1>5, Stored DEF Medium, Behind
  <1> QED  BY <1>2, <1>4, <1>5, <1>6, <1>7 DEF p

LEMMA WritePageShape ==
  ASSUME Shape, NEW c \in Conn, WritePage(c)
  PROVE  Shape'
  <1> DEFINE r == conn[c]
             p == Min(ToWrite(r))
             D == r.dirty \ {p}
             v == IF p = 1 THEN r.cache[1] ELSE r.vers
             l == IF r.spill # 0 THEN "idle"
                  ELSE IF ToWrite(r) = {p} THEN "dbsync" ELSE r.pc
             q == [r EXCEPT !.dirty = D, !.spill = 0, !.vers = v, !.pc = l]
  <1>1. /\ r \in PagerRecord /\ Control(r, lock[c]) /\ Changes(r) /\ r.pc = "wpage"
        /\ HasJournal(r, os.file, txn) /\ lock[c] \in 0..4 /\ 1 \in Page
    BY Own, Stored DEF WritePage, At
  <1>2. /\ p \in Page /\ p \in r.dirty /\ p \in ToWrite(r) /\ ToWrite(r) \subseteq r.dirty
        /\ (r.spill # 0 => p = r.spill)
        /\ [os EXCEPT !.db[p] = r.cache[p]] \in FileSystem /\ Behind({p}) \in Medium
    <2>1. r.pc = "wpage"
      BY <1>1
    <2>2. p \in Page
      BY <2>1, WritePageEffect
    <2>3. r.cache[p] \in Int
      BY <1>1, <2>2 DEF PagerRecord, Pages
    <2> QED  BY <2>1, <2>3, WritePageEffect
  <1>3. /\ os' = [os EXCEPT !.db[p] = r.cache[p]] /\ disk' = Behind({p})
        /\ conn' = [conn EXCEPT ![c] = q] /\ txn' = txn /\ LockStep(c) /\ mode' = mode
        /\ lock' = lock
    BY DEF WritePage, Set, LockStep
  <1>4. /\ D \in SUBSET Page /\ v \in Int /\ l \in {"idle", "dbsync", "wpage"}
        /\ (r.spill # 0 => l = "idle") /\ (r.spill = 0 => l # "idle")
        /\ (l = "wpage" => D # {})
    <2>1. D \in SUBSET Page /\ v \in Int
      <3> HIDE DEF p
      <3> QED  BY <1>1, <1>2 DEF PagerRecord, Pages
    <2>2. l \in {"idle", "dbsync", "wpage"} /\ (r.spill # 0 => l = "idle") /\ (r.spill = 0 => l # "idle")
      BY <1>1
    <2>3. l = "wpage" => D # {}
      <3> HIDE DEF p
      <3> QED  BY <1>1, <1>2 DEF ToWrite
    <2> QED  BY <2>1, <2>2, <2>3
  <1>5. /\ (r.spill = 0 => r.needSync = {}) /\ r.needSync \subseteq D
    <2>1. r.needSync \subseteq r.dirty /\ (r.spill # 0 => r.spill \notin r.needSync)
          /\ (r.spill = 0 => r.needSync = {})
      BY <1>1 DEF Control, Changes
    <2> HIDE DEF p
    <2> QED  BY <1>2, <2>1
  <1>6. /\ r.eState = "DBMOD" /\ ~r.hot /\ lock[c] = 4
    BY <1>1 DEF Control
  <1> HIDE DEF D, v, l, p
  <1>7. q \in PagerRecord
    BY <1>1, <1>4 DEF PagerRecord
  <1>8. /\ q.pc = l /\ q.dirty = D /\ q.spill = 0 /\ q.needSync = r.needSync
        /\ q.eState = r.eState /\ q.hot = r.hot /\ q.jfd = r.jfd /\ q.joff = r.joff
        /\ q.jhdr = r.jhdr /\ q.k = r.k
    BY <1>1 DEF PagerRecord
  <1> HIDE DEF q
  <1>9. Control(q, lock'[c]) /\ Changes(q)
    BY <1>3, <1>4, <1>5, <1>6, <1>8 DEF Control, Changes
  <1>10. os'.file = os.file /\ os' \in FileSystem /\ disk' \in Medium /\ txn' \in 0..MaxTxn
    BY <1>2, <1>3, Stored DEF FileSystem
  <1>11. HasJournal(q, os'.file, txn')
    BY <1>1, <1>3, <1>4, <1>8, <1>10 DEF HasJournal
  <1> HIDE DEF r
  <1> QED
    BY <1>3, <1>6, <1>7, <1>9, <1>10, <1>11, ShapeFrame

LEMMA DbSyncShape ==
  ASSUME Shape, NEW c \in Conn, DbSync(c)
  PROVE  Shape'
  <1> DEFINE q == [conn[c] EXCEPT !.pc = "fin", !.eState = "FINISHED"]
  <1>1. /\ conn[c] \in PagerRecord /\ Control(conn[c], lock[c]) /\ Changes(conn[c])
        /\ HasJournal(conn[c], os.file, txn) /\ lock[c] \in 0..4 /\ conn[c].pc = "dbsync"
    BY Own DEF DbSync, At
  <1>2. q \in PagerRecord
    BY <1>1 DEF PagerRecord
  <1>3. LockStep(c) /\ conn' = [conn EXCEPT ![c] = q]
    BY DEF DbSync, LockStep, Set
  <1>4. Control(q, lock[c]) /\ Changes(q) /\ HasJournal(q, os.file, txn)
    BY <1>1 DEF Control, Changes, HasJournal, PagerRecord
  <1>5. SyncDb \in Medium
    BY SyncDbType
  <1> HIDE DEF q
  <1> QED
    BY <1>2, <1>3, <1>4, <1>5, Stored, ShapeFrame DEF DbSync

LEMMA RollingBackShape ==
  ASSUME NEW r \in PagerRecord, NEW l \in 0..4, NEW file, NEW n,
         Control(r, l), Changes(r), HasJournal(r, file, n),
         r.eState \in {"CACHEMOD", "DBMOD"}, r.pc # "finsync"
  PROVE  /\ RollingBack(r) \in PagerRecord /\ Control(RollingBack(r), l)
         /\ Changes(RollingBack(r)) /\ HasJournal(RollingBack(r), file, n)
  <1> DEFINE q == RollingBack(r)
  <1>1. q \in PagerRecord
    BY DEF PagerRecord, RollingBack
  <1>2. /\ q.pc = "hdr" /\ q.k = 1 /\ q.spill = 0 /\ q.eState = r.eState /\ q.hot = r.hot
        /\ q.jfd = r.jfd /\ q.joff = r.joff /\ q.jhdr = r.jhdr /\ q.dirty = r.dirty
    BY DEF PagerRecord, RollingBack
  <1> HIDE DEF q
  <1>3. ~r.hot
    BY DEF Control
  <1>4. Control(q, l) /\ Changes(q)
    BY <1>2, <1>3 DEF Control, Changes
  <1>5. HasJournal(q, file, n)
    BY <1>2 DEF HasJournal
  <1> QED  BY <1>1, <1>4, <1>5 DEF q

LEMMA RollbackShape ==
  ASSUME Shape, NEW c \in Conn, Rollback(c)
  PROVE  Shape'
  <1>1. /\ conn[c] \in PagerRecord /\ Control(conn[c], lock[c]) /\ Changes(conn[c])
        /\ HasJournal(conn[c], os.file, txn) /\ lock[c] \in 0..4
        /\ UNCHANGED <<os, disk, mode, txn>>
    BY Own DEF Rollback
  <1>2. CASE Idle(c, {"CACHEMOD", "DBMOD"}) /\ Set(c, RollingBack(conn[c])) /\ lock' = lock
    <2> DEFINE q == RollingBack(conn[c])
    <2>1. /\ q \in PagerRecord /\ Control(q, lock[c]) /\ Changes(q) /\ HasJournal(q, os.file, txn)
      <3>1. conn[c].eState \in {"CACHEMOD", "DBMOD"} /\ conn[c].pc # "finsync"
        BY <1>2 DEF Idle
      <3> QED  BY <1>1, <3>1, RollingBackShape
    <2>2. conn' = [conn EXCEPT ![c] = q] /\ LockStep(c)
      BY <1>2 DEF Set, LockStep
    <2> HIDE DEF q
    <2> QED
      BY <1>1, <1>2, <2>1, <2>2, Stored, ShapeFrame
  <1>3. CASE EndTransaction(c, conn[c])
    BY <1>1, <1>3, Stored, EndTransactionShape
  <1> QED
    BY <1>2, <1>3 DEF Rollback

-----------------------------------------------------------------------------
(* A connection that has lost its Pager object, but for what it remembers  *)
(* of the change counter                                                   *)
LEMMA ClosedShape ==
  ASSUME NEW v \in Int, NEW h \in BOOLEAN, NEW file, NEW n
  PROVE  LET q == [Closed EXCEPT !.vers = v, !.held = h]
         IN  /\ q \in PagerRecord /\ Control(q, 0) /\ Changes(q) /\ HasJournal(q, file, n)
             /\ Closed \in PagerRecord /\ Control(Closed, 0) /\ Changes(Closed)
             /\ HasJournal(Closed, file, n)
  <1> DEFINE q == [Closed EXCEPT !.vers = v, !.held = h]
  <1>1. NoPages \in Pages
    BY DEF NoPages, Pages, Absent
  <1>2. Closed \in PagerRecord
    BY <1>1 DEF Closed, PagerRecord
  <1>3. q \in PagerRecord
    <2> HIDE <1>1
    <2> QED  BY <1>2 DEF PagerRecord
  <1>4. Control(Closed, 0) /\ Changes(Closed) /\ HasJournal(Closed, file, n)
    BY DEF Control, Changes, HasJournal, Closed
  <1>5. /\ q.pc = Closed.pc /\ q.hot = Closed.hot /\ q.eState = Closed.eState
        /\ q.k = Closed.k /\ q.jfd = Closed.jfd /\ q.dirty = Closed.dirty
        /\ q.needSync = Closed.needSync /\ q.spill = Closed.spill
        /\ q.joff = Closed.joff /\ q.jhdr = Closed.jhdr
    BY <1>2 DEF PagerRecord
  <1> HIDE DEF q
  <1>6. Control(q, 0) /\ Changes(q) /\ HasJournal(q, file, n)
    BY <1>4, <1>5 DEF Control, Changes, HasJournal
  <1> QED  BY <1>2, <1>3, <1>4, <1>6 DEF q

LEMMA StartShape ==
  ASSUME NEW file, NEW n
  PROVE  /\ Closed \in PagerRecord /\ Control(Closed, 0) /\ Changes(Closed)
         /\ HasJournal(Closed, file, n)
  <1>1. 0 \in Int /\ FALSE \in BOOLEAN
    OBVIOUS
  <1> DEFINE v == 0
             h == FALSE
  <1> HIDE DEF v, h
  <1>2. v \in Int /\ h \in BOOLEAN
    BY <1>1 DEF v, h
  <1> QED  BY <1>2, ClosedShape

LEMMA ErrorUnlockShape ==
  ASSUME Shape, NEW c \in Conn, ErrorUnlock(c)
  PROVE  Shape'
  <1> DEFINE q == [Closed EXCEPT !.vers = conn[c].vers, !.held = conn[c].held]
  <1>1. conn[c].vers \in Int /\ conn[c].held \in BOOLEAN
    BY Own DEF PagerRecord
  <1>2. q \in PagerRecord /\ Control(q, 0) /\ Changes(q) /\ HasJournal(q, os.file, txn)
    BY <1>1, ClosedShape
  <1>3. conn' = [conn EXCEPT ![c] = q] /\ LockStep(c) /\ lock'[c] = 0
    BY DEF ErrorUnlock, Set, LockStep, FL!Unlock, Shape, Types
  <1> HIDE DEF q
  <1> QED
    BY <1>2, <1>3, Stored, ShapeFrame DEF ErrorUnlock

(* A failed write damages a page of the database file, or nothing. *)
LEMMA DamageEffect ==
  ASSUME Shape, NEW c \in Conn, Damage(c)
  PROVE  /\ os' \in FileSystem /\ os'.file = os.file /\ os'.dir = os.dir
         /\ disk' \in Medium /\ disk'.file = disk.file /\ disk'.dir = disk.dir
         /\ disk'.db = disk.db
         /\ \/ os' = os /\ disk' = disk
            \/ \E p \in Page :
                 /\ os'.db = [os.db EXCEPT ![p] = Torn]
                 /\ disk'.behind = disk.behind \cup {p}
                 /\ \/ conn[c].pc = "wpage" /\ p \in conn[c].dirty
                    \/ /\ conn[c].pc = "rec" /\ ToFile(conn[c], Journal(c))
                       /\ p = Journal(c)[conn[c].k].pg
  <1>1. CASE os' = os /\ disk' = disk
    BY <1>1, Stored
  <1>2. CASE ~(os' = os /\ disk' = disk)
    <2> DEFINE r == conn[c]
               p == IF At(c, "rec") THEN Journal(c)[r.k].pg ELSE Min(ToWrite(r))
    <2>1. /\ os' = [os EXCEPT !.db[p] = Torn] /\ disk' = Behind({p})
          /\ At(c, "wpage") \/ (At(c, "rec") /\ ToFile(r, Journal(c)))
      BY <1>2 DEF Damage
    <2>2. p \in Page /\ (\/ r.pc = "wpage" /\ p \in r.dirty
                         \/ /\ r.pc = "rec" /\ ToFile(r, Journal(c))
                            /\ p = Journal(c)[r.k].pg)
      <3>1. CASE At(c, "wpage")
        <4>1. p = Min(ToWrite(r)) /\ r.pc = "wpage"
          BY <3>1 DEF At
        <4> HIDE DEF p
        <4> QED  BY <4>1, WritePageEffect
      <3>2. CASE At(c, "rec") /\ ToFile(r, Journal(c))
        <4>1. /\ r \in PagerRecord /\ Control(r, lock[c]) /\ HasJournal(r, os.file, txn) /\ r.pc = "rec"
          BY <3>2, Own DEF At
        <4>2. r.jfd # 0 /\ r.k \in Nat /\ r.k >= 1
          BY <4>1 DEF Control, HasJournal, PagerRecord
        <4>3. Journal(c) \in Seq(Slot)
          BY <4>2, FsyncType
        <4>4. r.k \in 1..Len(Journal(c)) /\ Journal(c)[r.k].k = "rec"
          BY <3>2, <4>2, <4>3 DEF ToFile, Plays, IsRecord
        <4>5. Journal(c)[r.k] \in Slot
          BY <4>3, <4>4
        <4>6. Journal(c)[r.k].pg \in Page
          BY <4>4, <4>5 DEF Slot
        <4> QED  BY <3>2, <4>1, <4>6
      <3> QED  BY <2>1, <3>1, <3>2
    <2> HIDE DEF p
    <2>3. /\ os' \in FileSystem /\ os'.file = os.file /\ os'.dir = os.dir
          /\ os'.db = [os.db EXCEPT ![p] = Torn]
      BY <2>1, <2>2, Stored DEF FileSystem, Pages, Torn
    <2>4. /\ disk' \in Medium /\ disk'.file = disk.file /\ disk'.dir = disk.dir
          /\ disk'.db = disk.db /\ disk'.behind = disk.behind \cup {p}
      BY <2>1, <2>2, Stored DEF Medium, Behind
    <2> QED  BY <2>2, <2>3, <2>4
  <1> QED  BY <1>1, <1>2

LEMMA InErrorShape ==
  ASSUME NEW r \in PagerRecord, NEW l \in 1..4, NEW file, NEW n, Changes(r), ~r.hot
  PROVE  /\ InError(r) \in PagerRecord /\ Control(InError(r), l)
         /\ Changes(InError(r)) /\ HasJournal(InError(r), file, n)
  <1> DEFINE q == InError(r)
  <1>1. q \in PagerRecord
    BY DEF PagerRecord, InError
  <1>2. /\ q.pc = "idle" /\ q.eState = "ERROR" /\ q.hot = r.hot /\ q.spill = r.spill
        /\ q.dirty = r.dirty
    BY DEF PagerRecord, InError
  <1> HIDE DEF q
  <1>3. Control(q, l) /\ HasJournal(q, file, n)
    BY <1>2 DEF Control, HasJournal
  <1>4. Changes(q)
    BY <1>2 DEF Changes
  <1> QED  BY <1>1, <1>3, <1>4 DEF q

LEMMA FaultShape ==
  ASSUME Shape, NEW c \in Conn, Fault(c)
  PROVE  Shape'
  <1> DEFINE r == conn[c]
  <1>1. /\ r \in PagerRecord /\ Control(r, lock[c]) /\ Changes(r)
        /\ HasJournal(r, os.file, txn) /\ lock[c] \in 0..4
    BY Own
  <1>2. /\ os' \in FileSystem /\ os'.file = os.file /\ disk' \in Medium
        /\ mode' = mode /\ txn' = txn /\ txn' \in 0..MaxTxn
    <2>1. Damage(c) /\ mode' = mode /\ txn' = txn
      BY DEF Fault
    <2> QED  BY <2>1, DamageEffect, Stored
  <1>3. ASSUME NEW q \in PagerRecord, Set(c, q), LockStep(c), Control(q, lock'[c]), Changes(q),
               HasJournal(q, os.file, txn)
        PROVE  Shape'
    <2>1. conn' = [conn EXCEPT ![c] = q] /\ HasJournal(q, os'.file, txn')
      BY <1>2, <1>3 DEF Set
    <2> QED  BY <1>2, <1>3, <2>1, ShapeFrame
  <1>4. CASE /\ r.pc \in {"exists", "reserved", "vers"} \/ r.hot
             /\ FL!Unlock(c, 0)
             /\ Set(c, IF r.hot THEN [Closed EXCEPT !.vers = r.vers, !.held = r.held]
                       ELSE Unlocked(r))
    <2>1. LockStep(c) /\ lock'[c] = 0
      BY <1>4 DEF LockStep, FL!Unlock, Shape, Types
    <2>2. CASE r.hot
      <3> DEFINE q == [Closed EXCEPT !.vers = r.vers, !.held = r.held]
      <3>1. r.vers \in Int /\ r.held \in BOOLEAN
        BY <1>1 DEF PagerRecord
      <3>2. q \in PagerRecord /\ Control(q, 0) /\ Changes(q) /\ HasJournal(q, os.file, txn)
        BY <3>1, ClosedShape
      <3>3. Set(c, q)
        BY <1>4, <2>2
      <3> HIDE DEF q
      <3> QED  BY <1>3, <2>1, <3>2, <3>3
    <2>3. CASE ~r.hot
      <3> DEFINE q == Unlocked(r)
      <3>1. r.dirty = {} /\ r.needSync \subseteq r.dirty /\ r.spill = 0
        BY <1>1, <1>4, <2>3 DEF Control, Changes
      <3>2. q \in PagerRecord /\ Control(q, 0) /\ Changes(q) /\ HasJournal(q, os.file, txn)
        <4> HIDE DEF r
        <4> QED  BY <1>1, <2>3, <3>1, UnlockedShape
      <3>3. Set(c, q)
        BY <1>4, <2>3
      <3> HIDE DEF q
      <3> QED  BY <1>3, <2>1, <3>2, <3>3
    <2> QED  BY <2>2, <2>3
  <1>5. CASE /\ r.pc \in {"jsync", "jnrec", "jsync2", "wpage", "dbsync"}
             /\ Set(c, IF r.spill = 0 THEN RollingBack(r) ELSE InError(r))
             /\ lock' = lock
    <2>1. LockStep(c) /\ lock'[c] = lock[c] /\ lock[c] \in 1..4
      BY <1>1, <1>5 DEF LockStep, Control
    <2>2. ~r.hot /\ r.eState \in {"CACHEMOD", "DBMOD"} /\ r.pc # "finsync"
      BY <1>1, <1>5 DEF Control
    <2>3. CASE r.spill = 0
      <3> DEFINE q == RollingBack(r)
      <3>1. q \in PagerRecord /\ Control(q, lock[c]) /\ Changes(q) /\ HasJournal(q, os.file, txn)
        <4> HIDE DEF r
        <4> QED  BY <1>1, <2>2, RollingBackShape
      <3>2. Set(c, q)
        BY <1>5, <2>3
      <3> HIDE DEF q
      <3> QED  BY <1>3, <2>1, <3>1, <3>2
    <2>4. CASE r.spill # 0
      <3> DEFINE q == InError(r)
      <3>1. q \in PagerRecord /\ Control(q, lock[c]) /\ Changes(q) /\ HasJournal(q, os.file, txn)
        <4> HIDE DEF r
        <4> QED  BY <1>1, <2>1, <2>2, InErrorShape
      <3>2. Set(c, q)
        BY <1>5, <2>4
      <3> HIDE DEF q
      <3> QED  BY <1>3, <2>1, <3>1, <3>2
    <2> QED  BY <2>3, <2>4
  <1>6. CASE /\ r.pc \in {"rec", "rsync"} /\ ~r.hot
             /\ Set(c, InError(r)) /\ lock' = lock
    <2> DEFINE q == InError(r)
    <2>1. LockStep(c) /\ lock'[c] = lock[c] /\ lock[c] \in 1..4
      BY <1>1, <1>6 DEF LockStep, Control
    <2>2. q \in PagerRecord /\ Control(q, lock[c]) /\ Changes(q) /\ HasJournal(q, os.file, txn)
      <3> HIDE DEF r
      <3> QED  BY <1>1, <1>6, <2>1, InErrorShape
    <2> HIDE DEF q
    <2> QED  BY <1>3, <1>6, <2>1, <2>2 DEF q
  <1>7. CASE /\ r.pc \in {"fin", "finsync"} /\ ~r.hot
             /\ Set(c, InError(r)) /\ FL!Unlock(c, 1)
    <2> DEFINE q == InError(r)
    <2>1. LockStep(c) /\ lock'[c] = 1
      BY <1>7 DEF LockStep, FL!Unlock, Shape, Types
    <2>2. q \in PagerRecord /\ Control(q, 1) /\ Changes(q) /\ HasJournal(q, os.file, txn)
      <3> HIDE DEF r
      <3> QED  BY <1>1, <1>7, InErrorShape
    <2> HIDE DEF q
    <2> QED  BY <1>3, <1>7, <2>1, <2>2 DEF q
  <1> QED
    BY <1>4, <1>5, <1>6, <1>7 DEF Fault

LEMMA KillShape ==
  ASSUME Shape, NEW c \in Conn, Kill(c)
  PROVE  Shape'
  <1>1. Closed \in PagerRecord /\ Control(Closed, 0) /\ Changes(Closed) /\ HasJournal(Closed, os.file, txn)
    BY StartShape
  <1>2. conn' = [conn EXCEPT ![c] = Closed] /\ UNCHANGED <<os, disk, mode, txn>>
    BY DEF Kill, Set
  <1>3. lock' = [h \in Conn |-> IF h \in {c} THEN 0 ELSE lock[h]] /\ lock \in [Conn -> 0..4]
    BY DEF Kill, FL!Drop, Shape, Types
  <1>4. lock'[c] = 0 /\ lock' = [lock EXCEPT ![c] = 0]
    BY <1>3
  <1>5. LockStep(c)
    <2>1. CASE lock[c] = 0
      BY <1>3, <1>4, <2>1 DEF LockStep
    <2>2. CASE lock[c] # 0
      <3>1. lock[c] > 0
        BY <1>3, <2>2
      <3>2. FL!Unlock(c, 0)
        BY <1>4, <3>1 DEF FL!Unlock
      <3> QED  BY <3>2 DEF LockStep
    <2> QED  BY <2>1, <2>2
  <1> QED
    BY <1>1, <1>2, <1>4, <1>5, Stored, ShapeFrame

(* What a power failure leaves of the database file: each page is one of   *)
(* the two versions or damaged, and a page that was synced is kept.        *)
LEMMA PagesLeftProperty ==
  ASSUME Shape, NEW db \in PagesLeft
  PROVE  /\ db \in Pages
         /\ \A p \in Page : \/ p \in disk.behind /\ db[p] = disk.db[p]
                            \/ db[p] = os.db[p]
                            \/ p \in disk.behind /\ db[p] = Torn
  <1> DEFINE F(w) == [p \in Page |-> IF p \notin disk.behind THEN os.db[p]
                                     ELSE Left(w[p], disk.db[p], os.db[p], Torn)]
  <1>1. PICK w \in [Page -> Outcome] : db = F(w)
    BY DEF PagesLeft
  <1>2. ASSUME NEW p \in Page
        PROVE  /\ db[p] \in Int
               /\ \/ p \in disk.behind /\ db[p] = disk.db[p]
                  \/ db[p] = os.db[p]
                  \/ p \in disk.behind /\ db[p] = Torn
    <2>1. db[p] = IF p \notin disk.behind THEN os.db[p]
                  ELSE Left(w[p], disk.db[p], os.db[p], Torn)
      BY <1>1
    <2>2. os.db[p] \in Int /\ disk.db[p] \in Int /\ w[p] \in Outcome
      BY Stored DEF Pages
    <2> QED  BY <2>1, <2>2 DEF Left, Outcome, Torn
  <1>3. db = [p \in Page |-> db[p]]
    BY <1>1
  <1> QED  BY <1>2, <1>3 DEF Pages

LEMMA PowerLossEffect ==
  ASSUME Shape, PowerLoss
  PROVE  \E db \in PagesLeft, S \in Seq(Slot) :
           /\ os'.db = db /\ os' \in FileSystem
           /\ os'.dir \in {disk.dir, os.dir} \/ (disk.dir # os.dir /\ os'.dir = 0)
           /\ os'.file = [i \in Inode |-> IF i = os'.dir THEN S ELSE <<>>]
           /\ os'.dir # 0 => S \in SlotsLeft(disk.file[os'.dir], os.file[os'.dir])
           /\ disk' \in Medium /\ disk'.db = db /\ disk'.dir = os'.dir
           /\ disk'.file = os'.file /\ disk'.behind = {}
           /\ conn' = [c \in Conn |-> Closed] /\ lock' = [c \in Conn |-> 0]
           /\ mode' = mode /\ txn' = txn
  <1>1. PICK db \in PagesLeft,
             dir \in IF disk.dir = os.dir THEN {os.dir} ELSE {disk.dir, os.dir, 0} :
          \E S \in IF dir = 0 THEN {<<>>} ELSE SlotsLeft(disk.file[dir], os.file[dir]) :
            os' = [db |-> db, dir |-> dir,
                   file |-> [i \in Inode |-> IF i = dir THEN S ELSE <<>>]]
    BY DEF PowerLoss
  <1>2. PICK S \in IF dir = 0 THEN {<<>>} ELSE SlotsLeft(disk.file[dir], os.file[dir]) :
            os' = [db |-> db, dir |-> dir,
                   file |-> [i \in Inode |-> IF i = dir THEN S ELSE <<>>]]
    BY <1>1
  <1>3. dir \in {0} \cup Inode /\ (dir \in {disk.dir, os.dir} \/ (disk.dir # os.dir /\ dir = 0))
    BY Stored
  <1>4. S \in Seq(Slot) /\ (dir # 0 => S \in SlotsLeft(disk.file[dir], os.file[dir]))
    <2>1. CASE dir = 0
      BY <2>1
    <2>2. CASE dir # 0
      <3>1. disk.file[dir] \in Seq(Slot) /\ os.file[dir] \in Seq(Slot)
        BY <1>3, <2>2, Stored DEF Files
      <3>2. S \in SlotsLeft(disk.file[dir], os.file[dir])
        BY <2>2
      <3> QED  BY <2>2, <3>1, <3>2, SlotsLeftProperty
    <2> QED  BY <2>1, <2>2
  <1>5. db \in Pages
    BY PagesLeftProperty
  <1> DEFINE f == [i \in Inode |-> IF i = dir THEN S ELSE <<>>]
  <1>6. f \in Files
    BY <1>4 DEF Files
  <1>7. os' = [db |-> db, dir |-> dir, file |-> f]
    BY <1>2
  <1>8. f = [i \in Inode |-> IF i = os'.dir THEN S ELSE <<>>]
    <2>1. os'.dir = dir
      BY <1>7
    <2> QED  BY <2>1
  <1> HIDE DEF f
  <1>9. os'.db = db /\ os'.dir = dir /\ os'.file = f /\ os' \in FileSystem
    BY <1>3, <1>5, <1>6, <1>7 DEF FileSystem
  <1>10. disk' = [db |-> os'.db, dir |-> os'.dir, file |-> os'.file, behind |-> {}]
    BY DEF PowerLoss
  <1>11. /\ disk' \in Medium /\ disk'.db = db /\ disk'.dir = os'.dir
         /\ disk'.file = os'.file /\ disk'.behind = {}
    BY <1>3, <1>5, <1>6, <1>9, <1>10 DEF Medium
  <1>12. conn' = [c \in Conn |-> Closed] /\ lock' = [c \in Conn |-> 0] /\ mode' = mode /\ txn' = txn
    BY DEF PowerLoss, FL!Drop
  <1>13. /\ os'.dir \in {disk.dir, os.dir} \/ (disk.dir # os.dir /\ os'.dir = 0)
         /\ os'.file = [i \in Inode |-> IF i = os'.dir THEN S ELSE <<>>]
         /\ os'.dir # 0 => S \in SlotsLeft(disk.file[os'.dir], os.file[os'.dir])
    BY <1>3, <1>4, <1>8, <1>9
  <1> QED
    BY <1>4, <1>9, <1>11, <1>12, <1>13

LEMMA PowerLossShape ==
  ASSUME Shape, PowerLoss
  PROVE  Shape'
  <1>1. /\ os' \in FileSystem /\ disk' \in Medium /\ mode' = mode /\ txn' = txn
        /\ conn' = [c \in Conn |-> Closed] /\ lock' = [c \in Conn |-> 0]
    BY PowerLossEffect
  <1>2. /\ Closed \in PagerRecord /\ Control(Closed, 0) /\ Changes(Closed)
        /\ HasJournal(Closed, os'.file, txn')
    BY StartShape
  <1>3. conn' \in [Conn -> PagerRecord] /\ lock' \in [Conn -> 0..4]
        /\ \A c \in Conn : conn'[c] = Closed /\ lock'[c] = 0
    <2> HIDE DEF Closed
    <2> QED  BY <1>1, <1>2
  <1>4. Types'
    BY <1>1, <1>3, Stored DEF Types
  <1>5. Locks'
    BY <1>3 DEF Locks
  <1> QED
    BY <1>2, <1>3, <1>4, <1>5 DEF Shape

LEMMA InitShape ==
  ASSUME Init
  PROVE  Shape
  <1>0. MaxPage \in Nat /\ InitSizes \subseteq 1..MaxPage /\ MaxTxn \in Nat
    BY PagerAssumption
  <1>2. /\ Closed \in PagerRecord /\ Control(Closed, 0) /\ Changes(Closed)
        /\ HasJournal(Closed, os.file, txn)
    BY StartShape
  <1>3. PICK n \in InitSizes :
          os = [db |-> [p \in Page |-> IF p <= n THEN 0 ELSE Absent],
                dir |-> 0, file |-> [i \in Inode |-> <<>>]]
    BY DEF Init
  <1>1. 1 \in Page
    BY <1>0, <1>3 DEF Page
  <1>4. os \in FileSystem
    <2> DEFINE d == [p \in Page |-> IF p <= n THEN 0 ELSE Absent]
               f == [i \in Inode |-> <<>>]
    <2>1. d \in Pages
      BY DEF Pages, Absent
    <2>2. f \in Files
      BY DEF Files
    <2>3. os = [db |-> d, dir |-> 0, file |-> f]
      BY <1>3
    <2> HIDE DEF d, f
    <2> QED  BY <2>1, <2>2, <2>3 DEF FileSystem
  <1>5. disk \in Medium
    <2>1. disk = [db |-> os.db, dir |-> 0, file |-> os.file, behind |-> {}]
      BY DEF Init
    <2>2. os.db \in Pages /\ os.file \in Files
      BY <1>4 DEF FileSystem
    <2> QED  BY <2>1, <2>2 DEF Medium
  <1>6. conn \in [Conn -> PagerRecord] /\ lock \in [Conn -> 0..4]
        /\ \A c \in Conn : conn[c] = Closed /\ lock[c] = 0
    <2>1. conn = [c \in Conn |-> Closed] /\ lock = [c \in Conn |-> 0]
      BY DEF Init, FL!Init
    <2> QED  BY <1>2, <2>1
  <1>7. Types
    BY <1>0, <1>1, <1>4, <1>5, <1>6 DEF Types, Init
  <1>8. Locks
    BY <1>6 DEF Locks
  <1> QED
    BY <1>2, <1>6, <1>7, <1>8 DEF Shape

(* Every step keeps the shape. *)
LEMMA ShapeStep ==
  ASSUME Shape, [Next]_vars
  PROVE  Shape'
  <1>1. CASE UNCHANGED vars
    BY <1>1 DEF vars, Shape, Types, Locks
  <1>2. ASSUME NEW c \in Conn,
               \/ SharedLock(c) \/ JournalExists(c) \/ CheckReservedLock(c)
               \/ FirstByte(c) \/ HotLock(c) \/ HotOpen(c) \/ HotSync(c)
               \/ CheckVersion(c) \/ ReadHdr(c) \/ PlayRecord(c) \/ PlaybackSync(c)
               \/ Finalize(c) \/ FinalizeSync(c) \/ EndRead(c) \/ Begin(c)
               \/ \E p \in Page : Get(c, p) \/ Write(c, p) \/ Spill(c, p)
               \/ Commit(c) \/ ExclusiveLock(c) \/ ChangeCounter(c)
               \/ JournalSync(c) \/ JournalCount(c) \/ JournalSync2(c)
               \/ WritePage(c) \/ DbSync(c) \/ Rollback(c)
               \/ ErrorUnlock(c) \/ Fault(c) \/ Kill(c)
        PROVE  Shape'
    BY <1>2, SharedLockShape, JournalExistsShape, HotLockShape, HotOpenShape,
       HotSyncShape, CheckVersionShape, ReadHdrShape, PlayRecordShape,
       PlaybackSyncShape, FinalizeShape, FinalizeSyncShape, EndReadShape,
       BeginShape, GetShape, WriteShape, SpillShape, CommitShape,
       ExclusiveLockShape, ChangeCounterShape, JournalSyncShape,
       JournalCountShape, JournalSync2Shape, WritePageShape, DbSyncShape,
       RollbackShape, ErrorUnlockShape, FaultShape, KillShape
  <1> QED
    BY <1>1, <1>2, PowerLossShape DEF Next

(* Whatever connections and failures do, each connection is at a step of   *)
(* a call with the locks that step relies on, has a journal it has written *)
(* as far as it believes, and knows which of its pages wait for a sync.    *)
THEOREM ShapeInvariant == Spec => []Shape
  <1>1. Init => Shape
    BY InitShape
  <1>2. Shape /\ [Next]_vars => Shape'
    BY ShapeStep
  <1> QED
    BY <1>1, <1>2, PTL DEF Spec
=============================================================================
