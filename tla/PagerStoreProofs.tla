-------------------------- MODULE PagerStoreProofs --------------------------
(***************************************************************************)
(* The pager implements AtomicStore, for connections that delete their     *)
(* journals and journals that do not end on a sector boundary: each of its *)
(* steps is a step of the abstract store, or changes nothing there.        *)
(***************************************************************************)
EXTENDS PagerRecoveryProofs

USE DEF Entering, Replaying, Committing, Writers, FL!NO_LOCK, FL!SHARED_LOCK,
        FL!RESERVED_LOCK, FL!PENDING_LOCK, FL!EXCLUSIVE_LOCK, FL!Level

-----------------------------------------------------------------------------
(* View and Writing, of a connection r and a file system o *)
Sees(r, db) ==
  [p \in Page |-> IF p > r.dbSize THEN Absent
                  ELSE IF r.cache[p] # Absent THEN r.cache[p] ELSE db[p]]

ViewOf(r, o) ==
  IF r.eState \in {"OPEN", "ERROR"} THEN NoView
  ELSE IF IsRollingBack(r) THEN Restored(o) ELSE Sees(r, o.db)

Writes(r) ==
  /\ r.eState \in {"LOCKED", "CACHEMOD", "DBMOD", "FINISHED"}
  /\ ~IsRollingBack(r)
  /\ r.pc # "finsync"

Contents == [Page -> 0..MaxTxn \cup {Absent}]

(* Whoever is not writing sees the committed content I or nothing; a       *)
(* writer starts with I and sees a content without damaged pages.          *)
Classified(r, o, I) ==
  /\ ~Writes(r) => ViewOf(r, o) \in {NoView, I}
  /\ r.eState \in {"READER", "LOCKED"} => ViewOf(r, o) = I
  /\ Writes(r) => ViewOf(r, o) \in Contents
  /\ r.eState = "FINISHED" => Writes(r) /\ ViewOf(r, o) = o.db

LEMMA ImageContents ==
  ASSUME NEW K \in Image
  PROVE  K \in Contents
  BY ImageProperty DEF Contents, Value, Pages

(* A cache that agrees with the file shows the file. *)
LEMMA AgreedView ==
  ASSUME NEW r, NEW db \in Image, Agrees(r.cache, db), r.dbSize = SizeOf(db)
  PROVE  Sees(r, db) = db
  <1>1. db \in Pages /\ \A p \in Page : p > SizeOf(db) => db[p] = Absent
    BY ImageProperty
  <1>2. \A p \in Page : Sees(r, db)[p] = db[p]
    BY <1>1 DEF Sees, Agrees
  <1>3. Sees(r, db) = [p \in Page |-> db[p]]
    BY <1>2 DEF Sees
  <1> QED  BY <1>1, <1>3 DEF Pages

(* Where the cache of a writer has nothing, the file has not been changed. *)
LEMMA WriterView ==
  ASSUME NEW r \in PagerRecord, NEW S, NEW T, NEW db, NEW b, NEW I \in Image, NEW m \in Nat, NEW n,
         Leads(S, T, db, b, I, m), OwnSlots(r, T, I, m, n), Writer(r, T, db, I, m),
         Sound(r), r.jhdr <= r.joff + 1
  PROVE  Sees(r, db) \in Contents
  <1>1. ASSUME NEW p \in Page PROVE Sees(r, db)[p] \in 0..MaxTxn \cup {Absent}
    <2>1. r.dbSize \in Nat /\ r.orig \in Nat /\ p \in Nat
      BY DEF PagerRecord, Page
    <2>2. CASE p > r.dbSize
      BY <2>2 DEF Sees
    <2>3. CASE p <= r.dbSize /\ r.cache[p] # Absent
      <3>1. r.cache[p] \in Value
        BY <2>3 DEF Sound
      <3> QED  BY <2>1, <2>3, <3>1 DEF Sees, Value
    <2>4. CASE p <= r.dbSize /\ r.cache[p] = Absent
      <3>1. p <= r.orig
        BY <2>1, <2>4 DEF Writer
      <3>2. p \notin r.inJournal
        BY <2>4 DEF OwnSlots
      <3>3. db[p] = I[p]
        BY <3>1, <3>2, Untouched
      <3>4. I[p] \in Value \cup {Absent}
        BY ImageProperty
      <3> QED  BY <2>1, <2>4, <3>3, <3>4 DEF Sees, Value
    <2> QED  BY <2>1, <2>2, <2>3, <2>4
  <1> QED  BY <1>1 DEF Sees, Contents

(* The same for every state of a connection that the invariants allow *)
LEMMA ViewClassified ==
  ASSUME NEW r \in PagerRecord, NEW l, Control(r, l), NEW o \in FileSystem, NEW d \in Medium,
         NEW I, NEW J, NEW m, NEW n, Global(I, J, m, o, d, n), Facts(r, l, I, m, o, d, n),
         HasJournal(r, o.file, n), r.eState \in Writers => o.dir = r.jfd, r.pc # "finsync"
  PROVE  Classified(r, o, I)
  <1>1. /\ I \in Image /\ m \in Nat /\ Committed(I, m, o, d) /\ Restored(o) = I
    BY GlobalRestored DEF Global
  <1>2. Sound(r) /\ Reader(r, I) /\ (MayRead(r, l) => Clean(I, o, d)) /\ Txn(r, I, m, o, d, n)
    BY DEF Facts, Cached
  <1>3. r.eState \in {"OPEN", "READER", "LOCKED", "ERROR", "CACHEMOD", "DBMOD", "FINISHED"}
    BY DEF PagerRecord
  <1>4. CASE r.eState \in {"OPEN", "ERROR"}
    BY <1>4 DEF Classified, Writes, ViewOf
  <1>5. CASE r.eState \in {"READER", "LOCKED"}
    <2>1. MayRead(r, l) /\ ~IsRollingBack(r)
      BY <1>5 DEF MayRead, Control, IsRollingBack
    <2>2. o.db = I
      BY <1>2, <2>1 DEF Clean, Plain
    <2>3. Agrees(r.cache, I) /\ r.dbSize = SizeOf(I)
      BY <1>2, <1>5 DEF Reader
    <2>4. Sees(r, I) = I
      BY <1>1, <2>3, AgreedView
    <2>5. ViewOf(r, o) = I
      BY <1>5, <2>1, <2>2, <2>4 DEF ViewOf
    <2>6. I \in Contents
      BY <1>1, ImageContents
    <2> QED  BY <1>5, <2>5, <2>6 DEF Classified
  <1>6. CASE r.eState = "FINISHED"
    <2>1. Finished(r, I, o, d, n) /\ ~IsRollingBack(r)
      BY <1>2, <1>6 DEF Txn, Control, IsRollingBack
    <2>2. o.db \in Image /\ Agrees(r.cache, o.db) /\ r.dbSize = SizeOf(o.db)
      BY <2>1 DEF Finished
    <2>3. Sees(r, o.db) = o.db
      BY <2>2, AgreedView
    <2>4. ViewOf(r, o) = o.db
      BY <1>6, <2>1, <2>3 DEF ViewOf
    <2>5. o.db \in Contents
      BY <2>2, ImageContents
    <2> QED  BY <1>6, <2>1, <2>4, <2>5 DEF Classified, Writes
  <1>7. CASE Changing(r) /\ IsRollingBack(r)
    BY <1>1, <1>7 DEF Classified, Writes, ViewOf, Changing
  <1>8. CASE Changing(r) /\ ~IsRollingBack(r)
    <2>1. r.eState \in {"CACHEMOD", "DBMOD"} /\ r.eState \in Writers
      BY <1>8 DEF Changing
    <2>2. r.pc \notin Replaying
      BY <1>8, <2>1 DEF IsRollingBack
    <2>3. /\ r.jfd # 0 /\ o.dir = r.jfd /\ o.dir # 0
          /\ r.jhdr <= r.joff + 1
      BY <2>1 DEF HasJournal, PagerRecord
    <2>4. Leads(d.file[o.dir], o.file[o.dir], o.db, d.behind, I, m)
      BY <1>1, <2>3 DEF Committed
    <2>5. OwnSlots(r, o.file[o.dir], I, m, n) /\ Writer(r, o.file[o.dir], o.db, I, m)
      BY <1>2, <1>8, <2>2, <2>3 DEF Txn
    <2>6. Sees(r, o.db) \in Contents
      BY <1>1, <1>2, <2>3, <2>4, <2>5, WriterView
    <2>7. Writes(r) /\ ViewOf(r, o) = Sees(r, o.db)
      BY <1>8, <2>1, <2>2 DEF Writes, ViewOf
    <2> QED  BY <2>1, <2>6, <2>7 DEF Classified
  <1> QED  BY <1>3, <1>4, <1>5, <1>6, <1>7, <1>8 DEF Changing

(* Applied to a state *)
LEMMA NowClassified ==
  ASSUME Modes = {"DELETE"}, Shape, AllNamed, NEW I, NEW J, NEW m, Recovers(I, J, m)
  PROVE  /\ Restored(os) = I /\ Restored(disk) = J
         /\ \A c \in Conn : Classified(conn[c], os, I)
  <1>1. Global(I, J, m, os, disk, txn) /\ os \in FileSystem /\ disk \in Medium
    BY Stored DEF Recovers
  <1>2. ASSUME NEW c \in Conn PROVE Classified(conn[c], os, I)
    <2>1. /\ conn[c] \in PagerRecord /\ Control(conn[c], lock[c])
          /\ HasJournal(conn[c], os.file, txn)
      BY Own
    <2>2. /\ conn[c].eState \in Writers => os.dir = conn[c].jfd
          /\ conn[c].pc # "finsync"
      BY DEF AllNamed, Named
    <2>3. Facts(conn[c], lock[c], I, m, os, disk, txn)
      BY DEF Recovers
    <2> QED  BY <1>1, <2>1, <2>2, <2>3, ViewClassified
  <1> QED  BY <1>1, <1>2, GlobalRestored

(* and to the next one *)
LEMMA ThenClassified ==
  ASSUME Modes = {"DELETE"}, Shape', AllNamed', NEW K, NEW L, Reaches(K, L)
  PROVE  /\ Restored(os') = K /\ Restored(disk') = L
         /\ \A c \in Conn : Classified(conn'[c], os', K)
  <1>0. PICK k \in Nat : Recovers(K, L, k)'
    BY DEF Reaches
  <1> DEFINE o1 == os'
             d1 == disk'
             n1 == txn'
  <1>1. Global(K, L, k, o1, d1, n1) /\ o1 \in FileSystem /\ d1 \in Medium
    BY <1>0 DEF Recovers, Shape, Types
  <1>2. ASSUME NEW c \in Conn PROVE Classified(conn'[c], o1, K)
    <2> DEFINE r == conn'[c]
               l == lock'[c]
    <2>1. /\ r \in PagerRecord /\ Control(r, l)
          /\ HasJournal(r, o1.file, n1)
      BY DEF Shape, Types
    <2>2. /\ r.eState \in Writers => o1.dir = r.jfd
          /\ r.pc # "finsync"
      BY DEF AllNamed, Named
    <2>3. Facts(r, l, K, k, o1, d1, n1)
      BY <1>0 DEF Recovers
    <2>4. Classified(r, o1, K)
      <3> HIDE DEF r, l, o1, d1, n1
      <3> QED  BY <1>1, <2>1, <2>2, <2>3, ViewClassified
    <2> QED  BY <2>4
  <1>3. Restored(o1) = K /\ Restored(d1) = L
    <2> HIDE DEF o1, d1, n1
    <2> QED  BY <1>1, GlobalRestored
  <1> QED  BY <1>2, <1>3

-----------------------------------------------------------------------------
(* sqlite3PagerBegin is the only way into a write transaction. *)
LEMMA OnlyBegin ==
  ASSUME Shape, NEW c \in Conn, Step(c), ~Begin(c), Writes(conn'[c])
  PROVE  Writes(conn[c])
  <1> DEFINE r == conn[c]
             q == conn'[c]
  <1>1. r \in PagerRecord /\ Control(r, lock[c])
    BY Own
  <1>2. /\ \A s : Set(c, s) => q = s
        /\ \A x : Goto(c, x) => q.eState = r.eState /\ q.pc = x
    <2>1. ASSUME NEW s, Set(c, s) PROVE q = s
      BY <2>1, SetEffect
    <2>2. ASSUME NEW x, Goto(c, x) PROVE q.eState = r.eState /\ q.pc = x
      <3>1. q = [r EXCEPT !.pc = x]
        BY <2>1, <2>2 DEF Goto
      <3> QED  BY <1>1, <3>1 DEF PagerRecord
    <2> QED  BY <2>1, <2>2
  <1>3. /\ r.eState \in {"OPEN", "READER", "LOCKED", "ERROR"} \cup Writers
        /\ r.hot \in BOOLEAN
    BY <1>1 DEF PagerRecord
  <1>4. ASSUME r.eState \in {"LOCKED"} \cup Writers, r.pc \notin Replaying
        PROVE  Writes(conn[c])
    BY <1>4 DEF Writes, IsRollingBack
  <1>5. ASSUME q.eState \in {"OPEN", "READER", "ERROR"} PROVE FALSE
    BY <1>5 DEF Writes
  <1>6. ASSUME q.pc \in {"hdr", "rec", "rsync"} PROVE FALSE
    BY <1>6 DEF Writes, IsRollingBack
  <1>7. ASSUME q.pc = "fin", q.eState # "FINISHED" PROVE FALSE
    BY <1>7 DEF Writes, IsRollingBack
  <1>8. CASE SharedLock(c) \/ JournalExists(c) \/ CheckReservedLock(c) \/ FirstByte(c) \/ HotSync(c)
    <2>1. r.eState = "OPEN"
      BY <1>1, <1>8 DEF Control, SharedLock, JournalExists, CheckReservedLock, FirstByte,
         HotSync, Idle, At
    <2>2. q.eState = r.eState
      BY <1>1, <1>2, <1>8 DEF PagerRecord, SharedLock, JournalExists, CheckReservedLock, FirstByte,
         HotSync
    <2> QED  BY <1>5, <2>1, <2>2
  <1>9. CASE HotLock(c) \/ HotOpen(c)
    <2>1. r.eState = "OPEN"
      BY <1>1, <1>9 DEF Control, HotLock, HotOpen, At
    <2> DEFINE s1 == Unlocked(r)
               s2 == [r EXCEPT !.pc = "hsync", !.hot = TRUE, !.jfd = os.dir, !.dirSync = FALSE]
    <2>2. s1.eState = "OPEN" /\ s2.eState = r.eState
      BY <1>1 DEF PagerRecord, Unlocked
    <2>3. Goto(c, "open") \/ Goto(c, "vers") \/ Set(c, s1) \/ Set(c, s2)
      BY <1>9 DEF HotLock, HotOpen
    <2> HIDE DEF s1, s2
    <2>4. q.eState \in {r.eState, "OPEN"}
      BY <1>2, <2>2, <2>3
    <2> QED  BY <1>5, <2>1, <2>4
  <1>10. CASE CheckVersion(c) \/ EndRead(c)
    <2> DEFINE s1 == Unlocked(r)
               s2 == [r EXCEPT !.pc = "idle", !.eState = "READER", !.held = TRUE,
                               !.cache = IF Fresh(r) THEN @ ELSE NoPages,
                               !.dbSize = SizeOf(os.db)]
    <2>1. s1.eState = "OPEN" /\ s2.eState = "READER"
      BY <1>1 DEF PagerRecord, Unlocked
    <2>2. Set(c, s1) \/ Set(c, s2)
      BY <1>10 DEF CheckVersion, EndRead
    <2> HIDE DEF s1, s2
    <2> QED  BY <1>2, <1>5, <2>1, <2>2
  <1>11. CASE ReadHdr(c) \/ PlayRecord(c) \/ PlaybackSync(c)
    <2>1. r.eState # "FINISHED"
      BY <1>1, <1>11 DEF Control, ReadHdr, PlayRecord, PlaybackSync, At
    <2>2. ASSUME NEW x \in {"hdr", "rec", "rsync", "fin"}, q.pc = x, q.eState = r.eState PROVE FALSE
      BY <1>6, <1>7, <2>1, <2>2
    <2>3. AfterPlayback(r) \in {"rsync", "fin"}
      BY DEF AfterPlayback
    <2>4. q.pc \in {"hdr", "rec", "rsync", "fin"} /\ q.eState = r.eState
      <3>1. CASE ReadHdr(c)
        <4>1. CASE Goto(c, AfterPlayback(r))
          BY <1>2, <2>3, <4>1
        <4>2. CASE ~Goto(c, AfterPlayback(r))
          <5> DEFINE S == Journal(c)
                     n == IF S[r.k].val = 0 /\ OwnLast(r) THEN Len(S) - r.k
                          ELSE S[r.k].val
                     size == IF r.k = 1 THEN S[1].pg ELSE r.dbSize
                     z == [r EXCEPT !.pc = IF n = 0 THEN "hdr" ELSE "rec",
                                    !.left = n, !.seed = S[r.k].seed,
                                    !.k = @ + 1, !.dbSize = size]
          <5>1. Set(c, z)
            BY <3>1, <4>2 DEF ReadHdr
          <5>2. z.pc \in {"hdr", "rec"} /\ z.eState = r.eState
            <6> HIDE DEF n, size, S
            <6> QED  BY <1>1 DEF PagerRecord
          <5> HIDE DEF z
          <5> QED  BY <1>2, <5>1, <5>2
        <4> QED  BY <4>1, <4>2
      <3>2. CASE PlayRecord(c)
        <4> DEFINE s == Journal(c)[r.k]
                   next == [r EXCEPT !.pc = IF r.left = 1 THEN "hdr" ELSE "rec",
                                     !.left = @ - 1, !.k = @ + 1,
                                     !.cache = IF r.hot THEN NoPages ELSE @]
                   z1 == [r EXCEPT !.pc = AfterPlayback(r),
                                   !.cache = IF r.hot THEN NoPages ELSE @]
                   z2 == [next EXCEPT !.cache[s.pg] = s.val,
                                      !.vers = IF s.pg = 1 THEN s.val ELSE @]
        <4>1. Set(c, z1) \/ Set(c, next) \/ Set(c, z2)
          BY <3>2 DEF PlayRecord
        <4>2. z1.pc \in {"rsync", "fin"} /\ z1.eState = r.eState
          BY <1>1, <2>3 DEF PagerRecord
        <4>3. next.pc \in {"hdr", "rec"} /\ next.eState = r.eState
          BY <1>1 DEF PagerRecord
        <4>4. z2.pc \in {"hdr", "rec"} /\ z2.eState = r.eState
          <5> HIDE DEF s
          <5> QED  BY <1>1 DEF PagerRecord
        <4> HIDE DEF z1, z2, next
        <4> QED  BY <1>2, <4>1, <4>2, <4>3, <4>4
      <3>3. CASE PlaybackSync(c)
        BY <1>1, <1>2, <3>3 DEF PagerRecord, PlaybackSync
      <3> QED  BY <1>11, <3>1, <3>2, <3>3
    <2> QED  BY <2>2, <2>4
  <1>12. CASE Finalize(c)
    <2> DEFINE s1 == [r EXCEPT !.jfd = 0, !.dirSync = FALSE]
    <2>1. s1 \in PagerRecord
      BY <1>1 DEF PagerRecord
    <2>2. q = Ended(s1) \/ q = Ended(r) \/ q.pc = "finsync"
      BY <1>2, <1>12 DEF Finalize, EndTransaction
    <2>3. ASSUME NEW s \in PagerRecord, q = Ended(s) PROVE FALSE
      <3>1. q.eState \in {"OPEN", "READER"}
        BY <2>3 DEF Ended, PagerRecord
      <3> QED  BY <1>5, <3>1
    <2>4. ASSUME q.pc = "finsync" PROVE FALSE
      BY <2>4 DEF Writes
    <2> HIDE DEF s1
    <2> QED  BY <1>1, <2>1, <2>2, <2>3, <2>4
  <1>13. CASE FinalizeSync(c)
    <2> DEFINE s == [r EXCEPT !.dirSync = FALSE]
    <2>1. s \in PagerRecord /\ q = Ended(s)
      BY <1>1, <1>2, <1>13 DEF PagerRecord, FinalizeSync, EndTransaction
    <2>2. q.eState \in {"OPEN", "READER"}
      <3> HIDE DEF s
      <3> QED  BY <2>1 DEF Ended, PagerRecord
    <2> QED  BY <1>5, <2>2
  <1>14. ASSUME NEW p \in Page, Get(c, p) PROVE Writes(conn[c])
    <2>1. q.eState = r.eState /\ r.eState \in {"READER", "LOCKED", "CACHEMOD", "DBMOD"} /\ r.pc = "idle"
      BY <1>1, <1>2, <1>14 DEF PagerRecord, Get, Idle
    <2> QED  BY <1>4, <1>5, <2>1
  <1>15. ASSUME NEW p \in Page, Write(c, p) \/ Spill(c, p) PROVE Writes(conn[c])
    BY <1>4, <1>15 DEF Write, Spill, Idle
  <1>16. CASE Commit(c) \/ Rollback(c)
    BY <1>4, <1>16 DEF Commit, Rollback, Idle
  <1>17. CASE ExclusiveLock(c) \/ ChangeCounter(c) \/ JournalSync(c) \/ JournalCount(c) \/ JournalSync2(c)
              \/ WritePage(c) \/ DbSync(c)
    <2>1. r.pc \in Committing \cup {"jexcl", "wpage", "dbsync"}
      BY <1>17 DEF ExclusiveLock, ChangeCounter, JournalSync, JournalCount, JournalSync2,
         WritePage, DbSync, At
    <2> QED  BY <1>1, <1>4, <2>1 DEF Control
  <1>18. CASE ErrorUnlock(c) \/ Kill(c)
    <2> DEFINE s1 == Closed
               s2 == [Closed EXCEPT !.vers = conn[c].vers, !.held = conn[c].held]
    <2>1. s1.eState = "OPEN" /\ s2.eState = "OPEN"
      BY DEF Closed
    <2>2. Set(c, s1) \/ Set(c, s2)
      BY <1>18 DEF ErrorUnlock, Kill
    <2> HIDE DEF s1, s2
    <2> QED  BY <1>2, <1>5, <2>1, <2>2
  <1>19. CASE Fault(c)
    <2> DEFINE s1 == Unlocked(r)
               s2 == [Closed EXCEPT !.vers = conn[c].vers, !.held = conn[c].held]
               s3 == InError(r)
    <2>1. s1.eState = "OPEN" /\ s2.eState = "OPEN" /\ s3.eState = "ERROR"
      BY <1>1 DEF PagerRecord, Closed, Unlocked, InError
    <2>2. \/ r.pc \in {"jsync", "jnrec", "jsync2", "wpage", "dbsync"}
          \/ Set(c, s1) \/ Set(c, s2) \/ Set(c, s3)
      BY <1>19 DEF Fault
    <2> HIDE DEF s1, s2, s3
    <2>3. \/ r.pc \in {"jsync", "jnrec", "jsync2", "wpage", "dbsync"}
          \/ q.eState \in {"OPEN", "ERROR"}
      BY <1>2, <2>1, <2>2
    <2> QED  BY <1>1, <1>4, <1>5, <2>3 DEF Control
  <1> QED
    BY <1>8, <1>9, <1>10, <1>11, <1>12, <1>13, <1>14, <1>15, <1>16, <1>17, <1>18, <1>19 DEF Step

(* What the other connections see stays as it is. *)
LEMMA OthersSee ==
  ASSUME Shape, NEW c \in Conn, Moves(c), Restored(os') = Restored(os), NEW x \in Conn, x # c
  PROVE  /\ ViewOf(conn'[x], os') = ViewOf(conn[x], os)
         /\ Writes(conn'[x]) <=> Writes(conn[x])
  <1>1. conn'[x] = conn[x] /\ (os'.db = os.db \/ lock[c] = 4)
    BY DEF Moves
  <1>2. CASE os'.db = os.db
    BY <1>1, <1>2 DEF ViewOf
  <1>3. CASE lock[c] = 4
    <2>1. lock[x] = 0
      BY <1>3 DEF Shape, Locks
    <2>2. conn[x] \in PagerRecord /\ Control(conn[x], lock[x])
      BY Own
    <2>3. conn[x].eState = "OPEN"
      BY <2>1, <2>2 DEF Control, PagerRecord
    <2> QED  BY <1>1, <2>3 DEF ViewOf
  <1> QED  BY <1>1, <1>2, <1>3

(* A sync of the journal changes nothing that its connection sees. *)
LEMMA SyncSees ==
  ASSUME Shape, NEW c \in Conn, SyncStep(c)
  PROVE  /\ ViewOf(conn'[c], os') = ViewOf(conn[c], os)
         /\ Writes(conn'[c]) <=> Writes(conn[c])
  <1> DEFINE r == conn[c]
             q == conn'[c]
  <1>1. r \in PagerRecord /\ Control(r, lock[c]) /\ os \in FileSystem
    BY Own, Stored
  <1>2. ASSUME NEW s, Set(c, s) PROVE q = s
    BY <1>2, SetEffect
  <1>3. CASE HotSync(c)
    <2> DEFINE s == [r EXCEPT !.pc = "hdr", !.k = 1, !.jhdr = Len(Journal(c)) + 1]
    <2>1. Set(c, s) /\ r.pc = "hsync"
      BY <1>3 DEF HotSync, At
    <2>2. r.eState = "OPEN" /\ s.eState = r.eState
      BY <1>1, <2>1 DEF Control, PagerRecord
    <2> HIDE DEF s
    <2>3. q.eState = "OPEN"
      BY <1>2, <2>1, <2>2
    <2> QED  BY <2>2, <2>3 DEF ViewOf, Writes
  <1>4. ASSUME r.pc \in Committing, q.cache = r.cache, q.dbSize = r.dbSize, os'.db = os.db,
               q.eState \in {"CACHEMOD", "DBMOD"}, q.pc \in {"jnrec", "wpage"}
        PROVE  ViewOf(q, os') = ViewOf(r, os) /\ Writes(q) /\ Writes(r)
    <2>1. r.eState \in {"CACHEMOD", "DBMOD"}
      BY <1>1, <1>4 DEF Control
    <2>2. ~IsRollingBack(r) /\ ~IsRollingBack(q)
      BY <1>4 DEF IsRollingBack
    <2>3. Sees(q, os'.db) = Sees(r, os.db)
      BY <1>4 DEF Sees
    <2>4. ViewOf(r, os) = Sees(r, os.db) /\ ViewOf(q, os') = Sees(q, os'.db)
      BY <1>4, <2>1, <2>2 DEF ViewOf
    <2>5. Writes(r) /\ Writes(q)
      BY <1>4, <2>1, <2>2 DEF Writes
    <2> QED  BY <2>3, <2>4, <2>5
  <1>5. CASE JournalSync(c)
    <2> DEFINE s == [r EXCEPT !.pc = "jnrec", !.dirSync = FALSE]
    <2>1. Set(c, s) /\ r.pc = "jsync" /\ os'.db = os.db
      BY <1>1, <1>5 DEF JournalSync, At, FileSystem
    <2>2. /\ s.cache = r.cache /\ s.dbSize = r.dbSize /\ s.eState = r.eState /\ s.pc = "jnrec"
          /\ r.eState \in {"CACHEMOD", "DBMOD"}
      BY <1>1, <2>1 DEF Control, PagerRecord
    <2> HIDE DEF s
    <2>3. q = s
      BY <1>2, <2>1
    <2> QED  BY <1>4, <2>1, <2>2, <2>3
  <1>6. CASE JournalSync2(c)
    <2> DEFINE n == r.joff + 1
               z == [r EXCEPT !.pc = "wpage", !.eState = "DBMOD", !.needSync = {},
                              !.dirSync = FALSE, !.jhdr = n]
               s1 == [z EXCEPT !.last = IF Aligned THEN n ELSE 0]
               s2 == [z EXCEPT !.last = n, !.joff = n, !.nRec = 0]
    <2>1. (Set(c, s1) \/ Set(c, s2)) /\ r.pc = "jsync2" /\ os'.db = os.db
      BY <1>1, <1>6 DEF JournalSync2, At, FileSystem
    <2>2. /\ s1.cache = r.cache /\ s1.dbSize = r.dbSize /\ s1.eState = "DBMOD" /\ s1.pc = "wpage"
          /\ s2.cache = r.cache /\ s2.dbSize = r.dbSize /\ s2.eState = "DBMOD" /\ s2.pc = "wpage"
      BY <1>1 DEF PagerRecord
    <2> HIDE DEF s1, s2
    <2>3. q = s1 \/ q = s2
      BY <1>2, <2>1
    <2> QED  BY <1>4, <2>1, <2>2, <2>3
  <1> QED  BY <1>3, <1>5, <1>6 DEF SyncStep

-----------------------------------------------------------------------------
(* The variables of AtomicStore, before and after a step *)
LEMMA Mapped ==
  /\ [c \in Conn |-> View(c)] = [c \in Conn |-> ViewOf(conn[c], os)]
  /\ Writing = {c \in Conn : Writes(conn[c])}
  /\ [c \in Conn |-> View(c)]' = [c \in Conn |-> ViewOf(conn'[c], os')]
  /\ Writing' = {c \in Conn : Writes(conn'[c])}
  BY DEF View, ViewOf, Overlay, Sees, Writing, Writes

(* Writers hold the RESERVED lock: there is one at a time. *)
LEMMA OneWriter ==
  ASSUME Shape, NEW c \in Conn, Writes(conn[c])
  PROVE  /\ lock[c] >= 2
         /\ Writing = {c}
  <1>1. ASSUME NEW x \in Conn, Writes(conn[x]) PROVE lock[x] >= 2 /\ lock[x] \in Nat
    <2>1. conn[x] \in PagerRecord /\ Control(conn[x], lock[x]) /\ lock[x] \in 0..4
      BY Own
    <2> QED  BY <1>1, <2>1 DEF Writes, Control
  <1>2. ASSUME NEW x \in Conn, Writes(conn[x]) PROVE x = c
    <2>1. lock[x] >= 2 /\ lock[c] >= 2 /\ lock[x] \in Nat
      BY <1>1, <1>2
    <2>2. x # c => lock[x] <= 1
      BY <2>1 DEF Shape, Locks
    <2> QED  BY <2>1, <2>2
  <1> QED  BY <1>1, <1>2, Mapped

(* A step that keeps both contents: its connection begins or ends to read, *)
(* begins, goes on with or gives up a write transaction.                   *)
LEMMA StaysStore ==
  ASSUME Modes = {"DELETE"}, Shape, Shape', AllNamed, AllNamed', NEW c \in Conn, Step(c), Stays(c)
  PROVE  Store!Next \/ UNCHANGED Store!vars
  <1>1. PICK I \in Image, J \in Image, m \in Nat : Recovers(I, J, m) /\ Reaches(I, J)
    BY DEF Stays
  <1>2. /\ Restored(os) = I /\ Restored(disk) = J
        /\ \A x \in Conn : Classified(conn[x], os, I)
    BY <1>1, NowClassified
  <1>3. /\ Restored(os') = I /\ Restored(disk') = J
        /\ \A x \in Conn : Classified(conn'[x], os', I)
    BY <1>1, ThenClassified
  <1> DEFINE V == [x \in Conn |-> ViewOf(conn[x], os)]
             V1 == [x \in Conn |-> ViewOf(conn'[x], os')]
             W == {x \in Conn : Writes(conn[x])}
             W1 == {x \in Conn : Writes(conn'[x])}
  <1>4. /\ [x \in Conn |-> View(x)] = V /\ [x \in Conn |-> View(x)]' = V1
        /\ Writing = W /\ Writing' = W1
    BY Mapped
  <1>5. Restored(os)' = Restored(os) /\ Restored(disk)' = Restored(disk)
    BY <1>2, <1>3
  <1>6. ASSUME NEW x \in Conn, x # c PROVE V1[x] = V[x] /\ (x \in W1 <=> x \in W)
    <2>1. Moves(c)
      BY DEF Stays
    <2> QED  BY <1>2, <1>3, <1>6, <2>1, OthersSee
  <1>7. /\ c \notin W => V[c] \in {NoView, I}
        /\ c \notin W1 => V1[c] \in {NoView, I}
        /\ c \in W1 => V1[c] \in Contents
    BY <1>2, <1>3 DEF Classified
  <1>8. c \in W => W = {c}
    BY <1>4, OneWriter
  <1>9. c \in W1 => c \in W \/ Begin(c)
    BY OnlyBegin
  <1>10. ASSUME Begin(c) PROVE V[c] = I /\ V1[c] = I /\ W = {} /\ c \in W1
    <2>1. conn[c].eState = "READER" /\ \A x \in Conn : x # c => lock[x] < 2
      BY <1>10 DEF Begin, Idle, FL!Reserved, FL!Others
    <2>2. ~Writes(conn[c])
      BY <2>1 DEF Writes
    <2>3. W = {}
      <3>1. ASSUME NEW x \in Conn, Writes(conn[x]) PROVE FALSE
        <4>1. x # c /\ lock[x] >= 2 /\ lock[x] \in 0..4
          BY <2>2, <3>1, OneWriter, Own
        <4> QED  BY <2>1, <4>1
      <3> QED  BY <3>1
    <2>4. conn'[c].eState = "LOCKED" /\ conn'[c].pc = "idle"
      <3>1. conn[c] \in PagerRecord
        BY Own
      <3>2. conn'[c] = [conn[c] EXCEPT !.eState = "LOCKED", !.orig = conn[c].dbSize, !.joff = 0]
        BY <1>10, SetEffect DEF Begin
      <3> QED  BY <1>10, <3>1, <3>2 DEF PagerRecord, Begin, Idle
    <2>5. V[c] = I /\ V1[c] = I
      BY <1>2, <1>3, <2>1, <2>4 DEF Classified
    <2>6. c \in W1
      BY <2>4 DEF Writes, IsRollingBack
    <2> QED  BY <2>3, <2>5, <2>6
  <1>11. V \in [Conn -> {V[x] : x \in Conn}] /\ V1 = [V EXCEPT ![c] = V1[c]]
    BY <1>6
  <1>12. W \subseteq Conn /\ W1 \subseteq Conn
    OBVIOUS
  <1> HIDE DEF V, V1, W, W1
  <1>13. CASE c \in W /\ c \in W1
    <2>1. W1 = W
      BY <1>6, <1>12, <1>13
    <2>2. Store!Write(c)
      BY <1>4, <1>5, <1>7, <1>11, <1>13, <2>1 DEF Store!Write, Contents
    <2> QED  BY <2>2 DEF Store!Next
  <1>14. CASE c \in W /\ c \notin W1
    <2>1. W1 = {}
      BY <1>6, <1>8, <1>12, <1>14
    <2>2. V1[c] \in {Restored(os), NoView}
      BY <1>2, <1>7, <1>14
    <2>3. Store!Abort(c)
      BY <1>4, <1>5, <1>11, <1>14, <2>1, <2>2 DEF Store!Abort
    <2> QED  BY <2>3 DEF Store!Next
  <1>15. CASE c \notin W /\ c \in W1
    <2>1. Begin(c)
      BY <1>9, <1>15
    <2>2. V[c] = I /\ V1[c] = I /\ W = {}
      BY <1>10, <2>1
    <2>3. W1 = {c} /\ V1 = V
      BY <1>6, <1>11, <1>12, <1>15, <2>2
    <2>4. Store!BeginWrite(c)
      BY <1>2, <1>4, <1>5, <2>2, <2>3 DEF Store!BeginWrite
    <2> QED  BY <2>4 DEF Store!Next
  <1>16. CASE c \notin W /\ c \notin W1
    <2>1. W1 = W
      BY <1>6, <1>12, <1>16
    <2>2. CASE V1[c] = V[c]
      <3>1. V1 = V
        BY <1>11, <2>2
      <3> QED  BY <1>4, <1>5, <2>1, <3>1 DEF Store!vars
    <2>3. CASE V[c] = NoView /\ V1[c] = I
      <3>1. Store!BeginRead(c)
        BY <1>2, <1>4, <1>5, <1>11, <2>1, <2>3 DEF Store!BeginRead
      <3> QED  BY <3>1 DEF Store!Next
    <2>4. CASE V[c] = I /\ V1[c] = NoView
      <3>1. Store!EndRead(c)
        BY <1>4, <1>5, <1>11, <1>16, <2>1, <2>4 DEF Store!EndRead
      <3> QED  BY <3>1 DEF Store!Next
    <2> QED  BY <1>7, <1>16, <2>2, <2>3, <2>4
  <1> QED  BY <1>13, <1>14, <1>15, <1>16

(* A step that may only make the committed content durable *)
LEMMA SyncsStore ==
  ASSUME Modes = {"DELETE"}, Shape, Shape', AllNamed, AllNamed', NEW c \in Conn,
         SyncStep(c), Syncs(c)
  PROVE  Store!Next \/ UNCHANGED Store!vars
  <1>1. PICK I \in Image, J \in Image, m \in Nat :
          Recovers(I, J, m) /\ (Reaches(I, J) \/ Reaches(I, I))
    BY DEF Syncs
  <1>2. Restored(os) = I /\ Restored(disk) = J
    BY <1>1, NowClassified
  <1>3. Restored(os') = I /\ Restored(disk') \in {I, J}
    BY <1>1, ThenClassified
  <1>4. ASSUME NEW x \in Conn
        PROVE  /\ ViewOf(conn'[x], os') = ViewOf(conn[x], os)
               /\ Writes(conn'[x]) <=> Writes(conn[x])
    <2>1. Moves(c) /\ Restored(os') = Restored(os)
      BY <1>2, <1>3 DEF Syncs
    <2>2. CASE x = c
      BY <2>2, SyncSees
    <2>3. CASE x # c
      BY <2>1, <2>3, OthersSee
    <2> QED  BY <2>2, <2>3
  <1>5. [x \in Conn |-> View(x)]' = [x \in Conn |-> View(x)] /\ Writing' = Writing
    BY <1>4, Mapped
  <1>6. CASE Restored(disk') = J
    BY <1>2, <1>3, <1>5, <1>6 DEF Store!vars
  <1>7. CASE Restored(disk') = I
    <2>1. Store!Sync
      BY <1>2, <1>3, <1>5, <1>7 DEF Store!Sync
    <2> QED  BY <2>1 DEF Store!Next
  <1> QED  BY <1>3, <1>6, <1>7

(* The commit point: the journal's name goes (pager_end_transaction). *)
LEMMA CommitsStore ==
  ASSUME Modes = {"DELETE"}, Shape, Shape', AllNamed, AllNamed', NEW c \in Conn, Commits(c)
  PROVE  Store!Next
  <1>1. PICK I \in Image, K \in Image, L \in Image, m \in Nat :
          Recovers(I, I, m) /\ K = os.db /\ L \in {I, K} /\ Reaches(K, L)
    BY DEF Commits
  <1>2. /\ Restored(os) = I /\ Restored(disk) = I
        /\ \A x \in Conn : Classified(conn[x], os, I)
    BY <1>1, NowClassified
  <1>3. /\ Restored(os') = K /\ Restored(disk') = L
        /\ \A x \in Conn : Classified(conn'[x], os', K)
    BY <1>1, ThenClassified
  <1>4. conn[c].eState = "FINISHED" /\ conn'[c].eState = "READER" /\ Moves(c)
    BY DEF Commits
  <1>5. /\ Writes(conn[c]) /\ ViewOf(conn[c], os) = K
        /\ ~Writes(conn'[c]) /\ ViewOf(conn'[c], os') = K
    BY <1>1, <1>2, <1>3, <1>4 DEF Classified, Writes
  <1>6. ASSUME NEW x \in Conn, x # c
        PROVE  ViewOf(conn[x], os) = NoView /\ ViewOf(conn'[x], os') = NoView /\ ~Writes(conn'[x])
    <2>1. Control(conn[c], lock[c])
      BY Own
    <2>2. lock[c] = 4
      BY <1>4, <2>1 DEF Control
    <2>3. lock[x] = 0
      BY <1>6, <2>2 DEF Shape, Locks
    <2>4. conn[x] \in PagerRecord /\ Control(conn[x], lock[x])
      BY Own
    <2>5. conn[x].eState = "OPEN"
      BY <2>3, <2>4 DEF Control, PagerRecord
    <2>6. conn'[x] = conn[x]
      BY <1>4, <1>6 DEF Moves
    <2> QED  BY <2>5, <2>6 DEF ViewOf, Writes
  <1> DEFINE V == [x \in Conn |-> View(x)]
  <1>7. /\ V[c] = K /\ \A x \in Conn \ {c} : V[x] = NoView
        /\ V' = V
    BY <1>5, <1>6, Mapped
  <1>8. c \in Writing /\ Writing' = {}
    BY <1>5, <1>6, Mapped
  <1>9. Store!Commit(c)
    BY <1>1, <1>2, <1>3, <1>7, <1>8 DEF Store!Commit
  <1> QED  BY <1>9 DEF Store!Next

LEMMA FallsStore ==
  ASSUME Modes = {"DELETE"}, Shape, Shape', AllNamed, AllNamed', PowerLoss, Falls
  PROVE  Store!Next
  <1>1. PICK I \in Image, J \in Image, K \in Image, m \in Nat :
          Recovers(I, J, m) /\ K \in {I, J} /\ Reaches(K, K)
    BY DEF Falls
  <1>2. Restored(os) = I /\ Restored(disk) = J
    BY <1>1, NowClassified
  <1>3. Restored(os') = K /\ Restored(disk') = K
    BY <1>1, ThenClassified
  <1>4. ASSUME NEW x \in Conn PROVE ViewOf(conn'[x], os') = NoView /\ ~Writes(conn'[x])
    BY DEF PowerLoss, Closed, ViewOf, Writes
  <1>5. [x \in Conn |-> View(x)]' = [x \in Conn |-> NoView] /\ Writing' = {}
    BY <1>4, Mapped
  <1>6. Store!PowerLoss
    BY <1>1, <1>2, <1>3, <1>5 DEF Store!PowerLoss
  <1> QED  BY <1>6 DEF Store!Next

LEMMA InitStore ==
  ASSUME Modes = {"DELETE"}, ~Aligned, Init
  PROVE  Store!Init
  <1>1. \A c \in Conn : conn[c] = Closed
    BY DEF Init
  <1>2. \A c \in Conn : ViewOf(conn[c], os) = NoView /\ ~Writes(conn[c])
    BY <1>1 DEF Closed, ViewOf, Writes
  <1>3. [c \in Conn |-> View(c)] = [c \in Conn |-> NoView] /\ Writing = {}
    BY <1>2, Mapped
  <1>4. os.dir = 0 /\ disk.dir = 0 /\ disk.db = os.db /\ os.db \in Contents
    <2>1. PICK n \in InitSizes :
            os = [db |-> [p \in Page |-> IF p <= n THEN 0 ELSE Absent],
                  dir |-> 0, file |-> [i \in Inode |-> <<>>]]
      BY DEF Init
    <2>2. os.dir = 0 /\ os.db = [p \in Page |-> IF p <= n THEN 0 ELSE Absent]
      BY <2>1
    <2>3. MaxTxn \in Nat
      BY PagerAssumption
    <2>4. os.db \in Contents
      BY <2>2, <2>3 DEF Contents
    <2>5. disk.dir = 0 /\ disk.db = os.db
      BY DEF Init
    <2> QED  BY <2>2, <2>4, <2>5
  <1>5. Restored(os) = os.db /\ Restored(disk) = os.db
    BY <1>4 DEF Restored
  <1> QED  BY <1>3, <1>4, <1>5 DEF Store!Init, Contents

(* Transactions are atomic, isolated and durable, for every number of      *)
(* connections, pages, transactions and failures: whatever the connections *)
(* do and whatever fails, each step of the pager is a step of AtomicStore  *)
(* or changes nothing there.  The journal is deleted at the commit point   *)
(* (pager_end_transaction) and does not end on a sector boundary.          *)
THEOREM PagerImplementsStore ==
  (Modes = {"DELETE"} /\ ~Aligned) => (Spec => ImplementsAtomicStore)
  <1> SUFFICES ASSUME Modes = {"DELETE"}, ~Aligned PROVE Spec => ImplementsAtomicStore
    OBVIOUS
  <1>1. Init => Sustained /\ Store!Init
    BY InitSustained, InitStore
  <1>2. Sustained /\ [Next]_vars => Sustained'
    BY SustainedStep
  <1>3. Sustained /\ Sustained' /\ [Next]_vars => [Store!Next]_(Store!vars)
    <2> SUFFICES ASSUME Sustained, Sustained', [Next]_vars
                 PROVE  Store!Next \/ UNCHANGED Store!vars
      OBVIOUS
    <2>1. Shape /\ AllNamed /\ AllOwn /\ Recovery /\ Shape' /\ AllNamed'
      BY DEF Sustained
    <2>2. CASE UNCHANGED vars
      BY <2>2 DEF vars, Store!vars, View, Overlay, Writing, Restored
    <2>3. CASE PowerLoss
      BY <2>1, <2>3, PowerLossRecovery, FallsStore
    <2>4. ASSUME NEW c \in Conn, Step(c) PROVE Store!Next \/ UNCHANGED Store!vars
      <3>1. Stays(c) \/ (SyncStep(c) /\ Syncs(c)) \/ Commits(c)
        BY <2>1, <2>4, StepRecovery
      <3> QED  BY <2>1, <2>4, <3>1, StaysStore, SyncsStore, CommitsStore
    <2>5. Next => PowerLoss \/ \E c \in Conn : Step(c)
      BY DEF Next, Step
    <2> QED  BY <2>2, <2>3, <2>4, <2>5
  <1> QED
    BY <1>1, <1>2, <1>3, PTL DEF Spec, ImplementsAtomicStore, Store!Spec
=============================================================================
