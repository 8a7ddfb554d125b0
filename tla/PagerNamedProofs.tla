-------------------------- MODULE PagerNamedProofs --------------------------
(***************************************************************************)
(* Why the journal of a transaction can be found again (JournalNamed), for *)
(* connections of which either all or none delete their journals.  The     *)
(* run Pager_unlinked_journal shows what happens otherwise.                *)
(***************************************************************************)
EXTENDS PagerProofs

OneWay == "DELETE" \in Modes => Modes = {"DELETE"}

(* Where the journal of connection r is, with the journal's name standing  *)
(* for inode od in the kernel and for dd on the medium.  Deleting          *)
(* connections keep no journal open between transactions.  Those that do   *)
(* not delete rely on a name that, once given, stays: it may be in use     *)
(* without its directory being synced again if it was synced before.       *)
Named(r, od, dd) ==
  /\ r.hot \/ r.eState \in Writers => od = r.jfd
  /\ r.eState \in Writers /\ ~r.dirSync => dd = od
  /\ r.eState \in {"DBMOD", "FINISHED"} \/ r.pc \in {"jnrec", "jsync2"} => ~r.dirSync
  /\ "DELETE" \in Modes =>
       /\ r.jfd # 0 => r.hot \/ r.eState \in Writers \cup {"ERROR"}
       /\ r.pc # "finsync"
  /\ "DELETE" \notin Modes =>
       /\ r.jfd # 0 => od = r.jfd
       /\ r.jfd # 0 /\ ~r.dirSync => dd = od
       /\ r.pc \in {"reserved", "first", "excl", "open"} => od # 0
       /\ r.pc \in {"excl", "open"} => dd = od

(* A journal that can be taken for a hot one has a name on the medium. *)
MagicNamed ==
  "DELETE" \notin Modes /\ os.dir # 0 =>
    \/ os.file[os.dir] = <<>> \/ os.file[os.dir][1].k = "zero"
    \/ disk.dir = os.dir

AllNamed ==
  /\ \A c \in Conn : Named(conn[c], os.dir, disk.dir)
  /\ MagicNamed

USE DEF Entering, Replaying, Committing, Writers, FL!NO_LOCK, FL!SHARED_LOCK,
        FL!RESERVED_LOCK, FL!PENDING_LOCK, FL!EXCLUSIVE_LOCK, FL!Level

(* A step of connection c: the others still know where their journals are, *)
(* if the name stays and may only become known to the medium, or if the    *)
(* connection holds the RESERVED lock and gives the name for good.         *)
LEMMA NamedFrame ==
  ASSUME Shape, AllNamed, NEW c \in Conn, NEW q,
         conn' = [conn EXCEPT ![c] = q],
         Named(q, os'.dir, disk'.dir), MagicNamed',
         \/ os'.dir = os.dir /\ disk'.dir \in {disk.dir, os.dir}
         \/ lock[c] >= FL!RESERVED_LOCK /\ ("DELETE" \notin Modes => os.dir = 0)
  PROVE  AllNamed'
  <1>1. ASSUME NEW d \in Conn PROVE Named(conn'[d], os'.dir, disk'.dir)
    <2>1. CASE d = c
      BY <2>1 DEF Shape, Types
    <2>2. CASE d # c
      <3>1. conn'[d] = conn[d] /\ Named(conn[d], os.dir, disk.dir)
        BY <2>2 DEF AllNamed, Shape, Types
      <3>2. CASE os'.dir = os.dir /\ disk'.dir \in {disk.dir, os.dir}
        BY <3>1, <3>2 DEF Named
      <3>3. CASE lock[c] >= FL!RESERVED_LOCK /\ ("DELETE" \notin Modes => os.dir = 0)
        <4>1. lock[d] <= FL!SHARED_LOCK /\ lock[d] \in 0..4 /\ Control(conn[d], lock[d])
          BY <2>2, <3>3 DEF Shape, Locks, Types
        <4>2. conn[d].eState \notin Writers \cup {"LOCKED"} /\ ~conn[d].hot /\ conn[d].pc \notin {"jnrec", "jsync2"}
          BY <4>1 DEF Control
        <4> QED  BY <3>1, <3>3, <4>2 DEF Named
      <3> QED  BY <3>2, <3>3
    <2> QED  BY <2>1, <2>2
  <1> QED  BY <1>1 DEF AllNamed

(* What does not touch the journal *)
LEMMA QuietNamed ==
  ASSUME Shape, AllNamed, NEW c \in Conn, NEW q,
         conn' = [conn EXCEPT ![c] = q],
         os'.dir = os.dir, os'.file = os.file, disk'.dir = disk.dir,
         Named(q, os.dir, disk.dir)
  PROVE  AllNamed'
  <1>1. MagicNamed'
    BY DEF AllNamed, MagicNamed
  <1> QED  BY <1>1, NamedFrame

(* Steps inside a call that leave the journal and the pager's state *)
Steady(r, q) ==
  /\ q.hot = r.hot /\ q.eState = r.eState /\ q.jfd = r.jfd /\ q.dirSync = r.dirSync
  /\ q.pc \notin {"jnrec", "jsync2", "reserved", "first", "excl", "open", "finsync"}

LEMMA AfterPlaybackPc ==
  ASSUME NEW r
  PROVE  AfterPlayback(r) \in {"rsync", "fin"}
  BY DEF AfterPlayback

LEMMA SetEffect ==
  ASSUME Shape, NEW c \in Conn, NEW q, Set(c, q)
  PROVE  conn'[c] = q /\ conn' = [conn EXCEPT ![c] = conn'[c]]
  BY DEF Set, Shape, Types

LEMMA SteadyStep ==
  ASSUME Shape, NEW c \in Conn, NEW p \in Page,
         \/ SharedLock(c) \/ ReadHdr(c) \/ PlayRecord(c) \/ PlaybackSync(c)
         \/ Get(c, p) \/ Spill(c, p) \/ Commit(c) \/ ExclusiveLock(c) \/ WritePage(c)
  PROVE  /\ conn' = [conn EXCEPT ![c] = conn'[c]] /\ Steady(conn[c], conn'[c])
         /\ os'.dir = os.dir /\ os'.file = os.file /\ disk'.dir = disk.dir
  <1> DEFINE r == conn[c]
  <1>0. r \in PagerRecord /\ os \in FileSystem /\ disk \in Medium /\ conn \in [Conn -> PagerRecord]
        /\ Control(r, lock[c])
    BY Own, Stored DEF Shape, Types
  <1>1. CASE SharedLock(c)
    BY <1>0, <1>1 DEF SharedLock, Goto, Set, Steady, PagerRecord
  <1>2. CASE ReadHdr(c)
    <2>1. os'.dir = os.dir /\ os'.file = os.file /\ disk'.dir = disk.dir
      BY <1>0, <1>2 DEF ReadHdr, Behind, FileSystem, Medium
    <2>2. CASE Goto(c, AfterPlayback(r))
      <3>1. Steady(r, [r EXCEPT !.pc = AfterPlayback(r)])
        BY <1>0, AfterPlaybackPc DEF Steady, PagerRecord
      <3> QED  BY <2>1, <2>2, <3>1, SetEffect DEF Goto
    <2>3. CASE ~Goto(c, AfterPlayback(r))
      <3> DEFINE S == Journal(c)
                 n == IF S[r.k].val = 0 /\ OwnLast(r) THEN Len(S) - r.k
                      ELSE S[r.k].val
                 size == IF r.k = 1 THEN S[1].pg ELSE r.dbSize
                 q == [r EXCEPT !.pc = IF n = 0 THEN "hdr" ELSE "rec",
                                !.left = n, !.seed = S[r.k].seed,
                                !.k = @ + 1, !.dbSize = size]
      <3>1. Set(c, q)
        BY <1>2, <2>3 DEF ReadHdr
      <3>2. Steady(r, q)
        <4> HIDE DEF n, size, S
        <4> QED  BY <1>0 DEF Steady, PagerRecord
      <3> HIDE DEF q
      <3> QED  BY <2>1, <3>1, <3>2, SetEffect
    <2> QED  BY <2>2, <2>3
  <1>3. CASE PlayRecord(c)
    <2>1. os'.dir = os.dir /\ os'.file = os.file /\ disk'.dir = disk.dir
      BY <1>0, <1>3 DEF PlayRecord, Behind, FileSystem, Medium
    <2> DEFINE s == Journal(c)[r.k]
               next == [r EXCEPT !.pc = IF r.left = 1 THEN "hdr" ELSE "rec",
                                 !.left = @ - 1, !.k = @ + 1,
                                 !.cache = IF r.hot THEN NoPages ELSE @]
               q1 == [r EXCEPT !.pc = AfterPlayback(r), !.cache = IF r.hot THEN NoPages ELSE @]
               q3 == [next EXCEPT !.cache[s.pg] = s.val,
                                  !.vers = IF s.pg = 1 THEN s.val ELSE @]
    <2>2. Set(c, q1) \/ Set(c, next) \/ Set(c, q3)
      BY <1>3 DEF PlayRecord
    <2>3. Steady(r, q1)
      BY <1>0, AfterPlaybackPc DEF Steady, PagerRecord
    <2>4. Steady(r, next)
      BY <1>0 DEF Steady, PagerRecord
    <2>5. Steady(r, q3)
      <3> HIDE DEF s
      <3> QED  BY <1>0 DEF Steady, PagerRecord
    <2> HIDE DEF q1, q3, next
    <2> QED  BY <2>1, <2>2, <2>3, <2>4, <2>5, SetEffect
  <1>4. CASE PlaybackSync(c)
    BY <1>0, <1>4 DEF PlaybackSync, SyncDb, Goto, Set, Steady, PagerRecord, Medium
  <1>5. CASE Get(c, p)
    BY <1>0, <1>5 DEF Get, Set, Steady, PagerRecord, Idle, Control
  <1>6. CASE Spill(c, p)
    BY <1>0, <1>6 DEF Spill, Set, Steady, PagerRecord
  <1>7. CASE Commit(c)
    BY <1>0, <1>7 DEF Commit, Set, Steady, PagerRecord
  <1>8. CASE ExclusiveLock(c)
    <2>1. UNCHANGED <<os, disk>> /\ r.pc = "jexcl"
      BY <1>8 DEF ExclusiveLock, At
    <2>2. conn' = conn \/ Goto(c, "cc") \/ Goto(c, "jsync") \/ Set(c, [r EXCEPT !.pc = "idle", !.spill = 0])
      BY <1>8 DEF ExclusiveLock
    <2>3. CASE conn' = conn
      BY <1>0, <2>1, <2>3 DEF Steady
    <2>4. ASSUME NEW q, Set(c, q), Steady(r, q)
          PROVE  conn' = [conn EXCEPT ![c] = conn'[c]] /\ Steady(r, conn'[c])
      BY <2>4, SetEffect
    <2>5. CASE Goto(c, "cc") \/ Goto(c, "jsync")
      <3>1. Steady(r, [r EXCEPT !.pc = "cc"]) /\ Steady(r, [r EXCEPT !.pc = "jsync"])
        BY <1>0 DEF Steady, PagerRecord
      <3> QED  BY <2>1, <2>4, <2>5, <3>1 DEF Goto
    <2>6. CASE Set(c, [r EXCEPT !.pc = "idle", !.spill = 0])
      <3>1. Steady(r, [r EXCEPT !.pc = "idle", !.spill = 0])
        BY <1>0 DEF Steady, PagerRecord
      <3> QED  BY <2>1, <2>4, <2>6, <3>1
    <2> QED  BY <2>2, <2>3, <2>5, <2>6
  <1>9. CASE WritePage(c)
    <2> DEFINE w == Min(ToWrite(r))
               q == [r EXCEPT !.dirty = @ \ {w}, !.spill = 0,
                              !.vers = IF w = 1 THEN r.cache[1] ELSE @,
                              !.pc = IF r.spill # 0 THEN "idle"
                                     ELSE IF ToWrite(r) = {w} THEN "dbsync" ELSE @]
    <2>1. /\ os' = [os EXCEPT !.db[w] = r.cache[w]] /\ disk' = Behind({w}) /\ Set(c, q) /\ r.pc = "wpage"
      BY <1>9 DEF WritePage, At
    <2>2. Steady(r, q)
      <3> HIDE DEF w
      <3> QED  BY <1>0, <2>1 DEF Steady, PagerRecord
    <2> HIDE DEF q, w
    <2>3. os'.dir = os.dir /\ os'.file = os.file /\ disk'.dir = disk.dir
      BY <1>0, <2>1 DEF Behind, FileSystem, Medium
    <2> QED  BY <2>1, <2>2, <2>3, SetEffect
  <1> QED
    BY <1>1, <1>2, <1>3, <1>4, <1>5, <1>6, <1>7, <1>8, <1>9

LEMMA SteadyNamed ==
  ASSUME Shape, AllNamed, NEW c \in Conn, NEW p \in Page,
         \/ SharedLock(c) \/ ReadHdr(c) \/ PlayRecord(c) \/ PlaybackSync(c)
         \/ Get(c, p) \/ Spill(c, p) \/ Commit(c) \/ ExclusiveLock(c) \/ WritePage(c)
  PROVE  AllNamed'
  <1>1. /\ conn' = [conn EXCEPT ![c] = conn'[c]] /\ Steady(conn[c], conn'[c])
        /\ os'.dir = os.dir /\ os'.file = os.file /\ disk'.dir = disk.dir
    BY SteadyStep
  <1>2. Named(conn[c], os.dir, disk.dir)
    BY DEF AllNamed
  <1>3. Named(conn'[c], os.dir, disk.dir)
    BY <1>1, <1>2 DEF Named, Steady
  <1> DEFINE q == conn'[c]
  <1> HIDE DEF q
  <1> QED  BY <1>1, <1>3, QuietNamed DEF q

-----------------------------------------------------------------------------
(* Looking for a hot journal *)
LEMMA EnteringNamed ==
  ASSUME Shape, AllNamed, NEW c \in Conn,
         \/ JournalExists(c) \/ CheckReservedLock(c) \/ FirstByte(c)
         \/ HotLock(c) \/ HotOpen(c)
  PROVE  AllNamed'
  <1> DEFINE r == conn[c]
  <1>1. /\ r \in PagerRecord /\ Control(r, lock[c]) /\ Named(r, os.dir, disk.dir)
    BY Own DEF AllNamed
  <1>2. os' = os /\ disk' = disk
    BY DEF JournalExists, CheckReservedLock, FirstByte, HotLock, HotOpen
  <1>3. ASSUME NEW q, Set(c, q), Named(q, os.dir, disk.dir) PROVE AllNamed'
    BY <1>2, <1>3, QuietNamed DEF Set
  <1>4. ASSUME NEW l \in Entering \cup {"open"}, Goto(c, l), r.pc \in Entering \cup {"open"},
               "DELETE" \notin Modes => /\ l \in {"reserved", "first", "excl", "open"} => os.dir # 0
                                        /\ l \in {"excl", "open"} => disk.dir = os.dir
        PROVE  AllNamed'
    <2> DEFINE q == [r EXCEPT !.pc = l]
    <2>1. ~r.hot /\ r.eState = "OPEN"
      BY <1>1, <1>4 DEF Control
    <2>2. /\ q.pc = l /\ q.hot = r.hot /\ q.eState = r.eState /\ q.jfd = r.jfd
          /\ q.dirSync = r.dirSync
      BY <1>1 DEF PagerRecord
    <2>3. Set(c, q)
      BY <1>4 DEF Goto
    <2> HIDE DEF q
    <2>4. Named(q, os.dir, disk.dir)
      BY <1>1, <1>4, <2>1, <2>2 DEF Named
    <2> QED  BY <1>3, <2>3, <2>4
  <1>5. CASE JournalExists(c)
    BY <1>1, <1>4, <1>5 DEF JournalExists, At
  <1>6. CASE CheckReservedLock(c)
    <2>1. Goto(c, "vers") \/ Goto(c, "first")
      BY <1>6 DEF CheckReservedLock
    <2>2. r.pc = "reserved"
      BY <1>6 DEF CheckReservedLock, At
    <2> QED  BY <1>1, <1>4, <2>1, <2>2 DEF Named
  <1>7. CASE FirstByte(c)
    <2>1. r.pc = "first" /\ MagicNamed
      BY <1>7 DEF FirstByte, At, AllNamed
    <2>2. CASE Goto(c, "vers")
      BY <1>4, <2>1, <2>2
    <2>3. CASE Goto(c, "excl") /\ (os.dir # 0 => /\ os.file[os.dir] # <<>>
                                                 /\ os.file[os.dir][1].k # "zero")
      BY <1>1, <1>4, <2>1, <2>3 DEF Named, MagicNamed
    <2> QED  BY <1>7, <2>2, <2>3 DEF FirstByte
  <1>8. CASE HotLock(c)
    <2>1. r.pc = "excl"
      BY <1>8 DEF HotLock, At
    <2>2. CASE Goto(c, "open")
      BY <1>1, <1>4, <2>1, <2>2 DEF Named
    <2>3. CASE Set(c, Unlocked(r))
      <3> DEFINE q == Unlocked(r)
      <3>1. /\ q.pc = "idle" /\ q.hot = r.hot /\ q.eState = "OPEN" /\ q.jfd = 0
            /\ q.dirSync = FALSE
        BY <1>1 DEF PagerRecord, Unlocked
      <3>2. ~r.hot
        BY <1>1, <2>1 DEF Control
      <3> HIDE DEF q
      <3>3. Named(q, os.dir, disk.dir)
        BY <3>1, <3>2 DEF Named
      <3> QED  BY <1>3, <2>3, <3>3 DEF q
    <2> QED  BY <1>8, <2>2, <2>3 DEF HotLock
  <1>9. CASE HotOpen(c)
    <2>1. r.pc = "open"
      BY <1>9 DEF HotOpen, At
    <2>2. CASE Goto(c, "vers")
      BY <1>4, <2>1, <2>2
    <2>3. CASE Set(c, [r EXCEPT !.pc = "hsync", !.hot = TRUE, !.jfd = os.dir, !.dirSync = FALSE])
      <3> DEFINE q == [r EXCEPT !.pc = "hsync", !.hot = TRUE, !.jfd = os.dir, !.dirSync = FALSE]
      <3>1. /\ q.pc = "hsync" /\ q.hot = TRUE /\ q.eState = "OPEN" /\ q.jfd = os.dir
            /\ q.dirSync = FALSE
        BY <1>1, <2>1 DEF PagerRecord, Control
      <3> HIDE DEF q
      <3>2. Named(q, os.dir, disk.dir)
        BY <1>1, <2>1, <3>1 DEF Named
      <3> QED  BY <1>3, <2>3, <3>2 DEF q
    <2> QED  BY <1>9, <2>2, <2>3 DEF HotOpen
  <1> QED  BY <1>5, <1>6, <1>7, <1>8, <1>9

LEMMA HotSyncNamed ==
  ASSUME Shape, AllNamed, NEW c \in Conn, HotSync(c)
  PROVE  AllNamed'
  <1> DEFINE r == conn[c]
             n == Len(Journal(c)) + 1
             q == [r EXCEPT !.pc = "hdr", !.k = 1, !.jhdr = n]
  <1>1. /\ r \in PagerRecord /\ Control(r, lock[c]) /\ Named(r, os.dir, disk.dir) /\ r.pc = "hsync"
    BY Own DEF AllNamed, HotSync, At
  <1>2. r.hot /\ r.jfd # 0 /\ r.eState = "OPEN" /\ lock[c] = 4
    BY <1>1 DEF Control
  <1>3. disk'.dir \in {disk.dir, os.dir} /\ (~r.dirSync => disk'.dir = disk.dir)
    BY <1>1, <1>2, FsyncType DEF HotSync, PagerRecord
  <1>4. os' = os /\ conn' = [conn EXCEPT ![c] = q]
    BY DEF HotSync, Set
  <1>5. /\ q.pc = "hdr" /\ q.hot = r.hot /\ q.eState = r.eState /\ q.jfd = r.jfd
        /\ q.dirSync = r.dirSync
    BY <1>1 DEF PagerRecord
  <1> HIDE DEF q, r
  <1>6. Named(q, os'.dir, disk'.dir)
    BY <1>1, <1>2, <1>3, <1>4, <1>5 DEF Named
  <1>7. MagicNamed'
    BY <1>3, <1>4 DEF AllNamed, MagicNamed
  <1> QED  BY <1>3, <1>4, <1>6, <1>7, NamedFrame

(* Steps between transactions *)
LEMMA IdleNamed ==
  ASSUME Shape, AllNamed, NEW c \in Conn,
         \/ CheckVersion(c) \/ EndRead(c) \/ Begin(c) \/ ErrorUnlock(c) \/ Kill(c)
  PROVE  AllNamed'
  <1> DEFINE r == conn[c]
  <1>1. /\ r \in PagerRecord /\ Control(r, lock[c]) /\ Named(r, os.dir, disk.dir)
    BY Own DEF AllNamed
  <1>2. os' = os /\ disk' = disk
    BY DEF CheckVersion, EndRead, Begin, ErrorUnlock, Kill
  <1>3. ASSUME NEW q, Set(c, q), q.pc = "idle", ~q.hot, q.eState \in {"OPEN", "READER", "LOCKED"},
               q.jfd = 0 \/ (/\ q.jfd = r.jfd /\ q.dirSync = r.dirSync /\ ~r.hot
                             /\ r.eState \in {"OPEN", "READER", "LOCKED"})
        PROVE  AllNamed'
    <2>1. Named(q, os.dir, disk.dir)
      BY <1>1, <1>3 DEF Named
    <2> QED  BY <1>2, <1>3, <2>1, QuietNamed DEF Set
  <1>4. CASE CheckVersion(c)
    <2> DEFINE q == [r EXCEPT !.pc = "idle", !.eState = "READER", !.held = TRUE,
                              !.cache = IF Fresh(r) THEN @ ELSE NoPages,
                              !.dbSize = SizeOf(os.db)]
    <2>1. Set(c, q) /\ r.pc = "vers"
      BY <1>4 DEF CheckVersion, At
    <2>2. q.pc = "idle" /\ q.hot = r.hot /\ q.eState = "READER" /\ q.jfd = r.jfd /\ q.dirSync = r.dirSync
      BY <1>1 DEF PagerRecord
    <2>3. ~r.hot /\ r.eState = "OPEN"
      BY <1>1, <2>1 DEF Control
    <2> HIDE DEF q
    <2> QED  BY <1>3, <2>1, <2>2, <2>3
  <1>5. CASE EndRead(c)
    <2> DEFINE q == Unlocked(r)
    <2>1. Set(c, q) /\ r.pc = "idle"
      BY <1>5 DEF EndRead, Idle
    <2>2. q.pc = "idle" /\ q.hot = r.hot /\ q.eState = "OPEN" /\ q.jfd = 0
      BY <1>1 DEF PagerRecord, Unlocked
    <2>3. ~r.hot
      BY <1>1, <2>1 DEF Control
    <2> HIDE DEF q
    <2> QED  BY <1>3, <2>1, <2>2, <2>3
  <1>6. CASE Begin(c)
    <2> DEFINE q == [r EXCEPT !.eState = "LOCKED", !.orig = r.dbSize, !.joff = 0]
    <2>1. Set(c, q)
      BY <1>6 DEF Begin
    <2>2. r.pc = "idle" /\ r.eState = "READER"
      BY <1>6 DEF Begin, Idle
    <2>3. q.pc = r.pc /\ q.hot = r.hot /\ q.eState = "LOCKED" /\ q.jfd = r.jfd /\ q.dirSync = r.dirSync
      BY <1>1, <2>1 DEF PagerRecord
    <2>4. ~r.hot
      BY <1>1, <2>2 DEF Control
    <2> HIDE DEF q
    <2> QED  BY <1>3, <2>1, <2>2, <2>3, <2>4
  <1>7. CASE ErrorUnlock(c)
    <2> DEFINE q == [Closed EXCEPT !.vers = conn[c].vers, !.held = conn[c].held]
    <2>1. Set(c, q)
      BY <1>7 DEF ErrorUnlock
    <2>2. q.pc = "idle" /\ q.hot = FALSE /\ q.eState = "OPEN" /\ q.jfd = 0
      BY DEF Closed
    <2> HIDE DEF q
    <2> QED  BY <1>3, <2>1, <2>2
  <1>8. CASE Kill(c)
    <2>1. Set(c, Closed)
      BY <1>8 DEF Kill
    <2>2. Closed.pc = "idle" /\ Closed.hot = FALSE /\ Closed.eState = "OPEN" /\ Closed.jfd = 0
      BY DEF Closed
    <2> QED  BY <1>3, <2>1, <2>2
  <1> QED  BY <1>4, <1>5, <1>6, <1>7, <1>8

-----------------------------------------------------------------------------
(* The end of a transaction *)
LEMMA EndedFields ==
  ASSUME NEW r \in PagerRecord
  PROVE  /\ Ended(r).pc \in {"vers", "idle"} /\ Ended(r).hot = FALSE
         /\ Ended(r).eState \in {"OPEN", "READER"}
         /\ Ended(r).jfd = r.jfd /\ Ended(r).dirSync = r.dirSync
  <1> DEFINE ch == TruncateTo(r.cache, r.dbSize)
  <1> HIDE DEF ch
  <1>1. Ended(r) = [r EXCEPT !.pc = IF r.hot THEN "vers" ELSE "idle",
            !.eState = IF r.hot THEN "OPEN" ELSE "READER",
            !.cache = ch,
            !.dirty = {}, !.needSync = {}, !.inJournal = {}, !.joff = 0,
            !.jhdr = 0, !.last = 0, !.nRec = 0, !.orig = 0,
            !.k = 0, !.left = 0, !.seed = 0, !.hot = FALSE, !.spill = 0]
    BY DEF Ended, ch
  <1> QED  BY <1>1 DEF PagerRecord

(* A write to the journal whose name it is *)
LEMMA MagicWritten ==
  ASSUME Shape, AllNamed, NEW j \in Inode, NEW T,
         os'.file = [os.file EXCEPT ![j] = T], os'.dir = os.dir, os.dir = j,
         disk'.dir \in {disk.dir, os.dir},
         \/ T = <<>> \/ T[1].k = "zero"
         \/ os.file[j] # <<>> /\ T[1] = os.file[j][1]
         \/ disk'.dir = os.dir
  PROVE  MagicNamed'
  <1>1. os'.file[os'.dir] = T
    BY Stored DEF Files
  <1> QED  BY <1>1 DEF MagicNamed, AllNamed

LEMMA FinalizeNamed ==
  ASSUME OneWay, Shape, AllNamed, NEW c \in Conn, Finalize(c)
  PROVE  AllNamed'
  <1> DEFINE r == conn[c]
  <1>1. /\ r \in PagerRecord /\ Control(r, lock[c]) /\ HasJournal(r, os.file, txn)
        /\ Named(r, os.dir, disk.dir) /\ r.pc = "fin" /\ mode[c] \in Modes
    BY Own, Stored DEF AllNamed, Finalize, At
  <1>2. r.jfd # 0 /\ lock[c] >= 2 /\ (r.hot \/ r.eState \in Writers)
    BY <1>1 DEF Control, HasJournal
  <1>3. os.dir = r.jfd /\ r.jfd \in Inode
    BY <1>1, <1>2, FsyncType DEF Named
  <1>4. CASE /\ mode[c] = "DELETE"
             /\ os' = [os EXCEPT !.dir = 0]
             /\ EndTransaction(c, [r EXCEPT !.jfd = 0, !.dirSync = FALSE])
             /\ UNCHANGED disk
    <2> DEFINE a == [r EXCEPT !.jfd = 0, !.dirSync = FALSE]
               q == Ended(a)
    <2>1. a \in PagerRecord /\ a.jfd = 0
      BY <1>1 DEF PagerRecord
    <2> HIDE DEF a
    <2>2. q.pc \in {"vers", "idle"} /\ q.hot = FALSE /\ q.eState \in {"OPEN", "READER"} /\ q.jfd = 0
      BY <2>1, EndedFields
    <2>3. conn' = [conn EXCEPT ![c] = q] /\ os'.dir = 0
      BY <1>4, Stored DEF EndTransaction, Set, a, FileSystem
    <2> HIDE DEF q
    <2>4. Named(q, os'.dir, disk'.dir)
      BY <2>2 DEF Named
    <2>5. MagicNamed'
      BY <2>3 DEF MagicNamed
    <2> QED  BY <1>1, <1>2, <1>4, <2>3, <2>4, <2>5, NamedFrame
  <1>5. CASE EndTransaction(c, r) /\ UNCHANGED <<os, disk>> /\ mode[c] # "DELETE"
    <2>1. "DELETE" \notin Modes
      BY <1>1, <1>5 DEF OneWay
    <2> DEFINE q == Ended(r)
    <2>2. /\ q.pc \in {"vers", "idle"} /\ q.hot = FALSE /\ q.eState \in {"OPEN", "READER"}
          /\ q.jfd = r.jfd /\ q.dirSync = r.dirSync
      BY <1>1, EndedFields
    <2>3. conn' = [conn EXCEPT ![c] = q]
      BY <1>5 DEF EndTransaction, Set
    <2> HIDE DEF q
    <2>4. Named(q, os.dir, disk.dir)
      BY <1>1, <2>1, <2>2 DEF Named
    <2> QED  BY <1>5, <2>3, <2>4, QuietNamed
  <1>6. CASE /\ mode[c] # "DELETE"
             /\ os' = [os EXCEPT !.file[r.jfd] =
                         IF mode[c] = "TRUNCATE" THEN <<>>
                         ELSE PutSlot(@, 1, ZeroSlot)]
             /\ Goto(c, "finsync")
             /\ UNCHANGED <<disk, lock>>
    <2> DEFINE q == [r EXCEPT !.pc = "finsync"]
               T == IF mode[c] = "TRUNCATE" THEN <<>> ELSE PutSlot(Journal(c), 1, ZeroSlot)
    <2>1. /\ q.pc = "finsync" /\ q.hot = r.hot /\ q.eState = r.eState /\ q.jfd = r.jfd
          /\ q.dirSync = r.dirSync
      BY <1>1 DEF PagerRecord
    <2>2. os' = [os EXCEPT !.file[r.jfd] = T] /\ conn' = [conn EXCEPT ![c] = q]
      BY <1>6 DEF Journal, Goto, Set
    <2>3. T = <<>> \/ T[1].k = "zero"
      <3>1. Journal(c) \in Seq(Slot)
        BY <1>2, FsyncType
      <3>2. PutSlot(Journal(c), 1, ZeroSlot)[1] = ZeroSlot
        BY <3>1, PutSlotProperty, SlotTypes
      <3> QED  BY <3>2 DEF ZeroSlot
    <2> HIDE DEF q, T, r
    <2>4. os'.dir = os.dir /\ os'.file = [os.file EXCEPT ![r.jfd] = T]
      BY <2>2, Stored DEF FileSystem
    <2>5. Named(q, os'.dir, disk'.dir)
      <3>1. "DELETE" \notin Modes
        BY <1>1, <1>6 DEF OneWay
      <3> QED  BY <1>1, <1>6, <2>1, <2>4, <3>1 DEF Named
    <2>6. MagicNamed'
      BY <1>3, <1>6, <2>3, <2>4, MagicWritten
    <2> QED  BY <1>6, <2>2, <2>4, <2>5, <2>6, NamedFrame
  <1> QED  BY <1>4, <1>5, <1>6 DEF Finalize

LEMMA FinalizeSyncNamed ==
  ASSUME OneWay, Shape, AllNamed, NEW c \in Conn, FinalizeSync(c)
  PROVE  AllNamed'
  <1> DEFINE r == conn[c]
             a == [r EXCEPT !.dirSync = FALSE]
             q == Ended(a)
  <1>1. /\ r \in PagerRecord /\ Control(r, lock[c]) /\ HasJournal(r, os.file, txn)
        /\ Named(r, os.dir, disk.dir) /\ r.pc = "finsync" /\ mode[c] \in Modes
    BY Own, Stored DEF AllNamed, FinalizeSync, At
  <1>2. r.jfd # 0 /\ "DELETE" \notin Modes /\ r.dirSync \in BOOLEAN
    BY <1>1 DEF Control, HasJournal, Named, PagerRecord
  <1>3. /\ disk'.dir = (IF r.dirSync THEN os.dir ELSE disk.dir) /\ os' = os
        /\ conn' = [conn EXCEPT ![c] = q]
    BY <1>2, FsyncType DEF FinalizeSync, EndTransaction, Set
  <1>4. a \in PagerRecord /\ a.jfd = r.jfd /\ a.dirSync = FALSE
    BY <1>1 DEF PagerRecord
  <1> HIDE DEF a
  <1>5. /\ q.pc \in {"vers", "idle"} /\ q.hot = FALSE /\ q.eState \in {"OPEN", "READER"}
        /\ q.jfd = r.jfd /\ q.dirSync = FALSE
    BY <1>4, EndedFields
  <1> HIDE DEF q, r
  <1>6. Named(q, os'.dir, disk'.dir)
    BY <1>1, <1>2, <1>3, <1>5 DEF Named
  <1>7. MagicNamed'
    BY <1>3 DEF MagicNamed, AllNamed
  <1> QED  BY <1>3, <1>6, <1>7, NamedFrame

-----------------------------------------------------------------------------
(* Writing the journal *)
LEMMA WriteNamed ==
  ASSUME Shape, AllNamed, NEW c \in Conn, NEW p \in Page, Write(c, p)
  PROVE  AllNamed'
  <1>1. /\ conn[c] \in PagerRecord /\ Control(conn[c], lock[c]) /\ HasJournal(conn[c], os.file, txn)
        /\ Named(conn[c], os.dir, disk.dir) /\ conn[c].pc = "idle"
        /\ conn[c].eState \in {"LOCKED", "CACHEMOD", "DBMOD"}
        /\ disk' = disk /\ lock[c] \in 0..4
    BY Own DEF AllNamed, Write, Idle
  <1>2. PICK q0 \in PagerRecord, S \in Seq(Slot) :
           /\ \/ /\ conn[c].eState = "LOCKED" /\ q0 = OpenJournal(conn[c])
                 /\ S = PutSlot(os.file[q0.jfd], 1, NewHdr(conn[c].orig, q0.seed))
                 /\ txn' = txn + 1
                 /\ os'.dir = IF conn[c].jfd = 0 THEN q0.jfd ELSE os.dir
              \/ /\ conn[c].eState \in {"CACHEMOD", "DBMOD"} /\ q0 = conn[c]
                 /\ S = os.file[q0.jfd] /\ txn' = txn /\ os'.dir = os.dir
           /\ q0.jfd \in Inode /\ q0.joff <= Len(S)
           /\ conn' = [conn EXCEPT ![c] = Written(q0, p)]
           /\ os'.file = [os.file EXCEPT ![q0.jfd] = JournalPage(S, q0, p)]
           /\ os'.db = os.db /\ os' \in FileSystem
    BY WriteEffect
  <1> DEFINE q == Written(q0, p)
             T == JournalPage(S, q0, p)
  <1>3. /\ q.pc = q0.pc /\ q.eState = q0.eState /\ q.jfd = q0.jfd /\ q.dirSync = q0.dirSync
        /\ q.hot = q0.hot
    BY WrittenShape
  <1>4. q0.joff >= 1 => T[1] = S[1]
    <2>1. \A n \in 1..q0.joff : T[n] = S[n]
      <3>1. q0.joff <= Len(S)
        BY <1>2
      <3> QED  BY <3>1, JournalPageShape
    <2>2. q0.joff \in Nat
      BY DEF PagerRecord
    <2> QED  BY <2>1, <2>2
  <1>5. ~conn[c].hot /\ lock[c] >= 2
    BY <1>1 DEF Control
  <1>6. os'.file[q0.jfd] = T
    BY <1>2, Stored DEF Files
  <1> HIDE DEF q, T
  <1>7. CASE conn[c].eState = "LOCKED" /\ q0 = OpenJournal(conn[c])
    <2>1. txn \in Nat /\ txn < MaxTxn
      BY <1>1, <1>7, Stored DEF HasJournal
    <2>2. /\ q0.eState = "CACHEMOD" /\ q0.joff = 1 /\ q0.pc = "idle" /\ q0.hot = conn[c].hot
          /\ q0.jfd = (IF conn[c].jfd # 0 THEN conn[c].jfd ELSE IF os.dir # 0 THEN os.dir ELSE txn + 1)
          /\ q0.dirSync = IF conn[c].jfd # 0 THEN conn[c].dirSync ELSE TRUE
      BY <1>1, <1>7, <2>1, Stored, OpenJournalShape
    <2>3. os'.dir = IF conn[c].jfd = 0 THEN q0.jfd ELSE os.dir
      BY <1>2, <1>7
    <2>4. S[1].k = "zero"
      <3> DEFINE U == os.file[q0.jfd]
                 h == NewHdr(conn[c].orig, q0.seed)
      <3>1. U \in Seq(Slot) /\ h \in Slot
        BY <1>1, <1>2, Stored, SlotTypes DEF Files, PagerRecord
      <3>2. S = PutSlot(U, 1, h)
        BY <1>2, <1>7
      <3>3. h.k = "zero"
        BY DEF NewHdr
      <3> HIDE DEF U, h
      <3>4. PutSlot(U, 1, h)[1] = h
        BY <3>1, PutSlotProperty
      <3> QED  BY <3>2, <3>3, <3>4
    <2>5. q0.dirSync \in BOOLEAN
      BY DEF PagerRecord
    <2>6. "DELETE" \in Modes => conn[c].jfd = 0
      BY <1>1, <1>5, <1>7 DEF Named
    <2>7. os'.dir = q0.jfd
      BY <1>1, <2>2, <2>3, <2>6 DEF Named
    <2>8. Named(q, os'.dir, disk'.dir)
      BY <1>1, <1>3, <1>5, <2>2, <2>3, <2>5, <2>6, <2>7 DEF Named
    <2>9. MagicNamed'
      BY <1>4, <1>6, <2>2, <2>4, <2>7 DEF MagicNamed
    <2>10. os'.dir = os.dir \/ (lock[c] >= 2 /\ ("DELETE" \notin Modes => os.dir = 0))
      BY <1>1, <1>5, <2>2, <2>3 DEF Named
    <2> QED  BY <1>1, <1>2, <2>8, <2>9, <2>10, NamedFrame DEF q
  <1>8. CASE conn[c].eState \in {"CACHEMOD", "DBMOD"} /\ q0 = conn[c]
    <2>1. /\ S = os.file[q0.jfd] /\ os'.dir = os.dir
      BY <1>2, <1>8
    <2>2. Named(q, os'.dir, disk'.dir)
      BY <1>1, <1>3, <1>8, <2>1 DEF Named
    <2>3. os.dir = q0.jfd /\ q0.joff >= 1
      BY <1>1, <1>8 DEF Named, HasJournal
    <2>4. S # <<>>
      <3>1. q0.joff <= Len(S) /\ q0.joff \in Nat
        BY <1>2 DEF PagerRecord
      <3> QED  BY <2>3, <3>1
    <2>5. os'.file = [os.file EXCEPT ![q0.jfd] = T] /\ q0.jfd \in Inode /\ T[1] = os.file[q0.jfd][1]
      BY <1>2, <1>4, <2>1, <2>3 DEF T
    <2>6. MagicNamed'
      BY <1>1, <2>1, <2>3, <2>4, <2>5, MagicWritten
    <2> QED  BY <1>1, <1>2, <2>1, <2>2, <2>6, NamedFrame DEF q
  <1> QED  BY <1>2, <1>7, <1>8

LEMMA ChangeCounterNamed ==
  ASSUME Shape, AllNamed, NEW c \in Conn, ChangeCounter(c)
  PROVE  AllNamed'
  <1> DEFINE r == conn[c]
             q == conn'[c]
             T == JournalPage(Journal(c), r, 1)
  <1>1. /\ r \in PagerRecord /\ Control(r, lock[c]) /\ r.pc = "cc"
        /\ Named(r, os.dir, disk.dir) /\ 1 \in Page /\ disk' = disk
    BY Own, Stored DEF ChangeCounter, At, AllNamed
  <1>2. /\ conn' = [conn EXCEPT ![c] = q]
        /\ q.pc = "jsync" /\ q.eState = r.eState /\ q.jfd = r.jfd /\ q.dirSync = r.dirSync
        /\ q.hot = r.hot
        /\ os'.dir = os.dir /\ os'.file = [os.file EXCEPT ![r.jfd] = T]
    BY ChangeCounterEffect
  <1>3. r.eState \in Writers
    BY <1>1 DEF Control
  <1>4. /\ r.jfd \in Inode /\ r.joff >= 1 /\ r.joff \in Nat /\ Journal(c) \in Seq(Slot)
        /\ r.joff <= Len(Journal(c))
    BY <1>1, <1>3, JournalOpen
  <1>5. T[1] = Journal(c)[1] /\ Journal(c) # <<>>
    <2>1. \A n \in 1..r.joff : T[n] = Journal(c)[n]
      <3> HIDE DEF r
      <3> QED  BY <1>1, <1>4, JournalPageShape
    <2> QED  BY <1>4, <2>1
  <1> HIDE DEF q, T
  <1>6. Named(q, os'.dir, disk'.dir)
    BY <1>1, <1>2 DEF Named
  <1>7. os.dir = r.jfd
    BY <1>1, <1>3 DEF Named
  <1>8. T[1] = os.file[r.jfd][1] /\ os.file[r.jfd] # <<>>
    BY <1>5 DEF Journal
  <1> HIDE DEF r
  <1>9. MagicNamed'
    BY <1>1, <1>2, <1>4, <1>7, <1>8, MagicWritten
  <1> QED  BY <1>1, <1>2, <1>6, <1>9, NamedFrame

LEMMA JournalSyncNamed ==
  ASSUME Shape, AllNamed, NEW c \in Conn, JournalSync(c)
  PROVE  AllNamed'
  <1> DEFINE r == conn[c]
             q == [r EXCEPT !.pc = "jnrec", !.dirSync = FALSE]
             T == Unrecognised(Journal(c), r.joff + 1)
  <1>1. /\ r \in PagerRecord /\ Control(r, lock[c]) /\ r.pc = "jsync"
        /\ Named(r, os.dir, disk.dir)
    BY Own DEF JournalSync, At, AllNamed
  <1>2. /\ os'.dir = os.dir /\ os'.file = [os.file EXCEPT ![r.jfd] = T]
        /\ disk'.dir = (IF r.dirSync THEN os.dir ELSE disk.dir)
        /\ conn' = [conn EXCEPT ![c] = q]
    BY JournalSyncEffect
  <1>3. r.eState \in Writers /\ r.dirSync \in BOOLEAN
    BY <1>1 DEF Control, PagerRecord
  <1>4. /\ r.jfd \in Inode
    BY <1>1, <1>3, JournalOpen
  <1>5. /\ q.pc = "jnrec" /\ q.eState = r.eState /\ q.jfd = r.jfd /\ q.dirSync = FALSE
        /\ q.hot = r.hot
    BY <1>1 DEF PagerRecord
  <1>6. os.dir = r.jfd /\ disk'.dir = os.dir
    BY <1>1, <1>2, <1>3 DEF Named
  <1> HIDE DEF q, T, r
  <1>7. Named(q, os'.dir, disk'.dir)
    BY <1>1, <1>2, <1>3, <1>5, <1>6 DEF Named
  <1>8. MagicNamed'
    BY <1>2, <1>4, <1>6, MagicWritten
  <1> QED  BY <1>2, <1>6, <1>7, <1>8, NamedFrame

LEMMA JournalCountNamed ==
  ASSUME Shape, AllNamed, NEW c \in Conn, JournalCount(c)
  PROVE  AllNamed'
  <1> DEFINE r == conn[c]
             q == [r EXCEPT !.pc = "jsync2"]
             T == [Journal(c) EXCEPT ![r.jhdr] = [Journal(c)[r.jhdr] EXCEPT !.k = "hdr", !.val = r.nRec]]
  <1>1. /\ r \in PagerRecord /\ Control(r, lock[c]) /\ r.pc = "jnrec"
        /\ Named(r, os.dir, disk.dir) /\ disk' = disk
    BY Own DEF JournalCount, At, AllNamed
  <1>2. /\ os'.dir = os.dir /\ os'.file = [os.file EXCEPT ![r.jfd] = T]
        /\ conn' = [conn EXCEPT ![c] = q]
    BY JournalCountEffect
  <1>3. r.eState \in Writers
    BY <1>1 DEF Control
  <1>4. /\ r.jfd \in Inode
    BY <1>1, <1>3, JournalOpen
  <1>5. /\ q.pc = "jsync2" /\ q.eState = r.eState /\ q.jfd = r.jfd /\ q.dirSync = r.dirSync
        /\ q.hot = r.hot
    BY <1>1 DEF PagerRecord
  <1>6. os.dir = r.jfd /\ disk'.dir = os.dir
    BY <1>1, <1>2, <1>3 DEF Named
  <1> HIDE DEF q, T, r
  <1>7. Named(q, os'.dir, disk'.dir)
    BY <1>1, <1>2, <1>3, <1>5, <1>6 DEF Named
  <1>8. MagicNamed'
    BY <1>2, <1>4, <1>6, MagicWritten
  <1> QED  BY <1>2, <1>6, <1>7, <1>8, NamedFrame

LEMMA JournalSync2Named ==
  ASSUME Shape, AllNamed, NEW c \in Conn, JournalSync2(c)
  PROVE  AllNamed'
  <1> DEFINE r == conn[c]
             n == r.joff + 1
             T == NextHeader(Journal(c), r)
             q1 == [Sealed(r) EXCEPT !.last = IF Aligned THEN n ELSE 0]
             q2 == [Sealed(r) EXCEPT !.last = n, !.joff = n, !.nRec = 0]
  <1>1. /\ r \in PagerRecord /\ Control(r, lock[c]) /\ r.pc = "jsync2"
        /\ Named(r, os.dir, disk.dir)
    BY Own DEF JournalSync2, At, AllNamed
  <1>2. /\ disk'.dir = (IF r.dirSync THEN os.dir ELSE disk.dir)
        /\ os'.dir = os.dir
        /\ \/ os' = os /\ conn' = [conn EXCEPT ![c] = q1]
           \/ os'.file = [os.file EXCEPT ![r.jfd] = T] /\ conn' = [conn EXCEPT ![c] = q2]
    BY JournalSync2Effect
  <1>3. r.eState \in Writers /\ ~r.hot
    BY <1>1 DEF Control
  <1>4. /\ r.jfd \in Inode /\ r.jfd # 0
    BY <1>1, <1>3, JournalOpen
  <1>5. /\ q1.pc = "wpage" /\ q1.eState = "DBMOD" /\ q1.jfd = r.jfd /\ q1.dirSync = FALSE
        /\ q1.hot = r.hot
    BY <1>1 DEF PagerRecord, Sealed
  <1>6. /\ q2.pc = "wpage" /\ q2.eState = "DBMOD" /\ q2.jfd = r.jfd /\ q2.dirSync = FALSE
        /\ q2.hot = r.hot
    BY <1>1 DEF PagerRecord, Sealed
  <1>7. os.dir = r.jfd /\ disk'.dir = os.dir
    BY <1>1, <1>2, <1>3 DEF Named
  <1> HIDE DEF q1, q2, T, r
  <1>8. Named(q1, os'.dir, disk'.dir) /\ Named(q2, os'.dir, disk'.dir)
    BY <1>1, <1>2, <1>3, <1>5, <1>6, <1>7 DEF Named
  <1>9. CASE os' = os /\ conn' = [conn EXCEPT ![c] = q1]
    <2>1. MagicNamed'
      BY <1>7, <1>9 DEF MagicNamed
    <2> QED  BY <1>2, <1>7, <1>8, <1>9, <2>1, NamedFrame
  <1>10. CASE os'.file = [os.file EXCEPT ![r.jfd] = T] /\ conn' = [conn EXCEPT ![c] = q2]
    <2>1. MagicNamed'
      BY <1>2, <1>4, <1>7, <1>10, MagicWritten
    <2> QED  BY <1>2, <1>7, <1>8, <1>10, <2>1, NamedFrame
  <1> QED  BY <1>2, <1>9, <1>10

LEMMA EndingNamed ==
  ASSUME Shape, AllNamed, NEW c \in Conn, DbSync(c) \/ Rollback(c)
  PROVE  AllNamed'
  <1> DEFINE r == conn[c]
  <1>1. /\ r \in PagerRecord /\ Control(r, lock[c]) /\ Named(r, os.dir, disk.dir)
    BY Own DEF AllNamed
  <1>2. os' = os /\ disk'.dir = disk.dir
    BY Stored DEF DbSync, Rollback, SyncDb, Medium
  <1>3. CASE DbSync(c)
    <2> DEFINE q == [r EXCEPT !.pc = "fin", !.eState = "FINISHED"]
    <2>1. conn' = [conn EXCEPT ![c] = q] /\ r.eState = "DBMOD"
      BY <1>1, <1>3 DEF DbSync, Set, At, Control
    <2>2. /\ q.pc = "fin" /\ q.eState = "FINISHED" /\ q.jfd = r.jfd /\ q.dirSync = r.dirSync /\ q.hot = r.hot
      BY <1>1 DEF PagerRecord
    <2> HIDE DEF q
    <2>3. Named(q, os.dir, disk.dir)
      BY <1>1, <2>1, <2>2 DEF Named
    <2> QED  BY <1>2, <2>1, <2>3, QuietNamed
  <1>4. CASE Idle(c, {"CACHEMOD", "DBMOD"}) /\ Set(c, RollingBack(r))
    <2> DEFINE q == RollingBack(r)
    <2>1. conn' = [conn EXCEPT ![c] = q]
      BY <1>4 DEF Set
    <2>2. /\ q.pc = "hdr" /\ q.eState = r.eState /\ q.jfd = r.jfd /\ q.dirSync = r.dirSync /\ q.hot = r.hot
      BY <1>1 DEF PagerRecord, RollingBack
    <2> HIDE DEF q
    <2>3. Named(q, os.dir, disk.dir)
      BY <1>1, <2>1, <2>2 DEF Named
    <2> QED  BY <1>2, <2>1, <2>3, QuietNamed
  <1>5. CASE Idle(c, {"LOCKED"}) /\ EndTransaction(c, r)
    <2> DEFINE q == Ended(r)
    <2>1. conn' = [conn EXCEPT ![c] = q]
      BY <1>5 DEF EndTransaction, Set
    <2>2. /\ q.pc \in {"vers", "idle"} /\ q.hot = FALSE /\ q.eState \in {"OPEN", "READER"}
          /\ q.jfd = r.jfd /\ q.dirSync = r.dirSync
      BY <1>1, EndedFields
    <2>3. r.eState = "LOCKED" /\ ~r.hot
      BY <1>1, <1>5 DEF Idle, Control
    <2> HIDE DEF q
    <2>4. Named(q, os.dir, disk.dir)
      BY <1>1, <2>2, <2>3 DEF Named
    <2> QED  BY <1>2, <2>1, <2>4, QuietNamed
  <1> QED  BY <1>3, <1>4, <1>5 DEF Rollback

-----------------------------------------------------------------------------
LEMMA FaultNamed ==
  ASSUME Shape, AllNamed, NEW c \in Conn, Fault(c)
  PROVE  AllNamed'
  <1> DEFINE r == conn[c]
  <1>1. /\ r \in PagerRecord /\ Control(r, lock[c]) /\ Named(r, os.dir, disk.dir)
    BY Own DEF AllNamed
  <1>2. os'.dir = os.dir /\ os'.file = os.file /\ disk'.dir = disk.dir
    <2>1. Damage(c)
      BY DEF Fault
    <2> QED  BY <2>1, DamageEffect
  <1>3. ASSUME NEW q, Set(c, q), Named(q, os.dir, disk.dir) PROVE AllNamed'
    BY <1>2, <1>3, QuietNamed DEF Set
  <1>4. CASE Set(c, [Closed EXCEPT !.vers = r.vers, !.held = r.held])
    <2> DEFINE q == [Closed EXCEPT !.vers = r.vers, !.held = r.held]
    <2>1. q.pc = "idle" /\ q.hot = FALSE /\ q.eState = "OPEN" /\ q.jfd = 0
      BY DEF Closed
    <2> HIDE DEF q
    <2>2. Named(q, os.dir, disk.dir)
      BY <2>1 DEF Named
    <2> QED  BY <1>3, <1>4, <2>2 DEF q
  <1>5. CASE Set(c, Unlocked(r)) /\ ~r.hot
    <2> DEFINE q == Unlocked(r)
    <2>1. q.pc = "idle" /\ q.hot = r.hot /\ q.eState = "OPEN" /\ q.jfd = 0
      BY <1>1 DEF Unlocked, PagerRecord
    <2> HIDE DEF q
    <2>2. Named(q, os.dir, disk.dir)
      BY <1>5, <2>1 DEF Named
    <2> QED  BY <1>3, <1>5, <2>2 DEF q
  <1>6. CASE Set(c, RollingBack(r))
    <2> DEFINE q == RollingBack(r)
    <2>1. /\ q.pc = "hdr" /\ q.eState = r.eState /\ q.jfd = r.jfd /\ q.dirSync = r.dirSync /\ q.hot = r.hot
      BY <1>1 DEF PagerRecord, RollingBack
    <2> HIDE DEF q
    <2>2. Named(q, os.dir, disk.dir)
      BY <1>1, <2>1 DEF Named
    <2> QED  BY <1>3, <1>6, <2>2 DEF q
  <1>7. CASE Set(c, InError(r)) /\ ~r.hot
    <2> DEFINE q == InError(r)
    <2>1. /\ q.pc = "idle" /\ q.eState = "ERROR" /\ q.jfd = r.jfd /\ q.dirSync = r.dirSync /\ q.hot = r.hot
      BY <1>1 DEF PagerRecord, InError
    <2> HIDE DEF q
    <2>2. Named(q, os.dir, disk.dir)
      BY <1>1, <1>7, <2>1 DEF Named
    <2> QED  BY <1>3, <1>7, <2>2 DEF q
  <1>8. r.pc \in {"jsync", "jnrec", "jsync2", "wpage", "dbsync"} => ~r.hot
    BY <1>1 DEF Control
  <1>9. \/ Set(c, [Closed EXCEPT !.vers = r.vers, !.held = r.held])
        \/ Set(c, Unlocked(r)) /\ ~r.hot
        \/ Set(c, RollingBack(r))
        \/ Set(c, InError(r)) /\ ~r.hot
    BY <1>8 DEF Fault
  <1> QED  BY <1>4, <1>5, <1>6, <1>7, <1>9

LEMMA ClosedNamed ==
  ASSUME NEW od, NEW dd
  PROVE  Named(Closed, od, dd)
  <1>1. Closed.pc = "idle" /\ Closed.hot = FALSE /\ Closed.eState = "OPEN" /\ Closed.jfd = 0
    BY DEF Closed
  <1> QED  BY <1>1 DEF Named

LEMMA PowerLossNamed ==
  ASSUME Shape, PowerLoss
  PROVE  AllNamed'
  <1>1. disk'.dir = os'.dir /\ conn' = [c \in Conn |-> Closed]
    BY PowerLossEffect
  <1>2. \A c \in Conn : Named(conn'[c], os'.dir, disk'.dir)
    <2> HIDE DEF Closed
    <2> QED  BY <1>1, ClosedNamed
  <1> QED  BY <1>1, <1>2 DEF AllNamed, MagicNamed

LEMMA InitNamed ==
  ASSUME Init
  PROVE  AllNamed
  <1>1. conn = [c \in Conn |-> Closed] /\ os.dir = 0
    BY DEF Init
  <1>2. \A c \in Conn : Named(conn[c], os.dir, disk.dir)
    <2> HIDE DEF Closed
    <2> QED  BY <1>1, ClosedNamed
  <1> QED  BY <1>1, <1>2 DEF AllNamed, MagicNamed

LEMMA NamedStep ==
  ASSUME OneWay, Shape, AllNamed, [Next]_vars
  PROVE  AllNamed'
  <1>1. CASE UNCHANGED vars
    BY <1>1 DEF vars, AllNamed, MagicNamed
  <1>2. ASSUME NEW c \in Conn,
               \/ SharedLock(c) \/ JournalExists(c) \/ CheckReservedLock(c)
               \/ FirstByte(c) \/ HotLock(c) \/ HotOpen(c) \/ HotSync(c)
               \/ CheckVersion(c) \/ ReadHdr(c) \/ PlayRecord(c) \/ PlaybackSync(c)
               \/ Finalize(c) \/ FinalizeSync(c) \/ EndRead(c) \/ Begin(c)
               \/ \E p \in Page : Get(c, p) \/ Write(c, p) \/ Spill(c, p)
               \/ Commit(c) \/ ExclusiveLock(c) \/ ChangeCounter(c)
               \/ JournalSync(c) \/ JournalCount(c) \/ JournalSync2(c)
               \/ WritePage(c) \/ DbSync(c) \/ Rollback(c)
               \/ ErrorUnlock(c) \/ Fault(c) \/ Kill(c)
        PROVE  AllNamed'
    <2>1. 1 \in Page
      BY Stored
    <2> QED
      BY <1>2, <2>1, SteadyNamed, EnteringNamed, HotSyncNamed, IdleNamed,
         FinalizeNamed, FinalizeSyncNamed, WriteNamed, ChangeCounterNamed,
         JournalSyncNamed, JournalCountNamed, JournalSync2Named, EndingNamed,
         FaultNamed
  <1> QED
    BY <1>1, <1>2, PowerLossNamed DEF Next

(* If all connections delete their journals, or none does: while a         *)
(* database file may differ from its committed content, the journal that   *)
(* undoes it is found under its name, after a power failure too.           *)
THEOREM JournalIsNamed == OneWay => (Spec => []JournalNamed)
  <1> SUFFICES ASSUME OneWay PROVE Spec => []JournalNamed
    OBVIOUS
  <1>1. Init => AllNamed
    BY InitNamed
  <1>2. Shape /\ AllNamed /\ [Next]_vars => AllNamed'
    BY NamedStep
  <1>3. AllNamed => JournalNamed
    BY DEF AllNamed, Named, JournalNamed
  <1>4. Spec => []Shape
    BY ShapeInvariant
  <1> QED
    BY <1>1, <1>2, <1>3, <1>4, PTL DEF Spec
=============================================================================
