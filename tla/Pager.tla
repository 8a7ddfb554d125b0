------------------------------- MODULE Pager --------------------------------
(***************************************************************************)
(* The rollback-journal pager of the storage engine: how a connection      *)
(* reads and changes a database file so that a transaction is atomic       *)
(* although the process may be killed, the power may fail, a write or a    *)
(* sync may report an error, and other connections use the same file.      *)
(*                                                                         *)
(* A step is one call into the operating system (a lock, a write, a sync)  *)
(* together with the memory changes up to the next one: between two steps  *)
(* another connection may run and anything may crash.  Two steps take more *)
(* than one call: opening the journal, writing its header and writing a    *)
(* record to it, none of which anybody looks at before the journal is      *)
(* synced; and giving up the journal and then part of the lock.  Files are *)
(* kept twice: os is what a read returns, disk what is left for certain    *)
(* after a power failure.  Synchronous is FULL, the default of the build,  *)
(* and locking_mode is NORMAL.                                             *)
(*                                                                         *)
(* Page 1 holds the change counter, a data page the number of the          *)
(* transaction that wrote it.  The journal is a sequence of slots, each a  *)
(* header or one page record; the random checksum seed of a journal is     *)
(* the number of its transaction.                                          *)
(***************************************************************************)
EXTENDS Integers, Sequences, FiniteSetsExt

CONSTANTS Conn,          \* connections, each in a process of its own
          MaxPage,       \* pages are numbered 1 .. MaxPage
          InitSizes,     \* sizes of the database before the first transaction
          Modes,         \* journal modes connections may be opened with
          Aligned,       \* may a journal end exactly on a sector boundary?
          MaxTxn,        \* bound: write transactions
          MaxFail,       \* bound: failures
          Failures       \* what can fail: "kill", "power", "fault"

ASSUME PagerAssumption ==
  /\ MaxPage \in Nat /\ InitSizes \subseteq 1..MaxPage
  /\ Modes \subseteq {"DELETE", "TRUNCATE", "PERSIST"}
  /\ Aligned \in BOOLEAN
  /\ {MaxTxn, MaxFail} \subseteq Nat
  /\ Failures \subseteq {"kill", "power", "fault"}

VARIABLES os,            \* the files as the kernel shows them
          disk,          \* the files as they are on the medium
          lock,          \* lock level of each connection
          conn,          \* the Pager object of each connection
          mode,          \* its journal mode
          txn,           \* number of the last journal begun
          failed         \* failures so far

vars == <<os, disk, lock, conn, mode, txn, failed>>

FL == INSTANCE FileLock WITH Handle <- Conn

Page   == 1..MaxPage
Absent == -1             \* beyond the end of the file, or not in the cache
Torn   == -2             \* a page a failed or interrupted write left behind

(* A file system: the pages of the database file, the inode the journal's  *)
(* name stands for (0: there is no journal) and the slots of each inode.   *)
(* An inode is numbered by the transaction that created it.  The medium    *)
(* also has the set of pages written since the database was synced.        *)
Inode == 1..MaxTxn

ZeroSlot == [k |-> "zero", pg |-> 0, val |-> 0, seed |-> 0]
BadSlot  == [k |-> "bad", pg |-> 0, val |-> 0, seed |-> 0]

(* writeJournalHdr: neither the magic nor the record count is in it yet *)
NewHdr(size, seed) == [k |-> "zero", pg |-> size, val |-> 0, seed |-> seed]
Record(p, v, seed) == [k |-> "rec", pg |-> p, val |-> v, seed |-> seed]

(* Write slot i, which may be the first one beyond the end. *)
PutSlot(S, i, s) ==
  [n \in 1..(IF i > Len(S) THEN i ELSE Len(S)) |-> IF n = i THEN s ELSE S[n]]

SizeOf(db) == Max({0} \cup {p \in Page : db[p] # Absent})
TruncateTo(db, n) == [p \in Page |-> IF p > n THEN Absent ELSE db[p]]
NoPages == [p \in Page |-> Absent]

(* The fields of struct Pager; pc, k, left and spill hold where a call is. *)
Closed ==
  [pc |-> "idle", eState |-> "OPEN", cache |-> NoPages, dirty |-> {},
   needSync |-> {}, inJournal |-> {}, jfd |-> 0, dirSync |-> FALSE,
   joff |-> 0, jhdr |-> 0, last |-> 0, nRec |-> 0, dbSize |-> 0, orig |-> 0,
   vers |-> 0, held |-> FALSE, seed |-> 0, k |-> 0, left |-> 0,
   hot |-> FALSE, spill |-> 0]

Init ==
  /\ \E n \in InitSizes :
       os = [db |-> [p \in Page |-> IF p <= n THEN 0 ELSE Absent],
             dir |-> 0, file |-> [i \in Inode |-> <<>>]]
  /\ disk = [db |-> os.db, dir |-> 0, file |-> os.file, behind |-> {}]
  /\ FL!Init
  /\ conn = [c \in Conn |-> Closed]
  /\ mode \in [Conn -> Modes]
  /\ txn = 0
  /\ failed = 0

Set(c, r) == conn' = [conn EXCEPT ![c] = r]
Goto(c, l) == Set(c, [conn[c] EXCEPT !.pc = l])
At(c, l)  == conn[c].pc = l
Idle(c, S) == conn[c].pc = "idle" /\ conn[c].eState \in S
Journal(c) == os.file[conn[c].jfd]

(* fsync of the database *)
SyncDb == [disk EXCEPT !.db = os.db, !.behind = {}]
Behind(P) == [disk EXCEPT !.behind = @ \cup P]

(* fsync of the journal.  The first one after the journal was opened with  *)
(* the intention to create it syncs its directory too.                     *)
Fsync(c) ==
  [disk EXCEPT !.file[conn[c].jfd] = Journal(c),
               !.dir = IF conn[c].dirSync THEN os.dir ELSE @]

-----------------------------------------------------------------------------
(* sqlite3PagerSharedLock *)

(* pager_wait_on_lock; a busy handler calls again, or the caller gives up *)
SharedLock(c) ==
  /\ Idle(c, {"OPEN"})
  /\ FL!Shared(c)
  /\ Goto(c, "exists")
  /\ UNCHANGED <<os, disk, mode, txn, failed>>

(* hasHotJournal: is there a journal file ... *)
JournalExists(c) ==
  /\ At(c, "exists")
  /\ Goto(c, IF os.dir = 0 THEN "vers" ELSE "reserved")
  /\ UNCHANGED <<os, disk, lock, mode, txn, failed>>

(* ... that no live writer is using ... *)
CheckReservedLock(c) ==
  /\ At(c, "reserved")
  /\ Goto(c, IF FL!CheckReserved(c) THEN "vers" ELSE "first")
  /\ UNCHANGED <<os, disk, lock, mode, txn, failed>>

(* ... and whose first byte is not zero?  A journal that has gone in the   *)
(* meantime counts as hot.                                                 *)
FirstByte(c) ==
  /\ At(c, "first")
  /\ LET hot == os.dir # 0 => /\ os.file[os.dir] # <<>>
                              /\ os.file[os.dir][1].k # "zero"
     IN  Goto(c, IF hot THEN "excl" ELSE "vers")
  /\ UNCHANGED <<os, disk, lock, mode, txn, failed>>

(* pager_unlock: the cache survives, the journal file does not stay open *)
Unlocked(r) ==
  [r EXCEPT !.pc = "idle", !.eState = "OPEN", !.jfd = 0, !.dirSync = FALSE,
            !.inJournal = {}, !.joff = 0, !.jhdr = 0, !.last = 0]

(* The EXCLUSIVE lock is asked for straight from SHARED, and only once. *)
HotLock(c) ==
  /\ At(c, "excl")
  /\ \/ /\ FL!Exclusive(c)
        /\ Goto(c, "open")
     \/ /\ ~FL!Alone(c)
        /\ FL!Unlock(c, FL!NO_LOCK)
        /\ Set(c, Unlocked(conn[c]))
  /\ UNCHANGED <<os, disk, mode, txn, failed>>

(* Look for the journal again: somebody else may have rolled it back. *)
HotOpen(c) ==
  /\ At(c, "open")
  /\ \/ /\ os.dir = 0
        /\ FL!Unlock(c, FL!SHARED_LOCK)
        /\ Goto(c, "vers")
     \/ /\ os.dir # 0
        /\ Set(c, [conn[c] EXCEPT !.pc = "hsync", !.hot = TRUE,
                                  !.jfd = os.dir, !.dirSync = FALSE])
        /\ UNCHANGED lock
  /\ UNCHANGED <<os, disk, mode, txn, failed>>

(* pagerSyncHotJournal *)
HotSync(c) ==
  /\ At(c, "hsync")
  /\ disk' = Fsync(c)
  /\ Set(c, [conn[c] EXCEPT !.pc = "hdr", !.k = 1,
                            !.jhdr = Len(Journal(c)) + 1])
  /\ UNCHANGED <<os, lock, mode, txn, failed>>

(* Faulty variant: the cache is kept whatever others wrote. *)
Fresh_unchecked(r) == TRUE

(* The cache outlives the lock: it is kept only when the change counter is *)
(* the one this connection read or wrote last.                             *)
Fresh(r) == r.held => r.vers = os.db[1]

CheckVersion(c) ==
  /\ At(c, "vers")
  /\ LET r == conn[c]
     IN  Set(c, [r EXCEPT !.pc = "idle", !.eState = "READER", !.held = TRUE,
                          !.cache = IF Fresh(r) THEN @ ELSE NoPages,
                          !.dbSize = SizeOf(os.db)])
  /\ UNCHANGED <<os, disk, lock, mode, txn, failed>>

-----------------------------------------------------------------------------
(* pager_playback, of a hot journal or of the connection's own *)

(* A header is recognised by its magic, which the connection's own last    *)
(* header need not have yet; that one covers the rest of the file.         *)
OwnLast(r) == ~r.hot /\ r.k = r.last

DbTouched(r) == r.hot \/ r.eState = "DBMOD"

(* Faulty variant: the journal goes before the pages are synced. *)
AfterPlayback_unsynced(r) == "fin"

AfterPlayback(r) == IF DbTouched(r) THEN "rsync" ELSE "fin"

(* readJournalHdr; the first header also gives the size to truncate to *)
ReadHdr(c) ==
  /\ At(c, "hdr")
  /\ LET r == conn[c]
         S == Journal(c)
         ok == r.k <= Len(S) /\ (S[r.k].k = "hdr" \/ OwnLast(r))
         n == IF S[r.k].val = 0 /\ OwnLast(r) THEN Len(S) - r.k
              ELSE S[r.k].val
         size == IF r.k = 1 THEN S[1].pg ELSE r.dbSize
     IN  \/ /\ ~ok
            /\ Goto(c, AfterPlayback(r))
            /\ UNCHANGED <<os, disk>>
         \/ /\ ok
            /\ Set(c, [r EXCEPT !.pc = IF n = 0 THEN "hdr" ELSE "rec",
                                !.left = n, !.seed = S[r.k].seed,
                                !.k = @ + 1, !.dbSize = size])
            /\ IF r.k = 1 /\ DbTouched(r)
               THEN /\ os' = [os EXCEPT !.db = TruncateTo(@, size)]
                    /\ disk' = Behind({p \in Page : os.db[p] # os'.db[p]})
               ELSE UNCHANGED <<os, disk>>
  /\ UNCHANGED <<lock, mode, txn, failed>>

(* pager_playback_one_page: a page beyond the original size is skipped;    *)
(* any other goes, if the checksum fits, to the page in the cache and to   *)
(* the file if that may have been changed and the record is synced.  A hot *)
(* journal empties the cache instead.                                      *)
IsRecord(r, S) == r.k <= Len(S) /\ S[r.k].k = "rec"
Skips(r, S)  == IsRecord(r, S) /\ S[r.k].pg > r.dbSize
Plays(r, S)  == IsRecord(r, S) /\ S[r.k].pg <= r.dbSize /\ S[r.k].seed = r.seed
ToFile(r, S) == Plays(r, S) /\ DbTouched(r) /\ r.k < r.jhdr

PlayRecord(c) ==
  /\ At(c, "rec")
  /\ LET r == conn[c]
         S == Journal(c)
         s == S[r.k]
         next == [r EXCEPT !.pc = IF r.left = 1 THEN "hdr" ELSE "rec",
                           !.left = @ - 1, !.k = @ + 1,
                           !.cache = IF r.hot THEN NoPages ELSE @]
     IN  /\ os' = IF ToFile(r, S) THEN [os EXCEPT !.db[s.pg] = s.val] ELSE os
         /\ disk' = IF ToFile(r, S) THEN Behind({s.pg}) ELSE disk
         /\ \/ /\ ~Skips(r, S) /\ ~Plays(r, S)
               /\ Set(c, [r EXCEPT !.pc = AfterPlayback(r),
                                   !.cache = IF r.hot THEN NoPages ELSE @])
            \/ /\ Skips(r, S)
               /\ Set(c, next)
            \/ /\ Plays(r, S)
               /\ Set(c, IF ~r.hot /\ r.cache[s.pg] # Absent
                         THEN [next EXCEPT
                                 !.cache[s.pg] = s.val,
                                 !.vers = IF s.pg = 1 THEN s.val ELSE @]
                         ELSE next)
  /\ UNCHANGED <<lock, mode, txn, failed>>

(* sqlite3PagerSync at the end of a playback *)
PlaybackSync(c) ==
  /\ At(c, "rsync")
  /\ disk' = SyncDb
  /\ Goto(c, "fin")
  /\ UNCHANGED <<os, lock, mode, txn, failed>>

-----------------------------------------------------------------------------
(* pager_end_transaction: the commit point, or the end of a rollback *)

(* Faulty variant: sqlite3PcacheCleanAll is forgotten. *)
Ended_dirty(r) ==
  [r EXCEPT !.pc = IF r.hot THEN "vers" ELSE "idle",
            !.eState = IF r.hot THEN "OPEN" ELSE "READER",
            !.cache = TruncateTo(@, r.dbSize), !.inJournal = {}, !.joff = 0,
            !.jhdr = 0, !.last = 0, !.nRec = 0, !.orig = 0,
            !.k = 0, !.left = 0, !.seed = 0, !.hot = FALSE, !.spill = 0]

(* After a hot journal the call to sqlite3PagerSharedLock goes on. *)
Ended(r) ==
  [r EXCEPT !.pc = IF r.hot THEN "vers" ELSE "idle",
            !.eState = IF r.hot THEN "OPEN" ELSE "READER",
            !.cache = TruncateTo(@, r.dbSize),
            !.dirty = {}, !.needSync = {}, !.inJournal = {}, !.joff = 0,
            !.jhdr = 0, !.last = 0, !.nRec = 0, !.orig = 0,
            !.k = 0, !.left = 0, !.seed = 0, !.hot = FALSE, !.spill = 0]

EndTransaction(c, r) ==
  /\ Set(c, Ended(r))
  /\ FL!Unlock(c, FL!SHARED_LOCK)

(* A hot journal that gave no header has journalOff = 0: it is left alone  *)
(* unless it is to be deleted.                                             *)
Finalize(c) ==
  /\ At(c, "fin")
  /\ LET r == conn[c]
         untouched == r.hot /\ r.k = 1
     IN  \/ /\ mode[c] = "DELETE"
            /\ os' = [os EXCEPT !.dir = 0]
            /\ EndTransaction(c, [r EXCEPT !.jfd = 0, !.dirSync = FALSE])
            /\ UNCHANGED disk
         \/ /\ mode[c] # "DELETE" /\ untouched
            /\ EndTransaction(c, r)
            /\ UNCHANGED <<os, disk>>
         \/ /\ mode[c] # "DELETE" /\ ~untouched
            /\ os' = [os EXCEPT !.file[r.jfd] =
                        IF mode[c] = "TRUNCATE" THEN <<>>
                        ELSE PutSlot(@, 1, ZeroSlot)]
            /\ Goto(c, "finsync")
            /\ UNCHANGED <<disk, lock>>
  /\ UNCHANGED <<mode, txn, failed>>

FinalizeSync(c) ==
  /\ At(c, "finsync")
  /\ disk' = Fsync(c)
  /\ EndTransaction(c, [conn[c] EXCEPT !.dirSync = FALSE])
  /\ UNCHANGED <<os, mode, txn, failed>>

-----------------------------------------------------------------------------
(* Reading and changing pages *)

(* getPageNormal and readDbPage: a miss reads the page; page 1 comes first *)
Get(c, p) ==
  /\ Idle(c, {"READER", "LOCKED", "CACHEMOD", "DBMOD"})
  /\ LET r == conn[c]
     IN  /\ p <= r.dbSize /\ r.cache[p] = Absent
         /\ p # 1 => r.cache[1] # Absent
         /\ Set(c, [r EXCEPT !.cache[p] = os.db[p],
                             !.vers = IF p = 1 THEN os.db[1] ELSE @])
  /\ UNCHANGED <<os, disk, lock, mode, txn, failed>>

(* The last page is released: pager_unlock *)
EndRead(c) ==
  /\ Idle(c, {"READER"})
  /\ FL!Unlock(c, FL!NO_LOCK)
  /\ Set(c, Unlocked(conn[c]))
  /\ UNCHANGED <<os, disk, mode, txn, failed>>

(* sqlite3PagerBegin; without the RESERVED lock the caller gets SQLITE_BUSY *)
Begin(c) ==
  /\ Idle(c, {"READER"})
  /\ conn[c].cache[1] # Absent
  /\ txn < MaxTxn
  /\ FL!Reserved(c)
  /\ Set(c, [conn[c] EXCEPT !.eState = "LOCKED", !.orig = conn[c].dbSize,
                            !.joff = 0])
  /\ UNCHANGED <<os, disk, mode, txn, failed>>

(* Faulty variant: the directory of a new journal is not synced. *)
OpenJournal_nameless(r) ==
  [r EXCEPT !.eState = "CACHEMOD", !.seed = txn + 1,
            !.jfd = IF @ # 0 THEN @ ELSE IF os.dir # 0 THEN os.dir
                    ELSE txn + 1,
            !.joff = 1, !.jhdr = 1, !.last = 1, !.nRec = 0]

(* pager_open_journal: a journal file that is still open is used again, an *)
(* existing one is opened, else one is created                             *)
OpenJournal(r) ==
  [r EXCEPT !.eState = "CACHEMOD", !.seed = txn + 1,
            !.jfd = IF @ # 0 THEN @ ELSE IF os.dir # 0 THEN os.dir
                    ELSE txn + 1,
            !.dirSync = IF r.jfd # 0 THEN @ ELSE TRUE,
            !.joff = 1, !.jhdr = 1, !.last = 1, !.nRec = 0]

(* pagerAddPageToRollbackJournal, for a page of the original database that *)
(* is not in the journal yet                                               *)
MustJournal(r, p) == p <= r.orig /\ p \notin r.inJournal
Journaled(r, p) ==
  IF MustJournal(r, p)
  THEN [r EXCEPT !.joff = @ + 1, !.nRec = @ + 1, !.needSync = @ \cup {p},
                 !.inJournal = @ \cup {p}]
  ELSE r
JournalPage(S, r, p) ==
  IF MustJournal(r, p)
  THEN PutSlot(S, r.joff + 1, Record(p, r.cache[p], r.seed)) ELSE S

(* pager_write of a cached page or of the next new one, and the change the *)
(* caller makes to it                                                      *)
Write(c, p) ==
  /\ Idle(c, {"LOCKED", "CACHEMOD", "DBMOD"})
  /\ LET r == conn[c]
         open == r.eState = "LOCKED"
         q == IF open THEN OpenJournal(r) ELSE r
         S == IF open THEN PutSlot(os.file[q.jfd], 1, NewHdr(r.orig, q.seed))
              ELSE os.file[q.jfd]
         new == p > r.orig /\ r.eState # "DBMOD"
     IN  /\ p # 1 /\ p \notin r.dirty
         /\ p = r.dbSize + 1 \/ r.cache[p] # Absent
         /\ Set(c, [Journaled(q, p) EXCEPT
                      !.dirty = @ \cup {p}, !.cache[p] = q.seed,
                      !.needSync = IF new THEN @ \cup {p} ELSE @,
                      !.dbSize = IF p > @ THEN p ELSE @])
         /\ os' = [os EXCEPT !.file[q.jfd] = JournalPage(S, q, p),
                             !.dir = IF open /\ r.jfd = 0 THEN q.jfd ELSE @]
         /\ txn' = IF open THEN txn + 1 ELSE txn
  /\ UNCHANGED <<disk, lock, mode, failed>>

-----------------------------------------------------------------------------
(* sqlite3PagerCommitPhaseOne, and pagerStress, which writes one dirty     *)
(* page early when the cache is full                                       *)

Commit(c) ==
  /\ Idle(c, {"CACHEMOD", "DBMOD"})
  /\ Set(c, [conn[c] EXCEPT !.pc = "jexcl", !.spill = 0])
  /\ UNCHANGED <<os, disk, lock, mode, txn, failed>>

Spill(c, p) ==
  /\ Idle(c, {"CACHEMOD", "DBMOD"})
  /\ LET r == conn[c]
         sync == p \in r.needSync \/ r.eState = "CACHEMOD"
     IN  /\ p \in r.dirty /\ p # 1
         /\ Set(c, [r EXCEPT !.pc = IF sync THEN "jexcl" ELSE "wpage",
                             !.spill = p])
  /\ UNCHANGED <<os, disk, lock, mode, txn, failed>>

(* sqlite3PagerExclusiveLock: PENDING first; with readers left the caller  *)
(* gets SQLITE_BUSY and keeps the PENDING lock.                            *)
ExclusiveLock(c) ==
  /\ At(c, "jexcl")
  /\ LET next == IF conn[c].spill = 0 THEN "cc" ELSE "jsync"
     IN  \/ /\ FL!Pending(c)
            /\ UNCHANGED conn
         \/ /\ lock[c] = FL!PENDING_LOCK
            /\ FL!Exclusive(c)
            /\ Goto(c, next)
         \/ /\ lock[c] = FL!EXCLUSIVE_LOCK
            /\ Goto(c, next)
            /\ UNCHANGED lock
         \/ /\ lock[c] = FL!PENDING_LOCK /\ ~FL!Alone(c)
            /\ Set(c, [conn[c] EXCEPT !.pc = "idle", !.spill = 0])
            /\ UNCHANGED lock
  /\ UNCHANGED <<os, disk, mode, txn, failed>>

(* pager_incr_changecounter *)
ChangeCounter(c) ==
  /\ At(c, "cc")
  /\ LET r == conn[c]
     IN  /\ Set(c, [Journaled(r, 1) EXCEPT !.pc = "jsync", !.cache[1] = r.vers + 1,
                                           !.dirty = @ \cup {1}])
         /\ os' = [os EXCEPT !.file[r.jfd] = JournalPage(@, r, 1)]
  /\ UNCHANGED <<disk, lock, mode, txn, failed>>

(* Faulty variant: what lies behind the journal is left alone. *)
StaleHdr_ignored(S, n) == FALSE

StaleHdr(S, n) == n <= Len(S) /\ S[n].k = "hdr"

(* syncJournal: a header an earlier transaction left behind the journal is *)
(* made unrecognisable, and the records are synced ...                     *)
JournalSync(c) ==
  /\ At(c, "jsync")
  /\ LET r == conn[c]
         S == Journal(c)
         n == r.joff + 1
         o == [os EXCEPT !.file[r.jfd] =
                 IF StaleHdr(S, n) THEN [@ EXCEPT ![n].k = "bad"] ELSE @]
     IN  /\ os' = o
         /\ disk' = [Fsync(c) EXCEPT !.file[r.jfd] = o.file[r.jfd]]
         /\ Set(c, [r EXCEPT !.pc = "jnrec", !.dirSync = FALSE])
  /\ UNCHANGED <<lock, mode, txn, failed>>

(* ... before the header gets the magic and the record count ... *)
JournalCount(c) ==
  /\ At(c, "jnrec")
  /\ LET r == conn[c]
     IN  os' = [os EXCEPT !.file[r.jfd][r.jhdr] =
                  [@ EXCEPT !.k = "hdr", !.val = r.nRec]]
  /\ Goto(c, "jsync2")
  /\ UNCHANGED <<disk, lock, mode, txn, failed>>

(* ... and is synced.  More records need a header of their own. *)
JournalSync2(c) ==
  /\ At(c, "jsync2")
  /\ disk' = Fsync(c)
  /\ LET r == conn[c]
         n == r.joff + 1
         q == [r EXCEPT !.pc = "wpage", !.eState = "DBMOD", !.needSync = {},
                        !.dirSync = FALSE, !.jhdr = n]
     IN  \/ /\ r.spill = 0
            /\ Set(c, [q EXCEPT !.last = IF Aligned THEN n ELSE 0])
            /\ UNCHANGED os
         \/ /\ r.spill # 0
            /\ Set(c, [q EXCEPT !.last = n, !.joff = n, !.nRec = 0])
            /\ os' = [os EXCEPT !.file[r.jfd] =
                        PutSlot(@, n, NewHdr(r.orig, r.seed))]
  /\ UNCHANGED <<lock, mode, txn, failed>>

(* The pages pager_write_pagelist has still to write *)
ToWrite(r) == IF r.spill = 0 THEN r.dirty ELSE {r.spill}

(* pager_write_pagelist, one page at a time in ascending order *)
WritePage(c) ==
  /\ At(c, "wpage")
  /\ LET r == conn[c]
         p == Min(ToWrite(r))
         last == ToWrite(r) = {p}
     IN  /\ os' = [os EXCEPT !.db[p] = r.cache[p]]
         /\ disk' = Behind({p})
         /\ Set(c, [r EXCEPT !.dirty = @ \ {p}, !.spill = 0,
                             !.vers = IF p = 1 THEN r.cache[1] ELSE @,
                             !.pc = IF r.spill # 0 THEN "idle"
                                    ELSE IF last THEN "dbsync" ELSE @])
  /\ UNCHANGED <<lock, mode, txn, failed>>

(* sqlite3PagerSync; sqlite3PagerCommitPhaseTwo is Finalize *)
DbSync(c) ==
  /\ At(c, "dbsync")
  /\ disk' = SyncDb
  /\ Set(c, [conn[c] EXCEPT !.pc = "fin", !.eState = "FINISHED"])
  /\ UNCHANGED <<os, lock, mode, txn, failed>>

(* sqlite3PagerRollback; the playback starts at the first header *)
RollingBack(r) == [r EXCEPT !.pc = "hdr", !.k = 1, !.spill = 0]

Rollback(c) ==
  /\ \/ /\ Idle(c, {"CACHEMOD", "DBMOD"})
        /\ Set(c, RollingBack(conn[c]))
        /\ UNCHANGED lock
     \/ /\ Idle(c, {"LOCKED"})
        /\ EndTransaction(c, conn[c])
  /\ UNCHANGED <<os, disk, mode, txn, failed>>

-----------------------------------------------------------------------------
(* Failures *)

Fails(what) ==
  /\ what \in Failures /\ failed < MaxFail
  /\ failed' = failed + 1

(* pager_error and, when the last page is released, pager_unlock *)
InError(r) == [r EXCEPT !.pc = "idle", !.eState = "ERROR"]

ErrorUnlock(c) ==
  /\ Idle(c, {"ERROR"})
  /\ FL!Unlock(c, FL!NO_LOCK)
  /\ Set(c, [Closed EXCEPT !.vers = conn[c].vers, !.held = conn[c].held])
  /\ UNCHANGED <<os, disk, mode, txn, failed>>

(* A failed write leaves the page as it was or damaged. *)
Damage(c) ==
  LET r == conn[c]
      p == IF At(c, "rec") THEN Journal(c)[r.k].pg ELSE Min(ToWrite(r))
  IN  \/ UNCHANGED <<os, disk>>
      \/ /\ \/ At(c, "wpage")
            \/ At(c, "rec") /\ ToFile(r, Journal(c))
         /\ os' = [os EXCEPT !.db[p] = Torn]
         /\ disk' = Behind({p})

(* A system call of a sync, of a commit, of a playback or of the end of a  *)
(* transaction reports an error: in sqlite3PagerSharedLock the lock is     *)
(* given back; a commit is rolled back (sqlite3VdbeHalt); a spill and a    *)
(* rollback leave the pager in the ERROR state.  Reads of pages, writes of *)
(* records to the journal and the look at a journal's first byte do not    *)
(* fail here.                                                              *)
Fault(c) ==
  /\ Fails("fault")
  /\ \/ /\ conn[c].pc \in {"exists", "reserved", "vers"} \/ conn[c].hot
        /\ FL!Unlock(c, FL!NO_LOCK)
        /\ Set(c, IF conn[c].hot
                  THEN [Closed EXCEPT !.vers = conn[c].vers,
                                      !.held = conn[c].held]
                  ELSE Unlocked(conn[c]))
     \/ /\ conn[c].pc \in {"jsync", "jnrec", "jsync2", "wpage", "dbsync"}
        /\ Set(c, IF conn[c].spill = 0 THEN RollingBack(conn[c])
                  ELSE InError(conn[c]))
        /\ UNCHANGED lock
     \/ /\ conn[c].pc \in {"rec", "rsync"} /\ ~conn[c].hot
        /\ Set(c, InError(conn[c]))
        /\ UNCHANGED lock
     \/ /\ conn[c].pc \in {"fin", "finsync"} /\ ~conn[c].hot
        /\ Set(c, InError(conn[c]))
        /\ FL!Unlock(c, FL!SHARED_LOCK)
  /\ Damage(c)
  /\ UNCHANGED <<mode, txn>>

(* The process of a connection ends; the kernel keeps its writes. *)
Kill(c) ==
  /\ Fails("kill")
  /\ conn[c] # Closed
  /\ Set(c, Closed)
  /\ FL!Drop({c})
  /\ UNCHANGED <<os, disk, mode, txn>>

(* What is left of a page or a slot of which the medium has a and the      *)
(* kernel b: one of them, or damage                                        *)
Outcome == {"old", "new", "bad"}
Left(w, a, b, damaged) ==
  CASE w = "old" -> a [] w = "new" -> b [] w = "bad" -> damaged

PagesLeft ==
  {db \in {[p \in Page |-> IF p \notin disk.behind THEN os.db[p]
                           ELSE Left(w[p], disk.db[p], os.db[p], Torn)] :
             w \in [Page -> Outcome]} :
     \A p \in 1..SizeOf(db) : db[p] # Absent}

(* A file that grew may have any length in between, and a truncation took  *)
(* place or not: slots it removed are not damaged.                         *)
SlotsLeft(S, T) ==
  LET Old(n) == IF n <= Len(S) THEN S[n] ELSE BadSlot
      New(n) == IF n <= Len(T) THEN T[n] ELSE S[n]
      lengths == IF Len(S) <= Len(T) THEN Len(S)..Len(T)
                 ELSE {Len(S), Len(T)}
  IN  {[n \in 1..m |-> IF Old(n) = New(n) THEN Old(n)
                      ELSE Left(w[n], Old(n), New(n), BadSlot)] :
         m \in lengths, w \in [1..Max(lengths) -> Outcome]}

(* Each write that was not synced has reached the medium, or not, or in    *)
(* part, and so has the creation or deletion of the journal.               *)
PowerLoss ==
  /\ Fails("power")
  /\ \E db \in PagesLeft,
        dir \in IF disk.dir = os.dir THEN {os.dir}
                ELSE {disk.dir, os.dir, 0} :
       \E S \in IF dir = 0 THEN {<<>>}
                ELSE SlotsLeft(disk.file[dir], os.file[dir]) :
         os' = [db |-> db, dir |-> dir,
                file |-> [i \in Inode |-> IF i = dir THEN S ELSE <<>>]]
  /\ disk' = [db |-> os'.db, dir |-> os'.dir, file |-> os'.file,
              behind |-> {}]
  /\ conn' = [c \in Conn |-> Closed]
  /\ FL!Drop(Conn)
  /\ UNCHANGED <<mode, txn>>

-----------------------------------------------------------------------------
Next ==
  \/ \E c \in Conn :
       \/ SharedLock(c) \/ JournalExists(c) \/ CheckReservedLock(c)
       \/ FirstByte(c) \/ HotLock(c) \/ HotOpen(c) \/ HotSync(c)
       \/ CheckVersion(c) \/ ReadHdr(c) \/ PlayRecord(c) \/ PlaybackSync(c)
       \/ Finalize(c) \/ FinalizeSync(c) \/ EndRead(c) \/ Begin(c)
       \/ \E p \in Page : Get(c, p) \/ Write(c, p) \/ Spill(c, p)
       \/ Commit(c) \/ ExclusiveLock(c) \/ ChangeCounter(c)
       \/ JournalSync(c) \/ JournalCount(c) \/ JournalSync2(c)
       \/ WritePage(c) \/ DbSync(c) \/ Rollback(c)
       \/ ErrorUnlock(c) \/ Fault(c) \/ Kill(c)
  \/ PowerLoss

Spec == Init /\ [][Next]_vars

-----------------------------------------------------------------------------
(* What a reader that came now would see: the database file with the       *)
(* longest well-formed prefix of the journal undone.  A header must follow *)
(* the records of the one before; a record must carry its header's seed or *)
(* lie beyond the original size.                                           *)
WellFormed(S, n) ==
  LET before == {h \in 1..(n - 1) : S[h].k = "hdr"}
      h == Max(before)
      inside == before # {} /\ n <= h + S[h].val
  IN  CASE S[n].k = "hdr" -> n = 1 \/ (before # {} /\ n = h + S[h].val + 1)
        [] S[n].k = "rec" -> inside /\ (S[n].seed = S[h].seed \/ S[n].pg > S[1].pg)
        [] OTHER -> FALSE

Undone(db, S) ==
  LET played == {n \in DOMAIN S : \A m \in 1..n : WellFormed(S, m)}
      Of(p) == {n \in played : S[n].k = "rec" /\ S[n].pg = p}
  IN  IF played = {} THEN db
      ELSE [p \in Page |-> IF p > S[1].pg THEN Absent
                           ELSE IF Of(p) = {} THEN db[p] ELSE S[Max(Of(p))].val]

Restored(fs) == IF fs.dir = 0 THEN fs.db ELSE Undone(fs.db, fs.file[fs.dir])

(* What a connection inside a transaction sees *)
Overlay(c) ==
  [p \in Page |-> IF p > conn[c].dbSize THEN Absent
                  ELSE IF conn[c].cache[p] # Absent THEN conn[c].cache[p]
                  ELSE os.db[p]]

IsRollingBack(r) ==
  \/ r.pc \in {"hdr", "rec", "rsync"}
  \/ r.pc \in {"fin", "finsync"} /\ r.eState # "FINISHED"

NoView == <<>>

View(c) ==
  LET r == conn[c]
  IN  IF r.eState \in {"OPEN", "ERROR"} THEN NoView
      ELSE IF IsRollingBack(r) THEN Restored(os) ELSE Overlay(c)

Writing ==
  {c \in Conn : /\ conn[c].eState \in {"LOCKED", "CACHEMOD", "DBMOD", "FINISHED"}
                /\ ~IsRollingBack(conn[c])
                /\ conn[c].pc # "finsync"}

Store == INSTANCE AtomicStore
           WITH Image <- [Page -> 0..MaxTxn \cup {Absent}],
                committed <- Restored(os), durable <- Restored(disk),
                view <- [c \in Conn |-> View(c)], writing <- Writing

(* Pages in the cache are never damaged, at most one journal inode is      *)
(* open, and only dirty pages wait for a journal sync.                     *)
TypeOK ==
  /\ lock \in [Conn -> FL!Level]
  /\ \A c \in Conn :
       /\ conn[c].jfd \in {0} \cup Inode
       /\ conn[c].cache \in [Page -> {Absent} \cup 0..MaxTxn]
       /\ conn[c].needSync \subseteq conn[c].dirty
       /\ conn[c].dirty \subseteq {p \in Page : conn[c].cache[p] # Absent}

(* Transactions are atomic, isolated and durable: whatever the             *)
(* interleaving of the connections, a step of the pager is a step of       *)
(* AtomicStore or changes nothing there.  In DELETE mode that is so        *)
(* whatever fails, and however often.  In the modes that keep the journal  *)
(* file it is checked with one failure only: UnsyncedLossHarmless below    *)
(* shows why a transaction and a further failure are another matter.       *)
ImplementsAtomicStore == Store!Spec

(* While the database file differs from the committed content, the journal *)
(* that undoes it can be found: it is the file the journal's name stands   *)
(* for, on the medium too.                                                 *)
JournalNamed ==
  \A c \in Conn : conn[c].eState \in {"DBMOD", "FINISHED"} =>
    os.dir = conn[c].jfd /\ disk.dir = conn[c].jfd

(* A connection that rolls its own transaction back plays no record of an  *)
(* earlier one, although the journal file may still hold some.             *)
OwnRecordsOnly ==
  \A c \in Conn : At(c, "rec") /\ ~conn[c].hot => conn[c].seed = txn

-----------------------------------------------------------------------------
(* What a comment of the code says and the code does not do.               *)

(* Invariant (7) of pager.c:82-85: "if any subset, including the empty set *)
(* and the total set, of the unsynced changes to a rollback journal are    *)
(* removed and the journal is rolled back", the database is as it was at   *)
(* the beginning of the transaction; here, as long as the transaction has  *)
(* not written to the database file, which is to be left as it is.         *)
UnsyncedLossHarmless ==
  \A c \in Conn : conn[c].eState = "CACHEMOD" =>
    \A S \in SlotsLeft(disk.file[conn[c].jfd], Journal(c)) :
      (\A n \in DOMAIN S : S[n].k # "bad") => Undone(os.db, S) = os.db
=============================================================================
