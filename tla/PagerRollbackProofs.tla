------------------------ MODULE PagerRollbackProofs -------------------------
(***************************************************************************)
(* Why a connection that rolls back plays only what it wrote itself        *)
(* (OwnRecordsOnly), in every journal mode, although the file may hold the *)
(* journals of earlier transactions behind its own.  A journal that ends   *)
(* exactly on a sector boundary is excepted: the run Pager_stale_header    *)
(* shows what happens then.                                                *)
(***************************************************************************)
EXTENDS PagerProofs

InTxn(r) ==
  r.eState \in {"CACHEMOD", "DBMOD"} /\ r.pc \notin {"rsync", "fin", "finsync"}

(* The last header still gets records, and its count is not final. *)
Appending(r) ==
  r.pc \in {"idle", "jexcl"} \cup Committing \/ (r.pc = "wpage" /\ r.spill # 0)

(* Slot t is in the transaction's own part 1 .. joff of journal S, or it   *)
(* is the next one and not a header.                                       *)
Within(t, joff, S) ==
  t <= joff \/ (t = joff + 1 /\ ~StaleHdr(S, t))

(* Every slot of the own part carries the number n of the transaction, and *)
(* no header but the last, whose count is open, covers more than that      *)
(* part.  So the playback meets a header only inside it, unless it has     *)
(* reached the end of the file.                                            *)
OwnIn(r, S, n) ==
  /\ r.pc \notin {"hdr", "rec"} => r.seed = n
  /\ r.last <= r.joff
  /\ \A i \in 1..r.joff : S[i].seed = n
  /\ \A i \in 1..r.joff : S[i].k = "hdr" \/ i = r.last =>
       Within(i + S[i].val + 1, r.joff, S) \/ (i = r.last /\ S[i].val = 0)
  /\ Appending(r) => r.jhdr + r.nRec = r.joff /\ r.last = r.jhdr
  /\ r.pc \in {"jnrec", "jsync2"} => ~StaleHdr(S, r.joff + 1)
  /\ r.pc = "hdr" => Within(r.k, r.joff, S) \/ r.k > Len(S)
  /\ r.pc = "rec" =>
       /\ r.seed = n
       /\ Within(r.k + r.left, r.joff, S) \/ r.k + r.left > Len(S)

OwnJournal(r, file, n) == InTxn(r) => OwnIn(r, file[r.jfd], n)

AllOwn == \A c \in Conn : OwnJournal(conn[c], os.file, txn)

-----------------------------------------------------------------------------
USE DEF Entering, Replaying, Committing, Writers, FL!NO_LOCK, FL!SHARED_LOCK,
        FL!RESERVED_LOCK, FL!PENDING_LOCK, FL!EXCLUSIVE_LOCK, FL!Level

(* Only the holder of the RESERVED lock writes journal files. *)
LEMMA OwnFrame ==
  ASSUME Shape, AllOwn, NEW c \in Conn, NEW q,
         conn' = [conn EXCEPT ![c] = q],
         OwnJournal(q, os'.file, txn'),
         (os'.file = os.file /\ txn' = txn) \/ lock[c] >= FL!RESERVED_LOCK
  PROVE  AllOwn'
  <1>1. ASSUME NEW d \in Conn PROVE OwnJournal(conn'[d], os'.file, txn')
    <2>1. CASE d = c
      BY <2>1 DEF Shape, Types
    <2>2. CASE d # c
      <3>1. conn'[d] = conn[d] /\ OwnJournal(conn[d], os.file, txn)
        BY <2>2 DEF AllOwn, Shape, Types
      <3>2. CASE os'.file = os.file /\ txn' = txn
        BY <3>1, <3>2
      <3>3. CASE lock[c] >= FL!RESERVED_LOCK
        <4>1. lock[d] <= FL!SHARED_LOCK /\ lock[d] \in 0..4 /\ Control(conn[d], lock[d])
          BY <2>2, <3>3 DEF Shape, Locks, Types
        <4>2. conn[d].eState \notin Writers
          BY <4>1 DEF Control
        <4> QED  BY <3>1, <4>2 DEF OwnJournal, InTxn
      <3> QED  BY <3>2, <3>3
    <2> QED  BY <2>1, <2>2
  <1> QED  BY <1>1 DEF AllOwn

LEMMA SetOwn ==
  ASSUME Shape, AllOwn, NEW c \in Conn, NEW q, Set(c, q),
         ~InTxn(q) \/ OwnJournal(q, os'.file, txn'),
         (os'.file = os.file /\ txn' = txn) \/ lock[c] >= FL!RESERVED_LOCK
  PROVE  AllOwn'
  <1>1. OwnJournal(q, os'.file, txn') /\ conn' = [conn EXCEPT ![c] = q]
    BY DEF OwnJournal, Set
  <1> QED  BY <1>1, OwnFrame

LEMMA EndedOwn ==
  ASSUME NEW r \in PagerRecord
  PROVE  ~InTxn(Ended(r))
  <1> DEFINE ch == TruncateTo(r.cache, r.dbSize)
  <1> HIDE DEF ch
  <1>1. Ended(r) = [r EXCEPT !.pc = IF r.hot THEN "vers" ELSE "idle",
            !.eState = IF r.hot THEN "OPEN" ELSE "READER",
            !.cache = ch,
            !.dirty = {}, !.needSync = {}, !.inJournal = {}, !.joff = 0,
            !.jhdr = 0, !.last = 0, !.nRec = 0, !.orig = 0,
            !.k = 0, !.left = 0, !.seed = 0, !.hot = FALSE, !.spill = 0]
    BY DEF Ended, ch
  <1>2. Ended(r).eState \in {"OPEN", "READER"}
    BY <1>1 DEF PagerRecord
  <1> QED  BY <1>2 DEF InTxn

(* Steps that begin, end or give up a transaction, or are in none *)
LEMMA OutsideOwn ==
  ASSUME Shape, AllOwn, NEW c \in Conn,
         \/ SharedLock(c) \/ JournalExists(c) \/ CheckReservedLock(c)
         \/ FirstByte(c) \/ HotLock(c) \/ HotOpen(c) \/ HotSync(c)
         \/ CheckVersion(c) \/ EndRead(c) \/ Begin(c)
         \/ PlaybackSync(c) \/ DbSync(c) \/ ErrorUnlock(c) \/ Kill(c)
  PROVE  AllOwn'
  <1> DEFINE r == conn[c]
  <1>1. r \in PagerRecord /\ Control(r, lock[c])
    BY Own
  <1>2. os' = os /\ txn' = txn
    BY DEF SharedLock, JournalExists, CheckReservedLock, FirstByte, HotLock, HotOpen,
           HotSync, CheckVersion, EndRead, Begin, PlaybackSync, DbSync, ErrorUnlock, Kill
  <1>3. ASSUME NEW q, Set(c, q), ~InTxn(q) PROVE AllOwn'
    BY <1>2, <1>3, SetOwn
  <1>4. ASSUME NEW l, Goto(c, l), r.eState = "OPEN" \/ l \in {"fin"} PROVE AllOwn'
    <2> DEFINE q == [r EXCEPT !.pc = l]
    <2>1. Set(c, q)
      BY <1>4 DEF Goto
    <2>2. ~InTxn(q)
      BY <1>1, <1>4 DEF InTxn, PagerRecord
    <2> HIDE DEF q
    <2> QED  BY <1>3, <2>1, <2>2
  <1>5. CASE SharedLock(c)
    BY <1>4, <1>5 DEF SharedLock, Idle
  <1>6. CASE JournalExists(c) \/ CheckReservedLock(c) \/ FirstByte(c)
    <2>1. r.eState = "OPEN" /\ \E l : Goto(c, l)
      BY <1>1, <1>6 DEF JournalExists, CheckReservedLock, FirstByte, At, Control
    <2> QED  BY <1>4, <2>1
  <1>7. CASE HotLock(c)
    <2>1. r.eState = "OPEN"
      BY <1>1, <1>7 DEF HotLock, At, Control
    <2>2. CASE Goto(c, "open")
      BY <1>4, <2>1, <2>2
    <2>3. CASE Set(c, Unlocked(r))
      <3>1. ~InTxn(Unlocked(r))
        BY <1>1 DEF InTxn, Unlocked, PagerRecord
      <3> QED  BY <1>3, <2>3, <3>1
    <2> QED  BY <1>7, <2>2, <2>3 DEF HotLock
  <1>8. CASE HotOpen(c)
    <2>1. r.eState = "OPEN"
      BY <1>1, <1>8 DEF HotOpen, At, Control
    <2>2. CASE Goto(c, "vers")
      BY <1>4, <2>1, <2>2
    <2> DEFINE q == [r EXCEPT !.pc = "hsync", !.hot = TRUE, !.jfd = os.dir, !.dirSync = FALSE]
    <2>3. CASE Set(c, q)
      <3>1. ~InTxn(q)
        BY <1>1, <2>1 DEF InTxn, PagerRecord
      <3> HIDE DEF q
      <3> QED  BY <1>3, <2>3, <3>1
    <2> QED  BY <1>8, <2>2, <2>3 DEF HotOpen
  <1>9. CASE HotSync(c)
    <2> DEFINE n == Len(Journal(c)) + 1
               q == [r EXCEPT !.pc = "hdr", !.k = 1, !.jhdr = n]
    <2>1. r.eState = "OPEN" /\ Set(c, q)
      BY <1>1, <1>9 DEF HotSync, At, Control
    <2>2. ~InTxn(q)
      <3> HIDE DEF n
      <3> QED  BY <1>1, <2>1 DEF InTxn, PagerRecord
    <2> HIDE DEF q
    <2> QED  BY <1>3, <2>1, <2>2
  <1>10. CASE CheckVersion(c)
    <2> DEFINE q == [r EXCEPT !.pc = "idle", !.eState = "READER", !.held = TRUE,
                              !.cache = IF Fresh(r) THEN @ ELSE NoPages,
                              !.dbSize = SizeOf(os.db)]
    <2>1. Set(c, q)
      BY <1>10 DEF CheckVersion
    <2>2. ~InTxn(q)
      BY <1>1 DEF InTxn, PagerRecord
    <2> HIDE DEF q
    <2> QED  BY <1>3, <2>1, <2>2
  <1>11. CASE EndRead(c)
    <2>1. ~InTxn(Unlocked(r))
      BY <1>1 DEF InTxn, Unlocked, PagerRecord
    <2> QED  BY <1>3, <1>11, <2>1 DEF EndRead
  <1>12. CASE Begin(c)
    <2> DEFINE q == [r EXCEPT !.eState = "LOCKED", !.orig = r.dbSize, !.joff = 0]
    <2>1. Set(c, q)
      BY <1>12 DEF Begin
    <2>2. ~InTxn(q)
      BY <1>1 DEF InTxn, PagerRecord
    <2> HIDE DEF q
    <2> QED  BY <1>3, <2>1, <2>2
  <1>13. CASE PlaybackSync(c)
    BY <1>4, <1>13 DEF PlaybackSync
  <1>14. CASE DbSync(c)
    <2> DEFINE q == [r EXCEPT !.pc = "fin", !.eState = "FINISHED"]
    <2>1. Set(c, q)
      BY <1>14 DEF DbSync
    <2>2. ~InTxn(q)
      BY <1>1 DEF InTxn, PagerRecord
    <2> HIDE DEF q
    <2> QED  BY <1>3, <2>1, <2>2
  <1>15. CASE ErrorUnlock(c)
    <2> DEFINE q == [Closed EXCEPT !.vers = conn[c].vers, !.held = conn[c].held]
    <2>1. Set(c, q)
      BY <1>15 DEF ErrorUnlock
    <2>2. ~InTxn(q)
      BY DEF InTxn, Closed
    <2> HIDE DEF q
    <2> QED  BY <1>3, <2>1, <2>2
  <1>16. CASE Kill(c)
    <2>1. ~InTxn(Closed)
      BY DEF InTxn, Closed
    <2> QED  BY <1>3, <1>16, <2>1 DEF Kill
  <1> QED  BY <1>5, <1>6, <1>7, <1>8, <1>9, <1>10, <1>11, <1>12, <1>13, <1>14, <1>15, <1>16

LEMMA FinalizeOwn ==
  ASSUME Shape, AllOwn, NEW c \in Conn, Finalize(c) \/ FinalizeSync(c)
  PROVE  AllOwn'
  <1> DEFINE r == conn[c]
  <1>1. /\ r \in PagerRecord /\ Control(r, lock[c]) /\ r.pc \in {"fin", "finsync"}
    BY Own DEF Finalize, FinalizeSync, At
  <1>2. lock[c] >= 2
    BY <1>1 DEF Control
  <1>3. ASSUME NEW q, Set(c, q), ~InTxn(q) PROVE AllOwn'
    BY <1>2, <1>3, SetOwn
  <1>4. ASSUME NEW a \in PagerRecord, EndTransaction(c, a) PROVE AllOwn'
    <2>1. Set(c, Ended(a)) /\ ~InTxn(Ended(a))
      BY <1>4, EndedOwn DEF EndTransaction
    <2> QED  BY <1>3, <2>1
  <1>5. CASE Finalize(c)
    <2>1. [r EXCEPT !.jfd = 0, !.dirSync = FALSE] \in PagerRecord
      BY <1>1, JournalForgotten
    <2>2. CASE EndTransaction(c, [r EXCEPT !.jfd = 0, !.dirSync = FALSE])
      BY <1>4, <2>1, <2>2
    <2>3. CASE EndTransaction(c, r)
      BY <1>1, <1>4, <2>3
    <2>4. CASE Goto(c, "finsync")
      <3> DEFINE q == [r EXCEPT !.pc = "finsync"]
      <3>1. Set(c, q)
        BY <2>4 DEF Goto
      <3>2. ~InTxn(q)
        BY <1>1 DEF InTxn, PagerRecord
      <3> HIDE DEF q
      <3> QED  BY <1>3, <3>1, <3>2
    <2> QED  BY <1>5, <2>2, <2>3, <2>4 DEF Finalize
  <1>6. CASE FinalizeSync(c)
    <2>1. [r EXCEPT !.dirSync = FALSE] \in PagerRecord
      BY <1>1 DEF PagerRecord
    <2> QED  BY <1>4, <1>6, <2>1 DEF FinalizeSync
  <1> QED  BY <1>5, <1>6

-----------------------------------------------------------------------------
(* Steps of a transaction that leave the journal as it is *)
SameTxn(r, q) ==
  /\ q.eState = r.eState /\ q.jfd = r.jfd /\ q.seed = r.seed /\ q.joff = r.joff
  /\ q.last = r.last /\ q.jhdr = r.jhdr /\ q.nRec = r.nRec
  /\ r.pc \notin Replaying
  /\ Appending(q) => Appending(r)
  /\ \/ q.pc \notin Replaying \cup {"jnrec", "jsync2"}
     \/ q.pc = "hdr" /\ q.k = 1

LEMMA SameTxnOwn ==
  ASSUME NEW r \in PagerRecord, NEW q, NEW file, NEW n,
         HasJournal(r, file, n), OwnJournal(r, file, n), SameTxn(r, q)
  PROVE  OwnJournal(q, file, n)
  <1> SUFFICES ASSUME InTxn(q) PROVE OwnJournal(q, file, n)
    BY DEF OwnJournal
  <1>1. InTxn(r) /\ r.joff \in Nat /\ r.joff >= 1
    BY DEF InTxn, SameTxn, HasJournal, PagerRecord
  <1>2. q.pc = "hdr" => Within(q.k, q.joff, file[q.jfd])
    BY <1>1 DEF SameTxn, Within
  <1> QED  BY <1>1, <1>2 DEF OwnJournal, OwnIn, SameTxn

LEMMA SteadyOwn ==
  ASSUME Shape, AllOwn, NEW c \in Conn, NEW p \in Page,
         \/ Get(c, p) \/ Spill(c, p) \/ Commit(c) \/ ExclusiveLock(c) \/ WritePage(c)
         \/ Rollback(c)
  PROVE  AllOwn'
  <1> DEFINE r == conn[c]
  <1>1. /\ r \in PagerRecord /\ Control(r, lock[c]) /\ HasJournal(r, os.file, txn)
        /\ OwnJournal(r, os.file, txn)
    BY Own DEF AllOwn
  <1>2. os'.file = os.file /\ txn' = txn
    BY Stored DEF Get, Spill, Commit, ExclusiveLock, WritePage, Rollback, FileSystem
  <1>3. ASSUME NEW q, Set(c, q), SameTxn(r, q) \/ ~InTxn(q)
        PROVE  AllOwn'
    <2>1. SameTxn(r, q) => OwnJournal(q, os.file, txn)
      <3> HIDE DEF r
      <3> QED  BY <1>1, SameTxnOwn
    <2> QED  BY <1>2, <1>3, <2>1, SetOwn
  <1>4. CASE Get(c, p)
    <2> DEFINE q == [r EXCEPT !.cache[p] = os.db[p], !.vers = IF p = 1 THEN os.db[1] ELSE @]
    <2>1. Set(c, q) /\ r.pc = "idle"
      BY <1>4 DEF Get, Idle
    <2>2. SameTxn(r, q)
      BY <1>1, <2>1 DEF SameTxn, Appending, PagerRecord
    <2> HIDE DEF q
    <2> QED  BY <1>3, <2>1, <2>2
  <1>5. CASE Spill(c, p)
    <2> DEFINE l == IF p \in r.needSync \/ r.eState = "CACHEMOD" THEN "jexcl" ELSE "wpage"
               q == [r EXCEPT !.pc = l, !.spill = p]
    <2>1. Set(c, q) /\ r.pc = "idle"
      BY <1>5 DEF Spill, Idle
    <2>2. l \in {"jexcl", "wpage"}
      OBVIOUS
    <2>3. SameTxn(r, q)
      <3> HIDE DEF l
      <3> QED  BY <1>1, <2>1, <2>2 DEF SameTxn, Appending, PagerRecord
    <2> HIDE DEF q
    <2> QED  BY <1>3, <2>1, <2>3
  <1>6. CASE Commit(c)
    <2> DEFINE q == [r EXCEPT !.pc = "jexcl", !.spill = 0]
    <2>1. Set(c, q) /\ r.pc = "idle"
      BY <1>6 DEF Commit, Idle
    <2>2. SameTxn(r, q)
      BY <1>1, <2>1 DEF SameTxn, Appending, PagerRecord
    <2> HIDE DEF q
    <2> QED  BY <1>3, <2>1, <2>2
  <1>7. CASE ExclusiveLock(c)
    <2>1. r.pc = "jexcl"
      BY <1>7 DEF ExclusiveLock, At
    <2>2. conn' = conn \/ Goto(c, "cc") \/ Goto(c, "jsync") \/ Set(c, [r EXCEPT !.pc = "idle", !.spill = 0])
      BY <1>7 DEF ExclusiveLock
    <2>3. CASE conn' = conn
      BY <1>2, <2>3 DEF AllOwn
    <2>4. ASSUME NEW l \in {"cc", "jsync"}, Goto(c, l) PROVE AllOwn'
      <3>1. SameTxn(r, [r EXCEPT !.pc = l])
        BY <1>1, <2>1 DEF SameTxn, Appending, PagerRecord
      <3> QED  BY <1>3, <2>4, <3>1 DEF Goto
    <2>5. CASE Set(c, [r EXCEPT !.pc = "idle", !.spill = 0])
      <3>1. SameTxn(r, [r EXCEPT !.pc = "idle", !.spill = 0])
        BY <1>1, <2>1 DEF SameTxn, Appending, PagerRecord
      <3> QED  BY <1>3, <2>5, <3>1
    <2> QED  BY <2>2, <2>3, <2>4, <2>5
  <1>8. CASE WritePage(c)
    <2> DEFINE w == Min(ToWrite(r))
               D == r.dirty \ {w}
               v == IF w = 1 THEN r.cache[1] ELSE r.vers
               l == IF r.spill # 0 THEN "idle"
                    ELSE IF ToWrite(r) = {w} THEN "dbsync" ELSE r.pc
               q == [r EXCEPT !.dirty = D, !.spill = 0, !.vers = v, !.pc = l]
    <2>1. Set(c, q) /\ r.pc = "wpage"
      BY <1>8 DEF WritePage, At
    <2>2. (l = "idle" /\ r.spill # 0) \/ l = "dbsync" \/ l = "wpage"
      BY <2>1
    <2> HIDE DEF D, v, l
    <2>3. SameTxn(r, q)
      BY <1>1, <2>1, <2>2 DEF SameTxn, Appending, PagerRecord
    <2> HIDE DEF q
    <2> QED  BY <1>3, <2>1, <2>3
  <1>9. CASE Rollback(c)
    <2>1. CASE Idle(c, {"CACHEMOD", "DBMOD"}) /\ Set(c, RollingBack(r))
      <3>1. SameTxn(r, RollingBack(r))
        BY <1>1, <2>1 DEF SameTxn, Appending, PagerRecord, RollingBack, Idle
      <3> QED  BY <1>3, <2>1, <3>1
    <2>2. CASE EndTransaction(c, r)
      <3>1. Set(c, Ended(r)) /\ ~InTxn(Ended(r))
        BY <1>1, <2>2, EndedOwn DEF EndTransaction
      <3> QED  BY <1>3, <3>1
    <2> QED  BY <1>9, <2>1, <2>2 DEF Rollback
  <1> QED  BY <1>4, <1>5, <1>6, <1>7, <1>8, <1>9

LEMMA FaultOwn ==
  ASSUME Shape, AllOwn, NEW c \in Conn, Fault(c)
  PROVE  AllOwn'
  <1> DEFINE r == conn[c]
  <1>1. /\ r \in PagerRecord /\ Control(r, lock[c]) /\ HasJournal(r, os.file, txn)
        /\ OwnJournal(r, os.file, txn)
    BY Own DEF AllOwn
  <1>2. os'.file = os.file /\ txn' = txn
    <2>1. Damage(c) /\ txn' = txn
      BY DEF Fault
    <2> QED  BY <2>1, DamageEffect
  <1>3. ASSUME NEW q, Set(c, q), SameTxn(r, q) \/ ~InTxn(q)
        PROVE  AllOwn'
    <2>1. SameTxn(r, q) => OwnJournal(q, os.file, txn)
      <3> HIDE DEF r
      <3> QED  BY <1>1, SameTxnOwn
    <2> QED  BY <1>2, <1>3, <2>1, SetOwn
  <1>4. CASE Set(c, [Closed EXCEPT !.vers = r.vers, !.held = r.held])
    <2>1. ~InTxn([Closed EXCEPT !.vers = r.vers, !.held = r.held])
      BY DEF InTxn, Closed
    <2> QED  BY <1>3, <1>4, <2>1
  <1>5. CASE Set(c, Unlocked(r))
    <2>1. ~InTxn(Unlocked(r))
      BY <1>1 DEF InTxn, Unlocked, PagerRecord
    <2> QED  BY <1>3, <1>5, <2>1
  <1>6. CASE /\ r.pc \in {"jsync", "jnrec", "jsync2", "wpage", "dbsync"}
             /\ Set(c, RollingBack(r))
    <2>1. SameTxn(r, RollingBack(r))
      BY <1>1, <1>6 DEF SameTxn, Appending, PagerRecord, RollingBack
    <2> QED  BY <1>3, <1>6, <2>1
  <1>7. CASE Set(c, InError(r))
    <2>1. ~InTxn(InError(r))
      BY <1>1 DEF InTxn, InError, PagerRecord
    <2> QED  BY <1>3, <1>7, <2>1
  <1>8. \/ Set(c, [Closed EXCEPT !.vers = r.vers, !.held = r.held])
        \/ Set(c, Unlocked(r))
        \/ /\ r.pc \in {"jsync", "jnrec", "jsync2", "wpage", "dbsync"}
           /\ Set(c, RollingBack(r))
        \/ Set(c, InError(r))
    BY DEF Fault
  <1> QED  BY <1>4, <1>5, <1>6, <1>7, <1>8

LEMMA PowerLossOwn ==
  ASSUME Shape, PowerLoss
  PROVE  AllOwn'
  <1>1. conn' = [c \in Conn |-> Closed]
    BY PowerLossEffect
  <1>2. ~InTxn(Closed)
    BY DEF InTxn, Closed
  <1> HIDE DEF Closed
  <1> QED  BY <1>1, <1>2 DEF AllOwn, OwnJournal

LEMMA InitOwn ==
  ASSUME Init
  PROVE  AllOwn
  <1>1. conn = [c \in Conn |-> Closed]
    BY DEF Init
  <1>2. ~InTxn(Closed)
    BY DEF InTxn, Closed
  <1> HIDE DEF Closed
  <1> QED  BY <1>1, <1>2 DEF AllOwn, OwnJournal

-----------------------------------------------------------------------------
(* Steps of a transaction that write its journal *)

(* A record behind the own part enlarges it, and the open count with it. *)
LEMMA JournalPageOwn ==
  ASSUME NEW r \in PagerRecord, NEW q \in PagerRecord, NEW p \in Page,
         NEW S \in Seq(Slot), NEW n \in Nat,
         OwnIn(r, S, n), Appending(r), r.pc \notin {"jnrec", "jsync2"},
         r.joff >= 1, r.joff <= Len(S),
         q.joff = Journaled(r, p).joff, q.nRec = Journaled(r, p).nRec,
         q.last = r.last, q.jhdr = r.jhdr, q.seed = r.seed,
         q.pc \notin {"hdr", "rec", "jnrec", "jsync2"}
  PROVE  OwnIn(q, JournalPage(S, r, p), n)
  <1> DEFINE T == JournalPage(S, r, p)
  <1>1. /\ \A i \in 1..r.joff : T[i] = S[i]
        /\ MustJournal(r, p) => T[r.joff + 1] = Record(p, r.cache[p], r.seed)
        /\ ~MustJournal(r, p) => T = S
    BY JournalPageShape
  <1>2. /\ q.joff = IF MustJournal(r, p) THEN r.joff + 1 ELSE r.joff
        /\ q.nRec = IF MustJournal(r, p) THEN r.nRec + 1 ELSE r.nRec
    BY JournaledShape
  <1>3. r.joff \in Nat /\ r.nRec \in Nat /\ r.jhdr \in Nat /\ r.last \in Nat
    BY DEF PagerRecord
  <1>4. r.pc \notin {"hdr", "rec"}
    BY DEF Appending
  <1>5. r.seed = n /\ r.last <= r.joff /\ r.jhdr + r.nRec = r.joff /\ r.last = r.jhdr
    BY <1>4 DEF OwnIn
  <1> SUFFICES OwnIn(q, T, n)
    OBVIOUS
  <1> HIDE DEF T
  <1>6. CASE ~MustJournal(r, p)
    BY <1>1, <1>2, <1>4, <1>5, <1>6 DEF OwnIn
  <1>7. CASE MustJournal(r, p)
    <2>1. /\ q.joff = r.joff + 1 /\ q.nRec = r.nRec + 1
          /\ T[r.joff + 1].k = "rec" /\ T[r.joff + 1].seed = n
      BY <1>1, <1>2, <1>5, <1>7 DEF Record
    <2>2. ASSUME NEW i \in 1..q.joff PROVE T[i].seed = n
      <3>1. CASE i = r.joff + 1
        BY <2>1, <3>1
      <3>2. CASE i # r.joff + 1
        <4>1. i \in 1..r.joff
          BY <1>3, <2>1, <3>2
        <4>2. S[i].seed = n
          BY <4>1 DEF OwnIn
        <4> QED  BY <1>1, <4>1, <4>2
      <3> QED  BY <3>1, <3>2
    <2>3. ASSUME NEW i \in 1..q.joff, T[i].k = "hdr" \/ i = q.last
          PROVE  Within(i + T[i].val + 1, q.joff, T) \/ (i = q.last /\ T[i].val = 0)
      <3>1. i \in 1..r.joff
        BY <1>3, <1>5, <2>1, <2>3
      <3>2. T[i] = S[i] /\ S[i] \in Slot
        BY <1>1, <1>3, <3>1
      <3>3. S[i].val \in Int
        BY <3>2 DEF Slot
      <3>4. Within(i + S[i].val + 1, r.joff, S) \/ (i = r.last /\ S[i].val = 0)
        BY <2>3, <3>1, <3>2 DEF OwnIn
      <3>5. T[i].val = S[i].val /\ q.last = r.last
        BY <3>2
      <3>6. ASSUME Within(i + S[i].val + 1, r.joff, S)
            PROVE  Within(i + S[i].val + 1, q.joff, T)
        <4>1. i + S[i].val + 1 <= r.joff + 1
          BY <1>3, <3>3, <3>6 DEF Within
        <4> QED  BY <2>1, <4>1 DEF Within
      <3> QED  BY <3>4, <3>5, <3>6
    <2>4. q.seed = n /\ q.last <= q.joff /\ q.jhdr + q.nRec = q.joff /\ q.last = q.jhdr
      BY <1>3, <1>5, <2>1
    <2> QED  BY <2>2, <2>3, <2>4 DEF OwnIn
  <1> QED  BY <1>6, <1>7

LEMMA WriteOwn ==
  ASSUME Shape, AllOwn, NEW c \in Conn, NEW p \in Page, Write(c, p)
  PROVE  AllOwn'
  <1>1. /\ conn[c] \in PagerRecord /\ Control(conn[c], lock[c])
        /\ HasJournal(conn[c], os.file, txn) /\ OwnJournal(conn[c], os.file, txn)
        /\ conn[c].pc = "idle" /\ conn[c].eState \in {"LOCKED", "CACHEMOD", "DBMOD"}
        /\ lock[c] \in 0..4 /\ txn \in Nat
    BY Own, Stored DEF AllOwn, Write, Idle
  <1>2. PICK q0 \in PagerRecord, S \in Seq(Slot) :
           /\ \/ /\ conn[c].eState = "LOCKED" /\ q0 = OpenJournal(conn[c])
                 /\ S = PutSlot(os.file[q0.jfd], 1, NewHdr(conn[c].orig, q0.seed))
                 /\ txn' = txn + 1
                 /\ os'.dir = IF conn[c].jfd = 0 THEN q0.jfd ELSE os.dir
              \/ /\ conn[c].eState \in {"CACHEMOD", "DBMOD"} /\ q0 = conn[c]
                 /\ S = os.file[q0.jfd] /\ txn' = txn /\ os'.dir = os.dir
           /\ q0.jfd \in Inode /\ q0.joff <= Len(S)
           /\ conn' = [conn EXCEPT ![c] = Written(q0, p)]
           /\ os'.file = [os.file EXCEPT ![q0.jfd] = JournalPage(S, q0, p)]
           /\ os'.db = os.db /\ os' \in FileSystem
    BY WriteEffect
  <1> DEFINE q == Written(q0, p)
             T == JournalPage(S, q0, p)
  <1>3. /\ q \in PagerRecord /\ q.pc = q0.pc /\ q.eState = q0.eState /\ q.jfd = q0.jfd
        /\ q.joff = Journaled(q0, p).joff /\ q.nRec = Journaled(q0, p).nRec
        /\ q.last = q0.last /\ q.jhdr = q0.jhdr /\ q.seed = q0.seed
    BY WrittenShape
  <1>4. lock[c] >= 2
    BY <1>1 DEF Control
  <1>5. os'.file[q.jfd] = T
    BY <1>2, <1>3, Stored DEF Files
  <1>6. conn' = [conn EXCEPT ![c] = q]
    BY <1>2
  <1>7. txn' \in Nat /\ q0.pc = "idle" /\ q0.joff >= 1 /\ OwnIn(q0, S, txn')
    <2>1. CASE conn[c].eState = "LOCKED" /\ q0 = OpenJournal(conn[c])
      <3>1. txn < MaxTxn
        BY <1>1, <2>1 DEF HasJournal
      <3>2. /\ q0.joff = 1 /\ q0.jhdr = 1 /\ q0.last = 1 /\ q0.nRec = 0
            /\ q0.pc = "idle" /\ q0.seed = txn + 1
        BY <1>1, <2>1, <3>1, Stored, OpenJournalShape
      <3> DEFINE U == os.file[q0.jfd]
                 h == NewHdr(conn[c].orig, q0.seed)
      <3>3. U \in Seq(Slot) /\ h \in Slot
        BY <1>1, <1>2, Stored, SlotTypes DEF Files, PagerRecord
      <3>4. S = PutSlot(U, 1, h) /\ txn' = txn + 1
        BY <1>2, <2>1
      <3>5. h.seed = txn + 1 /\ h.val = 0
        BY <3>2 DEF NewHdr
      <3> HIDE DEF U, h
      <3>6. PutSlot(U, 1, h)[1] = h
        BY <3>3, PutSlotProperty
      <3>7. S[1].seed = txn' /\ S[1].val = 0
        BY <3>4, <3>5, <3>6
      <3> QED  BY <1>1, <3>2, <3>4, <3>7 DEF OwnIn, Appending
    <2>2. CASE conn[c].eState \in {"CACHEMOD", "DBMOD"} /\ q0 = conn[c]
      <3>1. S = os.file[q0.jfd] /\ txn' = txn
        BY <1>2, <2>2
      <3>2. InTxn(q0) /\ q0.joff >= 1
        BY <1>1, <2>2 DEF InTxn, HasJournal
      <3> QED  BY <1>1, <2>2, <3>1, <3>2 DEF OwnJournal
    <2> QED  BY <1>2, <2>1, <2>2
  <1> HIDE DEF q
  <1>8. OwnIn(q, T, txn')
    <2>1. Appending(q0) /\ q0.joff <= Len(S)
      BY <1>2, <1>7 DEF Appending
    <2> HIDE DEF T
    <2> QED  BY <1>3, <1>7, <2>1, JournalPageOwn DEF T
  <1> HIDE DEF T
  <1>9. OwnJournal(q, os'.file, txn')
    BY <1>5, <1>8 DEF OwnJournal
  <1> QED  BY <1>4, <1>6, <1>9, OwnFrame

LEMMA ChangeCounterOwn ==
  ASSUME Shape, AllOwn, NEW c \in Conn, ChangeCounter(c)
  PROVE  AllOwn'
  <1> DEFINE r == conn[c]
             q == conn'[c]
             S == Journal(c)
             T == JournalPage(S, r, 1)
  <1>1. /\ r \in PagerRecord /\ Control(r, lock[c]) /\ r.pc = "cc"
        /\ OwnJournal(r, os.file, txn) /\ 1 \in Page /\ txn' = txn /\ txn \in Nat
    BY Own, Stored DEF ChangeCounter, At, AllOwn
  <1>2. /\ q \in PagerRecord /\ conn' = [conn EXCEPT ![c] = q]
        /\ q.pc = "jsync" /\ q.eState = r.eState /\ q.jfd = r.jfd
        /\ q.joff = Journaled(r, 1).joff /\ q.nRec = Journaled(r, 1).nRec
        /\ q.last = r.last /\ q.jhdr = r.jhdr /\ q.seed = r.seed
        /\ os'.file = [os.file EXCEPT ![r.jfd] = T]
    BY ChangeCounterEffect
  <1>3. r.eState \in {"CACHEMOD", "DBMOD"} /\ lock[c] >= 2
    BY <1>1 DEF Control
  <1>4. /\ r.jfd \in Inode /\ r.joff >= 1 /\ S \in Seq(Slot) /\ r.joff <= Len(S)
    BY <1>1, <1>3, JournalOpen
  <1>5. OwnIn(r, S, txn) /\ Appending(r)
    BY <1>1, <1>3 DEF OwnJournal, InTxn, Appending, Journal
  <1>6. os'.file[q.jfd] = T
    BY <1>2, <1>4, Stored DEF Files
  <1> HIDE DEF q, r, S
  <1>7. OwnIn(q, T, txn)
    <2> HIDE DEF T
    <2> QED  BY <1>1, <1>2, <1>4, <1>5, JournalPageOwn DEF T
  <1> HIDE DEF T
  <1>8. OwnJournal(q, os'.file, txn')
    BY <1>1, <1>6, <1>7 DEF OwnJournal
  <1> QED  BY <1>2, <1>3, <1>8, OwnFrame

LEMMA JournalSyncOwn ==
  ASSUME Shape, AllOwn, NEW c \in Conn, JournalSync(c)
  PROVE  AllOwn'
  <1> DEFINE r == conn[c]
             q == [r EXCEPT !.pc = "jnrec", !.dirSync = FALSE]
             S == Journal(c)
             T == Unrecognised(S, r.joff + 1)
  <1>1. /\ r \in PagerRecord /\ Control(r, lock[c]) /\ r.pc = "jsync"
        /\ OwnJournal(r, os.file, txn) /\ txn' = txn
    BY Own DEF JournalSync, At, AllOwn
  <1>2. os'.file = [os.file EXCEPT ![r.jfd] = T] /\ conn' = [conn EXCEPT ![c] = q]
    BY JournalSyncEffect
  <1>3. r.eState \in {"CACHEMOD", "DBMOD"} /\ lock[c] >= 2
    BY <1>1 DEF Control
  <1>4. /\ r.jfd \in Inode /\ r.joff >= 1 /\ r.joff \in Nat /\ S \in Seq(Slot)
        /\ r.joff <= Len(S)
    BY <1>1, <1>3, JournalOpen
  <1>5. OwnIn(r, S, txn) /\ Appending(r)
    BY <1>1, <1>3 DEF OwnJournal, InTxn, Appending, Journal
  <1>6. /\ q.pc = "jnrec" /\ q.jfd = r.jfd /\ q.joff = r.joff /\ q.nRec = r.nRec
        /\ q.last = r.last /\ q.jhdr = r.jhdr /\ q.seed = r.seed
    BY <1>1 DEF PagerRecord
  <1>7. os'.file[q.jfd] = T
    BY <1>2, <1>4, <1>6, Stored DEF Files
  <1> HIDE DEF q, r, S
  <1>8. /\ ~StaleHdr(T, r.joff + 1)
        /\ \A i \in 1..Len(S) : i # r.joff + 1 => T[i] = S[i]
    <2>1. r.joff + 1 \in Nat /\ r.joff + 1 >= 1
      BY <1>4
    <2> QED  BY <1>4, <2>1, UnrecognisedType
  <1> HIDE DEF T
  <1>9. \A i \in 1..r.joff : T[i] = S[i]
    BY <1>4, <1>8
  <1>10. \A t : Within(t, r.joff, S) => Within(t, r.joff, T)
    BY <1>8 DEF Within
  <1>11. OwnIn(q, T, txn)
    BY <1>1, <1>5, <1>6, <1>8, <1>9, <1>10 DEF OwnIn
  <1>12. OwnJournal(q, os'.file, txn')
    BY <1>1, <1>7, <1>11 DEF OwnJournal
  <1> QED  BY <1>2, <1>3, <1>12, OwnFrame

LEMMA JournalCountOwn ==
  ASSUME Shape, AllOwn, NEW c \in Conn, JournalCount(c)
  PROVE  AllOwn'
  <1> DEFINE r == conn[c]
             q == [r EXCEPT !.pc = "jsync2"]
             S == Journal(c)
             s == [S[r.jhdr] EXCEPT !.k = "hdr", !.val = r.nRec]
             T == [S EXCEPT ![r.jhdr] = s]
  <1>1. /\ r \in PagerRecord /\ Control(r, lock[c]) /\ r.pc = "jnrec"
        /\ OwnJournal(r, os.file, txn) /\ txn' = txn
    BY Own DEF JournalCount, At, AllOwn
  <1>2. os'.file = [os.file EXCEPT ![r.jfd] = T] /\ conn' = [conn EXCEPT ![c] = q]
    BY JournalCountEffect
  <1>3. r.eState \in {"CACHEMOD", "DBMOD"} /\ lock[c] >= 2
    BY <1>1 DEF Control
  <1>4. /\ r.jfd \in Inode /\ r.joff >= 1 /\ r.joff \in Nat /\ S \in Seq(Slot)
        /\ r.joff <= Len(S) /\ r.jhdr \in Nat /\ r.nRec \in Nat /\ r.jhdr >= 1
    BY <1>1, <1>3, JournalOpen DEF PagerRecord
  <1>5. OwnIn(r, S, txn) /\ Appending(r)
    BY <1>1, <1>3 DEF OwnJournal, InTxn, Appending, Journal
  <1>6. /\ q.pc = "jsync2" /\ q.jfd = r.jfd /\ q.joff = r.joff /\ q.nRec = r.nRec
        /\ q.last = r.last /\ q.jhdr = r.jhdr /\ q.seed = r.seed
    BY <1>1 DEF PagerRecord
  <1>7. os'.file[q.jfd] = T
    BY <1>2, <1>4, <1>6, Stored DEF Files
  <1> HIDE DEF q, r, S
  <1>8. /\ r.jhdr + r.nRec = r.joff /\ r.last = r.jhdr /\ r.seed = txn
        /\ ~StaleHdr(S, r.joff + 1)
    BY <1>1, <1>5 DEF OwnIn
  <1>9. r.jhdr \in 1..r.joff /\ S[r.jhdr] \in Slot
    BY <1>4, <1>8
  <1>10. s.val = r.nRec /\ s.seed = S[r.jhdr].seed
    BY <1>9 DEF Slot
  <1> HIDE DEF s
  <1>11. T[r.jhdr] = s /\ \A i \in 1..Len(S) : i # r.jhdr => T[i] = S[i]
    BY <1>4, <1>9
  <1>12. Len(T) = Len(S)
    BY <1>4, <1>9
  <1> HIDE DEF T
  <1>13. ~StaleHdr(T, r.joff + 1)
    <2>1. CASE r.joff + 1 \in 1..Len(S)
      <3>1. T[r.joff + 1] = S[r.joff + 1]
        BY <1>4, <1>9, <1>11, <2>1
      <3> QED  BY <1>8, <1>12, <3>1 DEF StaleHdr
    <2>2. CASE r.joff + 1 \notin 1..Len(S)
      BY <1>4, <1>12, <2>2 DEF StaleHdr
    <2> QED  BY <2>1, <2>2
  <1>14. \A t : Within(t, r.joff, S) => Within(t, r.joff, T)
    BY <1>13 DEF Within
  <1>15. ASSUME NEW i \in 1..q.joff PROVE T[i].seed = txn
    <2>1. S[i].seed = txn /\ i \in 1..Len(S)
      BY <1>4, <1>5, <1>6 DEF OwnIn
    <2>2. CASE i = r.jhdr
      BY <1>10, <1>11, <2>1, <2>2
    <2>3. CASE i # r.jhdr
      BY <1>11, <2>1, <2>3
    <2> QED  BY <2>2, <2>3
  <1>16. ASSUME NEW i \in 1..q.joff, T[i].k = "hdr" \/ i = q.last
         PROVE  Within(i + T[i].val + 1, q.joff, T)
    <2>1. CASE i = r.jhdr
      <3>1. i + T[i].val + 1 = r.joff + 1
        BY <1>4, <1>8, <1>10, <1>11, <2>1
      <3> QED  BY <1>6, <1>13, <3>1 DEF Within
    <2>2. CASE i # r.jhdr
      <3>1. T[i] = S[i] /\ i # r.last /\ i \in 1..r.joff
        BY <1>4, <1>6, <1>8, <1>11, <2>2
      <3>2. Within(i + S[i].val + 1, r.joff, S)
        BY <1>5, <1>6, <1>16, <3>1 DEF OwnIn
      <3> QED  BY <1>6, <1>14, <3>1, <3>2
    <2> QED  BY <2>1, <2>2
  <1>17. q.last <= q.joff
    BY <1>5, <1>6 DEF OwnIn
  <1>18. OwnIn(q, T, txn)
    BY <1>6, <1>8, <1>13, <1>15, <1>16, <1>17 DEF OwnIn
  <1>19. OwnJournal(q, os'.file, txn')
    BY <1>1, <1>7, <1>18 DEF OwnJournal
  <1> QED  BY <1>2, <1>3, <1>19, OwnFrame

(* The last header is complete: it need not be recognised without its      *)
(* magic any more, and a new one starts the next part of the journal.      *)
LEMMA JournalSync2Own ==
  ASSUME ~Aligned, Shape, AllOwn, NEW c \in Conn, JournalSync2(c)
  PROVE  AllOwn'
  <1> DEFINE r == conn[c]
             n == r.joff + 1
             S == Journal(c)
             T == NextHeader(S, r)
             q1 == [Sealed(r) EXCEPT !.last = 0]
             q2 == [Sealed(r) EXCEPT !.last = n, !.joff = n, !.nRec = 0]
  <1>1. /\ r \in PagerRecord /\ Control(r, lock[c]) /\ r.pc = "jsync2"
        /\ OwnJournal(r, os.file, txn) /\ txn' = txn
    BY Own DEF JournalSync2, At, AllOwn
  <1>2. \/ r.spill = 0 /\ os' = os /\ conn' = [conn EXCEPT ![c] = q1]
        \/ r.spill # 0 /\ os'.file = [os.file EXCEPT ![r.jfd] = T] /\ conn' = [conn EXCEPT ![c] = q2]
    BY JournalSync2Effect
  <1>3. r.eState \in {"CACHEMOD", "DBMOD"} /\ lock[c] >= 2
    BY <1>1 DEF Control
  <1>4. /\ r.jfd \in Inode /\ r.joff >= 1 /\ r.joff \in Nat /\ S \in Seq(Slot)
        /\ r.joff <= Len(S) /\ n \in Nat /\ n >= 1
    BY <1>1, <1>3, JournalOpen
  <1>5. OwnIn(r, S, txn)
    BY <1>1, <1>3 DEF OwnJournal, InTxn, Journal
  <1>6. /\ q1.pc = "wpage" /\ q1.jfd = r.jfd /\ q1.joff = r.joff
        /\ q1.last = 0 /\ q1.seed = r.seed /\ q1.spill = r.spill
    BY <1>1 DEF PagerRecord, Sealed
  <1>7. /\ q2.pc = "wpage" /\ q2.jfd = r.jfd /\ q2.joff = n /\ q2.nRec = 0
        /\ q2.last = n /\ q2.jhdr = n /\ q2.seed = r.seed
    BY <1>1 DEF PagerRecord, Sealed
  <1> HIDE DEF q1, q2, S
  <1>8. ASSUME NEW i \in 1..r.joff, S[i].k = "hdr"
        PROVE  Within(i + S[i].val + 1, r.joff, S) /\ S[i].val \in Int
    <2>1. S[i] \in Slot
      BY <1>4
    <2>2. S[i].val \in Int
      BY <2>1 DEF Slot
    <2>3. Within(i + S[i].val + 1, r.joff, S) \/ (i = r.last /\ S[i].val = 0)
      BY <1>5, <1>8 DEF OwnIn
    <2>4. ~StaleHdr(S, r.joff + 1)
      BY <1>1, <1>5 DEF OwnIn
    <2> QED  BY <1>4, <2>2, <2>3, <2>4 DEF Within
  <1>9. r.seed = txn /\ \A i \in 1..r.joff : S[i].seed = txn
    BY <1>1, <1>5 DEF OwnIn
  <1>10. CASE r.spill = 0 /\ os' = os /\ conn' = [conn EXCEPT ![c] = q1]
    <2>1. OwnIn(q1, S, txn)
      BY <1>4, <1>6, <1>8, <1>9, <1>10 DEF OwnIn, Appending
    <2>2. OwnJournal(q1, os'.file, txn')
      BY <1>1, <1>6, <1>10, <2>1 DEF OwnJournal, Journal, S
    <2> QED  BY <1>3, <1>10, <2>2, OwnFrame
  <1>11. CASE os'.file = [os.file EXCEPT ![r.jfd] = T] /\ conn' = [conn EXCEPT ![c] = q2]
    <2>1. os'.file[q2.jfd] = T
      BY <1>4, <1>7, <1>11, Stored DEF Files
    <2> DEFINE h == NewHdr(r.orig, r.seed)
    <2>2. h \in Slot /\ h.val = 0 /\ h.seed = txn
      <3>1. r.orig \in Nat /\ r.seed \in Nat
        BY <1>1 DEF PagerRecord
      <3> HIDE DEF r
      <3> QED  BY <1>9, <3>1, SlotTypes DEF NewHdr
    <2>3. T = PutSlot(S, n, h)
      BY DEF NextHeader
    <2> HIDE DEF h, T, r
    <2>4. T[n] = h /\ \A i \in 1..Len(S) : i # n => T[i] = S[i]
      <3>1. n \in 1..(Len(S) + 1)
        BY <1>4
      <3> HIDE DEF n
      <3>2. /\ PutSlot(S, n, h)[n] = h
            /\ \A i \in 1..Len(S) : i # n => PutSlot(S, n, h)[i] = S[i]
        BY <1>4, <2>2, <3>1, PutSlotProperty
      <3> QED  BY <2>3, <3>2
    <2>5. \A i \in 1..r.joff : T[i] = S[i]
      BY <1>4, <2>4
    <2>6. ASSUME NEW i \in 1..q2.joff PROVE T[i].seed = txn
      BY <1>4, <1>7, <1>9, <2>2, <2>4, <2>5
    <2>7. ASSUME NEW i \in 1..q2.joff, T[i].k = "hdr" \/ i = q2.last
          PROVE  Within(i + T[i].val + 1, q2.joff, T) \/ (i = q2.last /\ T[i].val = 0)
      <3>1. CASE i = n
        BY <1>7, <2>2, <2>4, <3>1
      <3>2. CASE i # n
        <4>1. i \in 1..r.joff /\ T[i] = S[i] /\ S[i].k = "hdr"
          BY <1>4, <1>7, <2>5, <2>7, <3>2
        <4>2. i + S[i].val + 1 <= r.joff + 1
          BY <1>4, <1>8, <4>1 DEF Within
        <4> QED  BY <1>7, <4>1, <4>2 DEF Within
      <3> QED  BY <3>1, <3>2
    <2>8. OwnIn(q2, T, txn)
      BY <1>4, <1>7, <1>9, <2>6, <2>7 DEF OwnIn
    <2>9. OwnJournal(q2, os'.file, txn')
      BY <1>1, <2>1, <2>8 DEF OwnJournal
    <2> QED  BY <1>3, <1>11, <2>9, OwnFrame
  <1> QED  BY <1>2, <1>10, <1>11

-----------------------------------------------------------------------------
(* The playback *)

(* A header is met inside the own part, so its seed is the transaction's,  *)
(* and what it covers ends there or at the end of the file.                *)
LEMMA ReadHdrOwn ==
  ASSUME Shape, AllOwn, NEW c \in Conn, ReadHdr(c)
  PROVE  AllOwn'
  <1> DEFINE r == conn[c]
             S == Journal(c)
             ok == r.k <= Len(S) /\ (S[r.k].k = "hdr" \/ OwnLast(r))
             m == IF S[r.k].val = 0 /\ OwnLast(r) THEN Len(S) - r.k
                  ELSE S[r.k].val
             size == IF r.k = 1 THEN S[1].pg ELSE r.dbSize
             l == IF m = 0 THEN "hdr" ELSE "rec"
             sd == S[r.k].seed
             kk == r.k + 1
             q == [r EXCEPT !.pc = l, !.left = m, !.seed = sd, !.k = kk,
                            !.dbSize = size]
  <1>1. /\ r \in PagerRecord /\ Control(r, lock[c]) /\ HasJournal(r, os.file, txn)
        /\ OwnJournal(r, os.file, txn) /\ r.pc = "hdr" /\ txn' = txn
    BY Own DEF ReadHdr, At, AllOwn
  <1>2. /\ S \in Seq(Slot) /\ r.k \in Nat /\ r.k >= 1
        /\ r.k <= Len(S) => S[r.k] \in Slot
    BY <1>1, SlotRead
  <1>3. os'.file = os.file
    <2>1. CASE os' = [os EXCEPT !.db = TruncateTo(os.db, size)]
      BY <2>1, Stored DEF FileSystem
    <2>2. CASE os' = os
      BY <2>2
    <2> QED  BY <2>1, <2>2 DEF ReadHdr
  <1>4. CASE Goto(c, AfterPlayback(r))
    <2> DEFINE z == [r EXCEPT !.pc = AfterPlayback(r)]
    <2>1. AfterPlayback(r) \in {"rsync", "fin"}
      BY DEF AfterPlayback
    <2>2. ~InTxn(z)
      BY <1>1, <2>1 DEF InTxn, PagerRecord
    <2>3. Set(c, z)
      BY <1>4 DEF Goto
    <2> HIDE DEF z
    <2> QED  BY <1>1, <1>3, <2>2, <2>3, SetOwn
  <1>5. CASE ok /\ Set(c, q)
    <2>1. /\ q.eState = r.eState /\ q.pc = l /\ q.left = m /\ q.seed = sd /\ q.k = kk
          /\ q.jfd = r.jfd /\ q.joff = r.joff /\ q.last = r.last
      <3> HIDE DEF l, m, sd, kk, size
      <3> QED  BY <1>1 DEF PagerRecord
    <2> HIDE DEF q
    <2>2. CASE r.hot
      <3>1. ~InTxn(q)
        BY <1>1, <2>1, <2>2 DEF Control, InTxn
      <3> QED  BY <1>1, <1>3, <1>5, <3>1, SetOwn
    <2>3. CASE ~r.hot
      <3>1. r.eState \in {"CACHEMOD", "DBMOD"}
        BY <1>1, <2>3 DEF Control
      <3>2. OwnIn(r, S, txn) /\ r.joff \in Nat /\ r.last \in Nat
        BY <1>1, <3>1 DEF OwnJournal, InTxn, Journal, PagerRecord
      <3>3. S[r.k].val \in Int /\ Len(S) \in Nat
        <4>1. S[r.k] \in Slot /\ Len(S) \in Nat
          <5> HIDE DEF S, r
          <5> QED  BY <1>2, <1>5
        <4> HIDE DEF S, r
        <4> QED  BY <4>1 DEF Slot
      <3>4. OwnLast(r) <=> r.k = r.last
        BY <2>3 DEF OwnLast
      <3> HIDE DEF r, S
      <3>5. r.k \in 1..r.joff
        <4>1. Within(r.k, r.joff, S) /\ r.last <= r.joff
          BY <1>1, <1>2, <1>5, <3>2, <3>3 DEF OwnIn
        <4> QED  BY <1>2, <1>5, <3>2, <3>3, <3>4, <4>1 DEF Within, StaleHdr
      <3>6. sd = txn
        BY <3>2, <3>5 DEF OwnIn
      <3>7. Within(kk + m, r.joff, S) \/ kk + m > Len(S)
        <4>1. CASE S[r.k].val = 0 /\ OwnLast(r)
          BY <1>2, <3>3, <4>1
        <4>2. CASE ~(S[r.k].val = 0 /\ OwnLast(r))
          <5>1. Within(r.k + S[r.k].val + 1, r.joff, S)
            BY <1>5, <3>2, <3>4, <3>5, <4>2 DEF OwnIn
          <5>2. kk + m = r.k + S[r.k].val + 1
            BY <1>2, <3>3, <4>2
          <5> QED  BY <5>1, <5>2
        <4> QED  BY <4>1, <4>2
      <3>8. l = "hdr" => kk + m = kk
        BY <1>2
      <3>9. l \in {"hdr", "rec"}
        OBVIOUS
      <3> HIDE DEF kk, m, l, sd
      <3>10. OwnIn(q, S, txn)
        BY <2>1, <3>2, <3>6, <3>7, <3>8, <3>9 DEF OwnIn, Appending
      <3>11. OwnJournal(q, os'.file, txn')
        BY <1>1, <1>3, <2>1, <3>10 DEF OwnJournal, S, r, Journal
      <3> QED  BY <1>1, <1>3, <1>5, <3>11, SetOwn
    <2> QED  BY <2>2, <2>3
  <1> QED  BY <1>4, <1>5 DEF ReadHdr

LEMMA PlayRecordOwn ==
  ASSUME Shape, AllOwn, NEW c \in Conn, PlayRecord(c)
  PROVE  AllOwn'
  <1> DEFINE r == conn[c]
             S == Journal(c)
             s == S[r.k]
             ch == IF r.hot THEN NoPages ELSE r.cache
             l == IF r.left = 1 THEN "hdr" ELSE "rec"
             nl == r.left - 1
             kk == r.k + 1
             next == [r EXCEPT !.pc = l, !.left = nl, !.k = kk, !.cache = ch]
             v == IF s.pg = 1 THEN s.val ELSE next.vers
             q == [next EXCEPT !.cache[s.pg] = s.val, !.vers = v]
  <1>1. /\ r \in PagerRecord /\ Control(r, lock[c])
        /\ OwnJournal(r, os.file, txn) /\ r.pc = "rec" /\ txn' = txn
    BY Own DEF PlayRecord, At, AllOwn
  <1>2. os'.file = os.file
    <2>1. CASE os' = [os EXCEPT !.db[s.pg] = s.val]
      BY <2>1, Stored DEF FileSystem
    <2>2. CASE os' = os
      BY <2>2
    <2> QED  BY <2>1, <2>2 DEF PlayRecord
  <1>3. CASE Set(c, [r EXCEPT !.pc = AfterPlayback(r), !.cache = ch])
    <2> DEFINE z == [r EXCEPT !.pc = AfterPlayback(r), !.cache = ch]
    <2>1. AfterPlayback(r) \in {"rsync", "fin"}
      BY DEF AfterPlayback
    <2>2. ~InTxn(z)
      <3> HIDE DEF ch
      <3> QED  BY <1>1, <2>1 DEF InTxn, PagerRecord
    <2>3. Set(c, z)
      BY <1>3
    <2> HIDE DEF z
    <2> QED  BY <1>1, <1>2, <2>2, <2>3, SetOwn
  <1>4. ASSUME NEW a, Set(c, a),
               a.eState = r.eState, a.pc = l, a.left = nl, a.seed = r.seed, a.k = kk,
               a.jfd = r.jfd, a.joff = r.joff, a.last = r.last
        PROVE  AllOwn'
    <2>1. CASE r.hot
      <3>1. ~InTxn(a)
        BY <1>1, <1>4, <2>1 DEF Control, InTxn
      <3> QED  BY <1>1, <1>2, <1>4, <3>1, SetOwn
    <2>2. CASE ~r.hot
      <3>1. r.eState \in {"CACHEMOD", "DBMOD"} /\ r.left \in Int /\ r.k \in Nat
        BY <1>1, <2>2 DEF Control, PagerRecord
      <3>2. OwnIn(r, S, txn)
        BY <1>1, <3>1 DEF OwnJournal, InTxn, Journal
      <3>3. kk + nl = r.k + r.left /\ (l = "hdr" => kk = r.k + r.left)
        BY <3>1
      <3>4. l \in {"hdr", "rec"}
        OBVIOUS
      <3> HIDE DEF r, S, kk, nl, l
      <3>5. OwnIn(a, S, txn)
        BY <1>1, <1>4, <3>2, <3>3, <3>4 DEF OwnIn, Appending
      <3>6. OwnJournal(a, os'.file, txn')
        BY <1>1, <1>2, <1>4, <3>5 DEF OwnJournal, S, r, Journal
      <3> QED  BY <1>1, <1>2, <1>4, <3>6, SetOwn
    <2> QED  BY <2>1, <2>2
  <1>5. /\ next.eState = r.eState /\ next.pc = l /\ next.left = nl /\ next.seed = r.seed
        /\ next.k = kk /\ next.jfd = r.jfd /\ next.joff = r.joff /\ next.last = r.last
        /\ DOMAIN next = DOMAIN r
    <2> HIDE DEF l, nl, kk, ch
    <2> QED  BY <1>1 DEF PagerRecord
  <1>6. CASE Set(c, next)
    <2> HIDE DEF next, l, nl, kk, r
    <2> QED  BY <1>4, <1>5, <1>6
  <1>7. CASE Set(c, q)
    <2>1. /\ q.eState = next.eState /\ q.pc = next.pc /\ q.left = next.left /\ q.seed = next.seed
          /\ q.k = next.k /\ q.jfd = next.jfd /\ q.joff = next.joff /\ q.last = next.last
      <3>1. DOMAIN next = DOMAIN r /\ {"eState", "pc", "left", "seed", "k", "jfd", "joff", "last"} \subseteq DOMAIN r
        BY <1>1, <1>5 DEF PagerRecord
      <3> HIDE DEF next, v, s
      <3> QED  BY <3>1
    <2> HIDE DEF q, next, l, nl, kk, r
    <2> QED  BY <1>4, <1>5, <1>7, <2>1
  <1> QED  BY <1>3, <1>6, <1>7 DEF PlayRecord

-----------------------------------------------------------------------------
LEMMA OwnStep ==
  ASSUME ~Aligned, Shape, AllOwn, [Next]_vars
  PROVE  AllOwn'
  <1>1. CASE UNCHANGED vars
    BY <1>1 DEF vars, AllOwn
  <1>2. ASSUME NEW c \in Conn,
               \/ SharedLock(c) \/ JournalExists(c) \/ CheckReservedLock(c)
               \/ FirstByte(c) \/ HotLock(c) \/ HotOpen(c) \/ HotSync(c)
               \/ CheckVersion(c) \/ ReadHdr(c) \/ PlayRecord(c) \/ PlaybackSync(c)
               \/ Finalize(c) \/ FinalizeSync(c) \/ EndRead(c) \/ Begin(c)
               \/ \E p \in Page : Get(c, p) \/ Write(c, p) \/ Spill(c, p)
               \/ Commit(c) \/ ExclusiveLock(c) \/ ChangeCounter(c)
               \/ JournalSync(c) \/ JournalCount(c) \/ JournalSync2(c)
               \/ WritePage(c) \/ DbSync(c) \/ Rollback(c)
               \/ ErrorUnlock(c) \/ Fault(c) \/ Kill(c)
        PROVE  AllOwn'
    <2>1. 1 \in Page
      BY Stored
    <2> QED
      BY <1>2, <2>1, OutsideOwn, FinalizeOwn, SteadyOwn, FaultOwn, WriteOwn,
         ChangeCounterOwn, JournalSyncOwn, JournalCountOwn, JournalSync2Own,
         ReadHdrOwn, PlayRecordOwn
  <1> QED
    BY <1>1, <1>2, PowerLossOwn DEF Next

(* A connection that rolls its own transaction back (pager_playback) plays *)
(* records under the checksum seed of that transaction only, whatever the  *)
(* journal file still holds of earlier ones, in every mix of journal       *)
(* modes.  The hypothesis excludes the journal that ends exactly on a      *)
(* sector boundary, for which the run Pager_stale_header refutes it.       *)
THEOREM RollbackPlaysOwn == ~Aligned => (Spec => []OwnRecordsOnly)
  <1> SUFFICES ASSUME ~Aligned PROVE Spec => []OwnRecordsOnly
    OBVIOUS
  <1>1. Init => AllOwn
    BY InitOwn
  <1>2. Shape /\ AllOwn /\ [Next]_vars => AllOwn'
    BY OwnStep
  <1>3. Shape /\ AllOwn => OwnRecordsOnly
    <2> SUFFICES ASSUME Shape, AllOwn, NEW c \in Conn, At(c, "rec"), ~conn[c].hot
                 PROVE  conn[c].seed = txn
      BY DEF OwnRecordsOnly
    <2>1. Control(conn[c], lock[c]) /\ OwnJournal(conn[c], os.file, txn)
      BY Own DEF AllOwn
    <2> QED  BY <2>1 DEF Control, OwnJournal, OwnIn, InTxn, At
  <1>4. Spec => []Shape
    BY ShapeInvariant
  <1> QED
    BY <1>1, <1>2, <1>3, <1>4, PTL DEF Spec
=============================================================================
