------------------------ MODULE PagerRecoveryProofs -------------------------
(***************************************************************************)
(* Why a transaction of the pager is atomic, isolated and durable, for     *)
(* connections that delete their journals (journal_mode=DELETE, which is   *)
(* the default) and journals that do not end on a sector boundary: there   *)
(* are always two contents I and J of the database, the last committed one *)
(* and the one a power failure may take it back to, such that the journal  *)
(* the kernel knows leads the file to I and the one on the medium to J,    *)
(* whatever part of the unsynced writes is lost.                           *)
(***************************************************************************)
EXTENDS PagerNamedProofs, PagerRollbackProofs

-----------------------------------------------------------------------------
(* What a journal leads to *)

(* The contents of a database between two transactions *)
Value == 0..MaxTxn
Image ==
  {K \in Pages : SizeOf(K) >= 1 /\ \A p \in 1..SizeOf(K) : K[p] \in Value}

RecordOf(s, K) == s.k = "rec" /\ s.pg <= SizeOf(K) /\ s.val = K[s.pg]

(* Slots 1 .. m of journal S are complete headers, each followed by its    *)
(* records, and the records hold pages of K.                               *)
Chain(S, m, K) ==
  /\ m \in 0..Len(S)
  /\ m > 0 => S[1].k = "hdr" /\ S[1].pg = SizeOf(K)
  /\ \A i \in 1..m : S[i].k = "hdr" \/ RecordOf(S[i], K)
  /\ \A i \in 1..m : S[i].seed = S[1].seed
  /\ \A h \in 1..m : S[h].k = "hdr" =>
       /\ S[h].val \in 0..(m - h)
       /\ \A i \in (h + 1)..(h + S[h].val) : S[i].k = "rec"
       /\ h + S[h].val < m => S[h + S[h].val + 1].k = "hdr"

Headless(S, m) == \A i \in (m + 1)..Len(S) : S[i].k # "hdr"

(* Where the chain ends once the header behind slot m is complete *)
SealEnd(T, m) == m + 1 + T[m + 1].val

NextSealed(S, T, m, K) ==
  /\ m + 1 <= Len(T) /\ T[m + 1].k = "hdr"
  /\ Chain(T, SealEnd(T, m), K) /\ Headless(T, SealEnd(T, m)) /\ SealEnd(T, m) > m
  /\ \A i \in (m + 2)..SealEnd(T, m) : i <= Len(S) /\ S[i] = T[i]

(* S is on the medium, T in the kernel: both begin with the chain 1 .. m,  *)
(* and only the header that comes next in T may be complete, if its        *)
(* records have been synced.                                               *)
Pair(S, T, m, K) ==
  /\ Chain(T, m, K) /\ m <= Len(S)
  /\ \A i \in 1..m : S[i] = T[i]
  /\ Headless(S, m)
  /\ Headless(T, m) \/ NextSealed(S, T, m, K)

Recorded(S, m, p) == \E i \in 1..m : S[i].k = "rec" /\ S[i].pg = p
Covered(S, m, K, p) == m > 0 /\ (p > SizeOf(K) \/ Recorded(S, m, p))

(* The journal leads a database file db back to K, whatever part of the    *)
(* unsynced writes to the journal and to the pages of behind is lost.      *)
Leads(S, T, db, behind, K, m) ==
  /\ Pair(S, T, m, K)
  /\ \A p \in Page : Covered(T, m, K, p) \/ (db[p] = K[p] /\ p \notin behind)

(* The kernel's file is I, all of it synced, and there is no header in the *)
(* journal.                                                                *)
Plain(I, o, d) == o.db = I /\ d.behind = {}
Bare(o, d) ==
  o.dir # 0 => Headless(o.file[o.dir], 0) /\ Headless(d.file[o.dir], 0)
Clean(I, o, d) == Plain(I, o, d) /\ Bare(o, d)

Committed(I, m, o, d) ==
  /\ o.dir = 0 => m = 0 /\ Plain(I, o, d)
  /\ o.dir # 0 => Leads(d.file[o.dir], o.file[o.dir], o.db, d.behind, I, m)
  /\ d.dir # o.dir => Clean(I, o, d)
  /\ \A p \in Page : p \notin d.behind => d.db[p] = o.db[p]

Durable(J, I, o, d) ==
  /\ d.dir \in {0, o.dir} => J = I
  /\ d.dir \notin {0, o.dir} =>
       \E m \in Nat : Leads(d.file[d.dir], o.file[d.dir], o.db, d.behind, J, m)

(* Journals and their slots are numbered by transactions up to n. *)
Seeds(file, n) ==
  \A x \in Inode : /\ \A i \in 1..Len(file[x]) : file[x][i].seed <= n
                   /\ x > n => file[x] = <<>>
Numbered(o, d, n) ==
  o.dir <= n /\ d.dir <= n /\ Seeds(o.file, n) /\ Seeds(d.file, n)

Global(I, J, m, o, d, n) ==
  /\ I \in Image /\ J \in Image /\ m \in Nat
  /\ I[1] <= n /\ J[1] <= n
  /\ Committed(I, m, o, d) /\ Durable(J, I, o, d) /\ Numbered(o, d, n)

-----------------------------------------------------------------------------
(* What a connection knows of the database *)

Agrees(cache, K) == \A p \in Page : cache[p] \in {Absent, K[p]}
IsEmpty(cache) == \A p \in Page : cache[p] = Absent

(* Pages in the cache are never damaged. *)
Sound(r) ==
  /\ \A p \in Page : r.cache[p] \in {Absent} \cup Value
  /\ r.needSync \subseteq r.dirty
  /\ \A p \in r.dirty : r.cache[p] # Absent
  /\ r.eState \in {"OPEN", "READER", "LOCKED"} => r.inJournal = {}

(* A cache kept without a lock is of a committed content, the present one  *)
(* if the change counter says so.                                          *)
StaleCache(r, I) ==
  r.eState = "OPEN" /\ ~IsEmpty(r.cache) =>
    /\ r.held /\ r.cache[1] = r.vers /\ r.vers <= I[1]
    /\ r.vers = I[1] => Agrees(r.cache, I)

Reader(r, I) ==
  r.eState \in {"READER", "LOCKED"} =>
    /\ r.held /\ r.dbSize = SizeOf(I) /\ Agrees(r.cache, I)
    /\ r.cache[1] = Absent => IsEmpty(r.cache)
    /\ r.cache[1] # Absent => r.vers = I[1]
    /\ r.eState = "LOCKED" => r.cache[1] # Absent /\ r.orig = r.dbSize

Cached(r, I) == Sound(r) /\ StaleCache(r, I) /\ Reader(r, I)

(* Who reads, or holds a lock that tells others they may read *)
MayRead(r, l) == r.pc = "vers" \/ r.eState = "READER" \/ l \in {2, 3}

-----------------------------------------------------------------------------
(* What a transaction knows of its journal T; n is its number.  The chain  *)
(* ends before its last header.                                            *)
InProgress(r, T) ==
  /\ r.jhdr <= r.joff =>
       /\ r.last = r.jhdr
       /\ \/ T[r.jhdr].k = "zero" /\ T[r.jhdr].val = 0 /\ r.pc # "jsync2"
          \/ /\ T[r.jhdr].k = "hdr" /\ T[r.jhdr].val = r.joff - r.jhdr
             /\ r.pc \in {"jsync2"} \cup Replaying
  /\ r.jhdr > r.joff => r.last = 0

OwnSlots(r, T, I, m, n) ==
  /\ I[1] < n /\ r.held
  /\ r.orig = SizeOf(I) /\ T[1].pg = r.orig
  /\ r.jhdr = m + 1 /\ (r.eState = "CACHEMOD" <=> m = 0)
  /\ \A i \in (r.jhdr + 1)..r.joff : RecordOf(T[i], I)
  /\ \A i \in (r.joff + 1)..Len(T) : T[i].seed < n
  /\ InProgress(r, T)
  /\ \A p \in Page : p \in r.inJournal <=> Recorded(T, r.joff, p)
  /\ \A p \in Page : p <= r.orig /\ p \notin r.inJournal => r.cache[p] \in {Absent, I[p]}
  /\ \A p \in r.inJournal : r.cache[p] # Absent
  /\ r.cache[1] # Absent

(* The change counter has not been incremented yet. *)
BeforeCounter(r) == r.pc \in {"idle", "jexcl", "cc"} \/ r.spill # 0

Counter(r, I) ==
  /\ BeforeCounter(r) => 1 \notin r.dirty /\ r.cache[1] = I[1]
  /\ ~BeforeCounter(r) => r.cache[1] = I[1] + 1
  /\ r.vers = IF 1 \in r.dirty THEN I[1] ELSE r.cache[1]

Writer(r, T, db, I, m) ==
  /\ r.eState = "DBMOD" => \A p \in r.inJournal \ r.needSync : Recorded(T, m, p)
  /\ \A p \in r.dirty : p <= r.orig => p \in r.inJournal
  /\ \A p \in Page \ r.dirty : r.cache[p] \in {Absent, db[p]}
  /\ r.dbSize \in r.orig..MaxPage
  /\ \A p \in Page : p > r.orig => (r.cache[p] # Absent <=> p <= r.dbSize)
  /\ \A p \in Page : p > r.dbSize => db[p] = Absent
  /\ Counter(r, I)
  /\ r.pc = "dbsync" => r.dirty = {}
  /\ r.pc = "cc" => r.spill = 0

Finished(r, I, o, d, n) ==
  /\ d.behind = {} /\ o.db \in Image
  /\ o.db[1] = I[1] + 1 /\ o.db[1] <= n
  /\ r.vers = o.db[1] /\ r.cache[1] = o.db[1] /\ r.held
  /\ Agrees(r.cache, o.db) /\ r.dbSize = SizeOf(o.db)

-----------------------------------------------------------------------------
(* Playbacks: the records before slot k are back in the file or the cache. *)

FileBack(db, T, I, m, k) ==
  /\ \A i \in 1..m : i < k /\ T[i].k = "rec" => db[T[i].pg] = I[T[i].pg]
  /\ m > 0 /\ k > 1 => \A p \in Page : p > SizeOf(I) => db[p] = Absent

CacheBack(r, T, I, k) ==
  /\ \A i \in 1..r.joff : i < k /\ T[i].k = "rec" =>
       /\ r.cache[T[i].pg] = I[T[i].pg]
       /\ T[i].pg = 1 => r.vers = I[1]
  /\ 1 \notin r.inJournal => r.vers = I[1]

(* The next header is at slot k, or the playback ends there. *)
HdrAt(r, T, k) == k > r.joff \/ T[k].k = "hdr" \/ k = r.last

OwnRollback(r, T, db, I, m) ==
  /\ r.pc \in {"hdr", "rec"} =>
       /\ CacheBack(r, T, I, r.k) /\ FileBack(db, T, I, m, r.k)
       /\ r.k > 1 => r.dbSize = SizeOf(I)
  /\ r.pc = "hdr" => HdrAt(r, T, r.k)
  /\ r.pc = "rec" =>
       /\ r.k > 1 /\ r.left >= 1 /\ HdrAt(r, T, r.k + r.left)
       /\ \A i \in r.k..(r.k + r.left - 1) : i <= r.joff => T[i].k = "rec"
  /\ r.pc \in {"rsync", "fin"} =>
       CacheBack(r, T, I, r.joff + 1) /\ r.dbSize = SizeOf(I) /\ db = I

HotHdr(T, m, k) == k = m + 1 \/ (k \in 1..m /\ T[k].k = "hdr")

HotRollback(r, T, db, I, m) ==
  /\ r.pc \in {"hdr", "rec"} =>
       /\ FileBack(db, T, I, m, r.k)
       /\ r.k > 1 => r.dbSize = SizeOf(I)
  /\ r.pc = "hdr" => HotHdr(T, m, r.k)
  /\ r.pc = "rec" =>
       /\ r.k > 1 /\ r.left >= 1 /\ HotHdr(T, m, r.k + r.left)
       /\ \A i \in r.k..(r.k + r.left - 1) : T[i].k = "rec"
       /\ r.seed = T[1].seed
  /\ r.pc \in {"rsync", "fin"} => db = I

Changing(r) == r.eState \in {"CACHEMOD", "DBMOD"}

Txn(r, I, m, o, d, n) ==
  LET T == o.file[r.jfd]
      S == d.file[r.jfd]
  IN  /\ Changing(r) => OwnSlots(r, T, I, m, n)
      /\ Changing(r) /\ r.pc \notin Replaying => Writer(r, T, o.db, I, m)
      /\ Changing(r) /\ r.pc \in Replaying => OwnRollback(r, T, o.db, I, m)
      /\ r.hot => HotRollback(r, T, o.db, I, m)
      /\ r.hot /\ r.pc # "hsync" => Headless(T, m) /\ S = T /\ r.jhdr = Len(T) + 1
      /\ r.pc = "jnrec" => S = T
      /\ r.pc = "fin" => d.behind = {}
      /\ r.eState = "FINISHED" => Finished(r, I, o, d, n)

Facts(r, l, I, m, o, d, n) ==
  /\ Cached(r, I)
  /\ MayRead(r, l) => Clean(I, o, d)
  /\ Txn(r, I, m, o, d, n)

Recovers(I, J, m) ==
  /\ Global(I, J, m, os, disk, txn)
  /\ \A c \in Conn : Facts(conn[c], lock[c], I, m, os, disk, txn)

Recovery == \E I, J \in Image, m \in Nat : Recovers(I, J, m)

-----------------------------------------------------------------------------
USE DEF Entering, Replaying, Committing, Writers, FL!NO_LOCK, FL!SHARED_LOCK,
        FL!RESERVED_LOCK, FL!PENDING_LOCK, FL!EXCLUSIVE_LOCK, FL!Level

(* A content of the database *)
LEMMA ImageProperty ==
  ASSUME NEW K \in Image
  PROVE  /\ K \in Pages /\ SizeOf(K) \in Nat /\ SizeOf(K) >= 1 /\ SizeOf(K) <= MaxPage
         /\ \A p \in Page : p <= SizeOf(K) => K[p] \in Value /\ K[p] # Absent
         /\ \A p \in Page : p > SizeOf(K) => K[p] = Absent
         /\ \A p \in Page : K[p] \in {Absent} \cup Value
         /\ MaxPage \in Nat /\ 1 \in Page /\ K[1] \in Nat /\ K[1] \in Value
  <1>1. MaxPage \in Nat /\ MaxTxn \in Nat
    BY PagerAssumption
  <1>2. /\ K \in Pages /\ SizeOf(K) >= 1 /\ \A p \in 1..SizeOf(K) : K[p] \in Value
    BY DEF Image
  <1>3. /\ SizeOf(K) \in 0..MaxPage /\ \A p \in Page : p > SizeOf(K) => K[p] = Absent
    BY SizeOfProperty
  <1>4. ASSUME NEW p \in Page, p <= SizeOf(K) PROVE K[p] \in Value /\ K[p] # Absent
    BY <1>1, <1>2, <1>3, <1>4 DEF Page, Value, Absent
  <1>5. 1 \in Page
    BY <1>1, <1>2, <1>3 DEF Page
  <1>6. ASSUME NEW p \in Page PROVE K[p] \in {Absent} \cup Value
    <2>1. p \in Nat /\ SizeOf(K) \in Nat
      BY <1>1, <1>3 DEF Page
    <2> QED  BY <1>3, <1>4, <2>1
  <1>7. K[1] \in Value /\ K[1] \in Nat
    BY <1>1, <1>2, <1>4, <1>5 DEF Value
  <1> QED  BY <1>1, <1>2, <1>3, <1>4, <1>5, <1>6, <1>7

(* The slots a playback accepts are exactly those of the chain. *)
LEMMA ChainWellFormed ==
  ASSUME NEW S \in Seq(Slot), NEW K, NEW m, Chain(S, m, K), NEW n \in 1..m
  PROVE  WellFormed(S, n)
  <1> DEFINE before == {h \in 1..(n - 1) : S[h].k = "hdr"}
             h == Max(before)
  <1>1. m \in Nat /\ n \in Nat /\ n <= Len(S) /\ S[1].k = "hdr" /\ n >= 1 /\ n <= m
    BY DEF Chain
  <1>2. CASE n = 1
    BY <1>1, <1>2 DEF WellFormed
  <1>3. CASE n # 1
    <2>1. 1 \in before
      BY <1>1, <1>3
    <2>2. before \in SUBSET (0..n)
      BY <1>1
    <2>3. h \in before /\ \A y \in before : h >= y
      <3> HIDE DEF before
      <3> QED  BY <1>1, <2>1, <2>2, MaxProperty
    <2>4. h \in 1..(n - 1) /\ S[h].k = "hdr" /\ h \in Nat
      BY <1>1, <2>3
    <2> DEFINE e == h + S[h].val
    <2>5. /\ S[h].val \in Nat /\ e \in Nat /\ e <= m /\ e >= h
          /\ \A i \in (h + 1)..e : S[i].k = "rec"
          /\ e < m => S[e + 1].k = "hdr"
      <3>1. h \in 1..m
        BY <1>1, <2>4
      <3>2. S[h].val \in 0..(m - h)
        BY <2>4, <3>1 DEF Chain
      <3>3. \A i \in (h + 1)..(h + S[h].val) : S[i].k = "rec"
        BY <2>4, <3>1 DEF Chain
      <3>4. h + S[h].val < m => S[h + S[h].val + 1].k = "hdr"
        BY <2>4, <3>1 DEF Chain
      <3> QED  BY <1>1, <2>4, <3>2, <3>3, <3>4
    <2>6. ASSUME e < n PROVE e + 1 = n /\ S[n].k = "hdr"
      <3>1. S[e + 1].k = "hdr" /\ e + 1 \in 1..n
        BY <1>1, <2>5, <2>6
      <3>2. CASE e + 1 = n
        BY <3>1, <3>2
      <3>3. CASE e + 1 # n
        <4>1. e + 1 \in before
          BY <1>1, <2>5, <3>1, <3>3
        <4>2. h >= e + 1
          BY <2>3, <4>1
        <4> QED  BY <2>4, <2>5, <4>2
      <3> QED  BY <3>2, <3>3
    <2>7. ASSUME e >= n PROVE S[n].k = "rec"
      BY <1>1, <2>4, <2>5, <2>7
    <2>8. S[n].seed = S[1].seed /\ S[h].seed = S[1].seed
      BY <1>1, <2>4 DEF Chain
    <2>9. CASE e < n
      <3>1. n = h + S[h].val + 1 /\ S[n].k = "hdr" /\ before # {}
        BY <2>1, <2>5, <2>6, <2>9
      <3> HIDE DEF before
      <3> QED  BY <3>1 DEF WellFormed, before
    <2>10. CASE e >= n
      <3>1. S[n].k = "rec" /\ n <= h + S[h].val /\ before # {}
        BY <2>1, <2>7, <2>10
      <3> HIDE DEF before
      <3> QED  BY <2>8, <3>1 DEF WellFormed, before
    <2> QED  BY <1>1, <2>5, <2>9, <2>10
  <1> QED  BY <1>2, <1>3

LEMMA ChainEnds ==
  ASSUME NEW S \in Seq(Slot), NEW K, NEW m, Chain(S, m, K), Headless(S, m),
         m + 1 <= Len(S)
  PROVE  ~WellFormed(S, m + 1)
  <1> DEFINE n == m + 1
             before == {h \in 1..(n - 1) : S[h].k = "hdr"}
             h == Max(before)
  <1>1. m \in Nat /\ n \in 1..Len(S) /\ n \in Nat
    BY DEF Chain
  <1>2. S[n].k # "hdr"
    BY <1>1 DEF Headless
  <1>3. ASSUME before # {} PROVE ~(n <= h + S[h].val)
    <2>1. before \in SUBSET (0..n)
      BY <1>1
    <2>2. h \in before
      <3> HIDE DEF before, n
      <3> QED  BY <1>1, <1>3, <2>1, MaxProperty
    <2>3. h \in 1..m /\ S[h].k = "hdr"
      BY <1>1, <2>2
    <2>4. S[h].val \in 0..(m - h)
      BY <2>3 DEF Chain
    <2> QED  BY <1>1, <2>3, <2>4
  <1> HIDE DEF before
  <1> QED  BY <1>2, <1>3 DEF WellFormed, before

LEMMA ChainPlayed ==
  ASSUME NEW S \in Seq(Slot), NEW K, NEW m, Chain(S, m, K), Headless(S, m)
  PROVE  {n \in DOMAIN S : \A i \in 1..n : WellFormed(S, i)} = 1..m
  <1>1. m \in Nat /\ m <= Len(S) /\ DOMAIN S = 1..Len(S)
    BY DEF Chain
  <1>2. ASSUME NEW n \in 1..m PROVE n \in DOMAIN S /\ \A i \in 1..n : WellFormed(S, i)
    <2>1. \A i \in 1..n : i \in 1..m
      BY <1>1
    <2> QED  BY <1>1, <2>1, ChainWellFormed
  <1>3. ASSUME NEW n \in DOMAIN S, n \notin 1..m PROVE \E i \in 1..n : ~WellFormed(S, i)
    <2>1. m + 1 \in 1..n /\ m + 1 <= Len(S)
      BY <1>1, <1>3
    <2> QED  BY <2>1, ChainEnds
  <1> QED  BY <1>2, <1>3

(* Undoing the chain gives K, if what it does not cover is K already. *)
LEMMA ChainUndone ==
  ASSUME NEW S \in Seq(Slot), NEW K \in Image, NEW m, NEW db \in Pages,
         Chain(S, m, K), Headless(S, m),
         \A p \in Page : Covered(S, m, K, p) \/ db[p] = K[p]
  PROVE  Undone(db, S) = K
  <1> DEFINE played == {n \in DOMAIN S : \A i \in 1..n : WellFormed(S, i)}
             Of(p) == {n \in played : S[n].k = "rec" /\ S[n].pg = p}
             res == [p \in Page |-> IF p > S[1].pg THEN Absent
                           ELSE IF Of(p) = {} THEN db[p] ELSE S[Max(Of(p))].val]
  <1>1. m \in Nat
    BY DEF Chain
  <1>2. played = 1..m
    BY ChainPlayed
  <1>3. Undone(db, S) = IF played = {} THEN db ELSE res
    BY DEF Undone
  <1>4. K \in Pages /\ SizeOf(K) \in Nat /\ \A p \in Page : p > SizeOf(K) => K[p] = Absent
    BY ImageProperty
  <1>5. CASE m = 0
    <2>1. \A p \in Page : db[p] = K[p]
      BY <1>5 DEF Covered
    <2>2. db = K
      BY <1>4, <2>1 DEF Pages
    <2>3. played = {}
      BY <1>2, <1>5
    <2> HIDE DEF played, res
    <2> QED  BY <1>3, <2>2, <2>3
  <1>6. CASE m # 0
    <2>1. m > 0 /\ S[1].pg = SizeOf(K) /\ 1 \in 1..m
      BY <1>1, <1>6 DEF Chain
    <2>2. ASSUME NEW p \in Page PROVE res[p] = K[p]
      <3>1. res[p] = IF p > S[1].pg THEN Absent
                     ELSE IF Of(p) = {} THEN db[p] ELSE S[Max(Of(p))].val
        <4> HIDE DEF Of
        <4> QED  OBVIOUS
      <3>2. Of(p) = {n \in 1..m : S[n].k = "rec" /\ S[n].pg = p}
        BY <1>2
      <3> HIDE DEF played, Of, res
      <3>3. CASE p > SizeOf(K)
        BY <1>4, <2>1, <3>1, <3>3
      <3>4. CASE ~(p > SizeOf(K)) /\ Of(p) = {}
        <4>1. ~Recorded(S, m, p)
          BY <3>2, <3>4 DEF Recorded
        <4>2. db[p] = K[p]
          BY <3>4, <4>1 DEF Covered
        <4> QED  BY <2>1, <3>1, <3>4, <4>2
      <3>5. CASE ~(p > SizeOf(K)) /\ Of(p) # {}
        <4>1. Of(p) \in SUBSET (0..m)
          BY <1>1, <3>2
        <4>2. Max(Of(p)) \in Of(p)
          BY <1>1, <3>5, <4>1, MaxProperty
        <4> DEFINE j == Max(Of(p))
        <4>3. j \in 1..m /\ S[j].k = "rec" /\ S[j].pg = p
          BY <3>2, <4>2
        <4> HIDE DEF j
        <4>4. S[j].val = K[p]
          BY <4>3 DEF Chain, RecordOf
        <4> QED  BY <2>1, <3>1, <3>5, <4>4 DEF j
      <3> QED  BY <3>3, <3>4, <3>5
    <2>3. res = [p \in Page |-> res[p]]
      <3> HIDE DEF Of
      <3> QED  OBVIOUS
    <2>4. played # {}
      BY <1>2, <2>1
    <2> HIDE DEF res, played
    <2>5. res = K
      BY <1>4, <2>2, <2>3 DEF Pages
    <2> QED  BY <1>3, <2>4, <2>5
  <1> QED  BY <1>5, <1>6

(* The chain depends on its own slots only. *)
LEMMA ChainSame ==
  ASSUME NEW T \in Seq(Slot), NEW U \in Seq(Slot), NEW K, NEW m, Chain(T, m, K),
         m <= Len(U), \A i \in 1..m : U[i] = T[i]
  PROVE  /\ Chain(U, m, K)
         /\ \A p \in Page : Recorded(U, m, p) <=> Recorded(T, m, p)
         /\ \A p \in Page : Covered(U, m, K, p) <=> Covered(T, m, K, p)
  <1>1. m \in Nat /\ m \in 0..Len(U)
    BY DEF Chain
  <1>2. \A p \in Page : Recorded(U, m, p) <=> Recorded(T, m, p)
    BY DEF Recorded
  <1>3. /\ m > 0 => U[1].k = "hdr" /\ U[1].pg = SizeOf(K)
        /\ \A i \in 1..m : U[i].k = "hdr" \/ RecordOf(U[i], K)
        /\ \A i \in 1..m : U[i].seed = U[1].seed
    BY <1>1 DEF Chain
  <1>4. ASSUME NEW h \in 1..m, U[h].k = "hdr"
        PROVE  /\ U[h].val \in 0..(m - h)
               /\ \A i \in (h + 1)..(h + U[h].val) : U[i].k = "rec"
               /\ h + U[h].val < m => U[h + U[h].val + 1].k = "hdr"
    <2>1. U[h] = T[h] /\ T[h].k = "hdr"
      BY <1>4
    <2> DEFINE v == T[h].val
    <2>2. /\ v \in 0..(m - h)
          /\ \A i \in (h + 1)..(h + v) : T[i].k = "rec"
          /\ h + v < m => T[h + v + 1].k = "hdr"
      BY <2>1 DEF Chain
    <2>3. U[h].val = v
      BY <2>1
    <2> HIDE DEF v
    <2>4. \A i \in (h + 1)..(h + v) : U[i].k = "rec"
      BY <1>1, <2>2
    <2>5. h + v < m => U[h + v + 1].k = "hdr"
      BY <1>1, <2>2
    <2> QED  BY <2>2, <2>3, <2>4, <2>5
  <1>5. Chain(U, m, K)
    BY <1>1, <1>3, <1>4 DEF Chain
  <1> QED  BY <1>2, <1>5 DEF Covered

LEMMA CoveredGrows ==
  ASSUME NEW T, NEW K, NEW m \in Nat, NEW e \in Nat, e >= m, NEW p, Covered(T, m, K, p)
  PROVE  Covered(T, e, K, p)
  BY DEF Covered, Recorded

(* Where the kernel's chain ends *)
LEMMA PairEnd ==
  ASSUME NEW S \in Seq(Slot), NEW T \in Seq(Slot), NEW K, NEW m \in Nat, Pair(S, T, m, K)
  PROVE  \E e \in Nat : e >= m /\ Chain(T, e, K) /\ Headless(T, e)
  <1>1. CASE Headless(T, m)
    BY <1>1 DEF Pair
  <1>2. CASE NextSealed(S, T, m, K)
    <2>1. Chain(T, SealEnd(T, m), K) /\ Headless(T, SealEnd(T, m)) /\ SealEnd(T, m) > m
      BY <1>2 DEF NextSealed
    <2>2. SealEnd(T, m) \in Nat
      BY <2>1 DEF Chain
    <2> QED  BY <2>1, <2>2
  <1> QED  BY <1>1, <1>2 DEF Pair

(* Both the kernel's and the medium's files are led back to K. *)
LEMMA LeadsUndone ==
  ASSUME NEW S \in Seq(Slot), NEW T \in Seq(Slot), NEW K \in Image, NEW m \in Nat,
         NEW db \in Pages, NEW b, Leads(S, T, db, b, K, m),
         NEW dd \in Pages, \A p \in Page : p \notin b => dd[p] = db[p]
  PROVE  Undone(db, T) = K /\ Undone(dd, S) = K
  <1>1. Pair(S, T, m, K) /\ \A p \in Page : Covered(T, m, K, p) \/ (db[p] = K[p] /\ p \notin b)
    BY DEF Leads
  <1>2. PICK e \in Nat : e >= m /\ Chain(T, e, K) /\ Headless(T, e)
    BY <1>1, PairEnd
  <1>3. \A p \in Page : Covered(T, e, K, p) \/ db[p] = K[p]
    BY <1>1, <1>2, CoveredGrows
  <1>4. Undone(db, T) = K
    BY <1>2, <1>3, ChainUndone
  <1>5. Chain(T, m, K) /\ m <= Len(S) /\ (\A i \in 1..m : S[i] = T[i]) /\ Headless(S, m)
    BY <1>1 DEF Pair
  <1>6. Chain(S, m, K) /\ \A p \in Page : Covered(S, m, K, p) <=> Covered(T, m, K, p)
    BY <1>5, ChainSame
  <1>7. \A p \in Page : Covered(S, m, K, p) \/ dd[p] = K[p]
    BY <1>1, <1>6
  <1>8. Undone(dd, S) = K
    BY <1>5, <1>6, <1>7, ChainUndone
  <1> QED  BY <1>4, <1>8

(* What a power failure leaves of the journal leads what it leaves of the  *)
(* file back to K.                                                         *)
LEMMA PairLeft ==
  ASSUME NEW S \in Seq(Slot), NEW T \in Seq(Slot), NEW K, NEW m \in Nat, Pair(S, T, m, K),
         NEW U \in SlotsLeft(S, T)
  PROVE  \E e \in Nat : /\ e >= m /\ Pair(U, U, e, K)
                        /\ \A p \in Page : Covered(T, m, K, p) => Covered(U, e, K, p)
  <1>1. /\ U \in Seq(Slot) /\ (Len(U) >= Len(S) \/ Len(U) >= Len(T))
        /\ \A n \in 1..Len(U) : \/ U[n] = BadSlot
                                \/ n <= Len(S) /\ U[n] = S[n]
                                \/ n <= Len(T) /\ U[n] = T[n]
        /\ \A n \in 1..Len(U) :
              n <= Len(S) /\ n <= Len(T) /\ S[n] = T[n] => U[n] = S[n]
    BY SlotsLeftProperty
  <1>2. /\ Chain(T, m, K) /\ m <= Len(S) /\ (\A i \in 1..m : S[i] = T[i])
        /\ Headless(S, m) /\ m <= Len(T)
    BY DEF Pair, Chain
  <1>3. m <= Len(U) /\ Len(U) \in Nat /\ Len(S) \in Nat /\ Len(T) \in Nat
    BY <1>1, <1>2
  <1>4. \A i \in 1..m : U[i] = T[i]
    BY <1>1, <1>2, <1>3
  <1>5. /\ Chain(U, m, K)
        /\ \A p \in Page : Covered(U, m, K, p) <=> Covered(T, m, K, p)
    BY <1>1, <1>2, <1>3, <1>4, ChainSame
  <1>6. ASSUME Headless(U, m) PROVE Pair(U, U, m, K)
    BY <1>3, <1>5, <1>6 DEF Pair
  <1>7. BadSlot.k # "hdr"
    BY DEF BadSlot
  <1>8. CASE Headless(T, m)
    <2>1. ASSUME NEW i \in (m + 1)..Len(U) PROVE U[i].k # "hdr"
      <3>1. i \in 1..Len(U)
        BY <1>3
      <3>2. i <= Len(S) => S[i].k # "hdr"
        BY <1>2, <1>3 DEF Headless
      <3>3. i <= Len(T) => T[i].k # "hdr"
        BY <1>3, <1>8 DEF Headless
      <3> QED  BY <1>1, <1>7, <3>1, <3>2, <3>3
    <2>2. Headless(U, m)
      BY <2>1 DEF Headless
    <2> QED  BY <1>5, <1>6, <2>2
  <1>9. CASE NextSealed(S, T, m, K)
    <2> DEFINE e == SealEnd(T, m)
    <2>1. /\ m + 1 <= Len(T) /\ T[m + 1].k = "hdr" /\ e = m + 1 + T[m + 1].val
          /\ Chain(T, e, K) /\ Headless(T, e) /\ e > m
          /\ \A i \in (m + 2)..e : i <= Len(S) /\ S[i] = T[i]
      BY <1>9 DEF NextSealed, SealEnd
    <2> HIDE DEF e
    <2>2. e \in Nat /\ e <= Len(T)
      BY <2>1 DEF Chain
    <2>3. \A i \in (m + 2)..e : T[i].k = "rec"
      <3>1. m + 1 \in 1..e
        BY <2>1, <2>2
      <3>2. \A i \in (m + 1 + 1)..(m + 1 + T[m + 1].val) : T[i].k = "rec"
        BY <2>1, <3>1 DEF Chain
      <3> QED  BY <2>1, <3>2
    <2>4. ASSUME NEW i \in (m + 2)..Len(U) PROVE U[i].k # "hdr"
      <3>1. i \in 1..Len(U)
        BY <1>3
      <3>2. i <= Len(S) => S[i].k # "hdr"
        BY <1>2, <1>3 DEF Headless
      <3>3. i <= Len(T) => T[i].k # "hdr"
        <4>1. CASE i <= e
          BY <2>2, <2>3, <4>1
        <4>2. CASE i > e
          BY <1>3, <2>1, <2>2, <4>2 DEF Headless
        <4> QED  BY <2>2, <4>1, <4>2
      <3> QED  BY <1>1, <1>7, <3>1, <3>2, <3>3
    <2>5. CASE m + 1 <= Len(U) /\ U[m + 1] = T[m + 1]
      <3>1. e <= Len(U)
        <4>1. CASE e = m + 1
          BY <2>5, <4>1
        <4>2. CASE e # m + 1
          <5>1. e \in (m + 2)..e
            BY <2>1, <2>2, <4>2
          <5>2. e <= Len(S)
            BY <2>1, <5>1
          <5> QED  BY <1>1, <1>3, <2>2, <5>2
        <4> QED  BY <4>1, <4>2
      <3>2. ASSUME NEW i \in 1..e PROVE U[i] = T[i]
        <4>1. CASE i <= m
          BY <1>4, <4>1
        <4>2. CASE i = m + 1
          BY <2>5, <4>2
        <4>3. CASE i >= m + 2
          <5>1. i \in (m + 2)..e
            BY <2>2, <4>3
          <5>2. i <= Len(S) /\ S[i] = T[i]
            BY <2>1, <5>1
          <5>3. i \in 1..Len(U) /\ i <= Len(T)
            BY <1>3, <2>2, <3>1
          <5> QED  BY <1>1, <5>2, <5>3
        <4> QED  BY <2>2, <4>1, <4>2, <4>3
      <3>3. Chain(U, e, K) /\ \A p \in Page : Covered(U, e, K, p) <=> Covered(T, e, K, p)
        BY <1>1, <2>1, <3>1, <3>2, ChainSame
      <3>4. Headless(U, e)
        <4>1. \A i \in (e + 1)..Len(U) : i \in (m + 2)..Len(U)
          BY <1>3, <2>1, <2>2
        <4> QED  BY <2>4, <4>1 DEF Headless
      <3>5. Pair(U, U, e, K)
        BY <3>1, <3>3, <3>4 DEF Pair
      <3>6. \A p \in Page : Covered(T, m, K, p) => Covered(U, e, K, p)
        BY <2>1, <2>2, <3>3, CoveredGrows
      <3> QED  BY <2>1, <2>2, <3>5, <3>6
    <2>6. CASE ~(m + 1 <= Len(U) /\ U[m + 1] = T[m + 1])
      <3>1. ASSUME NEW i \in (m + 1)..Len(U) PROVE U[i].k # "hdr"
        <4>1. CASE i = m + 1
          <5>1. m + 1 \in 1..Len(U) /\ m + 1 <= Len(U)
            BY <1>3, <4>1
          <5>2. U[m + 1] = BadSlot \/ (m + 1 <= Len(S) /\ U[m + 1] = S[m + 1])
            BY <1>1, <2>6, <5>1
          <5>3. m + 1 <= Len(S) => S[m + 1].k # "hdr"
            BY <1>2, <1>3 DEF Headless
          <5> QED  BY <1>7, <4>1, <5>2, <5>3
        <4>2. CASE i # m + 1
          <5>1. i \in (m + 2)..Len(U)
            BY <1>3, <4>2
          <5> QED  BY <2>4, <5>1
        <4> QED  BY <4>1, <4>2
      <3>2. Headless(U, m)
        BY <3>1 DEF Headless
      <3> QED  BY <1>5, <1>6, <3>2
    <2> QED  BY <2>5, <2>6
  <1> QED  BY <1>8, <1>9 DEF Pair

(* Journal U leads the file db to K once nothing is unsynced. *)
Survives(U, db, K) == \E e \in Nat : Leads(U, U, db, {}, K, e)

LEMMA LeadsLost ==
  ASSUME NEW S \in Seq(Slot), NEW T \in Seq(Slot), NEW K, NEW m \in Nat,
         NEW db, NEW b, Leads(S, T, db, b, K, m), NEW U \in SlotsLeft(S, T),
         NEW dd, \A p \in Page : p \notin b => dd[p] = db[p]
  PROVE  Survives(U, dd, K)
  <1>1. Pair(S, T, m, K) /\ \A p \in Page : Covered(T, m, K, p) \/ (db[p] = K[p] /\ p \notin b)
    BY DEF Leads
  <1>2. PICK e \in Nat : /\ e >= m /\ Pair(U, U, e, K)
                         /\ \A p \in Page : Covered(T, m, K, p) => Covered(U, e, K, p)
    BY <1>1, PairLeft
  <1>3. Leads(U, U, dd, {}, K, e)
    BY <1>1, <1>2 DEF Leads
  <1> QED  BY <1>3 DEF Survives

(* The journal may be written behind the chain, ... *)
LEMMA LeadsJournal ==
  ASSUME NEW S \in Seq(Slot), NEW T \in Seq(Slot), NEW U \in Seq(Slot), NEW K,
         NEW m \in Nat, NEW db, NEW b, Leads(S, T, db, b, K, m),
         m <= Len(U), \A i \in 1..m : U[i] = T[i],
         Headless(U, m) \/ NextSealed(S, U, m, K)
  PROVE  Leads(S, U, db, b, K, m)
  <1>1. Pair(S, T, m, K) /\ \A p \in Page : Covered(T, m, K, p) \/ (db[p] = K[p] /\ p \notin b)
    BY DEF Leads
  <1>2. Chain(T, m, K) /\ m <= Len(S) /\ (\A i \in 1..m : S[i] = T[i]) /\ Headless(S, m)
    BY <1>1 DEF Pair
  <1>3. /\ Chain(U, m, K)
        /\ \A p \in Page : Covered(U, m, K, p) <=> Covered(T, m, K, p)
    BY <1>2, ChainSame
  <1>4. Pair(S, U, m, K)
    BY <1>2, <1>3 DEF Pair
  <1> QED  BY <1>1, <1>3, <1>4 DEF Leads

(* ... pages it covers may be written, any page may be put back, ... *)
LEMMA LeadsPages ==
  ASSUME NEW S, NEW T, NEW K, NEW m, NEW db, NEW b, Leads(S, T, db, b, K, m),
         NEW dd, NEW bb,
         \A p \in Page : \/ Covered(T, m, K, p)
                         \/ dd[p] = db[p] /\ (p \in bb => p \in b)
                         \/ dd[p] = K[p] /\ p \notin bb
  PROVE  Leads(S, T, dd, bb, K, m)
  BY DEF Leads

(* ... and it may be synced; then a complete header counts. *)
LEMMA LeadsSynced ==
  ASSUME NEW S \in Seq(Slot), NEW T \in Seq(Slot), NEW K, NEW m \in Nat,
         NEW db, NEW b, Leads(S, T, db, b, K, m)
  PROVE  /\ Headless(T, m) => Leads(T, T, db, b, K, m)
         /\ ~Headless(T, m) => /\ SealEnd(T, m) \in Nat /\ SealEnd(T, m) > m
                               /\ Leads(T, T, db, b, K, SealEnd(T, m))
  <1> DEFINE e == SealEnd(T, m)
  <1>1. Pair(S, T, m, K) /\ \A p \in Page : Covered(T, m, K, p) \/ (db[p] = K[p] /\ p \notin b)
    BY DEF Leads
  <1>2. Chain(T, m, K) /\ m <= Len(T) /\ (Headless(T, m) \/ NextSealed(S, T, m, K))
    <2>1. Chain(T, m, K) /\ (Headless(T, m) \/ NextSealed(S, T, m, K))
      BY <1>1 DEF Pair
    <2>2. m \in 0..Len(T)
      BY <2>1 DEF Chain
    <2> QED  BY <2>1, <2>2
  <1>3. ASSUME Headless(T, m) PROVE Leads(T, T, db, b, K, m)
    <2>1. Pair(T, T, m, K)
      BY <1>2, <1>3 DEF Pair
    <2> QED  BY <1>1, <2>1 DEF Leads
  <1>4. ASSUME ~Headless(T, m)
        PROVE  e \in Nat /\ e > m /\ Leads(T, T, db, b, K, e)
    <2>1. Chain(T, e, K) /\ Headless(T, e) /\ e > m
      BY <1>2, <1>4 DEF NextSealed
    <2> HIDE DEF e
    <2>2. e \in Nat /\ e <= Len(T)
      BY <2>1 DEF Chain
    <2>3. Pair(T, T, e, K)
      BY <2>1, <2>2 DEF Pair
    <2>4. \A p \in Page : Covered(T, m, K, p) => Covered(T, e, K, p)
      BY <2>1, <2>2, CoveredGrows
    <2> QED  BY <1>1, <2>1, <2>2, <2>3, <2>4 DEF Leads
  <1> QED  BY <1>3, <1>4

(* With no chain there is nothing to undo. *)
LEMMA LeadsNothing ==
  ASSUME NEW S, NEW T, NEW K \in Pages, NEW db \in Pages, NEW b \in SUBSET Page
  PROVE  /\ Leads(S, T, db, b, K, 0) => db = K /\ b = {} /\ Headless(S, 0)
         /\ S \in Seq(Slot) /\ T \in Seq(Slot) /\ Headless(S, 0) /\ Headless(T, 0)
              /\ db = K /\ b = {} => Leads(S, T, db, b, K, 0)
  <1>1. ASSUME Leads(S, T, db, b, K, 0) PROVE db = K /\ b = {} /\ Headless(S, 0)
    <2>1. \A p \in Page : db[p] = K[p] /\ p \notin b
      BY <1>1 DEF Leads, Covered
    <2>2. Headless(S, 0)
      BY <1>1 DEF Leads, Pair
    <2>3. db = K
      BY <2>1 DEF Pages
    <2> QED  BY <2>1, <2>2, <2>3
  <1>2. ASSUME S \in Seq(Slot), T \in Seq(Slot), Headless(S, 0), Headless(T, 0), db = K, b = {}
        PROVE  Leads(S, T, db, b, K, 0)
    BY <1>2 DEF Leads, Pair, Chain
  <1> QED  BY <1>1, <1>2

(* What a reader that came now would see *)
LEMMA GlobalRestored ==
  ASSUME NEW I, NEW J, NEW m, NEW o \in FileSystem, NEW d \in Medium, NEW n,
         Global(I, J, m, o, d, n)
  PROVE  Restored(o) = I /\ Restored(d) = J
  <1>1. /\ I \in Image /\ J \in Image /\ m \in Nat /\ Committed(I, m, o, d) /\ Durable(J, I, o, d)
    BY DEF Global
  <1>2. /\ o.db \in Pages /\ d.db \in Pages /\ o.dir \in {0} \cup Inode /\ d.dir \in {0} \cup Inode
        /\ o.file \in [Inode -> Seq(Slot)] /\ d.file \in [Inode -> Seq(Slot)]
    BY DEF FileSystem, Medium, Files
  <1>3. \A p \in Page : p \notin d.behind => d.db[p] = o.db[p]
    BY <1>1 DEF Committed
  <1>4. ASSUME o.dir = 0 \/ d.dir # o.dir PROVE o.db = I /\ d.db = I
    <2>1. o.db = I /\ d.behind = {}
      BY <1>1, <1>4 DEF Committed, Clean, Plain
    <2>2. \A p \in Page : d.db[p] = o.db[p]
      BY <1>3, <2>1
    <2>3. d.db = o.db
      BY <1>2, <2>2 DEF Pages
    <2> QED  BY <2>1, <2>3
  <1>5. ASSUME o.dir # 0 PROVE Undone(o.db, o.file[o.dir]) = I /\ Undone(d.db, d.file[o.dir]) = I
    <2>1. Leads(d.file[o.dir], o.file[o.dir], o.db, d.behind, I, m)
      BY <1>1, <1>5 DEF Committed
    <2>2. o.file[o.dir] \in Seq(Slot) /\ d.file[o.dir] \in Seq(Slot)
      BY <1>2, <1>5
    <2> DEFINE S == d.file[o.dir]
               T == o.file[o.dir]
               db == o.db
               dd == d.db
               b == d.behind
    <2> SUFFICES Undone(db, T) = I /\ Undone(dd, S) = I
      OBVIOUS
    <2>3. /\ S \in Seq(Slot) /\ T \in Seq(Slot) /\ Leads(S, T, db, b, I, m)
          /\ db \in Pages /\ dd \in Pages /\ \A p \in Page : p \notin b => dd[p] = db[p]
      BY <1>2, <1>3, <2>1, <2>2
    <2> HIDE DEF S, T, db, dd, b
    <2> QED  BY <1>1, <2>3, LeadsUndone
  <1>6. Restored(o) = I
    BY <1>4, <1>5 DEF Restored
  <1>7. Restored(d) = J
    <2>1. CASE d.dir = 0
      BY <1>1, <1>4, <2>1 DEF Durable, Restored
    <2>2. CASE d.dir # 0 /\ d.dir = o.dir
      BY <1>1, <1>5, <2>2 DEF Durable, Restored
    <2>3. CASE d.dir \notin {0, o.dir}
      <3>1. PICK x \in Nat : Leads(d.file[d.dir], o.file[d.dir], o.db, d.behind, J, x)
        BY <1>1, <2>3 DEF Durable
      <3>2. o.file[d.dir] \in Seq(Slot) /\ d.file[d.dir] \in Seq(Slot)
        BY <1>2, <2>3
      <3>3. Undone(d.db, d.file[d.dir]) = J
        <4> DEFINE S == d.file[d.dir]
                   T == o.file[d.dir]
                   db == o.db
                   dd == d.db
                   b == d.behind
        <4> SUFFICES Undone(dd, S) = J
          OBVIOUS
        <4>1. /\ S \in Seq(Slot) /\ T \in Seq(Slot) /\ Leads(S, T, db, b, J, x)
              /\ db \in Pages /\ dd \in Pages /\ \A p \in Page : p \notin b => dd[p] = db[p]
          BY <1>2, <1>3, <3>1, <3>2
        <4> HIDE DEF S, T, db, dd, b
        <4> QED  BY <1>1, <3>1, <4>1, LeadsUndone
      <3> QED  BY <2>3, <3>3 DEF Restored
    <2> QED  BY <2>1, <2>2, <2>3
  <1> QED  BY <1>6, <1>7

-----------------------------------------------------------------------------
(* A connection outside of transactions knows nothing of journals. *)
LEMMA OutsideTxn ==
  ASSUME NEW r, NEW I, NEW m, NEW o, NEW d, NEW n,
         r.eState \in {"OPEN", "READER", "LOCKED", "ERROR"}, ~r.hot,
         r.pc \notin {"jnrec", "fin"}
  PROVE  Txn(r, I, m, o, d, n)
  BY DEF Txn, Changing

(* A step of connection c keeps the others where they are; it changes the  *)
(* database file only if c is alone.                                       *)
Moves(c) ==
  /\ \A x \in Conn : x # c => conn'[x] = conn[x]
  /\ os'.db = os.db \/ lock[c] = 4

Reaches(K, L) == \E k \in Nat : Recovers(K, L, k)'

(* It changes neither of the two contents, or makes J the same as I. *)
Stays(c) ==
  Moves(c) /\ \E I, J \in Image, m \in Nat : Recovers(I, J, m) /\ Reaches(I, J)
Syncs(c) ==
  Moves(c) /\ \E I, J \in Image, m \in Nat :
                Recovers(I, J, m) /\ (Reaches(I, J) \/ Reaches(I, I))

(* A step of connection c, which may make K the committed content: what    *)
(* the others know stays true if the files stay as they are, if they are   *)
(* still clean and c holds the RESERVED lock, or if c is alone.            *)
LEMMA RecoveryFrame ==
  ASSUME Shape, NEW I, NEW J, NEW m, Recovers(I, J, m),
         NEW c \in Conn, NEW q, NEW K, NEW L, NEW k,
         conn' = [conn EXCEPT ![c] = q], \A x \in Conn : x # c => lock'[x] = lock[x],
         Global(K, L, k, os', disk', txn'),
         Facts(q, lock'[c], K, k, os', disk', txn'),
         \/ K = I /\ k = m /\ os' = os /\ disk' = disk /\ txn' = txn
         \/ K = I /\ lock[c] \in {2, 3} /\ Clean(I, os', disk')
         \/ lock[c] = 4 /\ (K = I \/ K[1] > I[1])
  PROVE  Moves(c) /\ Reaches(K, L) /\ I \in Image /\ J \in Image /\ m \in Nat
  <1>1. ASSUME NEW x \in Conn
        PROVE  Facts(conn'[x], lock'[x], K, k, os', disk', txn')
    <2>1. CASE x = c
      BY <2>1 DEF Shape, Types
    <2>2. CASE x # c
      <3>1. /\ conn'[x] = conn[x] /\ lock'[x] = lock[x]
            /\ Facts(conn[x], lock[x], I, m, os, disk, txn)
        BY <2>2 DEF Recovers, Shape, Types
      <3>2. CASE K = I /\ k = m /\ os' = os /\ disk' = disk /\ txn' = txn
        BY <3>1, <3>2
      <3>3. CASE \/ K = I /\ lock[c] \in {2, 3} /\ Clean(I, os', disk')
                 \/ lock[c] = 4 /\ (K = I \/ K[1] > I[1])
        <4> DEFINE r == conn[x]
        <4>1. /\ r \in PagerRecord /\ Control(r, lock[x]) /\ lock[x] \in 0..1
              /\ lock[c] = 4 => lock[x] = 0
          <5>1. lock[x] <= 1 /\ (lock[c] = 4 => lock[x] = 0)
            BY <2>2, <3>3 DEF Shape, Locks
          <5> QED  BY <5>1, Own
        <4> HIDE DEF r
        <4>2. /\ r.eState \in {"OPEN", "READER", "ERROR"} /\ ~r.hot /\ r.pc \notin {"jnrec", "fin"}
              /\ lock[x] = 0 => r.eState = "OPEN" /\ r.pc = "idle"
          BY <4>1 DEF Control, PagerRecord
        <4>3. Txn(r, K, k, os', disk', txn')
          BY <4>2, OutsideTxn
        <4>4. Sound(r) /\ StaleCache(r, I) /\ Reader(r, I)
          BY <3>1 DEF Facts, Cached, r
        <4>5. CASE K = I /\ lock[c] \in {2, 3} /\ Clean(I, os', disk')
          <5>1. K = I /\ Clean(K, os', disk')
            BY <4>5
          <5> QED  BY <3>1, <4>3, <4>4, <5>1 DEF Facts, Cached, r
        <4>6. CASE lock[c] = 4 /\ (K = I \/ K[1] > I[1])
          <5>1. r.eState = "OPEN" /\ r.pc = "idle" /\ lock[x] = 0
            BY <4>1, <4>2, <4>6
          <5>2. ~MayRead(r, lock[x]) /\ Reader(r, K)
            BY <5>1 DEF MayRead, Reader
          <5>3. StaleCache(r, K)
            <6>1. CASE K = I
              BY <4>4, <6>1
            <6>2. CASE K # I
              <7>1. K[1] > I[1] /\ I[1] \in Nat /\ K[1] \in Nat
                <8>1. I \in Image /\ K \in Image
                  BY DEF Recovers, Global
                <8> QED  BY <4>6, <6>2, <8>1, ImageProperty
              <7>2. r.vers \in Int
                BY <4>1 DEF PagerRecord
              <7> QED  BY <4>4, <7>1, <7>2 DEF StaleCache
            <6> QED  BY <6>1, <6>2
          <5> QED  BY <3>1, <4>3, <4>4, <5>2, <5>3 DEF Facts, Cached, r
        <4> QED  BY <3>3, <4>5, <4>6
      <3> QED  BY <3>2, <3>3
    <2> QED  BY <2>1, <2>2
  <1>2. Recovers(K, L, k)'
    BY <1>1 DEF Recovers
  <1>3. K \in Image /\ L \in Image /\ k \in Nat
    BY DEF Global
  <1>4. I \in Image /\ J \in Image /\ m \in Nat
    BY DEF Recovers, Global
  <1>5. \A x \in Conn : x # c => conn'[x] = conn[x]
    BY DEF Shape, Types
  <1>6. CASE K = I /\ lock[c] \in {2, 3} /\ Clean(I, os', disk')
    <2>1. Clean(I, os, disk)
      BY <1>6 DEF Recovers, Facts, MayRead
    <2> QED  BY <1>2, <1>3, <1>4, <1>5, <1>6, <2>1 DEF Moves, Reaches, Clean, Plain
  <1>7. CASE lock[c] = 4 \/ os' = os
    BY <1>2, <1>3, <1>4, <1>5, <1>7 DEF Moves, Reaches
  <1> QED  BY <1>6, <1>7

LEMMA StaysFrame ==
  ASSUME Shape, NEW I, NEW J, NEW m, Recovers(I, J, m),
         NEW c \in Conn, NEW q, NEW k,
         conn' = [conn EXCEPT ![c] = q], \A x \in Conn : x # c => lock'[x] = lock[x],
         Global(I, J, k, os', disk', txn'),
         Facts(q, lock'[c], I, k, os', disk', txn'),
         \/ k = m /\ os' = os /\ disk' = disk /\ txn' = txn
         \/ lock[c] \in {2, 3} /\ Clean(I, os', disk')
         \/ lock[c] = 4
  PROVE  Stays(c)
  <1>1. Moves(c) /\ Reaches(I, J) /\ I \in Image /\ J \in Image /\ m \in Nat
    BY RecoveryFrame
  <1> QED  BY <1>1 DEF Stays

LEMMA SyncsFrame ==
  ASSUME Shape, NEW I, NEW J, NEW m, Recovers(I, J, m),
         NEW c \in Conn, NEW q, NEW L, NEW k, L = I \/ L = J,
         conn' = [conn EXCEPT ![c] = q], lock' = lock, lock[c] = 4,
         Global(I, L, k, os', disk', txn'),
         Facts(q, lock'[c], I, k, os', disk', txn')
  PROVE  Syncs(c)
  <1>1. Moves(c) /\ Reaches(I, L) /\ I \in Image /\ J \in Image /\ m \in Nat
    BY RecoveryFrame
  <1>2. Reaches(I, I) \/ Reaches(I, J)
    BY <1>1
  <1> QED  BY <1>1, <1>2 DEF Syncs

(* A step that leaves the files alone *)
LEMMA LocalFrame ==
  ASSUME Shape, NEW I, NEW J, NEW m, Recovers(I, J, m),
         NEW c \in Conn, NEW q, conn' = [conn EXCEPT ![c] = q], LockStep(c),
         os' = os, disk' = disk, txn' = txn,
         Facts(q, lock'[c], I, m, os, disk, txn)
  PROVE  Stays(c)
  <1>1. \A x \in Conn : x # c => lock'[x] = lock[x]
    BY LocksKept DEF Shape
  <1>2. Global(I, J, m, os', disk', txn')
    BY DEF Recovers
  <1> QED  BY <1>1, <1>2, StaysFrame

-----------------------------------------------------------------------------
(* Steps on the way to a read transaction *)

SameView(r, q) ==
  /\ q.cache = r.cache /\ q.dirty = r.dirty /\ q.needSync = r.needSync
  /\ q.vers = r.vers /\ q.held = r.held /\ q.eState = r.eState
  /\ q.dbSize = r.dbSize /\ q.orig = r.orig /\ q.inJournal = r.inJournal

LEMMA SameCached ==
  ASSUME NEW r, NEW q, NEW I, Cached(r, I), SameView(r, q)
  PROVE  Cached(q, I)
  BY DEF SameView, Cached, Sound, StaleCache, Reader

(* Without a journal, or with one that has no chain, the files are clean. *)
LEMMA NothingHot ==
  ASSUME Shape, NEW I, NEW J, NEW m, Recovers(I, J, m),
         \/ os.dir = 0
         \/ m = 0 /\ Headless(os.file[os.dir], 0)
  PROVE  Clean(I, os, disk)
  <1>1. /\ I \in Image /\ Committed(I, m, os, disk)
    BY DEF Recovers, Global
  <1>2. CASE os.dir = 0
    BY <1>1, <1>2 DEF Committed, Clean, Bare
  <1>3. CASE os.dir # 0 /\ m = 0 /\ Headless(os.file[os.dir], 0)
    <2> DEFINE S == disk.file[os.dir]
               T == os.file[os.dir]
               db == os.db
               b == disk.behind
    <2>1. Leads(S, T, db, b, I, 0)
      BY <1>1, <1>3 DEF Committed
    <2>2. I \in Pages /\ db \in Pages /\ b \in SUBSET Page
      BY <1>1, Stored, ImageProperty
    <2>3. db = I /\ b = {} /\ Headless(S, 0)
      <3> HIDE DEF S, T, db, b
      <3> QED  BY <2>1, <2>2, LeadsNothing
    <2> QED  BY <1>3, <2>3 DEF Clean, Plain, Bare
  <1> QED  BY <1>2, <1>3

(* A journal without a magic at its beginning has no chain. *)
LEMMA NoMagic ==
  ASSUME Shape, NEW I, NEW J, NEW m, Recovers(I, J, m), os.dir # 0,
         os.file[os.dir] = <<>> \/ os.file[os.dir][1].k # "hdr"
  PROVE  m = 0 /\ Headless(os.file[os.dir], 0)
  <1> DEFINE S == disk.file[os.dir]
             T == os.file[os.dir]
  <1>1. m \in Nat /\ T \in Seq(Slot) /\ Leads(S, T, os.db, disk.behind, I, m)
    BY Stored DEF Recovers, Global, Committed, Files
  <1>2. Chain(T, m, I) /\ (Headless(T, m) \/ NextSealed(S, T, m, I))
    BY <1>1 DEF Leads, Pair
  <1>3. T = <<>> \/ T[1].k # "hdr"
    OBVIOUS
  <1> HIDE DEF S, T
  <1>4. m = 0
    BY <1>1, <1>2, <1>3 DEF Chain
  <1>5. ~NextSealed(S, T, m, I)
    BY <1>1, <1>3, <1>4 DEF NextSealed
  <1> QED  BY <1>2, <1>4, <1>5 DEF T

LEMMA EnteringFacts ==
  ASSUME Shape, NEW I, NEW J, NEW m, Recovers(I, J, m),
         NEW c \in Conn, NEW l \in Entering \cup {"open"}, Goto(c, l), LockStep(c),
         conn[c].eState = "OPEN", ~conn[c].hot, lock'[c] \in {0, 1, 4},
         l = "vers" => Clean(I, os, disk),
         os' = os, disk' = disk, txn' = txn
  PROVE  Stays(c)
  <1> DEFINE r == conn[c]
             q == [r EXCEPT !.pc = l]
  <1>1. r \in PagerRecord /\ Facts(r, lock[c], I, m, os, disk, txn)
    BY Own DEF Recovers
  <1>2. conn' = [conn EXCEPT ![c] = q]
    BY DEF Goto, Set
  <1>3. SameView(r, q) /\ q.pc = l /\ q.hot = r.hot
    BY <1>1 DEF SameView, PagerRecord
  <1> HIDE DEF q
  <1>4. Cached(q, I)
    BY <1>1, <1>3, SameCached DEF Facts
  <1>5. MayRead(q, lock'[c]) => Clean(I, os, disk)
    BY <1>3 DEF MayRead, SameView
  <1>6. Txn(q, I, m, os, disk, txn)
    BY <1>3, OutsideTxn DEF SameView
  <1>7. Facts(q, lock'[c], I, m, os, disk, txn)
    BY <1>4, <1>5, <1>6 DEF Facts
  <1> QED  BY <1>2, <1>7, LocalFrame

LEMMA EnteringRecovery ==
  ASSUME Shape, Recovery, NEW c \in Conn,
         SharedLock(c) \/ JournalExists(c) \/ CheckReservedLock(c) \/ FirstByte(c)
  PROVE  Stays(c)
  <1>1. PICK I, J, m : Recovers(I, J, m)
    BY DEF Recovery
  <1> DEFINE r == conn[c]
  <1>2. r \in PagerRecord /\ Control(r, lock[c]) /\ lock[c] \in 0..4
    BY Own
  <1>3. CASE SharedLock(c)
    <2>1. r.pc = "idle" /\ r.eState = "OPEN" /\ FL!Shared(c) /\ Goto(c, "exists")
          /\ os' = os /\ disk' = disk /\ txn' = txn
      BY <1>3 DEF SharedLock, Idle
    <2>2. ~r.hot
      BY <1>2, <2>1 DEF Control
    <2>3. LockStep(c) /\ lock'[c] = 1
      BY <2>1 DEF LockStep, FL!Shared, Shape, Types
    <2> QED  BY <1>1, <2>1, <2>2, <2>3, EnteringFacts
  <1>4. CASE JournalExists(c) \/ CheckReservedLock(c) \/ FirstByte(c)
    <2>1. /\ r.pc \in {"exists", "reserved", "first"} /\ lock' = lock
          /\ os' = os /\ disk' = disk /\ txn' = txn
      BY <1>4 DEF JournalExists, CheckReservedLock, FirstByte, At
    <2>2. r.eState = "OPEN" /\ ~r.hot /\ lock[c] = 1
      BY <1>2, <2>1 DEF Control
    <2>3. LockStep(c) /\ lock'[c] = 1
      BY <2>1, <2>2 DEF LockStep
    <2>4. CASE JournalExists(c)
      <3>1. Goto(c, IF os.dir = 0 THEN "vers" ELSE "reserved")
        BY <2>4 DEF JournalExists
      <3>2. os.dir = 0 => Clean(I, os, disk)
        BY <1>1, NothingHot
      <3>3. CASE os.dir = 0
        BY <1>1, <2>1, <2>2, <2>3, <3>1, <3>2, <3>3, EnteringFacts
      <3>4. CASE os.dir # 0
        BY <1>1, <2>1, <2>2, <2>3, <3>1, <3>4, EnteringFacts
      <3> QED  BY <3>3, <3>4
    <2>5. CASE CheckReservedLock(c)
      <3>1. Goto(c, IF FL!CheckReserved(c) THEN "vers" ELSE "first")
        BY <2>5 DEF CheckReservedLock
      <3>2. CASE FL!CheckReserved(c)
        <4>1. PICK y \in Conn : y # c /\ lock[y] >= 2
          BY <3>2 DEF FL!CheckReserved, FL!Others
        <4>2. lock[y] \in {2, 3}
          <5>1. lock[y] \in 0..4
            BY Own
          <5>2. lock[y] # 4
            BY <2>2, <4>1 DEF Shape, Locks
          <5> QED  BY <4>1, <5>1, <5>2
        <4>3. Clean(I, os, disk)
          BY <1>1, <4>2 DEF Recovers, Facts, MayRead
        <4> QED  BY <1>1, <2>1, <2>2, <2>3, <3>1, <3>2, <4>3, EnteringFacts
      <3>3. CASE ~FL!CheckReserved(c)
        BY <1>1, <2>1, <2>2, <2>3, <3>1, <3>3, EnteringFacts
      <3> QED  BY <3>2, <3>3
    <2>6. CASE FirstByte(c)
      <3> DEFINE hot == os.dir # 0 => /\ os.file[os.dir] # <<>>
                                      /\ os.file[os.dir][1].k # "zero"
      <3>1. Goto(c, IF hot THEN "excl" ELSE "vers")
        BY <2>6 DEF FirstByte
      <3>2. ~hot => os.dir # 0 /\ (os.file[os.dir] = <<>> \/ os.file[os.dir][1].k # "hdr")
        OBVIOUS
      <3> HIDE DEF hot
      <3>3. CASE hot
        BY <1>1, <2>1, <2>2, <2>3, <3>1, <3>3, EnteringFacts
      <3>4. CASE ~hot
        <4>1. Clean(I, os, disk)
          BY <1>1, <3>2, <3>4, NoMagic, NothingHot
        <4> QED  BY <1>1, <2>1, <2>2, <2>3, <3>1, <3>4, <4>1, EnteringFacts
      <3> QED  BY <3>3, <3>4
    <2> QED  BY <1>4, <2>4, <2>5, <2>6
  <1> QED  BY <1>3, <1>4

(* pager_unlock keeps the cache of a reader, which is of content I. *)
LEMMA UnlockedFacts ==
  ASSUME NEW r \in PagerRecord, NEW I \in Image, NEW m, NEW o, NEW d, NEW n,
         Cached(r, I), ~r.hot, r.eState \in {"OPEN", "READER"}
  PROVE  Facts(Unlocked(r), 0, I, m, o, d, n)
  <1> DEFINE q == Unlocked(r)
  <1>1. /\ q.cache = r.cache /\ q.dirty = r.dirty /\ q.needSync = r.needSync
        /\ q.vers = r.vers /\ q.held = r.held /\ q.eState = "OPEN" /\ q.pc = "idle"
        /\ q.inJournal = {} /\ q.hot = r.hot
    BY DEF Unlocked, PagerRecord
  <1> SUFFICES Facts(q, 0, I, m, o, d, n)
    OBVIOUS
  <1> HIDE DEF q
  <1>2. Sound(q)
    BY <1>1 DEF Cached, Sound
  <1>3. StaleCache(q, I)
    <2>1. CASE r.eState = "OPEN"
      BY <1>1, <2>1 DEF Cached, StaleCache, IsEmpty, Agrees
    <2>2. CASE r.eState = "READER"
      <3>1. /\ r.held /\ Agrees(r.cache, I) /\ (r.cache[1] = Absent => IsEmpty(r.cache))
            /\ r.cache[1] # Absent => r.vers = I[1]
        BY <2>2 DEF Cached, Reader
      <3>2. r.cache[1] # Absent => r.cache[1] = I[1]
        BY <3>1, ImageProperty DEF Agrees
      <3>3. I[1] \in Nat
        BY ImageProperty
      <3> QED  BY <1>1, <3>1, <3>2, <3>3 DEF StaleCache
    <2> QED  BY <2>1, <2>2
  <1>4. Reader(q, I) /\ ~MayRead(q, 0)
    BY <1>1 DEF Reader, MayRead
  <1>5. Txn(q, I, m, o, d, n)
    BY <1>1, OutsideTxn
  <1> QED  BY <1>2, <1>3, <1>4, <1>5 DEF Facts, Cached

LEMMA HotLockRecovery ==
  ASSUME Shape, Recovery, NEW c \in Conn, HotLock(c)
  PROVE  Stays(c)
  <1>1. PICK I, J, m : Recovers(I, J, m)
    BY DEF Recovery
  <1> DEFINE r == conn[c]
             q == Unlocked(r)
  <1>2. /\ r \in PagerRecord /\ r.eState = "OPEN" /\ ~r.hot /\ r.pc = "excl"
        /\ os' = os /\ disk' = disk /\ txn' = txn
    BY Own DEF HotLock, At, Control
  <1>3. Facts(r, lock[c], I, m, os, disk, txn) /\ I \in Image
    BY <1>1 DEF Recovers, Global
  <1>4. CASE FL!Exclusive(c) /\ Goto(c, "open")
    <2>1. LockStep(c) /\ lock'[c] = 4
      BY <1>4 DEF LockStep, FL!Exclusive, Shape, Types
    <2> QED  BY <1>1, <1>2, <1>4, <2>1, EnteringFacts
  <1>5. CASE FL!Unlock(c, FL!NO_LOCK) /\ Set(c, q)
    <2>1. LockStep(c) /\ lock'[c] = 0 /\ conn' = [conn EXCEPT ![c] = q]
      BY <1>5 DEF LockStep, FL!Unlock, Shape, Types, Set
    <2>2. Facts(q, 0, I, m, os, disk, txn)
      BY <1>2, <1>3, UnlockedFacts DEF Facts
    <2> HIDE DEF q
    <2> QED  BY <1>1, <1>2, <2>1, <2>2, LocalFrame
  <1> QED  BY <1>4, <1>5 DEF HotLock

LEMMA HotOpenRecovery ==
  ASSUME Shape, Recovery, NEW c \in Conn, HotOpen(c)
  PROVE  Stays(c)
  <1>1. PICK I, J, m : Recovers(I, J, m)
    BY DEF Recovery
  <1> DEFINE r == conn[c]
             q == [r EXCEPT !.pc = "hsync", !.hot = TRUE, !.jfd = os.dir, !.dirSync = FALSE]
  <1>2. /\ r \in PagerRecord /\ r.eState = "OPEN" /\ ~r.hot /\ r.pc = "open" /\ lock[c] = 4
        /\ os' = os /\ disk' = disk /\ txn' = txn
    BY Own DEF HotOpen, At, Control
  <1>3. Facts(r, lock[c], I, m, os, disk, txn) /\ I \in Image
    BY <1>1 DEF Recovers, Global
  <1>4. CASE os.dir = 0 /\ FL!Unlock(c, FL!SHARED_LOCK) /\ Goto(c, "vers")
    <2>1. LockStep(c) /\ lock'[c] = 1
      BY <1>4 DEF LockStep, FL!Unlock, Shape, Types
    <2>2. Clean(I, os, disk)
      BY <1>1, <1>4, NothingHot
    <2> QED  BY <1>1, <1>2, <1>4, <2>1, <2>2, EnteringFacts
  <1>5. CASE os.dir # 0 /\ Set(c, q) /\ lock' = lock
    <2>1. LockStep(c) /\ lock'[c] = 4 /\ conn' = [conn EXCEPT ![c] = q]
      BY <1>2, <1>5 DEF LockStep, Set
    <2>2. SameView(r, q) /\ q.pc = "hsync" /\ q.eState = "OPEN"
      BY <1>2 DEF SameView, PagerRecord
    <2> HIDE DEF q
    <2>3. Cached(q, I)
      BY <1>3, <2>2, SameCached DEF Facts
    <2>4. Txn(q, I, m, os, disk, txn)
      BY <2>2 DEF Txn, Changing, HotRollback
    <2>5. Facts(q, 4, I, m, os, disk, txn)
      BY <2>2, <2>3, <2>4 DEF Facts, MayRead
    <2> QED  BY <1>1, <1>2, <2>1, <2>5, LocalFrame
  <1> QED  BY <1>4, <1>5 DEF HotOpen

LEMMA CheckVersionRecovery ==
  ASSUME Shape, Recovery, NEW c \in Conn, CheckVersion(c)
  PROVE  Stays(c)
  <1>1. PICK I, J, m : Recovers(I, J, m)
    BY DEF Recovery
  <1> DEFINE r == conn[c]
             v == IF Fresh(r) THEN r.cache ELSE NoPages
             z == SizeOf(os.db)
             q == [r EXCEPT !.pc = "idle", !.eState = "READER", !.held = TRUE,
                            !.cache = v, !.dbSize = z]
  <1>2. /\ r \in PagerRecord /\ r.eState = "OPEN" /\ ~r.hot /\ r.pc = "vers" /\ lock[c] = 1
        /\ r.dirty = {} /\ os' = os /\ disk' = disk /\ txn' = txn /\ lock' = lock
        /\ conn' = [conn EXCEPT ![c] = q]
    BY Own DEF CheckVersion, At, Control, Changes, Set
  <1>3. Facts(r, lock[c], I, m, os, disk, txn) /\ I \in Image
    BY <1>1 DEF Recovers, Global
  <1>4. os.db = I /\ Clean(I, os, disk)
    BY <1>2, <1>3 DEF Facts, MayRead, Clean, Plain
  <1>5. /\ Sound(r) /\ StaleCache(r, I)
    BY <1>3 DEF Facts, Cached
  <1>6. I[1] \in Nat /\ 1 \in Page
    BY <1>3, ImageProperty
  <1>7. /\ \A p \in Page : v[p] \in {Absent} \cup Value
        /\ Agrees(v, I) /\ (v[1] = Absent => IsEmpty(v)) /\ (v[1] # Absent => r.vers = I[1])
    <2>1. CASE ~Fresh(r) \/ IsEmpty(r.cache)
      <3>1. \A p \in Page : v[p] = Absent
        BY <2>1 DEF NoPages, IsEmpty
      <3> HIDE DEF v
      <3> QED  BY <1>6, <3>1 DEF Agrees, IsEmpty
    <2>2. CASE Fresh(r) /\ ~IsEmpty(r.cache)
      <3>1. v = r.cache
        BY <2>2
      <3> HIDE DEF v
      <3>2. r.held /\ r.cache[1] = r.vers /\ (r.vers = I[1] => Agrees(r.cache, I))
        BY <1>2, <1>5, <2>2 DEF StaleCache
      <3>3. r.vers = I[1]
        BY <1>4, <2>2, <3>2 DEF Fresh
      <3>4. r.cache[1] # Absent
        BY <1>6, <3>2, <3>3 DEF Absent
      <3> QED  BY <1>5, <3>1, <3>2, <3>3, <3>4 DEF Sound
    <2> QED  BY <2>1, <2>2
  <1> HIDE DEF v, z
  <1>8. /\ q.pc = "idle" /\ q.eState = "READER" /\ q.held /\ q.cache = v /\ q.dbSize = z
        /\ q.vers = r.vers /\ q.dirty = r.dirty /\ q.needSync = r.needSync
        /\ q.inJournal = r.inJournal /\ q.hot = r.hot
    BY <1>2 DEF PagerRecord
  <1> HIDE DEF q
  <1>9. Sound(q)
    BY <1>2, <1>5, <1>7, <1>8 DEF Sound
  <1>10. Reader(q, I) /\ StaleCache(q, I)
    BY <1>4, <1>7, <1>8 DEF Reader, StaleCache, z
  <1>11. Txn(q, I, m, os, disk, txn)
    BY <1>2, <1>8, OutsideTxn
  <1>12. LockStep(c) /\ Facts(q, lock'[c], I, m, os, disk, txn)
    BY <1>2, <1>4, <1>9, <1>10, <1>11 DEF Facts, Cached, LockStep
  <1> QED  BY <1>1, <1>2, <1>12, LocalFrame

LEMMA EndReadRecovery ==
  ASSUME Shape, Recovery, NEW c \in Conn, EndRead(c)
  PROVE  Stays(c)
  <1>1. PICK I, J, m : Recovers(I, J, m)
    BY DEF Recovery
  <1> DEFINE r == conn[c]
             q == Unlocked(r)
  <1>2. /\ r \in PagerRecord /\ r.eState = "READER" /\ ~r.hot
        /\ os' = os /\ disk' = disk /\ txn' = txn
    BY Own DEF EndRead, Idle, Control
  <1>3. Facts(r, lock[c], I, m, os, disk, txn) /\ I \in Image
    BY <1>1 DEF Recovers, Global
  <1>4. LockStep(c) /\ lock'[c] = 0 /\ conn' = [conn EXCEPT ![c] = q]
    BY DEF EndRead, LockStep, FL!Unlock, Shape, Types, Set
  <1>5. Facts(q, 0, I, m, os, disk, txn)
    BY <1>2, <1>3, UnlockedFacts DEF Facts
  <1> HIDE DEF q
  <1> QED  BY <1>1, <1>2, <1>4, <1>5, LocalFrame

LEMMA BeginRecovery ==
  ASSUME Shape, Recovery, NEW c \in Conn, Begin(c)
  PROVE  Stays(c)
  <1>1. PICK I, J, m : Recovers(I, J, m)
    BY DEF Recovery
  <1> DEFINE r == conn[c]
             q == [r EXCEPT !.eState = "LOCKED", !.orig = r.dbSize, !.joff = 0]
  <1>2. /\ r \in PagerRecord /\ r.eState = "READER" /\ ~r.hot /\ r.pc = "idle"
        /\ os' = os /\ disk' = disk /\ txn' = txn /\ r.cache[1] # Absent
    BY Own DEF Begin, Idle, Control
  <1>3. Facts(r, lock[c], I, m, os, disk, txn)
    BY <1>1 DEF Recovers
  <1>4. LockStep(c) /\ lock'[c] = 2 /\ conn' = [conn EXCEPT ![c] = q]
    BY DEF Begin, LockStep, FL!Reserved, Shape, Types, Set
  <1>5. /\ q.cache = r.cache /\ q.dirty = r.dirty /\ q.needSync = r.needSync
        /\ q.vers = r.vers /\ q.held = r.held /\ q.eState = "LOCKED" /\ q.pc = "idle"
        /\ q.dbSize = r.dbSize /\ q.orig = r.dbSize /\ q.inJournal = r.inJournal /\ q.hot = r.hot
    BY <1>2 DEF PagerRecord
  <1> HIDE DEF q
  <1>6. Cached(q, I)
    BY <1>2, <1>3, <1>5 DEF Facts, Cached, Sound, StaleCache, Reader
  <1>7. Clean(I, os, disk)
    BY <1>2, <1>3 DEF Facts, MayRead
  <1>8. Txn(q, I, m, os, disk, txn)
    BY <1>2, <1>5, OutsideTxn
  <1>9. Facts(q, lock'[c], I, m, os, disk, txn)
    BY <1>6, <1>7, <1>8 DEF Facts
  <1> QED  BY <1>1, <1>2, <1>4, <1>9, LocalFrame

-----------------------------------------------------------------------------
(* The journal of a transaction, or the hot one that is played back *)
LEMMA JournalLeads ==
  ASSUME Shape, AllNamed, NEW I, NEW J, NEW m, Recovers(I, J, m), NEW c \in Conn,
         conn[c].hot \/ conn[c].eState \in Writers
  PROVE  /\ os.dir = conn[c].jfd /\ os.dir # 0 /\ os.dir \in Inode /\ m \in Nat /\ I \in Image
         /\ disk.file[os.dir] \in Seq(Slot) /\ os.file[os.dir] \in Seq(Slot)
         /\ Leads(disk.file[os.dir], os.file[os.dir], os.db, disk.behind, I, m)
  <1> DEFINE r == conn[c]
  <1>1. r.jfd # 0 /\ r.jfd \in {0} \cup Inode
    BY Own DEF Control, HasJournal, PagerRecord
  <1>2. os.dir = r.jfd
    BY DEF AllNamed, Named
  <1>3. I \in Image /\ m \in Nat /\ Committed(I, m, os, disk)
    BY DEF Recovers, Global
  <1> QED  BY <1>1, <1>2, <1>3, Stored DEF Committed, Files

(* A page of the original database that is not in the journal has not been *)
(* written.                                                                *)
LEMMA Untouched ==
  ASSUME NEW r \in PagerRecord, NEW S, NEW T, NEW db, NEW b, NEW I \in Image, NEW m \in Nat, NEW n,
         Leads(S, T, db, b, I, m), OwnSlots(r, T, I, m, n), r.jhdr <= r.joff + 1,
         NEW p \in Page, p <= r.orig, p \notin r.inJournal
  PROVE  db[p] = I[p] /\ p \notin b
  <1>1. r.joff \in Nat /\ m <= r.joff /\ r.orig = SizeOf(I) /\ r.orig \in Nat /\ p \in Nat
    BY DEF OwnSlots, PagerRecord, Page
  <1>2. ~Recorded(T, r.joff, p)
    BY DEF OwnSlots
  <1>3. ~Recorded(T, m, p)
    BY <1>1, <1>2 DEF Recorded
  <1>4. ~Covered(T, m, I, p)
    BY <1>1, <1>3 DEF Covered
  <1> QED  BY <1>4 DEF Leads

SameJournal(r, q) ==
  /\ q.jfd = r.jfd /\ q.joff = r.joff /\ q.jhdr = r.jhdr /\ q.last = r.last
  /\ q.hot = r.hot

LEMMA SameOwnSlots ==
  ASSUME NEW r, NEW q, NEW T, NEW I, NEW m, NEW n, OwnSlots(r, T, I, m, n),
         SameView(r, q), SameJournal(r, q),
         r.pc \in {"jsync2"} \cup Replaying => q.pc \in {"jsync2"} \cup Replaying,
         q.pc = "jsync2" => r.pc = "jsync2"
  PROVE  OwnSlots(q, T, I, m, n)
  <1>1. InProgress(r, T)
    BY DEF OwnSlots
  <1>2. InProgress(q, T)
    BY <1>1 DEF InProgress, SameJournal
  <1> QED  BY <1>2 DEF OwnSlots, SameView, SameJournal

LEMMA SameWriter ==
  ASSUME NEW r, NEW q, NEW T, NEW db, NEW I, NEW m, Writer(r, T, db, I, m),
         SameView(r, q), q.pc # "dbsync", BeforeCounter(r) <=> BeforeCounter(q),
         q.pc = "cc" => q.spill = 0
  PROVE  Writer(q, T, db, I, m)
  <1>1. Counter(q, I)
    BY DEF Writer, Counter, SameView
  <1> QED  BY <1>1 DEF Writer, SameView

(* A writing transaction that goes on to its next step *)
LEMMA SteadyRecovery ==
  ASSUME Shape, NEW I, NEW J, NEW m, Recovers(I, J, m), NEW c \in Conn, NEW q,
         conn' = [conn EXCEPT ![c] = q], LockStep(c), os' = os, disk' = disk, txn' = txn,
         Changing(conn[c]), conn[c].pc \in {"idle", "jexcl"}, ~conn[c].hot,
         q.pc \in {"idle", "jexcl", "cc", "jsync", "wpage"},
         SameView(conn[c], q), SameJournal(conn[c], q), BeforeCounter(q),
         q.pc = "cc" => q.spill = 0,
         lock'[c] \in {2, 3} => lock[c] \in {2, 3}
  PROVE  Stays(c)
  <1> DEFINE r == conn[c]
             T == os.file[r.jfd]
  <1>1. Facts(r, lock[c], I, m, os, disk, txn)
    BY DEF Recovers
  <1>2. OwnSlots(r, T, I, m, txn) /\ Writer(r, T, os.db, I, m)
    BY <1>1 DEF Facts, Txn
  <1>3. q.jfd = r.jfd /\ q.hot = r.hot /\ q.eState = r.eState
    BY DEF SameView, SameJournal
  <1>4. OwnSlots(q, T, I, m, txn)
    <2> HIDE DEF T, r
    <2> QED  BY <1>2, SameOwnSlots DEF r
  <1>5. Writer(q, T, os.db, I, m)
    <2>1. BeforeCounter(r)
      BY DEF BeforeCounter
    <2> HIDE DEF T, r
    <2> QED  BY <1>2, <2>1, SameWriter DEF r
  <1>6. Txn(q, I, m, os, disk, txn)
    BY <1>3, <1>4, <1>5 DEF Txn, Changing
  <1>7. Cached(q, I)
    BY <1>1, SameCached DEF Facts
  <1>8. MayRead(q, lock'[c]) => Clean(I, os, disk)
    BY <1>1, <1>3 DEF MayRead, Facts, Changing
  <1> QED  BY <1>6, <1>7, <1>8, LocalFrame DEF Facts

LEMMA CommitRecovery ==
  ASSUME Shape, Recovery, NEW c \in Conn, NEW p \in Page, Commit(c) \/ Spill(c, p)
  PROVE  Stays(c)
  <1>1. PICK I, J, m : Recovers(I, J, m)
    BY DEF Recovery
  <1> DEFINE r == conn[c]
  <1>2. /\ r \in PagerRecord /\ r.pc = "idle" /\ Changing(r) /\ lock' = lock
        /\ os' = os /\ disk' = disk /\ txn' = txn
    BY Own DEF Commit, Spill, Idle, Changing
  <1>3. ~r.hot /\ LockStep(c)
    BY <1>2, Own DEF Control, LockStep
  <1>4. CASE Commit(c)
    <2> DEFINE q == [r EXCEPT !.pc = "jexcl", !.spill = 0]
    <2>1. conn' = [conn EXCEPT ![c] = q]
      BY <1>4 DEF Commit, Set
    <2>2. SameView(r, q) /\ SameJournal(r, q) /\ q.pc = "jexcl"
      BY <1>2 DEF SameView, SameJournal, PagerRecord
    <2> HIDE DEF q
    <2>3. BeforeCounter(q)
      BY <2>2 DEF BeforeCounter
    <2> QED  BY <1>1, <1>2, <1>3, <2>1, <2>2, <2>3, SteadyRecovery
  <1>5. CASE Spill(c, p)
    <2> DEFINE l == IF p \in r.needSync \/ r.eState = "CACHEMOD" THEN "jexcl" ELSE "wpage"
               q == [r EXCEPT !.pc = l, !.spill = p]
    <2>1. conn' = [conn EXCEPT ![c] = q]
      BY <1>5 DEF Spill, Set
    <2>2. l \in {"jexcl", "wpage"} /\ p # 0
      BY PagerAssumption DEF Page
    <2> HIDE DEF l
    <2>3. SameView(r, q) /\ SameJournal(r, q) /\ q.pc = l /\ q.spill = p
      BY <1>2 DEF SameView, SameJournal, PagerRecord
    <2> HIDE DEF q
    <2>4. BeforeCounter(q)
      BY <2>2, <2>3 DEF BeforeCounter
    <2> QED  BY <1>1, <1>2, <1>3, <2>1, <2>2, <2>3, <2>4, SteadyRecovery
  <1> QED  BY <1>4, <1>5

LEMMA ExclusiveLockRecovery ==
  ASSUME Shape, Recovery, NEW c \in Conn, ExclusiveLock(c)
  PROVE  Stays(c)
  <1>1. PICK I, J, m : Recovers(I, J, m)
    BY DEF Recovery
  <1> DEFINE r == conn[c]
             l == IF r.spill = 0 THEN "cc" ELSE "jsync"
  <1>2. /\ r \in PagerRecord /\ r.pc = "jexcl" /\ Control(r, lock[c])
        /\ os' = os /\ disk' = disk /\ txn' = txn
    BY Own DEF ExclusiveLock, At
  <1>3. Changing(r) /\ ~r.hot
    BY <1>2 DEF Control, Changing
  <1>4. CASE FL!Pending(c) /\ UNCHANGED conn
    <2>1. lock'[c] = 3 /\ lock[c] = 2 /\ LockStep(c) /\ conn' = [conn EXCEPT ![c] = r]
      BY <1>4 DEF LockStep, FL!Pending, Shape, Types
    <2>2. SameView(r, r) /\ SameJournal(r, r) /\ BeforeCounter(r)
      BY <1>2 DEF SameView, SameJournal, BeforeCounter
    <2> QED  BY <1>1, <1>2, <1>3, <2>1, <2>2, SteadyRecovery
  <1>5. CASE (FL!Exclusive(c) \/ (lock[c] = 4 /\ UNCHANGED lock)) /\ Goto(c, l)
    <2> DEFINE q == [r EXCEPT !.pc = l]
    <2>1. lock'[c] = 4 /\ LockStep(c) /\ conn' = [conn EXCEPT ![c] = q]
      BY <1>5 DEF LockStep, FL!Exclusive, Shape, Types, Goto, Set
    <2>2. l \in {"cc", "jsync"} /\ (l = "jsync" => r.spill # 0) /\ (l = "cc" => r.spill = 0)
      OBVIOUS
    <2> HIDE DEF l
    <2>3. SameView(r, q) /\ SameJournal(r, q) /\ q.pc = l /\ q.spill = r.spill
      BY <1>2 DEF SameView, SameJournal, PagerRecord
    <2> HIDE DEF q
    <2>4. BeforeCounter(q)
      BY <2>2, <2>3 DEF BeforeCounter
    <2>5. q.pc \in {"cc", "jsync"} /\ ~(lock'[c] \in {2, 3}) /\ (q.pc = "cc" => q.spill = 0)
      BY <2>1, <2>2, <2>3
    <2> QED  BY <1>1, <1>2, <1>3, <2>1, <2>3, <2>4, <2>5, SteadyRecovery
  <1>6. CASE Set(c, [r EXCEPT !.pc = "idle", !.spill = 0]) /\ UNCHANGED lock
    <2> DEFINE q == [r EXCEPT !.pc = "idle", !.spill = 0]
    <2>1. lock'[c] = lock[c] /\ LockStep(c) /\ conn' = [conn EXCEPT ![c] = q]
      BY <1>6 DEF LockStep, Set
    <2>2. SameView(r, q) /\ SameJournal(r, q) /\ q.pc = "idle"
      BY <1>2 DEF SameView, SameJournal, PagerRecord
    <2> HIDE DEF q
    <2>3. BeforeCounter(q)
      BY <2>2 DEF BeforeCounter
    <2> QED  BY <1>1, <1>2, <1>3, <2>1, <2>2, <2>3, SteadyRecovery
  <1> QED
    BY <1>4, <1>5, <1>6 DEF ExclusiveLock

-----------------------------------------------------------------------------
(* Connections that begin from nothing *)
LEMMA ClosedFacts ==
  ASSUME NEW v \in Int, NEW h \in BOOLEAN, NEW I, NEW m, NEW o, NEW d, NEW n
  PROVE  /\ Facts([Closed EXCEPT !.vers = v, !.held = h], 0, I, m, o, d, n)
         /\ Facts(Closed, 0, I, m, o, d, n)
  <1> DEFINE q == [Closed EXCEPT !.vers = v, !.held = h]
  <1>1. Closed \in PagerRecord
    BY StartShape
  <1>2. ASSUME NEW r, r \in {Closed, q} PROVE Facts(r, 0, I, m, o, d, n)
    <2>1. /\ q.cache = Closed.cache /\ q.pc = Closed.pc /\ q.eState = Closed.eState
          /\ q.hot = Closed.hot /\ q.dirty = Closed.dirty /\ q.needSync = Closed.needSync
          /\ q.inJournal = Closed.inJournal
      BY <1>1 DEF PagerRecord
    <2> HIDE DEF q
    <2>2. /\ r.cache = NoPages /\ r.pc = "idle" /\ r.eState = "OPEN" /\ ~r.hot
          /\ r.dirty = {} /\ r.needSync = {} /\ r.inJournal = {}
      BY <1>2, <2>1 DEF Closed
    <2>3. IsEmpty(r.cache)
      BY <2>2 DEF IsEmpty, NoPages
    <2>4. Cached(r, I)
      BY <2>2, <2>3 DEF Cached, Sound, StaleCache, Reader, IsEmpty
    <2> QED  BY <2>2, <2>4, OutsideTxn DEF Facts, MayRead
  <1> QED  BY <1>2

LEMMA ErrorUnlockRecovery ==
  ASSUME Shape, Recovery, NEW c \in Conn, ErrorUnlock(c)
  PROVE  Stays(c)
  <1>1. PICK I, J, m : Recovers(I, J, m)
    BY DEF Recovery
  <1> DEFINE q == [Closed EXCEPT !.vers = conn[c].vers, !.held = conn[c].held]
  <1>2. conn[c].vers \in Int /\ conn[c].held \in BOOLEAN
    BY Own DEF PagerRecord
  <1>3. Facts(q, 0, I, m, os, disk, txn)
    BY <1>2, ClosedFacts
  <1>4. /\ conn' = [conn EXCEPT ![c] = q] /\ LockStep(c) /\ lock'[c] = 0
        /\ os' = os /\ disk' = disk /\ txn' = txn
    BY DEF ErrorUnlock, Set, LockStep, FL!Unlock, Shape, Types
  <1> HIDE DEF q
  <1> QED  BY <1>1, <1>3, <1>4, LocalFrame

LEMMA KillRecovery ==
  ASSUME Shape, Recovery, NEW c \in Conn, Kill(c)
  PROVE  Stays(c)
  <1>1. PICK I, J, m : Recovers(I, J, m)
    BY DEF Recovery
  <1>2. Facts(Closed, 0, I, m, os, disk, txn)
    <2> DEFINE v == 0
               h == FALSE
    <2>1. v \in Int /\ h \in BOOLEAN
      OBVIOUS
    <2> HIDE DEF v, h
    <2> QED  BY <2>1, ClosedFacts
  <1>3. /\ conn' = [conn EXCEPT ![c] = Closed] /\ os' = os /\ disk' = disk /\ txn' = txn
        /\ lock'[c] = 0 /\ \A x \in Conn : x # c => lock'[x] = lock[x]
    BY DEF Kill, Set, FL!Drop, Shape, Types
  <1>4. Global(I, J, m, os', disk', txn')
    BY <1>1, <1>3 DEF Recovers
  <1>5. Facts(Closed, lock'[c], I, m, os', disk', txn')
    BY <1>2, <1>3
  <1> QED  BY <1>1, <1>3, <1>4, <1>5, StaysFrame

-----------------------------------------------------------------------------
(* The chain of a journal begins with a header; without one, the header in *)
(* progress is the first slot.                                             *)
LEMMA FirstHeader ==
  ASSUME NEW r \in PagerRecord, NEW S, NEW T, NEW db, NEW b, NEW I, NEW m \in Nat, NEW n,
         Leads(S, T, db, b, I, m), OwnSlots(r, T, I, m, n), r.joff >= 1
  PROVE  HdrAt(r, T, 1)
  <1>1. CASE m = 0
    <2>1. r.jhdr = 1 /\ InProgress(r, T) /\ r.joff \in Nat
      BY <1>1 DEF OwnSlots, PagerRecord
    <2> QED  BY <2>1 DEF InProgress, HdrAt
  <1>2. CASE m > 0
    BY <1>2 DEF Leads, Pair, Chain, HdrAt
  <1> QED  BY <1>1, <1>2

(* A rollback begins: nothing is back yet. *)
LEMMA RollingBackTxn ==
  ASSUME NEW r \in PagerRecord, NEW I \in Image, NEW m \in Nat, NEW o, NEW d, NEW n,
         Changing(r), r.pc \notin Replaying, ~r.hot, r.joff >= 1,
         OwnSlots(r, o.file[r.jfd], I, m, n), NEW db0, Writer(r, o.file[r.jfd], db0, I, m),
         NEW S, NEW b, Leads(S, o.file[r.jfd], o.db, b, I, m)
  PROVE  Txn(RollingBack(r), I, m, o, d, n) /\ SameView(r, RollingBack(r))
  <1> DEFINE q == RollingBack(r)
             T == o.file[r.jfd]
             db == o.db
  <1>1. SameView(r, q) /\ SameJournal(r, q) /\ q.pc = "hdr" /\ q.k = 1
    BY DEF SameView, SameJournal, PagerRecord, RollingBack
  <1> HIDE DEF q, T, db
  <1>2. /\ OwnSlots(r, T, I, m, n) /\ Writer(r, T, db0, I, m) /\ Leads(S, T, db, b, I, m)
    BY DEF T, db
  <1>3. OwnSlots(q, T, I, m, n)
    BY <1>1, <1>2, SameOwnSlots
  <1>4. ASSUME 1 \notin q.inJournal PROVE q.vers = I[1]
    <2>1. 1 \notin r.inJournal /\ r.orig = SizeOf(I) /\ r.cache[1] # Absent
      BY <1>1, <1>2, <1>4 DEF OwnSlots, SameView
    <2>2. 1 \in Page /\ 1 <= r.orig
      BY <2>1, ImageProperty
    <2>3. 1 \notin r.dirty
      BY <1>2, <2>1, <2>2 DEF Writer
    <2>4. r.cache[1] \in {Absent, I[1]}
      BY <1>2, <2>1, <2>2 DEF OwnSlots
    <2>5. r.vers = r.cache[1]
      BY <1>2, <2>3 DEF Writer, Counter
    <2> QED  BY <1>1, <2>1, <2>4, <2>5 DEF SameView
  <1>5. CacheBack(q, T, I, 1) /\ FileBack(db, T, I, m, 1)
    BY <1>4 DEF CacheBack, FileBack
  <1>6. HdrAt(q, T, 1)
    BY <1>1, <1>2, FirstHeader DEF HdrAt, SameJournal
  <1>7. OwnRollback(q, T, db, I, m)
    BY <1>1, <1>5, <1>6 DEF OwnRollback
  <1>8. q.jfd = r.jfd /\ ~q.hot /\ q.eState = r.eState /\ q.eState # "FINISHED"
    BY <1>1 DEF SameView, SameJournal, Changing
  <1> QED
    BY <1>1, <1>3, <1>7, <1>8 DEF Txn, T, db, q

(* The end of a transaction: the cache is of content K. *)
LEMMA EndedFacts ==
  ASSUME NEW r \in PagerRecord, NEW K \in Image, NEW m, NEW o, NEW d, NEW n, Sound(r),
         ~r.hot, r.held, r.dbSize = SizeOf(K), r.vers = K[1], r.cache[1] # Absent,
         \A p \in Page : p <= SizeOf(K) => r.cache[p] \in {Absent, K[p]},
         Clean(K, o, d)
  PROVE  Facts(Ended(r), 1, K, m, o, d, n)
  <1> DEFINE v == TruncateTo(r.cache, r.dbSize)
             q == Ended(r)
  <1>1. /\ SizeOf(K) \in Nat /\ SizeOf(K) >= 1 /\ K[1] \in Nat /\ 1 \in Page
        /\ \A p \in Page : p > SizeOf(K) => K[p] = Absent
    BY ImageProperty
  <1>2. /\ \A p \in Page : v[p] = IF p > SizeOf(K) THEN Absent ELSE r.cache[p]
    BY DEF TruncateTo
  <1> HIDE DEF v
  <1>3. /\ \A p \in Page : v[p] \in {Absent} \cup Value
        /\ Agrees(v, K) /\ v[1] # Absent
    <2>1. ASSUME NEW p \in Page PROVE v[p] \in {Absent} \cup Value /\ v[p] \in {Absent, K[p]}
      <3>1. CASE p > SizeOf(K)
        BY <1>2, <3>1
      <3>2. CASE ~(p > SizeOf(K))
        <4>1. p <= SizeOf(K)
          BY <1>1, <3>2 DEF Page
        <4> QED  BY <1>2, <3>2, <4>1 DEF Sound
      <3> QED  BY <3>1, <3>2
    <2>2. v[1] = r.cache[1]
      BY <1>1, <1>2
    <2> QED  BY <2>1, <2>2 DEF Agrees
  <1>4. /\ q.pc = "idle" /\ q.eState = "READER" /\ q.cache = v /\ q.dirty = {}
        /\ q.needSync = {} /\ q.inJournal = {} /\ ~q.hot /\ q.held = r.held
        /\ q.vers = r.vers /\ q.dbSize = r.dbSize
    BY DEF Ended, PagerRecord, v
  <1> SUFFICES Facts(q, 1, K, m, o, d, n)
    OBVIOUS
  <1> HIDE DEF q
  <1>5. Sound(q)
    BY <1>3, <1>4 DEF Sound
  <1>6. Reader(q, K) /\ StaleCache(q, K)
    BY <1>3, <1>4 DEF Reader, StaleCache
  <1>7. Txn(q, K, m, o, d, n)
    BY <1>4, OutsideTxn
  <1> QED  BY <1>5, <1>6, <1>7 DEF Facts, Cached

LEMMA RollbackRecovery ==
  ASSUME Shape, AllNamed, Recovery, NEW c \in Conn, Rollback(c)
  PROVE  Stays(c)
  <1>1. PICK I, J, m : Recovers(I, J, m)
    BY DEF Recovery
  <1> DEFINE r == conn[c]
             T == os.file[r.jfd]
  <1>2. /\ r \in PagerRecord /\ Control(r, lock[c]) /\ HasJournal(r, os.file, txn)
        /\ lock[c] \in 0..4 /\ os' = os /\ disk' = disk /\ txn' = txn
        /\ r.pc = "idle"
    BY Own DEF Rollback, Idle
  <1>3. Facts(r, lock[c], I, m, os, disk, txn) /\ I \in Image /\ m \in Nat
    BY <1>1 DEF Recovers, Global
  <1>4. ~r.hot
    BY <1>2 DEF Control
  <1>5. CASE r.eState \in {"CACHEMOD", "DBMOD"} /\ Set(c, RollingBack(r)) /\ lock' = lock
    <2> DEFINE q == RollingBack(r)
    <2>1. /\ conn' = [conn EXCEPT ![c] = q] /\ LockStep(c)
      BY <1>5 DEF Set, LockStep
    <2>2. OwnSlots(r, T, I, m, txn) /\ Writer(r, T, os.db, I, m) /\ r.joff >= 1 /\ Changing(r)
      BY <1>2, <1>3, <1>5 DEF Facts, Txn, Changing, HasJournal
    <2>3. Leads(disk.file[r.jfd], T, os.db, disk.behind, I, m)
      BY <1>1, <1>5, JournalLeads
    <2>4. Txn(q, I, m, os, disk, txn) /\ SameView(r, q)
      <3> HIDE DEF q, r
      <3> QED  BY <1>2, <1>3, <1>4, <2>2, <2>3, RollingBackTxn DEF q
    <2>5. q.pc = "hdr"
      BY <1>2 DEF RollingBack, PagerRecord
    <2> HIDE DEF q
    <2>6. Cached(q, I)
      BY <1>3, <2>4, SameCached DEF Facts
    <2>7. MayRead(q, lock'[c]) => Clean(I, os, disk)
      BY <1>3, <1>5, <2>4, <2>5 DEF MayRead, Facts, SameView
    <2> QED  BY <1>1, <1>2, <2>1, <2>4, <2>6, <2>7, LocalFrame DEF Facts
  <1>6. CASE r.eState = "LOCKED" /\ EndTransaction(c, r)
    <2> DEFINE q == Ended(r)
    <2>1. conn' = [conn EXCEPT ![c] = q] /\ LockStep(c) /\ lock'[c] = 1
      BY <1>6 DEF EndTransaction, Set, LockStep, FL!Unlock, Shape, Types
    <2>2. lock[c] = 2
      BY <1>2, <1>6 DEF Control
    <2>3. Sound(r) /\ Reader(r, I) /\ Clean(I, os, disk)
      BY <1>3, <2>2 DEF Facts, Cached, MayRead
    <2>4. /\ r.held /\ r.dbSize = SizeOf(I) /\ r.vers = I[1] /\ r.cache[1] # Absent
          /\ \A p \in Page : r.cache[p] \in {Absent, I[p]}
      BY <1>6, <2>3 DEF Reader, Agrees
    <2>5. Facts(q, 1, I, m, os, disk, txn)
      <3> HIDE DEF r
      <3> QED  BY <1>2, <1>3, <1>4, <2>3, <2>4, EndedFacts
    <2> HIDE DEF q
    <2> QED  BY <1>1, <1>2, <2>1, <2>5, LocalFrame
  <1> QED  BY <1>2, <1>5, <1>6 DEF Rollback, Idle

-----------------------------------------------------------------------------
(* Reading a page: what the cache does not have of the original database   *)
(* has not been written by the transaction.                                *)
LEMMA GetRecovery ==
  ASSUME Shape, AllNamed, Recovery, NEW c \in Conn, NEW p \in Page, Get(c, p)
  PROVE  Stays(c)
  <1>1. PICK I, J, m : Recovers(I, J, m)
    BY DEF Recovery
  <1> DEFINE r == conn[c]
             T == os.file[r.jfd]
             v == IF p = 1 THEN os.db[1] ELSE r.vers
             q == [r EXCEPT !.cache[p] = os.db[p], !.vers = v]
  <1>2. /\ r \in PagerRecord /\ Control(r, lock[c]) /\ HasJournal(r, os.file, txn)
        /\ r.pc = "idle" /\ r.eState \in {"READER", "LOCKED", "CACHEMOD", "DBMOD"}
        /\ p <= r.dbSize /\ r.cache[p] = Absent /\ (p # 1 => r.cache[1] # Absent)
        /\ conn' = [conn EXCEPT ![c] = q]
        /\ os' = os /\ disk' = disk /\ txn' = txn /\ lock' = lock
    BY Own DEF Get, Idle, Set
  <1>3. Facts(r, lock[c], I, m, os, disk, txn) /\ I \in Image /\ m \in Nat /\ ~r.hot
    BY <1>1, <1>2 DEF Recovers, Global, Control
  <1>4. /\ \A x \in Page : p <= SizeOf(I) => I[p] \in Value /\ I[p] # Absent
        /\ SizeOf(I) \in Nat /\ I[1] \in Nat /\ 1 \in Page
    BY <1>3, ImageProperty
  <1> HIDE DEF v
  <1>5. /\ q.pc = "idle" /\ q.eState = r.eState /\ q.vers = v /\ q.hot = r.hot
        /\ q.dirty = r.dirty /\ q.needSync = r.needSync /\ q.inJournal = r.inJournal
        /\ q.held = r.held /\ q.dbSize = r.dbSize /\ q.orig = r.orig /\ q.spill = r.spill
        /\ SameJournal(r, q)
        /\ q.cache = [r.cache EXCEPT ![p] = os.db[p]]
    BY <1>2 DEF PagerRecord, SameJournal
  <1>6. /\ q.cache[p] = os.db[p] /\ \A x \in Page : x # p => q.cache[x] = r.cache[x]
    BY <1>2, <1>5 DEF PagerRecord, Pages
  <1> HIDE DEF q
  <1>7. LockStep(c)
    BY <1>2 DEF LockStep
  <1>8. MayRead(q, lock'[c]) => Clean(I, os, disk)
    BY <1>2, <1>3, <1>5 DEF MayRead, Facts
  <1>9. ASSUME os.db[p] = I[p], p <= SizeOf(I) PROVE Sound(q)
    <2>1. I[p] \in Value
      BY <1>4, <1>9
    <2>2. Sound(r) /\ r.dirty \in SUBSET Page
      BY <1>2, <1>3 DEF Facts, Cached, PagerRecord
    <2>3. \A x \in Page : q.cache[x] \in {Absent} \cup Value
      BY <1>6, <1>9, <2>1, <2>2 DEF Sound
    <2>4. p \notin r.dirty
      BY <1>2, <2>2 DEF Sound
    <2>5. \A x \in q.dirty : q.cache[x] # Absent
      BY <1>5, <1>6, <2>2, <2>4 DEF Sound
    <2> QED  BY <1>5, <2>2, <2>3, <2>5 DEF Sound
  <1>10. CASE r.eState \in {"READER", "LOCKED"}
    <2>1. os.db = I
      <3>1. MayRead(r, lock[c])
        BY <1>2, <1>10 DEF MayRead, Control
      <3> QED  BY <1>3, <3>1 DEF Facts, Clean, Plain
    <2>2. Reader(r, I)
      BY <1>3 DEF Facts, Cached
    <2>3. p <= SizeOf(I)
      BY <1>2, <1>10, <2>2 DEF Reader
    <2>4. Agrees(q.cache, I)
      BY <1>6, <1>10, <2>1, <2>2 DEF Reader, Agrees
    <2>5. q.cache[1] # Absent /\ q.vers = I[1]
      <3>1. CASE p = 1
        BY <1>4, <1>5, <1>6, <2>1, <2>3, <3>1 DEF v
      <3>2. CASE p # 1
        BY <1>2, <1>4, <1>5, <1>6, <1>10, <2>2, <3>2 DEF v, Reader
      <3> QED  BY <3>1, <3>2
    <2>6. Reader(q, I) /\ StaleCache(q, I)
      BY <1>5, <1>10, <2>2, <2>4, <2>5 DEF Reader, StaleCache
    <2>7. Txn(q, I, m, os, disk, txn)
      BY <1>3, <1>5, <1>10, OutsideTxn
    <2> QED  BY <1>1, <1>2, <1>7, <1>8, <1>9, <2>1, <2>3, <2>6, <2>7, LocalFrame DEF Facts, Cached
  <1>11. CASE r.eState \in {"CACHEMOD", "DBMOD"}
    <2>1. OwnSlots(r, T, I, m, txn) /\ Writer(r, T, os.db, I, m) /\ Changing(r)
      BY <1>2, <1>3, <1>11 DEF Facts, Txn, Changing
    <2>2. Leads(disk.file[r.jfd], T, os.db, disk.behind, I, m)
      BY <1>1, <1>11, JournalLeads
    <2>3. p # 1 /\ p \notin r.dirty /\ p \notin r.inJournal /\ r.orig = SizeOf(I)
      <3>1. p \notin r.dirty
        BY <1>2, <1>3 DEF Facts, Cached, Sound
      <3> QED  BY <1>2, <2>1, <3>1 DEF OwnSlots
    <2>4. p <= r.orig
      <3>1. ~(p > r.orig)
        BY <1>2, <2>1 DEF Writer
      <3> QED  BY <1>4, <2>3, <3>1 DEF Page
    <2>5. r.jhdr <= r.joff + 1
      BY <1>2, <1>11 DEF HasJournal, PagerRecord
    <2>6. os.db[p] = I[p]
      <3> DEFINE S == disk.file[r.jfd]
                 db == os.db
                 b == disk.behind
      <3>1. Leads(S, T, db, b, I, m)
        BY <2>2
      <3> SUFFICES db[p] = I[p]
        OBVIOUS
      <3> HIDE DEF S, T, db, b, r
      <3> QED  BY <1>2, <1>3, <2>1, <2>3, <2>4, <2>5, <3>1, Untouched
    <2> HIDE DEF T, r
    <2>7. OwnSlots(q, T, I, m, txn)
      <3>1. InProgress(q, T)
        BY <1>2, <1>5, <2>1 DEF OwnSlots, InProgress, SameJournal
      <3>2. \A x \in Page : x <= q.orig /\ x \notin q.inJournal => q.cache[x] \in {Absent, I[x]}
        BY <1>5, <1>6, <2>1, <2>6 DEF OwnSlots
      <3>3. q.cache[1] # Absent
        BY <1>4, <1>6, <2>1, <2>3 DEF OwnSlots
      <3>4. \A x \in q.inJournal : q.cache[x] # Absent
        <4>1. r.inJournal \in SUBSET Page
          BY <1>2 DEF PagerRecord
        <4> QED  BY <1>5, <1>6, <2>1, <2>3, <4>1 DEF OwnSlots
      <3> QED  BY <1>5, <2>1, <3>1, <3>2, <3>3, <3>4 DEF OwnSlots, SameJournal
    <2>8. Writer(q, T, os.db, I, m)
      <3>1. q.cache[1] = r.cache[1] /\ q.vers = r.vers
        BY <1>4, <1>5, <1>6, <2>3 DEF v
      <3>2. Counter(q, I)
        BY <1>2, <1>5, <2>1, <3>1 DEF Writer, Counter, BeforeCounter
      <3>3. \A x \in Page \ q.dirty : q.cache[x] \in {Absent, os.db[x]}
        BY <1>5, <1>6, <2>1 DEF Writer
      <3>4. \A x \in Page : x > q.orig => (q.cache[x] # Absent <=> x <= q.dbSize)
        BY <1>4, <1>5, <1>6, <2>1, <2>3, <2>4 DEF Writer, Page
      <3> QED  BY <1>5, <2>1, <3>2, <3>3, <3>4 DEF Writer
    <2>9. Txn(q, I, m, os, disk, txn)
      BY <1>3, <1>5, <1>11, <2>7, <2>8 DEF Txn, Changing, SameJournal, T
    <2>10. Reader(q, I) /\ StaleCache(q, I)
      BY <1>5, <1>11 DEF Reader, StaleCache
    <2> QED  BY <1>1, <1>2, <1>7, <1>8, <1>9, <2>3, <2>4, <2>6, <2>9, <2>10, LocalFrame DEF Facts, Cached
  <1> QED  BY <1>2, <1>10, <1>11

-----------------------------------------------------------------------------
(* What the steps do to the files *)

Parts(I, J, m, o, d, n) ==
  /\ I \in Image /\ J \in Image /\ m \in Nat /\ I \in Pages
  /\ o.db \in Pages /\ d.behind \in SUBSET Page
  /\ o.file \in [Inode -> Seq(Slot)] /\ d.file \in [Inode -> Seq(Slot)]
  /\ o.dir \in Inode /\ d.dir \in {0} \cup Inode
  /\ o.file[o.dir] \in Seq(Slot) /\ d.file[o.dir] \in Seq(Slot)
  /\ Leads(d.file[o.dir], o.file[o.dir], o.db, d.behind, I, m)
  /\ d.dir # o.dir => Clean(I, o, d) /\ m = 0

LEMMA GlobalParts ==
  ASSUME NEW I, NEW J, NEW m, NEW o \in FileSystem, NEW d \in Medium, NEW n,
         Global(I, J, m, o, d, n), o.dir # 0
  PROVE  Parts(I, J, m, o, d, n)
  <1>1. /\ I \in Image /\ J \in Image /\ m \in Nat /\ Committed(I, m, o, d)
    BY DEF Global
  <1>2. /\ o.db \in Pages /\ d.behind \in SUBSET Page /\ I \in Pages
        /\ o.file \in [Inode -> Seq(Slot)] /\ d.file \in [Inode -> Seq(Slot)]
        /\ o.dir \in Inode /\ d.dir \in {0} \cup Inode
    BY <1>1 DEF FileSystem, Medium, Files, Image
  <1> DEFINE S == d.file[o.dir]
             T == o.file[o.dir]
  <1>3. S \in Seq(Slot) /\ T \in Seq(Slot) /\ Leads(S, T, o.db, d.behind, I, m)
    BY <1>1, <1>2 DEF Committed
  <1>4. ASSUME d.dir # o.dir PROVE Clean(I, o, d) /\ m = 0
    <2>1. Clean(I, o, d) /\ Headless(T, 0)
      BY <1>1, <1>4 DEF Committed, Clean, Bare
    <2>2. Chain(T, m, I)
      BY <1>3 DEF Leads, Pair
    <2> HIDE DEF T
    <2>3. m = 0
      BY <1>1, <1>3, <2>1, <2>2 DEF Chain, Headless
    <2> QED  BY <2>1, <2>3
  <1> QED  BY <1>1, <1>2, <1>3, <1>4 DEF Parts

(* Pages the chain covers are written to the database file, ... *)
LEMMA PagesWritten ==
  ASSUME NEW I, NEW J, NEW m, NEW o \in FileSystem, NEW d \in Medium, NEW n \in Nat,
         Global(I, J, m, o, d, n), o.dir # 0
  PROVE  \A o1 \in FileSystem, d1 \in Medium :
           /\ o1.dir = o.dir /\ o1.file = o.file
           /\ d1.dir = d.dir /\ d1.file = d.file /\ d1.db = d.db
           /\ (o1.db = o.db /\ d1.behind = d.behind) \/ m > 0
           /\ \A p \in Page :
                 \/ o1.db[p] = o.db[p] /\ (p \in d1.behind <=> p \in d.behind)
                 \/ Covered(o.file[o.dir], m, I, p) /\ p \in d1.behind
           => Global(I, J, m, o1, d1, n)
  <1>0. Parts(I, J, m, o, d, n)
    BY GlobalParts
  <1> SUFFICES ASSUME NEW o1 \in FileSystem, NEW d1 \in Medium,
                      o1.dir = o.dir, o1.file = o.file,
                      d1.dir = d.dir, d1.file = d.file, d1.db = d.db,
                      (o1.db = o.db /\ d1.behind = d.behind) \/ m > 0,
                      \A p \in Page :
                        \/ o1.db[p] = o.db[p] /\ (p \in d1.behind <=> p \in d.behind)
                        \/ Covered(o.file[o.dir], m, I, p) /\ p \in d1.behind
               PROVE  Global(I, J, m, o1, d1, n)
    OBVIOUS
  <1>1. CASE o1.db = o.db /\ d1.behind = d.behind
    <2>1. o1 = o /\ d1 = d
      BY <1>1 DEF FileSystem, Medium
    <2> QED  BY <2>1
  <1>2. CASE m > 0
    <2> DEFINE S == d.file[o.dir]
               T == o.file[o.dir]
               db == o.db
               b == d.behind
               dd == o1.db
               bb == d1.behind
    <2>1. /\ m \in Nat /\ Leads(S, T, db, b, I, m) /\ d.dir = o.dir
      BY <1>0, <1>2 DEF Parts
    <2>2. \A p \in Page : \/ dd[p] = db[p] /\ (p \in bb <=> p \in b)
                          \/ Covered(T, m, I, p) /\ p \in bb
      OBVIOUS
    <2>3. Leads(S, T, dd, bb, I, m)
      <3> HIDE DEF S, T, db, b, dd, bb
      <3> QED  BY <2>1, <2>2, LeadsPages
    <2>4. \A p \in Page : p \notin d.behind => d.db[p] = o.db[p]
      BY DEF Global, Committed
    <2>5. \A p \in Page : p \notin d1.behind => d1.db[p] = o1.db[p]
      BY <2>2, <2>4
    <2>6. Committed(I, m, o1, d1)
      BY <2>1, <2>3, <2>5 DEF Committed
    <2>7. Durable(J, I, o1, d1)
      BY <2>1 DEF Global, Durable
    <2> QED  BY <2>6, <2>7 DEF Global, Numbered
  <1> QED  BY <1>1, <1>2

(* ... the database file is synced, ... *)
LEMMA PagesSynced ==
  ASSUME NEW I, NEW J, NEW m, NEW o \in FileSystem, NEW d \in Medium, NEW n,
         Global(I, J, m, o, d, n), NEW d1 \in Medium,
         d1.db = o.db, d1.behind = {}, d1.dir = d.dir, d1.file = d.file
  PROVE  Global(I, J, m, o, d1, n)
  <1>1. /\ Committed(I, m, o, d) /\ Durable(J, I, o, d)
    BY DEF Global
  <1>2. ASSUME NEW S, NEW T, NEW K, NEW x, Leads(S, T, o.db, d.behind, K, x)
        PROVE  Leads(S, T, o.db, {}, K, x)
    BY <1>2, LeadsPages
  <1>3. Committed(I, m, o, d1)
    BY <1>1, <1>2 DEF Committed, Clean, Plain, Bare
  <1>4. Durable(J, I, o, d1)
    BY <1>1, <1>2 DEF Durable
  <1> QED  BY <1>3, <1>4 DEF Global, Numbered

(* ... the journal is written behind its chain, ... *)
LEMMA SeedsPut ==
  ASSUME NEW f \in [Inode -> Seq(Slot)], NEW n \in Nat, NEW k \in Nat, Seeds(f, n), n <= k,
         NEW x \in Inode, x <= k, NEW U \in Seq(Slot), \A i \in 1..Len(U) : U[i].seed <= k
  PROVE  Seeds([f EXCEPT ![x] = U], k)
  <1>1. ASSUME NEW y \in Inode
        PROVE  /\ \A i \in 1..Len([f EXCEPT ![x] = U][y]) : [f EXCEPT ![x] = U][y][i].seed <= k
               /\ y > k => [f EXCEPT ![x] = U][y] = <<>>
    <2>1. y \in Nat
      BY PagerAssumption DEF Inode
    <2>2. CASE y = x
      BY <2>1, <2>2
    <2>3. CASE y # x
      <3>1. [f EXCEPT ![x] = U][y] = f[y] /\ f[y] \in Seq(Slot)
        BY <2>3
      <3>2. ASSUME NEW i \in 1..Len(f[y]) PROVE f[y][i].seed <= k
        <4>1. f[y][i].seed <= n /\ f[y][i] \in Slot
          BY <3>1 DEF Seeds
        <4> QED  BY <4>1 DEF Slot
      <3>3. y > k => f[y] = <<>>
        BY <2>1 DEF Seeds
      <3> QED  BY <3>1, <3>2, <3>3
    <2> QED  BY <2>2, <2>3
  <1> QED  BY <1>1 DEF Seeds

LEMMA JournalWritten ==
  ASSUME NEW I, NEW J, NEW m, NEW o \in FileSystem, NEW d \in Medium, NEW n \in Nat,
         Global(I, J, m, o, d, n), o.dir # 0,
         NEW o1 \in FileSystem, NEW U \in Seq(Slot),
         o1.dir = o.dir, o1.db = o.db, o1.file = [o.file EXCEPT ![o.dir] = U],
         m <= Len(U), \A i \in 1..m : U[i] = o.file[o.dir][i],
         Headless(U, m) \/ (d.dir = o.dir /\ NextSealed(d.file[o.dir], U, m, I)),
         \A i \in 1..Len(U) : U[i].seed <= n
  PROVE  Global(I, J, m, o1, d, n)
  <1>0. Parts(I, J, m, o, d, n)
    BY GlobalParts
  <1> DEFINE S == d.file[o.dir]
             T == o.file[o.dir]
             db == o.db
             b == d.behind
  <1>1. /\ m \in Nat /\ S \in Seq(Slot) /\ T \in Seq(Slot) /\ Leads(S, T, db, b, I, m)
        /\ (d.dir # o.dir => Clean(I, o, d) /\ m = 0) /\ o.dir \in Inode
        /\ o.file \in [Inode -> Seq(Slot)]
    BY <1>0 DEF Parts
  <1>2. Leads(S, U, db, b, I, m)
    <2>1. /\ \A i \in 1..m : U[i] = T[i]
          /\ Headless(U, m) \/ NextSealed(S, U, m, I)
      OBVIOUS
    <2> HIDE DEF S, T, db, b
    <2> QED  BY <1>1, <2>1, LeadsJournal
  <1>3. o1.file[o.dir] = U /\ \A x \in Inode : x # o.dir => o1.file[x] = o.file[x]
    BY <1>1
  <1>4. \A p \in Page : p \notin d.behind => d.db[p] = o1.db[p]
    BY DEF Global, Committed
  <1>5. Committed(I, m, o1, d)
    <2>1. ASSUME d.dir # o.dir PROVE Clean(I, o1, d)
      BY <1>1, <1>3, <2>1 DEF Clean, Plain, Bare
    <2> QED  BY <1>2, <1>3, <1>4, <2>1 DEF Committed
  <1>6. Durable(J, I, o1, d)
    <2>1. d.dir \notin {0, o.dir} => o1.file[d.dir] = o.file[d.dir]
      BY <1>3 DEF Medium
    <2> QED  BY <2>1 DEF Global, Durable
  <1>7. Numbered(o1, d, n)
    <2>1. o.dir <= n /\ d.dir <= n /\ Seeds(o.file, n) /\ Seeds(d.file, n)
      BY DEF Global, Numbered
    <2>2. Seeds([o.file EXCEPT ![o.dir] = U], n)
      <3> DEFINE f == o.file
                 x == o.dir
      <3>1. /\ f \in [Inode -> Seq(Slot)] /\ Seeds(f, n) /\ x \in Inode /\ x <= n
            /\ n <= n
        BY <1>1, <2>1
      <3> HIDE DEF f, x
      <3>2. Seeds([f EXCEPT ![x] = U], n)
        BY <3>1, SeedsPut
      <3> QED  BY <3>2 DEF f, x
    <2> QED  BY <2>1, <2>2 DEF Numbered
  <1> QED  BY <1>5, <1>6, <1>7 DEF Global

(* ... and the journal is synced, perhaps with its directory. *)
Synced(I, J, m, o, d, n) ==
  \E L, k : /\ k \in Nat /\ L \in {I, J} /\ Global(I, L, k, o, d, n)
            /\ Headless(o.file[o.dir], m) => k = m
            /\ ~Headless(o.file[o.dir], m) => k = SealEnd(o.file[o.dir], m)

LEMMA JournalSynced ==
  ASSUME NEW I, NEW J, NEW m, NEW o \in FileSystem, NEW d \in Medium, NEW n \in Nat,
         Global(I, J, m, o, d, n), o.dir # 0,
         NEW d1 \in Medium, d1.db = d.db, d1.behind = d.behind,
         d1.dir \in {d.dir, o.dir}, d1.file = [d.file EXCEPT ![o.dir] = o.file[o.dir]]
  PROVE  Synced(I, J, m, o, d1, n)
  <1>0. Parts(I, J, m, o, d, n)
    BY GlobalParts
  <1> DEFINE S == d.file[o.dir]
             T == o.file[o.dir]
             db == o.db
             b == d.behind
             k == IF Headless(T, m) THEN m ELSE SealEnd(T, m)
             L == IF d1.dir = o.dir THEN I ELSE J
  <1>1. /\ m \in Nat /\ S \in Seq(Slot) /\ T \in Seq(Slot) /\ Leads(S, T, db, b, I, m)
        /\ (d.dir # o.dir => Clean(I, o, d) /\ m = 0) /\ o.dir \in Inode
        /\ d.file \in [Inode -> Seq(Slot)]
    BY <1>0 DEF Parts
  <1>2. k \in Nat /\ k >= m /\ Leads(T, T, db, b, I, k)
    <2>1. /\ Headless(T, m) => Leads(T, T, db, b, I, m)
          /\ ~Headless(T, m) => /\ SealEnd(T, m) \in Nat /\ SealEnd(T, m) > m
                                /\ Leads(T, T, db, b, I, SealEnd(T, m))
      <3> HIDE DEF S, T, db, b
      <3> QED  BY <1>1, LeadsSynced
    <2> QED  BY <1>1, <2>1
  <1>3. d1.file[o.dir] = T /\ \A x \in Inode : x # o.dir => d1.file[x] = d.file[x]
    BY <1>1
  <1>4. ASSUME d1.dir # o.dir PROVE Clean(I, o, d1) /\ k = 0
    <2>1. d.dir # o.dir /\ Clean(I, o, d) /\ m = 0 /\ Headless(T, 0)
      BY <1>1, <1>4 DEF Clean, Bare
    <2> HIDE DEF T
    <2> QED  BY <1>3, <2>1 DEF Clean, Plain, Bare, T
  <1>5. \A p \in Page : p \notin d.behind => d.db[p] = o.db[p]
    BY DEF Global, Committed
  <1> HIDE DEF k
  <1>6. Committed(I, k, o, d1)
    BY <1>2, <1>3, <1>4, <1>5 DEF Committed
  <1>7. Durable(L, I, o, d1)
    <2>1. Durable(J, I, o, d)
      BY DEF Global
    <2>2. CASE d1.dir = o.dir
      BY <2>2 DEF Durable
    <2>3. CASE d1.dir # o.dir
      <3>1. d1.dir = d.dir /\ L = J
        BY <2>3
      <3>2. d.dir \notin {0, o.dir} => d1.file[d.dir] = d.file[d.dir]
        BY <1>3 DEF Medium
      <3> QED  BY <2>1, <2>3, <3>1, <3>2 DEF Durable
    <2> QED  BY <2>2, <2>3
  <1>8. Numbered(o, d1, n)
    <2>1. o.dir <= n /\ d.dir <= n /\ Seeds(o.file, n) /\ Seeds(d.file, n)
      BY DEF Global, Numbered
    <2>2. Seeds([d.file EXCEPT ![o.dir] = o.file[o.dir]], n)
      <3> DEFINE f == d.file
                 x == o.dir
                 U == o.file[o.dir]
      <3>1. /\ f \in [Inode -> Seq(Slot)] /\ Seeds(f, n) /\ x \in Inode /\ x <= n
            /\ U \in Seq(Slot) /\ \A i \in 1..Len(U) : U[i].seed <= n
            /\ n <= n
        BY <1>1, <2>1 DEF Seeds
      <3> HIDE DEF f, x, U
      <3>2. Seeds([f EXCEPT ![x] = U], n)
        BY <3>1, SeedsPut
      <3> QED  BY <3>2 DEF f, x, U
    <2> QED  BY <2>1, <2>2 DEF Numbered
  <1>9. Global(I, L, k, o, d1, n)
    BY <1>2, <1>6, <1>7, <1>8 DEF Global
  <1>10. (Headless(T, m) => k = m) /\ (~Headless(T, m) => k = SealEnd(T, m))
    BY DEF k
  <1> QED  BY <1>2, <1>9, <1>10 DEF Synced

-----------------------------------------------------------------------------
(* The steps that only sync *)

(* What is in the database file when the last page has been written *)
LEMMA AllWritten ==
  ASSUME NEW r \in PagerRecord, NEW S, NEW T, NEW db \in Pages, NEW b, NEW I \in Image,
         NEW m \in Nat, NEW n, Leads(S, T, db, b, I, m), OwnSlots(r, T, I, m, n),
         r.jhdr <= r.joff + 1, Sound(r), Writer(r, T, db, I, m), r.dirty = {}
  PROVE  db \in Image /\ Agrees(r.cache, db) /\ r.dbSize = SizeOf(db)
  <1>1. /\ r.orig = SizeOf(I) /\ r.orig \in Nat /\ r.orig >= 1 /\ r.dbSize \in Nat
        /\ r.dbSize >= r.orig /\ r.dbSize <= MaxPage /\ MaxPage \in Nat
    BY ImageProperty DEF OwnSlots, Writer
  <1>2. ASSUME NEW p \in Page PROVE r.cache[p] \in {Absent, db[p]}
    BY DEF Writer
  <1>3. ASSUME NEW p \in Page, p <= r.dbSize PROVE db[p] \in Value /\ db[p] # Absent
    <2>1. Absent \notin Value
      BY PagerAssumption DEF Absent, Value
    <2>2. CASE r.cache[p] # Absent
      BY <1>2, <2>1, <2>2 DEF Sound
    <2>3. CASE r.cache[p] = Absent
      <3>1. p \in Nat
        BY <1>1 DEF Page
      <3>2. p <= r.orig
        BY <1>1, <1>3, <2>3, <3>1 DEF Writer
      <3>3. p \notin r.inJournal
        BY <2>3 DEF OwnSlots
      <3>4. db[p] = I[p]
        BY <3>2, <3>3, Untouched
      <3> QED  BY <1>1, <3>2, <3>4, ImageProperty
    <2> QED  BY <2>2, <2>3
  <1>4. \A p \in Page : p > r.dbSize => db[p] = Absent
    BY DEF Writer
  <1>5. r.dbSize = SizeOf(db)
    <2>1. /\ SizeOf(db) \in 0..MaxPage
          /\ SizeOf(db) = 0 \/ db[SizeOf(db)] # Absent
          /\ \A p \in Page : p > SizeOf(db) => db[p] = Absent
      BY SizeOfProperty
    <2>2. SizeOf(db) \in Nat /\ r.dbSize \in Page
      BY <1>1, <2>1 DEF Page
    <2>3. ~(SizeOf(db) < r.dbSize)
      BY <1>1, <1>3, <2>1, <2>2
    <2>4. ~(SizeOf(db) > r.dbSize)
      <3> SUFFICES ASSUME SizeOf(db) > r.dbSize PROVE FALSE
        OBVIOUS
      <3>1. SizeOf(db) \in Page
        BY <1>1, <2>1, <2>2 DEF Page
      <3> QED  BY <1>1, <1>4, <2>1, <2>2, <3>1
    <2> QED  BY <1>1, <2>2, <2>3, <2>4
  <1>6. db \in Image
    <2>1. \A p \in 1..SizeOf(db) : db[p] \in Value
      BY <1>1, <1>3, <1>5 DEF Page
    <2> QED  BY <1>1, <1>5, <2>1 DEF Image
  <1> QED  BY <1>2, <1>5, <1>6 DEF Agrees

LEMMA DbSyncRecovery ==
  ASSUME Shape, AllNamed, Recovery, NEW c \in Conn, DbSync(c)
  PROVE  Stays(c)
  <1>1. PICK I, J, m : Recovers(I, J, m)
    BY DEF Recovery
  <1> DEFINE r == conn[c]
             T == os.file[r.jfd]
             q == [r EXCEPT !.pc = "fin", !.eState = "FINISHED"]
  <1>2. /\ r \in PagerRecord /\ r.pc = "dbsync" /\ r.eState = "DBMOD" /\ ~r.hot
        /\ lock[c] = 4 /\ lock' = lock /\ os' = os /\ txn' = txn /\ disk' = SyncDb
        /\ conn' = [conn EXCEPT ![c] = q] /\ r.spill = 0 /\ r.jhdr <= r.joff + 1
        /\ r.joff \in Nat /\ r.jhdr \in Nat
    BY Own DEF DbSync, At, Control, Changes, HasJournal, Set, PagerRecord
  <1>3. Facts(r, lock[c], I, m, os, disk, txn) /\ I \in Image /\ m \in Nat
        /\ Global(I, J, m, os, disk, txn)
    BY <1>1 DEF Recovers, Global
  <1>4. OwnSlots(r, T, I, m, txn) /\ Writer(r, T, os.db, I, m) /\ Sound(r)
    BY <1>2, <1>3 DEF Facts, Cached, Txn, Changing
  <1>5. Leads(disk.file[r.jfd], T, os.db, disk.behind, I, m)
    BY <1>1, <1>2, JournalLeads
  <1>6. os \in FileSystem /\ disk \in Medium /\ disk' \in Medium /\ os.db \in Pages /\ txn \in Nat
    BY <1>2, Stored, SyncDbType, PagerAssumption
  <1>7. disk'.db = os.db /\ disk'.behind = {} /\ disk'.dir = disk.dir /\ disk'.file = disk.file
    BY <1>2, <1>6 DEF SyncDb, Medium
  <1>8. Global(I, J, m, os', disk', txn')
    BY <1>2, <1>3, <1>6, <1>7, PagesSynced
  <1>9. r.dirty = {} /\ ~BeforeCounter(r)
    BY <1>2, <1>4 DEF Writer, BeforeCounter
  <1>10. os.db \in Image /\ Agrees(r.cache, os.db) /\ r.dbSize = SizeOf(os.db)
    <2> HIDE DEF T, r
    <2> QED  BY <1>2, <1>3, <1>4, <1>5, <1>6, <1>9, AllWritten
  <1>11. /\ os.db[1] = I[1] + 1 /\ os.db[1] <= txn /\ r.vers = os.db[1] /\ r.cache[1] = os.db[1]
         /\ r.held
    <2>1. r.cache[1] # Absent /\ I[1] < txn /\ r.held /\ I[1] \in Nat /\ 1 \in Page
      BY <1>3, <1>4, ImageProperty DEF OwnSlots
    <2>2. r.cache[1] = os.db[1]
      BY <1>10, <2>1 DEF Agrees
    <2>3. r.cache[1] = I[1] + 1 /\ r.vers = r.cache[1]
      BY <1>4, <1>9 DEF Writer, Counter
    <2> QED  BY <1>6, <2>1, <2>2, <2>3
  <1>12. /\ q.pc = "fin" /\ q.eState = "FINISHED" /\ ~q.hot /\ q.cache = r.cache
         /\ q.dirty = r.dirty /\ q.needSync = r.needSync /\ q.vers = r.vers
         /\ q.held = r.held /\ q.dbSize = r.dbSize
    BY <1>2 DEF PagerRecord
  <1> HIDE DEF q
  <1>13. Cached(q, I)
    BY <1>4, <1>12 DEF Cached, Sound, StaleCache, Reader
  <1>14. Txn(q, I, m, os', disk', txn')
    BY <1>2, <1>7, <1>10, <1>11, <1>12 DEF Txn, Changing, Finished
  <1>15. Facts(q, lock'[c], I, m, os', disk', txn')
    BY <1>2, <1>12, <1>13, <1>14 DEF Facts, MayRead
  <1> QED  BY <1>1, <1>2, <1>8, <1>15, StaysFrame

LEMMA PlaybackSyncRecovery ==
  ASSUME Shape, Recovery, NEW c \in Conn, PlaybackSync(c)
  PROVE  Stays(c)
  <1>1. PICK I, J, m : Recovers(I, J, m)
    BY DEF Recovery
  <1> DEFINE r == conn[c]
             T == os.file[r.jfd]
             q == [r EXCEPT !.pc = "fin"]
  <1>2. /\ r \in PagerRecord /\ r.pc = "rsync" /\ lock' = lock /\ os' = os /\ txn' = txn
        /\ disk' = SyncDb /\ conn' = [conn EXCEPT ![c] = q] /\ Control(r, lock[c])
    BY Own DEF PlaybackSync, At, Goto, Set
  <1>3. lock[c] = 4 /\ r.eState \in {"OPEN", "DBMOD"}
    BY <1>2 DEF Control
  <1>4. Facts(r, lock[c], I, m, os, disk, txn) /\ I \in Image /\ m \in Nat
        /\ Global(I, J, m, os, disk, txn)
    BY <1>1 DEF Recovers, Global
  <1>5. os \in FileSystem /\ disk \in Medium /\ disk' \in Medium
    BY <1>2, Stored, SyncDbType
  <1>6. disk'.db = os.db /\ disk'.behind = {} /\ disk'.dir = disk.dir /\ disk'.file = disk.file
    BY <1>2, <1>5 DEF SyncDb, Medium
  <1>7. Global(I, J, m, os', disk', txn')
    BY <1>2, <1>4, <1>5, <1>6, PagesSynced
  <1>8. SameView(r, q) /\ SameJournal(r, q) /\ q.pc = "fin" /\ q.k = r.k
    BY <1>2 DEF SameView, SameJournal, PagerRecord
  <1>9. Txn(r, I, m, os, disk, txn)
    BY <1>4 DEF Facts
  <1> HIDE DEF q, r
  <1>10. Cached(q, I)
    BY <1>4, <1>8, SameCached DEF Facts
  <1>11. Changing(q) => OwnSlots(q, T, I, m, txn) /\ OwnRollback(q, T, os.db, I, m)
    <2> SUFFICES ASSUME Changing(q) PROVE OwnSlots(q, T, I, m, txn) /\ OwnRollback(q, T, os.db, I, m)
      OBVIOUS
    <2>1. OwnSlots(r, T, I, m, txn) /\ OwnRollback(r, T, os.db, I, m)
      BY <1>2, <1>8, <1>9 DEF Txn, Changing, SameView
    <2> HIDE DEF T
    <2>2. OwnSlots(q, T, I, m, txn)
      BY <1>2, <1>8, <2>1, SameOwnSlots
    <2>3. CacheBack(q, T, I, q.joff + 1) /\ q.dbSize = SizeOf(I) /\ os.db = I
      BY <1>2, <1>8, <2>1 DEF OwnRollback, CacheBack, SameView, SameJournal
    <2> QED  BY <1>8, <2>2, <2>3 DEF OwnRollback
  <1>12. q.hot => /\ HotRollback(q, T, os.db, I, m) /\ Headless(T, m)
                  /\ disk.file[r.jfd] = T /\ q.jhdr = Len(T) + 1
    BY <1>2, <1>8, <1>9 DEF Txn, HotRollback, SameJournal
  <1>13. Txn(q, I, m, os', disk', txn')
    BY <1>2, <1>3, <1>6, <1>8, <1>11, <1>12 DEF Txn, Changing, SameView, SameJournal
  <1>14. Facts(q, lock'[c], I, m, os', disk', txn')
    BY <1>2, <1>3, <1>8, <1>10, <1>13 DEF Facts, MayRead, SameView
  <1> QED  BY <1>1, <1>2, <1>3, <1>7, <1>14, StaysFrame

LEMMA HotSyncRecovery ==
  ASSUME Shape, AllNamed, Recovery, NEW c \in Conn, HotSync(c)
  PROVE  Syncs(c)
  <1>1. PICK I, J, m : Recovers(I, J, m)
    BY DEF Recovery
  <1> DEFINE r == conn[c]
             T == os.file[os.dir]
             x == Len(Journal(c)) + 1
             q == [r EXCEPT !.pc = "hdr", !.k = 1, !.jhdr = x]
  <1>2. /\ r \in PagerRecord /\ r.pc = "hsync" /\ lock' = lock /\ os' = os /\ txn' = txn
        /\ disk' = Fsync(c) /\ conn' = [conn EXCEPT ![c] = q] /\ Control(r, lock[c])
    BY Own DEF HotSync, At, Set
  <1>3. lock[c] = 4 /\ r.eState = "OPEN" /\ r.hot /\ r.jfd # 0
    BY <1>2 DEF Control
  <1>4. Facts(r, lock[c], I, m, os, disk, txn) /\ Global(I, J, m, os, disk, txn)
    BY <1>1 DEF Recovers
  <1>5. os.dir = r.jfd /\ os.dir # 0 /\ T \in Seq(Slot) /\ Journal(c) = T /\ I \in Image
    BY <1>1, <1>3, JournalLeads DEF Journal
  <1>6. /\ os \in FileSystem /\ disk \in Medium /\ disk' \in Medium /\ txn \in Nat
        /\ disk'.db = disk.db /\ disk'.behind = disk.behind /\ disk'.dir \in {disk.dir, os.dir}
        /\ disk'.file = [disk.file EXCEPT ![os.dir] = T]
    BY <1>2, <1>3, <1>5, FsyncType, Stored, PagerAssumption
  <1>7. PICK L, k : k \in Nat /\ (L = I \/ L = J) /\ Global(I, L, k, os, disk', txn)
    <2> DEFINE d1 == disk'
    <2>1. /\ os \in FileSystem /\ disk \in Medium /\ d1 \in Medium /\ txn \in Nat
          /\ d1.db = disk.db /\ d1.behind = disk.behind /\ d1.dir \in {disk.dir, os.dir}
          /\ d1.file = [disk.file EXCEPT ![os.dir] = os.file[os.dir]]
          /\ Global(I, J, m, os, disk, txn) /\ os.dir # 0
      BY <1>4, <1>5, <1>6
    <2> HIDE DEF d1
    <2>2. Synced(I, J, m, os, d1, txn)
      BY <2>1, JournalSynced
    <2> QED  BY <2>2 DEF d1, Synced
  <1>8. Parts(I, L, k, os, disk', txn)
    BY <1>5, <1>6, <1>7, GlobalParts
  <1>9. disk'.file[os.dir] = T
    BY <1>5, <1>6, <1>8 DEF Parts, Medium, Files
  <1>10. Headless(T, k) /\ Chain(T, k, I)
    BY <1>8, <1>9 DEF Parts, Leads, Pair
  <1>11. SameView(r, q) /\ q.pc = "hdr" /\ q.k = 1 /\ q.jhdr = Len(T) + 1 /\ q.hot /\ q.jfd = os.dir
    BY <1>2, <1>3, <1>5 DEF SameView, PagerRecord
  <1> HIDE DEF q
  <1>12. HotRollback(q, T, os.db, I, k)
    <2> HIDE DEF T
    <2>1. HotHdr(T, k, 1)
      BY <1>7, <1>10 DEF HotHdr, Chain
    <2> QED  BY <1>11, <2>1 DEF HotRollback, FileBack
  <1>13. Txn(q, I, k, os', disk', txn')
    BY <1>2, <1>3, <1>9, <1>10, <1>11, <1>12 DEF Txn, Changing, SameView
  <1>14. Cached(q, I)
    BY <1>4, <1>11, SameCached DEF Facts
  <1>15. Facts(q, lock'[c], I, k, os', disk', txn')
    BY <1>2, <1>3, <1>11, <1>13, <1>14 DEF Facts, MayRead, SameView
  <1> QED  BY <1>1, <1>2, <1>3, <1>7, <1>15, SyncsFrame

-----------------------------------------------------------------------------
(* The steps of a commit *)

(* What is known of a connection that is writing *)
Ongoing(r, T, I, J, m) ==
  /\ r \in PagerRecord /\ ~r.hot /\ r.jfd # 0 /\ r.jfd \in Inode /\ os.dir = r.jfd
  /\ r.joff \in Nat /\ r.jhdr \in Nat /\ r.nRec \in Nat /\ r.joff >= 1
  /\ r.jhdr <= r.joff + 1 /\ r.joff <= Len(T)
  /\ T = os.file[r.jfd] /\ T \in Seq(Slot) /\ disk.file[r.jfd] \in Seq(Slot)
  /\ OwnSlots(r, T, I, m, txn) /\ Writer(r, T, os.db, I, m) /\ Cached(r, I)
  /\ Leads(disk.file[r.jfd], T, os.db, disk.behind, I, m)
  /\ OwnIn(r, T, txn) /\ r.seed = txn
  /\ I \in Image /\ m \in Nat /\ txn \in Nat /\ txn <= MaxTxn /\ I[1] \in Nat
  /\ os \in FileSystem /\ disk \in Medium /\ Global(I, J, m, os, disk, txn)

LEMMA OngoingProperty ==
  ASSUME Shape, AllNamed, AllOwn, NEW I, NEW J, NEW m, Recovers(I, J, m), NEW c \in Conn,
         Changing(conn[c]), conn[c].pc \notin Replaying
  PROVE  Ongoing(conn[c], os.file[conn[c].jfd], I, J, m)
  <1> DEFINE r == conn[c]
             T == os.file[r.jfd]
  <1>1. /\ r \in PagerRecord /\ Control(r, lock[c]) /\ r.eState \in {"CACHEMOD", "DBMOD"}
        /\ HasJournal(r, os.file, txn)
    BY Own DEF Changing
  <1>2. ~r.hot /\ r.jfd # 0 /\ r.joff <= Len(T) /\ r.joff >= 1 /\ r.jhdr \in 1..(r.joff + 1)
    BY <1>1 DEF Control, HasJournal
  <1>3. /\ os.dir = r.jfd /\ os.dir \in Inode /\ m \in Nat /\ I \in Image
        /\ disk.file[r.jfd] \in Seq(Slot) /\ T \in Seq(Slot)
        /\ Leads(disk.file[r.jfd], T, os.db, disk.behind, I, m)
    BY <1>1, JournalLeads
  <1>4. Facts(r, lock[c], I, m, os, disk, txn) /\ Global(I, J, m, os, disk, txn)
    BY DEF Recovers
  <1>5. OwnSlots(r, T, I, m, txn) /\ Writer(r, T, os.db, I, m) /\ Cached(r, I)
    BY <1>4 DEF Facts, Txn
  <1>6. OwnIn(r, T, txn) /\ r.seed = txn
    BY <1>1 DEF AllOwn, OwnJournal, InTxn, OwnIn
  <1>7. txn \in Nat /\ txn <= MaxTxn /\ os \in FileSystem /\ disk \in Medium /\ I[1] \in Nat
    BY <1>3, Stored, PagerAssumption, ImageProperty
  <1>8. r.joff \in Nat /\ r.jhdr \in Nat /\ r.nRec \in Nat /\ r.jhdr <= r.joff + 1
    BY <1>1, <1>2 DEF PagerRecord
  <1>9. T = os.file[r.jfd]
    OBVIOUS
  <1> SUFFICES Ongoing(r, T, I, J, m)
    OBVIOUS
  <1> HIDE DEF r, T
  <1> QED  BY <1>1, <1>2, <1>3, <1>4, <1>5, <1>6, <1>7, <1>8, <1>9 DEF Ongoing

(* Before its header is complete, the last part of a journal does not      *)
(* count, and neither does anything behind it.                             *)
LEMMA OpenEnd ==
  ASSUME NEW r, NEW T, NEW I, NEW J, NEW m, Ongoing(r, T, I, J, m),
         Appending(r), r.pc # "jsync2"
  PROVE  /\ r.jhdr = m + 1 /\ r.jhdr + r.nRec = r.joff /\ r.jhdr <= r.joff /\ r.last = r.jhdr
         /\ T[r.jhdr].k = "zero" /\ T[r.jhdr].val = 0
         /\ Headless(T, m) /\ Chain(T, m, I)
         /\ r.joff \in Nat /\ m \in Nat /\ m < r.joff /\ r.joff <= Len(T)
  <1>1. /\ r.jhdr = m + 1 /\ r.jhdr + r.nRec = r.joff /\ r.last = r.jhdr /\ InProgress(r, T)
        /\ r.joff \in Nat /\ r.jhdr \in Nat /\ r.nRec \in Nat /\ m \in Nat /\ r.joff <= Len(T)
    BY DEF Ongoing, OwnIn, OwnSlots
  <1>2. r.jhdr <= r.joff /\ m < r.joff
    BY <1>1
  <1>3. r.pc \notin {"jsync2"} \cup Replaying
    BY DEF Appending
  <1>4. T[r.jhdr].k = "zero" /\ T[r.jhdr].val = 0
    BY <1>1, <1>2, <1>3 DEF InProgress
  <1>5. /\ Chain(T, m, I) /\ (Headless(T, m) \/ NextSealed(disk.file[r.jfd], T, m, I))
    BY DEF Ongoing, Leads, Pair
  <1>6. Headless(T, m)
    BY <1>1, <1>4, <1>5 DEF NextSealed
  <1> QED  BY <1>1, <1>2, <1>4, <1>5, <1>6

LEMMA JournalSyncRecovery ==
  ASSUME Shape, AllNamed, AllOwn, Recovery, NEW c \in Conn, JournalSync(c)
  PROVE  Syncs(c)
  <1>1. PICK I, J, m : Recovers(I, J, m)
    BY DEF Recovery
  <1> DEFINE r == conn[c]
             T == os.file[r.jfd]
             q == [r EXCEPT !.pc = "jnrec", !.dirSync = FALSE]
  <1>2. /\ r \in PagerRecord /\ r.pc = "jsync" /\ lock' = lock /\ txn' = txn
        /\ Control(r, lock[c]) /\ Facts(r, lock[c], I, m, os, disk, txn)
    BY <1>1, Own DEF JournalSync, At, Recovers
  <1>3. lock[c] = 4 /\ Changing(r)
    BY <1>2 DEF Control, Changing
  <1>4. Ongoing(r, T, I, J, m)
    BY <1>1, <1>2, <1>3, OngoingProperty
  <1>5. /\ r.jhdr = m + 1 /\ Headless(T, m) /\ r.joff \in Nat /\ m \in Nat /\ m < r.joff
    <2> HIDE DEF T, r
    <2> QED  BY <1>2, <1>4, OpenEnd DEF Appending
  <1>6. Unrecognised(Journal(c), r.joff + 1) = T /\ Journal(c) = T
    <2>1. ~StaleHdr(T, r.joff + 1)
      BY <1>5 DEF StaleHdr, Headless
    <2> QED  BY <2>1 DEF Unrecognised, Journal
  <1>7. /\ os' \in FileSystem /\ os'.db = os.db /\ os'.dir = os.dir
        /\ os'.file = [os.file EXCEPT ![r.jfd] = T]
        /\ disk' \in Medium /\ disk'.db = disk.db /\ disk'.behind = disk.behind
        /\ disk'.dir \in {disk.dir, os.dir}
        /\ disk'.file = [disk.file EXCEPT ![r.jfd] = T]
        /\ conn' = [conn EXCEPT ![c] = q]
    BY <1>6, JournalSyncEffect
  <1>8. os' = os
    <2>1. os \in FileSystem /\ os.file \in Files /\ r.jfd \in Inode
      BY <1>4, Stored DEF Ongoing
    <2>2. os'.file = os.file
      BY <1>7, <2>1 DEF Files
    <2> QED  BY <1>7, <2>1, <2>2 DEF FileSystem
  <1>9. PICK L : (L = I \/ L = J) /\ Global(I, L, m, os, disk', txn)
    <2> DEFINE d1 == disk'
    <2>1. /\ os \in FileSystem /\ disk \in Medium /\ d1 \in Medium /\ txn \in Nat
          /\ d1.db = disk.db /\ d1.behind = disk.behind /\ d1.dir \in {disk.dir, os.dir}
          /\ d1.file = [disk.file EXCEPT ![os.dir] = os.file[os.dir]]
          /\ Global(I, J, m, os, disk, txn) /\ os.dir # 0
      BY <1>4, <1>7 DEF Ongoing
    <2> HIDE DEF d1
    <2>2. Synced(I, J, m, os, d1, txn)
      BY <2>1, JournalSynced
    <2>3. Headless(os.file[os.dir], m)
      BY <1>4, <1>5 DEF Ongoing
    <2> QED  BY <2>2, <2>3 DEF d1, Synced
  <1>10. disk'.file[r.jfd] = T
    BY <1>4, <1>7 DEF Ongoing, Medium, Files
  <1>11. /\ SameView(r, q) /\ SameJournal(r, q) /\ q.pc = "jnrec" /\ q.spill = r.spill
         /\ q.eState = r.eState /\ q.jfd = r.jfd /\ ~q.hot
    BY <1>2, <1>4 DEF SameView, SameJournal, PagerRecord, Ongoing
  <1> HIDE DEF q
  <1>12. OwnSlots(q, T, I, m, txn) /\ Writer(q, T, os.db, I, m)
    <2>1. OwnSlots(r, T, I, m, txn) /\ Writer(r, T, os.db, I, m)
      BY <1>4 DEF Ongoing
    <2>2. BeforeCounter(r) <=> BeforeCounter(q)
      BY <1>2, <1>11 DEF BeforeCounter
    <2> HIDE DEF T, r
    <2> QED  BY <1>2, <1>11, <2>1, <2>2, SameOwnSlots, SameWriter
  <1>13. Txn(q, I, m, os', disk', txn')
    BY <1>2, <1>3, <1>8, <1>10, <1>11, <1>12 DEF Txn, Changing
  <1>14. Cached(q, I)
    BY <1>2, <1>11, SameCached DEF Facts
  <1>15. Facts(q, lock'[c], I, m, os', disk', txn')
    BY <1>2, <1>3, <1>11, <1>13, <1>14 DEF Facts, MayRead, Changing
  <1>16. Global(I, L, m, os', disk', txn')
    BY <1>2, <1>8, <1>9
  <1> QED  BY <1>1, <1>2, <1>3, <1>7, <1>9, <1>15, <1>16, SyncsFrame

(* The count makes the header complete.  Its records are on the medium. *)
Counted(r, T, U, I, m) ==
  /\ m <= Len(U) /\ \A i \in 1..m : U[i] = T[i]
  /\ NextSealed(T, U, m, I)
  /\ \A i \in 1..Len(U) : U[i].seed = T[i].seed
  /\ OwnSlots([r EXCEPT !.pc = "jsync2"], U, I, m, txn)
  /\ Writer([r EXCEPT !.pc = "jsync2"], U, os.db, I, m)

LEMMA CountedSlots ==
  ASSUME NEW r, NEW T, NEW I, NEW J, NEW m, Ongoing(r, T, I, J, m), r.pc = "jnrec",
         disk.file[r.jfd] = T,
         NEW U \in Seq(Slot), Len(U) = Len(T),
         U[r.jhdr] = [T[r.jhdr] EXCEPT !.k = "hdr", !.val = r.nRec],
         \A i \in 1..Len(T) : i # r.jhdr => U[i] = T[i]
  PROVE  Counted(r, T, U, I, m)
  <1>1. /\ r.jhdr = m + 1 /\ r.jhdr + r.nRec = r.joff /\ r.jhdr <= r.joff /\ r.last = r.jhdr
        /\ T[r.jhdr].k = "zero" /\ Headless(T, m) /\ Chain(T, m, I)
        /\ r.joff \in Nat /\ m \in Nat /\ m < r.joff /\ r.joff <= Len(T)
    BY OpenEnd DEF Appending
  <1>2. /\ r \in PagerRecord /\ r.nRec \in Nat /\ T \in Seq(Slot)
        /\ OwnSlots(r, T, I, m, txn) /\ Writer(r, T, os.db, I, m)
        /\ \A i \in 1..r.joff : T[i].seed = txn
    BY DEF Ongoing, OwnIn
  <1>3. \A i \in 1..m : U[i] = T[i]
    BY <1>1, <1>2
  <1>4. T[r.jhdr] \in Slot
    BY <1>1, <1>2
  <1>5. U[r.jhdr].k = "hdr" /\ U[r.jhdr].val = r.nRec /\ U[r.jhdr].seed = T[r.jhdr].seed
        /\ U[r.jhdr].pg = T[r.jhdr].pg
    BY <1>4 DEF Slot
  <1>0. /\ U[m + 1].k = "hdr" /\ U[m + 1].val = r.nRec /\ U[m + 1].seed = T[m + 1].seed
        /\ U[m + 1].pg = T[m + 1].pg /\ T[m + 1].k = "zero" /\ m + 1 + r.nRec = r.joff
        /\ \A i \in 1..Len(T) : i # m + 1 => U[i] = T[i]
    BY <1>1, <1>5
  <1>6. \A i \in 1..Len(U) : U[i].seed = T[i].seed
    BY <1>1, <1>2, <1>5
  <1>7. \A i \in (m + 2)..r.joff : U[i] = T[i] /\ RecordOf(U[i], I) /\ i \in 1..Len(T)
    BY <1>1, <1>2 DEF OwnSlots
  <1>8. Chain(U, r.joff, I)
    <2>1. U[1].k = "hdr" /\ U[1].pg = SizeOf(I)
      <3>1. T[1].pg = SizeOf(I)
        BY <1>2 DEF OwnSlots
      <3>2. CASE m = 0
        <4>1. m + 1 = 1
          BY <3>2
        <4> QED  BY <1>0, <3>1, <4>1
      <3>3. CASE m # 0
        BY <1>1, <1>3, <3>1, <3>3 DEF Chain
      <3> QED  BY <3>2, <3>3
    <2>2. ASSUME NEW i \in 1..r.joff PROVE U[i].k = "hdr" \/ RecordOf(U[i], I)
      <3>1. CASE i \in 1..m
        BY <1>3, <3>1, <1>1 DEF Chain
      <3>2. CASE i = m + 1
        BY <1>1, <1>5, <3>2
      <3>3. CASE i \in (m + 2)..r.joff
        BY <1>7, <3>3
      <3> QED  BY <1>1, <3>1, <3>2, <3>3
    <2>3. \A i \in 1..r.joff : U[i].seed = U[1].seed
      BY <1>1, <1>2, <1>6
    <2>4. ASSUME NEW h \in 1..r.joff, U[h].k = "hdr"
          PROVE  /\ U[h].val \in 0..(r.joff - h)
                 /\ \A i \in (h + 1)..(h + U[h].val) : U[i].k = "rec"
                 /\ h + U[h].val < r.joff => U[h + U[h].val + 1].k = "hdr"
      <3>1. CASE h \in 1..m
        <4>1. /\ U[h] = T[h] /\ T[h].val \in 0..(m - h)
              /\ \A i \in (h + 1)..(h + T[h].val) : T[i].k = "rec"
              /\ h + T[h].val < m => T[h + T[h].val + 1].k = "hdr"
          BY <1>1, <1>3, <2>4, <3>1 DEF Chain
        <4> DEFINE v == T[h].val
        <4>2. v \in Nat /\ h + v <= m /\ h \in Nat /\ U[h].val = v
          BY <1>1, <3>1, <4>1
        <4> HIDE DEF v
        <4>3. ASSUME NEW i \in (h + 1)..(h + v) PROVE U[i].k = "rec"
          <5>1. T[i].k = "rec"
            BY <4>1 DEF v
          <5>2. i \in 1..m
            BY <1>1, <4>2
          <5> QED  BY <1>3, <5>1, <5>2
        <4>4. ASSUME h + v < r.joff PROVE U[h + v + 1].k = "hdr"
          <5>1. CASE h + v = m
            BY <1>0, <5>1
          <5>2. CASE h + v < m
            <6>1. T[h + v + 1].k = "hdr" /\ h + v + 1 \in 1..m
              BY <1>1, <4>1, <4>2, <5>2 DEF v
            <6> QED  BY <1>3, <6>1
          <5>3. h + v \in Nat /\ m \in Nat /\ h + v <= m
            BY <1>1, <4>2
          <5> QED  BY <5>1, <5>2, <5>3
        <4> QED  BY <1>1, <4>2, <4>3, <4>4
      <3>2. CASE h = m + 1
        <4>1. U[h].val = r.nRec /\ h + r.nRec = r.joff /\ h \in Nat /\ r.nRec \in Nat
          BY <1>0, <1>1, <1>2, <3>2
        <4>2. r.nRec \in 0..(r.joff - h) /\ ~(h + r.nRec < r.joff)
          BY <1>1, <4>1
        <4>3. \A i \in (h + 1)..r.joff : U[i].k = "rec"
          BY <1>1, <1>7, <3>2 DEF RecordOf
        <4> QED  BY <4>1, <4>2, <4>3
      <3>3. CASE h \in (m + 2)..r.joff
        BY <1>7, <2>4, <3>3 DEF RecordOf
      <3> QED  BY <1>1, <3>1, <3>2, <3>3
    <2> QED  BY <1>1, <2>1, <2>2, <2>3, <2>4 DEF Chain
  <1>9. Headless(U, r.joff)
    BY <1>1, <1>2 DEF Headless
  <1>10. NextSealed(T, U, m, I)
    <2>1. SealEnd(U, m) = r.joff
      BY <1>1, <1>2, <1>5 DEF SealEnd
    <2> QED  BY <1>1, <1>5, <1>7, <1>8, <1>9, <2>1 DEF NextSealed
  <1> DEFINE q == [r EXCEPT !.pc = "jsync2"]
  <1>11. SameView(r, q) /\ SameJournal(r, q) /\ q.pc = "jsync2" /\ q.spill = r.spill
    BY <1>2 DEF SameView, SameJournal, PagerRecord
  <1>12. \A p \in Page : /\ Recorded(U, r.joff, p) <=> Recorded(T, r.joff, p)
                         /\ Recorded(U, m, p) <=> Recorded(T, m, p)
    <2>1. \A i \in 1..r.joff : U[i].k = "rec" \/ T[i].k = "rec" => U[i] = T[i]
      BY <1>0, <1>1
    <2> QED  BY <1>1, <2>1 DEF Recorded
  <1> SUFFICES OwnSlots(q, U, I, m, txn) /\ Writer(q, U, os.db, I, m)
    BY <1>1, <1>3, <1>6, <1>10 DEF Counted
  <1> HIDE DEF q
  <1>13. OwnSlots(q, U, I, m, txn)
    <2>1. InProgress(q, U)
      <3>1. q.jhdr = m + 1 /\ q.joff = r.joff /\ q.last = m + 1 /\ m + 1 <= r.joff
        BY <1>1, <1>11 DEF SameJournal
      <3>2. U[q.jhdr].k = "hdr" /\ U[q.jhdr].val = q.joff - q.jhdr
        BY <1>0, <1>1, <1>2, <3>1
      <3> QED  BY <1>1, <1>11, <3>1, <3>2 DEF InProgress
    <2>2. U[1].pg = T[1].pg
      <3>1. 1 \in 1..Len(T)
        BY <1>1
      <3> QED  BY <1>0, <3>1
    <2>3. \A i \in (r.jhdr + 1)..r.joff : RecordOf(U[i], I)
      BY <1>1, <1>7
    <2>4. \A i \in (r.joff + 1)..Len(U) : U[i].seed < txn
      BY <1>1, <1>2 DEF OwnSlots
    <2>5. q.eState = "CACHEMOD" <=> m = 0
      BY <1>2, <1>11 DEF OwnSlots, SameView
    <2> QED  BY <1>2, <1>11, <1>12, <2>1, <2>2, <2>3, <2>4, <2>5 DEF OwnSlots, SameView, SameJournal
  <1>14. Writer(q, U, os.db, I, m)
    <2>1. BeforeCounter(r) <=> BeforeCounter(q)
      BY <1>11 DEF BeforeCounter
    <2>2. Writer(q, T, os.db, I, m)
      BY <1>2, <1>11, <2>1, SameWriter
    <2>3. q.eState = "DBMOD" => \A p \in q.inJournal \ q.needSync : Recorded(U, m, p)
      BY <1>2, <1>11, <1>12, <2>2 DEF Writer, SameView, PagerRecord
    <2> QED  BY <2>2, <2>3 DEF Writer
  <1> QED  BY <1>13, <1>14

LEMMA JournalCountRecovery ==
  ASSUME Shape, AllNamed, AllOwn, Recovery, NEW c \in Conn, JournalCount(c)
  PROVE  Stays(c)
  <1>1. PICK I, J, m : Recovers(I, J, m)
    BY DEF Recovery
  <1> DEFINE r == conn[c]
             T == os.file[r.jfd]
             s == [T[r.jhdr] EXCEPT !.k = "hdr", !.val = r.nRec]
             U == [T EXCEPT ![r.jhdr] = s]
             q == [r EXCEPT !.pc = "jsync2"]
  <1>2. /\ r \in PagerRecord /\ r.pc = "jnrec" /\ lock' = lock /\ txn' = txn /\ disk' = disk
        /\ Control(r, lock[c]) /\ Facts(r, lock[c], I, m, os, disk, txn)
    BY <1>1, Own DEF JournalCount, At, Recovers
  <1>3. lock[c] = 4 /\ Changing(r)
    BY <1>2 DEF Control, Changing
  <1>4. Ongoing(r, T, I, J, m)
    BY <1>1, <1>2, <1>3, OngoingProperty
  <1>5. disk.file[r.jfd] = T
    BY <1>2 DEF Facts, Txn
  <1>6. /\ os' \in FileSystem /\ os'.db = os.db /\ os'.dir = os.dir
        /\ os'.file = [os.file EXCEPT ![r.jfd] = U] /\ conn' = [conn EXCEPT ![c] = q]
        /\ U \in Seq(Slot) /\ Len(U) = Len(T) /\ r.jfd \in Inode
    BY JournalCountEffect DEF Journal
  <1>7. U[r.jhdr] = s /\ \A i \in 1..Len(T) : i # r.jhdr => U[i] = T[i]
    <2>1. r.jhdr \in 1..Len(T) /\ T \in Seq(Slot)
      <3>1. r.jhdr = m + 1 /\ m \in Nat /\ r.joff \in Nat /\ r.jhdr <= r.joff /\ r.joff <= Len(T)
        <4> HIDE DEF T, r
        <4> QED  BY <1>2, <1>4, OpenEnd DEF Appending
      <3>2. T \in Seq(Slot)
        BY <1>4 DEF Ongoing
      <3> QED  BY <3>1, <3>2
    <2> HIDE DEF T, s
    <2> QED  BY <2>1
  <1>8. /\ m <= Len(U) /\ \A i \in 1..m : U[i] = T[i]
        /\ NextSealed(T, U, m, I) /\ \A i \in 1..Len(U) : U[i].seed = T[i].seed
        /\ OwnSlots(q, U, I, m, txn) /\ Writer(q, U, os.db, I, m)
    <2>1. U[r.jhdr] = [T[r.jhdr] EXCEPT !.k = "hdr", !.val = r.nRec]
      BY <1>7
    <2>2. Counted(r, T, U, I, m)
      <3> HIDE DEF T, r, U, s
      <3> QED  BY <1>2, <1>4, <1>5, <1>6, <1>7, <2>1, CountedSlots
    <2> HIDE DEF T, r, U, s
    <2> QED  BY <2>2 DEF Counted
  <1>9. /\ SameView(r, q) /\ q.pc = "jsync2" /\ q.eState = r.eState /\ q.jfd = r.jfd /\ ~q.hot
    BY <1>2, <1>4 DEF SameView, PagerRecord, Ongoing
  <1>10. os'.file[q.jfd] = U
    BY <1>6, <1>9, Stored DEF Files
  <1> HIDE DEF q
  <1>11. Global(I, J, m, os', disk', txn')
    <2>1. disk.dir = os.dir
      BY <1>2, <1>3, <1>4 DEF AllNamed, Named, Changing, Ongoing
    <2>2. \A i \in 1..Len(U) : U[i].seed <= txn
      <3>1. Seeds(os.file, txn)
        BY <1>4 DEF Ongoing, Global, Numbered
      <3>2. \A i \in 1..Len(T) : T[i].seed <= txn
        BY <1>6, <3>1 DEF Seeds
      <3> HIDE DEF T, U
      <3> QED  BY <1>6, <1>8, <3>2
    <2> DEFINE o1 == os'
    <2>3. /\ os \in FileSystem /\ disk \in Medium /\ txn \in Nat /\ Global(I, J, m, os, disk, txn)
          /\ os.dir # 0 /\ o1 \in FileSystem /\ U \in Seq(Slot) /\ o1.dir = os.dir
          /\ o1.db = os.db /\ o1.file = [os.file EXCEPT ![os.dir] = U] /\ m <= Len(U)
          /\ \A i \in 1..m : U[i] = os.file[os.dir][i]
          /\ NextSealed(disk.file[os.dir], U, m, I)
      BY <1>4, <1>5, <1>6, <1>8 DEF Ongoing
    <2> HIDE DEF U, o1
    <2>4. Global(I, J, m, o1, disk, txn)
      BY <2>1, <2>2, <2>3, JournalWritten
    <2> QED  BY <1>2, <2>4 DEF o1
  <1> HIDE DEF U
  <1>12. Txn(q, I, m, os', disk', txn')
    BY <1>2, <1>3, <1>6, <1>8, <1>9, <1>10 DEF Txn, Changing
  <1>13. Cached(q, I)
    BY <1>2, <1>9, SameCached DEF Facts
  <1>14. Facts(q, lock'[c], I, m, os', disk', txn')
    BY <1>2, <1>3, <1>9, <1>12, <1>13 DEF Facts, MayRead, Changing
  <1> QED  BY <1>1, <1>2, <1>3, <1>6, <1>11, <1>14, StaysFrame

(* The header is on the medium: its records count, and the pages may be    *)
(* written.  q goes on to write them, with a new header in U or not.       *)
LEMMA SealedSlots ==
  ASSUME NEW r, NEW T, NEW I, NEW J, NEW m, Ongoing(r, T, I, J, m), r.pc = "jsync2",
         NEW q, NEW U \in Seq(Slot), NEW n,
         q.pc = "wpage", q.eState = "DBMOD", q.needSync = {}, q.jhdr = n, n = r.joff + 1,
         q.cache = r.cache, q.dirty = r.dirty, q.vers = r.vers, q.held = r.held,
         q.dbSize = r.dbSize, q.orig = r.orig, q.inJournal = r.inJournal, q.spill = r.spill,
         \/ U = T /\ q.joff = r.joff /\ q.last = 0
         \/ /\ q.joff = n /\ q.last = n /\ U[n].k = "zero" /\ U[n].val = 0 /\ Len(U) >= Len(T)
            /\ Len(U) = Len(T) \/ Len(U) = n
            /\ \A i \in 1..Len(T) : i # n => U[i] = T[i]
  PROVE  OwnSlots(q, U, I, r.joff, txn) /\ Writer(q, U, os.db, I, r.joff)
  <1>1. /\ r.joff \in Nat /\ r.joff >= 1 /\ r.joff <= Len(T) /\ T \in Seq(Slot)
        /\ OwnSlots(r, T, I, m, txn) /\ Writer(r, T, os.db, I, m)
        /\ n \in Nat /\ n > r.joff
    BY DEF Ongoing
  <1>2. \A i \in 1..r.joff : U[i] = T[i]
    BY <1>1
  <1>3. \A p \in Page : /\ Recorded(U, q.joff, p) <=> Recorded(T, r.joff, p)
                        /\ Recorded(U, r.joff, p) <=> Recorded(T, r.joff, p)
    <2>1. \A i \in 1..q.joff : U[i].k = "rec" => i \in 1..r.joff
      BY <1>1
    <2>2. q.joff \in Nat /\ r.joff <= q.joff
      BY <1>1
    <2> QED  BY <1>1, <1>2, <2>1, <2>2 DEF Recorded
  <1>4. InProgress(q, U)
    BY <1>1 DEF InProgress
  <1>5. \A i \in (q.jhdr + 1)..q.joff : RecordOf(U[i], I)
    BY <1>1
  <1>6. \A i \in (q.joff + 1)..Len(U) : U[i].seed < txn
    <2>1. \A i \in (r.joff + 1)..Len(T) : T[i].seed < txn
      BY <1>1 DEF OwnSlots
    <2>2. CASE U = T /\ q.joff = r.joff
      BY <2>1, <2>2
    <2>3. CASE q.joff = n /\ (Len(U) = Len(T) \/ Len(U) = n) /\ \A i \in 1..Len(T) : i # n => U[i] = T[i]
      <3> SUFFICES ASSUME NEW i \in (n + 1)..Len(U) PROVE U[i].seed < txn
        BY <2>3
      <3>1. i \in (r.joff + 1)..Len(T) /\ i \in 1..Len(T) /\ i # n
        BY <1>1, <2>3
      <3> QED  BY <2>1, <2>3, <3>1
    <2> QED  BY <2>2, <2>3
  <1>7. U[1].pg = T[1].pg
    BY <1>1, <1>2
  <1>8. OwnSlots(q, U, I, r.joff, txn)
    BY <1>1, <1>3, <1>4, <1>5, <1>6, <1>7 DEF OwnSlots
  <1>9. Writer(q, U, os.db, I, r.joff)
    <2>1. \A p \in q.inJournal \ q.needSync : Recorded(U, r.joff, p)
      <3>1. \A p \in Page : p \in r.inJournal => Recorded(T, r.joff, p)
        BY <1>1 DEF OwnSlots
      <3>2. r.inJournal \subseteq Page
        BY DEF Ongoing, PagerRecord
      <3> QED  BY <1>3, <3>1, <3>2
    <2>2. BeforeCounter(r) <=> BeforeCounter(q)
      BY DEF BeforeCounter
    <2>3. Counter(q, I)
      BY <1>1, <2>2 DEF Writer, Counter
    <2> QED  BY <1>1, <2>1, <2>3 DEF Writer
  <1> QED  BY <1>8, <1>9

(* Once complete, the last header covers the journal up to joff. *)
LEMMA CompleteEnd ==
  ASSUME NEW r, NEW T, NEW I, NEW J, NEW m, Ongoing(r, T, I, J, m), r.pc = "jsync2"
  PROVE  ~Headless(T, m) /\ SealEnd(T, m) = r.joff
  <1>1. /\ r.jhdr = m + 1 /\ r.jhdr + r.nRec = r.joff /\ InProgress(r, T)
        /\ r.joff \in Nat /\ r.jhdr \in Nat /\ r.nRec \in Nat /\ m \in Nat /\ r.joff <= Len(T)
    BY DEF Ongoing, OwnIn, OwnSlots, Appending
  <1>2. m + 1 <= r.joff
    BY <1>1
  <1>3. T[m + 1].k = "hdr" /\ T[m + 1].val = r.joff - (m + 1)
    BY <1>1, <1>2 DEF InProgress
  <1>4. ~Headless(T, m)
    <2>1. m + 1 \in (m + 1)..Len(T)
      BY <1>1, <1>2 DEF Ongoing
    <2> QED  BY <1>3, <2>1 DEF Headless
  <1> QED  BY <1>1, <1>3, <1>4 DEF SealEnd

LEMMA JournalSync2Recovery ==
  ASSUME Shape, AllNamed, AllOwn, ~Aligned, Recovery, NEW c \in Conn, JournalSync2(c)
  PROVE  Syncs(c)
  <1>1. PICK I, J, m : Recovers(I, J, m)
    BY DEF Recovery
  <1> DEFINE r == conn[c]
             T == os.file[r.jfd]
             n == r.joff + 1
             V == NextHeader(T, r)
             k == r.joff
  <1>2. /\ r \in PagerRecord /\ r.pc = "jsync2" /\ lock' = lock /\ txn' = txn
        /\ Control(r, lock[c]) /\ Facts(r, lock[c], I, m, os, disk, txn)
    BY <1>1, Own DEF JournalSync2, At, Recovers
  <1>3. lock[c] = 4 /\ Changing(r)
    BY <1>2 DEF Control, Changing
  <1>4. Ongoing(r, T, I, J, m)
    BY <1>1, <1>2, <1>3, OngoingProperty
  <1>5. /\ r.jfd \in Inode /\ os.dir = r.jfd /\ r.jfd # 0 /\ os \in FileSystem /\ disk \in Medium
        /\ txn \in Nat /\ T \in Seq(Slot) /\ r.joff \in Nat /\ r.joff <= Len(T) /\ r.joff >= 1
        /\ Global(I, J, m, os, disk, txn) /\ r.seed = txn /\ ~r.hot
    BY <1>4 DEF Ongoing
  <1>6. /\ disk' \in Medium /\ disk'.db = disk.db /\ disk'.behind = disk.behind
        /\ disk'.dir \in {disk.dir, os.dir}
        /\ disk'.file = [disk.file EXCEPT ![r.jfd] = T]
        /\ V \in Seq(Slot)
        /\ os' \in FileSystem /\ os'.db = os.db /\ os'.dir = os.dir
        /\ \/ /\ r.spill = 0 /\ os' = os
              /\ conn' = [conn EXCEPT ![c] = [Sealed(r) EXCEPT !.last = 0]]
           \/ /\ r.spill # 0 /\ os'.file = [os.file EXCEPT ![r.jfd] = V]
              /\ conn' = [conn EXCEPT ![c] = [Sealed(r) EXCEPT !.last = n, !.joff = n, !.nRec = 0]]
    BY JournalSync2Effect DEF Journal
  <1>7. PICK L, e : e = k /\ (L = I \/ L = J) /\ Global(I, L, e, os, disk', txn)
    <2> DEFINE d1 == disk'
    <2>1. /\ d1 \in Medium
          /\ d1.db = disk.db /\ d1.behind = disk.behind /\ d1.dir \in {disk.dir, os.dir}
          /\ d1.file = [disk.file EXCEPT ![os.dir] = os.file[os.dir]]
      BY <1>5, <1>6
    <2> HIDE DEF d1
    <2>2. Synced(I, J, m, os, d1, txn)
      BY <1>5, <2>1, JournalSynced
    <2>3. ~Headless(T, m) /\ SealEnd(T, m) = r.joff
      <3> HIDE DEF T, r
      <3> QED  BY <1>2, <1>4, CompleteEnd
    <2>4. ~Headless(os.file[os.dir], m) /\ SealEnd(os.file[os.dir], m) = r.joff
      BY <1>5, <2>3
    <2> QED  BY <2>2, <2>4 DEF d1, Synced
  <1>8. NewHdr(r.orig, r.seed) \in Slot /\ NewHdr(r.orig, r.seed).k = "zero"
        /\ NewHdr(r.orig, r.seed).val = 0 /\ NewHdr(r.orig, r.seed).seed = txn
    BY <1>2, <1>5, SlotTypes DEF PagerRecord, NewHdr
  <1>9. /\ V[n] = NewHdr(r.orig, r.seed) /\ Len(V) = IF n > Len(T) THEN n ELSE Len(T)
        /\ \A i \in 1..Len(T) : i # n => V[i] = T[i]
    <2>1. n \in 1..(Len(T) + 1)
      BY <1>5
    <2> DEFINE s == NewHdr(r.orig, r.seed)
    <2>2. V = PutSlot(T, n, s) /\ s \in Slot /\ T \in Seq(Slot)
      BY <1>5, <1>8 DEF NextHeader
    <2> HIDE DEF T, n, s, V
    <2>3. /\ PutSlot(T, n, s)[n] = s
          /\ Len(PutSlot(T, n, s)) = IF n > Len(T) THEN n ELSE Len(T)
          /\ \A i \in 1..Len(T) : i # n => PutSlot(T, n, s)[i] = T[i]
      BY <2>1, <2>2, PutSlotProperty
    <2> QED  BY <2>2, <2>3 DEF s
  <1> HIDE DEF V
  <1>10. /\ V[n].k = "zero" /\ V[n].val = 0 /\ V[n].seed = txn
         /\ Len(V) >= Len(T) /\ (Len(V) = Len(T) \/ Len(V) = n) /\ n \in Nat
    BY <1>5, <1>8, <1>9
  <1>11. ASSUME NEW q, NEW U \in Seq(Slot),
                q.pc = "wpage", q.eState = "DBMOD", q.needSync = {}, q.jhdr = n,
                q.cache = r.cache, q.dirty = r.dirty, q.vers = r.vers, q.held = r.held,
                q.dbSize = r.dbSize, q.orig = r.orig, q.inJournal = r.inJournal,
                q.spill = r.spill, q.jfd = r.jfd, ~q.hot,
                conn' = [conn EXCEPT ![c] = q], os'.file[r.jfd] = U,
                \/ U = T /\ q.joff = r.joff /\ q.last = 0
                \/ q.joff = n /\ q.last = n /\ U = V,
                Global(I, L, e, os', disk', txn')
         PROVE  Syncs(c)
    <2>1. OwnSlots(q, U, I, r.joff, txn) /\ Writer(q, U, os.db, I, r.joff)
      <3>1. \/ U = T /\ q.joff = r.joff /\ q.last = 0
            \/ /\ q.joff = n /\ q.last = n /\ U[n].k = "zero" /\ U[n].val = 0 /\ Len(U) >= Len(T)
               /\ Len(U) = Len(T) \/ Len(U) = n
               /\ \A i \in 1..Len(T) : i # n => U[i] = T[i]
        BY <1>9, <1>10, <1>11
      <3>2. n = r.joff + 1
        OBVIOUS
      <3> HIDE DEF T, r, n
      <3> QED  BY <1>2, <1>4, <1>11, <3>1, <3>2, SealedSlots
    <2>2. Txn(q, I, e, os', disk', txn')
      BY <1>2, <1>6, <1>7, <1>11, <2>1 DEF Txn, Changing
    <2>3. Cached(q, I)
      BY <1>2, <1>11 DEF Facts, Cached, Sound, StaleCache, Reader
    <2>4. Facts(q, lock'[c], I, e, os', disk', txn')
      BY <1>2, <1>3, <1>11, <2>2, <2>3 DEF Facts, MayRead
    <2> QED  BY <1>1, <1>2, <1>3, <1>7, <1>11, <2>4, SyncsFrame
  <1>12. CASE /\ r.spill = 0 /\ os' = os
              /\ conn' = [conn EXCEPT ![c] = [Sealed(r) EXCEPT !.last = 0]]
    <2> DEFINE q == [Sealed(r) EXCEPT !.last = 0]
    <2>1. /\ q.pc = "wpage" /\ q.eState = "DBMOD" /\ q.needSync = {} /\ q.jhdr = n
          /\ q.cache = r.cache /\ q.dirty = r.dirty /\ q.vers = r.vers /\ q.held = r.held
          /\ q.dbSize = r.dbSize /\ q.orig = r.orig /\ q.inJournal = r.inJournal
          /\ q.spill = r.spill /\ q.jfd = r.jfd /\ ~q.hot /\ q.joff = r.joff /\ q.last = 0
      BY <1>2, <1>5 DEF Sealed, PagerRecord
    <2>2. Global(I, L, e, os', disk', txn')
      BY <1>2, <1>7, <1>12
    <2>3. os'.file[r.jfd] = T
      BY <1>12
    <2> HIDE DEF q, T, n, r
    <2> QED  BY <1>5, <1>11, <1>12, <2>1, <2>2, <2>3 DEF q
  <1>13. CASE /\ r.spill # 0 /\ os'.file = [os.file EXCEPT ![r.jfd] = V]
              /\ conn' = [conn EXCEPT ![c] = [Sealed(r) EXCEPT !.last = n, !.joff = n, !.nRec = 0]]
    <2> DEFINE q == [Sealed(r) EXCEPT !.last = n, !.joff = n, !.nRec = 0]
    <2>1. /\ q.pc = "wpage" /\ q.eState = "DBMOD" /\ q.needSync = {} /\ q.jhdr = n
          /\ q.cache = r.cache /\ q.dirty = r.dirty /\ q.vers = r.vers /\ q.held = r.held
          /\ q.dbSize = r.dbSize /\ q.orig = r.orig /\ q.inJournal = r.inJournal
          /\ q.spill = r.spill /\ q.jfd = r.jfd /\ ~q.hot /\ q.joff = n /\ q.last = n
      BY <1>2, <1>5 DEF Sealed, PagerRecord
    <2>2. os'.file[r.jfd] = V
      BY <1>5, <1>13, Stored DEF Files
    <2>3. Global(I, L, e, os', disk', txn')
      <3>1. Parts(I, L, e, os, disk', txn)
        BY <1>5, <1>6, <1>7, GlobalParts
      <3>2. disk'.file[os.dir] = T
        BY <1>5, <1>6, Stored DEF Medium, Files
      <3>3. Headless(T, e)
        BY <3>1, <3>2 DEF Parts, Leads, Pair
      <3>4. Headless(V, e)
        <4> HIDE DEF T
        <4> QED  BY <1>5, <1>7, <1>9, <1>10, <3>3 DEF Headless
      <3>5. e <= Len(V) /\ \A i \in 1..e : V[i] = os.file[os.dir][i]
        <4>1. T = os.file[os.dir]
          BY <1>5
        <4> HIDE DEF T
        <4> QED  BY <1>5, <1>7, <1>9, <1>10, <4>1
      <3>6. \A i \in 1..Len(V) : V[i].seed <= txn
        <4>1. \A i \in 1..Len(T) : T[i].seed <= txn
          BY <1>5 DEF Global, Numbered, Seeds
        <4> HIDE DEF T
        <4> QED  BY <1>5, <1>9, <1>10, <4>1
      <3> DEFINE o1 == os'
                 d1 == disk'
      <3>7. /\ o1 \in FileSystem /\ d1 \in Medium /\ o1.dir = os.dir /\ o1.db = os.db
            /\ o1.file = [os.file EXCEPT ![os.dir] = V] /\ Global(I, L, e, os, d1, txn)
        BY <1>5, <1>6, <1>7, <1>13
      <3> HIDE DEF o1, d1
      <3>8. Global(I, L, e, o1, d1, txn)
        BY <1>5, <1>6, <3>4, <3>5, <3>6, <3>7, JournalWritten
      <3> QED  BY <1>2, <3>8 DEF o1, d1
    <2> HIDE DEF q, T, n, r
    <2> QED  BY <1>6, <1>11, <1>13, <2>1, <2>2, <2>3 DEF q
  <1> QED  BY <1>6, <1>12, <1>13

(* A page is written only when the journal has what was there before. *)
LEMMA DirtyCovered ==
  ASSUME NEW r, NEW T, NEW I, NEW J, NEW m, Ongoing(r, T, I, J, m), r.eState = "DBMOD",
         NEW p \in Page, p \in r.dirty, p \notin r.needSync
  PROVE  Covered(T, m, I, p) /\ m > 0 /\ p <= r.dbSize
  <1>1. /\ OwnSlots(r, T, I, m, txn) /\ Writer(r, T, os.db, I, m) /\ Cached(r, I)
        /\ m \in Nat /\ I \in Image /\ r \in PagerRecord
    BY DEF Ongoing
  <1>2. m > 0 /\ r.orig = SizeOf(I) /\ r.orig \in Nat /\ p \in Nat /\ r.dbSize \in Nat
        /\ r.dbSize >= r.orig
    BY <1>1, PagerAssumption DEF OwnSlots, PagerRecord, Page, Writer
  <1>3. CASE p > r.orig
    <2>1. r.cache[p] # Absent
      BY <1>1 DEF Cached, Sound
    <2>2. p <= r.dbSize
      BY <1>1, <1>3, <2>1 DEF Writer
    <2> QED  BY <1>2, <1>3, <2>2 DEF Covered
  <1>4. CASE p <= r.orig
    <2>1. Recorded(T, m, p)
      BY <1>1, <1>4 DEF Writer
    <2> QED  BY <1>2, <1>4, <2>1 DEF Covered
  <1> QED  BY <1>2, <1>3, <1>4

LEMMA PageWritten ==
  ASSUME NEW r, NEW T, NEW I, NEW J, NEW m, Ongoing(r, T, I, J, m), r.eState = "DBMOD",
         r.pc = "wpage", NEW p \in Page, p \in r.dirty, p \notin r.needSync,
         r.spill # 0 => p = r.spill,
         NEW q, q.dirty = r.dirty \ {p}, q.spill = 0,
         q.vers = (IF p = 1 THEN r.cache[1] ELSE r.vers),
         q.pc \in {"idle", "wpage", "dbsync"}, r.spill # 0 <=> q.pc = "idle",
         q.pc = "dbsync" => r.dirty = {p},
         q.cache = r.cache, q.needSync = r.needSync, q.held = r.held, q.eState = r.eState,
         q.dbSize = r.dbSize, q.orig = r.orig, q.inJournal = r.inJournal, SameJournal(r, q),
         NEW db, db = [os.db EXCEPT ![p] = r.cache[p]]
  PROVE  OwnSlots(q, T, I, m, txn) /\ Writer(q, T, db, I, m) /\ Cached(q, I)
  <1>1. /\ OwnSlots(r, T, I, m, txn) /\ Writer(r, T, os.db, I, m) /\ Cached(r, I)
        /\ r \in PagerRecord /\ os.db \in Pages
    BY DEF Ongoing, FileSystem
  <1>2. \A x \in Page : db[x] = IF x = p THEN r.cache[p] ELSE os.db[x]
    BY <1>1 DEF Pages
  <1>3. OwnSlots(q, T, I, m, txn)
    <2>1. InProgress(q, T)
      BY <1>1 DEF OwnSlots, InProgress, SameJournal
    <2>2. q.jhdr = r.jhdr /\ q.joff = r.joff
      BY DEF SameJournal
    <2> QED  BY <1>1, <2>1, <2>2 DEF OwnSlots
  <1>4. Cached(q, I)
    BY <1>1 DEF Cached, Sound, StaleCache, Reader
  <1>5. Counter(q, I)
    <2>1. Counter(r, I)
      BY <1>1 DEF Writer
    <2>2. CASE r.spill # 0
      <3>1. BeforeCounter(r) /\ BeforeCounter(q)
        BY <2>2 DEF BeforeCounter
      <3>2. p # 1
        BY <2>1, <3>1 DEF Counter
      <3> QED  BY <2>1, <3>1, <3>2 DEF Counter
    <2>3. CASE r.spill = 0
      <3>1. ~BeforeCounter(r) /\ ~BeforeCounter(q)
        BY <2>3 DEF BeforeCounter
      <3> QED  BY <2>1, <3>1 DEF Counter
    <2> QED  BY <2>2, <2>3
  <1>6. \A x \in Page \ q.dirty : q.cache[x] \in {Absent, db[x]}
    BY <1>1, <1>2 DEF Writer
  <1>7. \A x \in Page : x > q.dbSize => db[x] = Absent
    <2>1. p <= r.dbSize /\ p \in Nat /\ r.dbSize \in Nat
      BY <1>1, DirtyCovered, PagerAssumption DEF Page, PagerRecord
    <2> QED  BY <1>1, <1>2, <2>1 DEF Writer
  <1>8. \A x \in q.dirty : x <= q.orig => x \in q.inJournal
    BY <1>1 DEF Writer
  <1>9. Writer(q, T, db, I, m)
    BY <1>1, <1>5, <1>6, <1>7, <1>8 DEF Writer
  <1> QED  BY <1>3, <1>4, <1>9

LEMMA WritePageRecovery ==
  ASSUME Shape, AllNamed, AllOwn, Recovery, NEW c \in Conn, WritePage(c)
  PROVE  Stays(c)
  <1>1. PICK I, J, m : Recovers(I, J, m)
    BY DEF Recovery
  <1> DEFINE r == conn[c]
             T == os.file[r.jfd]
             p == Min(ToWrite(r))
             l == IF r.spill # 0 THEN "idle" ELSE IF ToWrite(r) = {p} THEN "dbsync" ELSE r.pc
             v == IF p = 1 THEN r.cache[1] ELSE r.vers
             D == r.dirty \ {p}
             q == [r EXCEPT !.dirty = D, !.spill = 0, !.vers = v, !.pc = l]
  <1>2. /\ r \in PagerRecord /\ r.pc = "wpage" /\ lock' = lock /\ txn' = txn
        /\ Control(r, lock[c]) /\ Changes(r) /\ Facts(r, lock[c], I, m, os, disk, txn)
    BY <1>1, Own DEF WritePage, At, Recovers
  <1>3. lock[c] = 4 /\ Changing(r) /\ r.eState = "DBMOD"
    BY <1>2 DEF Control, Changing
  <1>4. Ongoing(r, T, I, J, m)
    BY <1>1, <1>2, <1>3, OngoingProperty
  <1>5. /\ p \in Page /\ p \in r.dirty /\ (r.spill # 0 => p = r.spill)
        /\ \A x \in Int : [os EXCEPT !.db[p] = x] \in FileSystem
        /\ Behind({p}) \in Medium
    BY <1>2, WritePageEffect
  <1>6. p \notin r.needSync
    BY <1>2, <1>5 DEF Changes
  <1>7. l \in {"idle", "wpage", "dbsync"} /\ (r.spill # 0 <=> l = "idle") /\ (l = "dbsync" => r.dirty = {p})
    BY <1>2 DEF ToWrite
  <1>8. /\ os' = [os EXCEPT !.db[p] = r.cache[p]] /\ disk' = Behind({p})
        /\ conn' = [conn EXCEPT ![c] = q]
    BY DEF WritePage, Set
  <1>9. r.cache[p] \in Int /\ os \in FileSystem /\ disk \in Medium /\ txn \in Nat
        /\ os.dir = r.jfd /\ os.dir # 0
    BY <1>2, <1>4, <1>5, PagerAssumption DEF PagerRecord, Pages, Ongoing
  <1> HIDE DEF p, l, v, D
  <1>10. /\ os' \in FileSystem /\ os'.db = [os.db EXCEPT ![p] = r.cache[p]]
         /\ os'.file = os.file /\ os'.dir = os.dir
         /\ disk' \in Medium /\ disk'.behind = disk.behind \cup {p}
         /\ disk'.db = disk.db /\ disk'.dir = disk.dir /\ disk'.file = disk.file
    BY <1>5, <1>8, <1>9 DEF FileSystem, Medium, Behind
  <1>11. /\ q.dirty = r.dirty \ {p} /\ q.spill = 0 /\ q.pc = l
         /\ q.vers = (IF p = 1 THEN r.cache[1] ELSE r.vers)
         /\ q.cache = r.cache /\ q.needSync = r.needSync /\ q.held = r.held
         /\ q.eState = r.eState /\ q.dbSize = r.dbSize /\ q.orig = r.orig
         /\ q.inJournal = r.inJournal /\ SameJournal(r, q) /\ q.jfd = r.jfd /\ ~q.hot
    BY <1>2, <1>4 DEF PagerRecord, SameJournal, D, v, Ongoing
  <1> HIDE DEF q
  <1>12. OwnSlots(q, T, I, m, txn) /\ Writer(q, T, os'.db, I, m) /\ Cached(q, I)
    <2> DEFINE db == os'.db
    <2>1. db = [os.db EXCEPT ![p] = r.cache[p]]
      BY <1>10
    <2> HIDE DEF T, r, db
    <2>2. OwnSlots(q, T, I, m, txn) /\ Writer(q, T, db, I, m) /\ Cached(q, I)
      BY <1>2, <1>3, <1>4, <1>5, <1>6, <1>7, <1>11, <2>1, PageWritten
    <2> QED  BY <2>2 DEF db
  <1>13. Covered(T, m, I, p) /\ m > 0
    <2> HIDE DEF T, r
    <2> QED  BY <1>3, <1>4, <1>5, <1>6, DirtyCovered
  <1>14. Global(I, J, m, os', disk', txn')
    <2> DEFINE o1 == os'
               d1 == disk'
    <2>1. /\ o1 \in FileSystem /\ d1 \in Medium /\ o1.dir = os.dir /\ o1.file = os.file
          /\ d1.dir = disk.dir /\ d1.file = disk.file /\ d1.db = disk.db /\ m > 0
          /\ Global(I, J, m, os, disk, txn)
      BY <1>4, <1>10, <1>13 DEF Ongoing
    <2>2. \A x \in Page :
            \/ o1.db[x] = os.db[x] /\ (x \in d1.behind <=> x \in disk.behind)
            \/ Covered(os.file[os.dir], m, I, x) /\ x \in d1.behind
      BY <1>9, <1>10, <1>13, Stored DEF Pages
    <2> HIDE DEF o1, d1
    <2>3. Global(I, J, m, o1, d1, txn)
      BY <1>9, <2>1, <2>2, PagesWritten
    <2> QED  BY <1>2, <2>3 DEF o1, d1
  <1>15. Txn(q, I, m, os', disk', txn')
    BY <1>2, <1>3, <1>7, <1>10, <1>11, <1>12 DEF Txn, Changing
  <1>16. Facts(q, lock'[c], I, m, os', disk', txn')
    BY <1>2, <1>3, <1>7, <1>11, <1>12, <1>15 DEF Facts, MayRead
  <1> QED  BY <1>1, <1>2, <1>3, <1>8, <1>14, <1>16, StaysFrame

-----------------------------------------------------------------------------
(* Changing a page: what it was goes to the end of the journal first. *)

Appended(q, T, U, I, m, n) ==
  /\ U \in Seq(Slot) /\ OwnSlots(q, U, I, m, n)
  /\ m <= Len(U) /\ \A i \in 1..m : U[i] = T[i]
  /\ Headless(U, m)
  /\ (\A i \in 1..Len(T) : T[i].seed <= n) => (\A i \in 1..Len(U) : U[i].seed <= n)
  /\ \A x \in Page : Recorded(U, m, x) <=> Recorded(T, m, x)
  /\ \A x \in q.dirty : x <= q.orig => x \in q.inJournal

LEMMA AppendedSlots ==
  ASSUME NEW r \in PagerRecord, NEW T \in Seq(Slot), NEW I \in Image, NEW m \in Nat, NEW n \in Nat,
         OwnSlots(r, T, I, m, n), r.joff <= Len(T), r.jhdr <= r.joff, r.seed = n,
         T[r.jhdr].k = "zero", T[r.jhdr].val = 0, Headless(T, m),
         \A x \in r.dirty : x <= r.orig => x \in r.inJournal,
         NEW p \in Page, MustJournal(r, p) => r.cache[p] # Absent,
         NEW q, q.pc # "jsync2", q.jhdr = r.jhdr, q.last = r.last, q.eState = r.eState,
         q.held = r.held, q.orig = r.orig, q.dirty = r.dirty \cup {p},
         q.joff = Journaled(r, p).joff, q.inJournal = Journaled(r, p).inJournal,
         \A x \in Page : x # p => q.cache[x] = r.cache[x], q.cache[p] # Absent
  PROVE  Appended(q, T, JournalPage(T, r, p), I, m, n)
  <1> DEFINE U == JournalPage(T, r, p)
  <1>1. /\ U \in Seq(Slot) /\ Len(U) >= Len(T)
        /\ \A i \in 1..r.joff : U[i] = T[i]
        /\ MustJournal(r, p) =>
             /\ U[r.joff + 1] = Record(p, r.cache[p], r.seed)
             /\ Len(U) = IF r.joff + 1 > Len(T) THEN r.joff + 1 ELSE Len(T)
             /\ \A i \in 1..Len(T) : i # r.joff + 1 => U[i] = T[i]
        /\ ~MustJournal(r, p) => U = T
    BY JournalPageShape
  <1>2. /\ q.joff = IF MustJournal(r, p) THEN r.joff + 1 ELSE r.joff
        /\ q.inJournal = IF MustJournal(r, p) THEN r.inJournal \cup {p} ELSE r.inJournal
    BY JournaledShape
  <1>3. /\ r.joff \in Nat /\ r.jhdr \in Nat /\ r.orig \in Nat /\ p \in Nat /\ r.jhdr = m + 1
        /\ m < r.joff /\ r.orig = SizeOf(I) /\ r.inJournal \in SUBSET Page /\ q.joff \in Nat
    <2>1. r.joff \in Nat /\ r.jhdr \in Nat /\ r.orig \in Nat /\ r.inJournal \in SUBSET Page
      BY DEF PagerRecord
    <2>2. r.jhdr = m + 1 /\ r.orig = SizeOf(I)
      BY DEF OwnSlots
    <2>3. p \in Nat
      BY PagerAssumption DEF Page
    <2>4. m < r.joff
      BY <2>1, <2>2
    <2>5. q.joff \in Nat
      BY <1>2, <2>1
    <2> QED  BY <2>1, <2>2, <2>3, <2>4, <2>5
  <1> HIDE DEF U
  <1>4. \A i \in 1..Len(U) : U[i] = T[i] \/ (MustJournal(r, p) /\ i = r.joff + 1)
    BY <1>1, <1>3
  <1>5. MustJournal(r, p) => /\ U[r.joff + 1].k = "rec" /\ U[r.joff + 1].pg = p
                             /\ U[r.joff + 1].seed = n /\ RecordOf(U[r.joff + 1], I)
    <2> SUFFICES ASSUME MustJournal(r, p)
                 PROVE  /\ U[r.joff + 1].k = "rec" /\ U[r.joff + 1].pg = p
                        /\ U[r.joff + 1].seed = n /\ RecordOf(U[r.joff + 1], I)
      OBVIOUS
    <2>1. U[r.joff + 1] = Record(p, r.cache[p], r.seed)
      BY <1>1
    <2>2. r.cache[p] = I[p] /\ p <= SizeOf(I)
      BY <1>3 DEF MustJournal, OwnSlots
    <2> QED  BY <2>1, <2>2 DEF Record, RecordOf
  <1>6. m <= Len(U) /\ \A i \in 1..m : U[i] = T[i]
    <2>1. Len(U) \in Nat /\ Len(T) \in Nat
      BY <1>1
    <2>2. m <= Len(U)
      BY <1>1, <1>3, <2>1
    <2>3. \A i \in 1..m : i \in 1..r.joff
      BY <1>3
    <2> QED  BY <1>1, <2>2, <2>3
  <1>7. Headless(U, m)
    <2> SUFFICES ASSUME NEW i \in (m + 1)..Len(U) PROVE U[i].k # "hdr"
      BY DEF Headless
    <2>1. i \in 1..Len(U)
      BY <1>1, <1>3
    <2>2. CASE MustJournal(r, p) /\ i = r.joff + 1
      BY <1>5, <2>2
    <2>3. CASE ~(MustJournal(r, p) /\ i = r.joff + 1)
      <3>1. U[i] = T[i] /\ i <= Len(T)
        BY <1>1, <1>3, <1>4, <2>1, <2>3
      <3> QED  BY <1>3, <3>1 DEF Headless
    <2> QED  BY <2>2, <2>3
  <1>8. ASSUME \A i \in 1..Len(T) : T[i].seed <= n PROVE \A i \in 1..Len(U) : U[i].seed <= n
    <2> SUFFICES ASSUME NEW i \in 1..Len(U) PROVE U[i].seed <= n
      OBVIOUS
    <2>2. CASE MustJournal(r, p) /\ i = r.joff + 1
      BY <1>5, <2>2
    <2>3. CASE ~(MustJournal(r, p) /\ i = r.joff + 1)
      <3>1. U[i] = T[i] /\ i \in 1..Len(T)
        BY <1>1, <1>3, <1>4, <2>3
      <3> QED  BY <1>8, <3>1
    <2> QED  BY <2>2, <2>3
  <1>9. \A x \in Page : Recorded(U, m, x) <=> Recorded(T, m, x)
    BY <1>6 DEF Recorded
  <1>10. \A x \in q.dirty : x <= q.orig => x \in q.inJournal
    BY <1>2, <1>3 DEF MustJournal
  <1>11. OwnSlots(q, U, I, m, n)
    <2>1. InProgress(q, U)
      <3>1. U[r.jhdr] = T[r.jhdr] /\ r.last = r.jhdr
        BY <1>1, <1>3 DEF OwnSlots, InProgress
      <3>2. q.jhdr <= q.joff /\ q.last = q.jhdr
        BY <1>2, <1>3, <3>1
      <3> QED  BY <3>1, <3>2, <1>3 DEF InProgress
    <2>2. U[1].pg = T[1].pg
      BY <1>1, <1>3
    <2>3. ASSUME NEW i \in (q.jhdr + 1)..q.joff PROVE RecordOf(U[i], I)
      <3>1. CASE i \in (r.jhdr + 1)..r.joff
        BY <1>1, <1>3, <3>1 DEF OwnSlots
      <3>2. CASE ~(i \in (r.jhdr + 1)..r.joff)
        <4>1. MustJournal(r, p) /\ i = r.joff + 1
          BY <1>2, <1>3, <3>2
        <4> QED  BY <1>5, <4>1
      <3> QED  BY <3>1, <3>2
    <2>4. ASSUME NEW i \in (q.joff + 1)..Len(U) PROVE U[i].seed < n
      <3>1. U[i] = T[i] /\ i \in (r.joff + 1)..Len(T)
        BY <1>1, <1>2, <1>3, <1>4
      <3> QED  BY <3>1 DEF OwnSlots
    <2>5. ASSUME NEW x \in Page PROVE x \in q.inJournal <=> Recorded(U, q.joff, x)
      <3>1. x \in r.inJournal <=> Recorded(T, r.joff, x)
        BY DEF OwnSlots
      <3>2. CASE ~MustJournal(r, p)
        BY <1>1, <1>2, <3>1, <3>2
      <3>3. CASE MustJournal(r, p)
        <4>1. Recorded(U, r.joff, x) <=> Recorded(T, r.joff, x)
          BY <1>1 DEF Recorded
        <4>2. Recorded(U, r.joff + 1, x) <=> Recorded(U, r.joff, x) \/ x = p
          <5>1. U[r.joff + 1].k = "rec" /\ U[r.joff + 1].pg = p
            BY <1>5, <3>3
          <5>2. \A i : i \in 1..(r.joff + 1) <=> i \in 1..r.joff \/ i = r.joff + 1
            <6>1. r.joff \in Nat
              BY <1>3
            <6> QED  BY <6>1
          <5> QED  BY <5>1, <5>2 DEF Recorded
        <4> QED  BY <1>2, <3>1, <3>3, <4>1, <4>2
      <3> QED  BY <3>2, <3>3
    <2>6. ASSUME NEW x \in Page, x <= q.orig, x \notin q.inJournal PROVE q.cache[x] \in {Absent, I[x]}
      <3>1. x # p /\ x \notin r.inJournal
        BY <1>2, <2>6 DEF MustJournal
      <3> QED  BY <2>6, <3>1 DEF OwnSlots
    <2>7. ASSUME NEW x \in q.inJournal PROVE q.cache[x] # Absent
      <3>1. CASE x = p
        BY <3>1
      <3>2. CASE x # p
        <4>1. x \in r.inJournal /\ x \in Page
          BY <1>2, <1>3, <3>2
        <4> QED  BY <3>2, <4>1 DEF OwnSlots
      <3> QED  BY <3>1, <3>2
    <2>8. q.cache[1] # Absent
      <3>1. 1 \in Page
        BY ImageProperty
      <3> QED  BY <3>1 DEF OwnSlots
    <2> QED  BY <2>1, <2>2, <2>3, <2>4, <2>5, <2>6, <2>7, <2>8 DEF OwnSlots
  <1> QED  BY <1>1, <1>6, <1>7, <1>8, <1>9, <1>10, <1>11 DEF Appended, U

Wrote(q, T, U, db, I, m, n) ==
  Appended(q, T, U, I, m, n) /\ Writer(q, U, db, I, m) /\ Cached(q, I)

LEMMA WrittenTxn ==
  ASSUME NEW r \in PagerRecord, NEW T \in Seq(Slot), NEW I \in Image, NEW m \in Nat, NEW n \in Nat,
         n <= MaxTxn, NEW db, OwnSlots(r, T, I, m, n), Writer(r, T, db, I, m), Sound(r),
         r.joff <= Len(T), r.jhdr <= r.joff, r.seed = n,
         T[r.jhdr].k = "zero", T[r.jhdr].val = 0, Headless(T, m),
         r.pc = "idle", Changing(r), NEW p \in Page, p # 1, p \notin r.dirty,
         p = r.dbSize + 1 \/ r.cache[p] # Absent
  PROVE  Wrote(Written(r, p), T, JournalPage(T, r, p), db, I, m, n)
  <1> DEFINE q == Written(r, p)
             j == Journaled(r, p)
             U == JournalPage(T, r, p)
  <1>1. /\ q \in PagerRecord
        /\ q.dirty = r.dirty \cup {p}
        /\ q.cache = [r.cache EXCEPT ![p] = r.seed]
        /\ q.needSync = IF p > r.orig /\ r.eState # "DBMOD" THEN j.needSync \cup {p}
                        ELSE j.needSync
        /\ q.dbSize = IF p > r.dbSize THEN p ELSE r.dbSize
        /\ q.joff = j.joff /\ q.nRec = j.nRec /\ q.inJournal = j.inJournal
        /\ q.pc = r.pc /\ q.eState = r.eState
        /\ q.jhdr = r.jhdr /\ q.last = r.last
        /\ q.orig = r.orig /\ q.vers = r.vers /\ q.held = r.held /\ q.spill = r.spill
    BY WrittenShape
  <1>2. /\ j.needSync = IF MustJournal(r, p) THEN r.needSync \cup {p} ELSE r.needSync
        /\ j.inJournal = IF MustJournal(r, p) THEN r.inJournal \cup {p} ELSE r.inJournal
    BY JournaledShape
  <1>3. /\ r.orig \in Nat /\ r.dbSize \in Nat /\ r.dbSize >= r.orig /\ r.dbSize <= MaxPage
        /\ p \in Nat /\ p <= MaxPage /\ MaxPage \in Nat
    BY PagerAssumption DEF PagerRecord, Writer, Page
  <1>4. \A x \in Page : q.cache[x] = IF x = p THEN n ELSE r.cache[x]
    BY <1>1 DEF PagerRecord, Pages
  <1>5. n # Absent /\ n \in Value
    BY PagerAssumption DEF Absent, Value
  <1>6. MustJournal(r, p) => r.cache[p] # Absent
    BY <1>3 DEF MustJournal
  <1>7. \A x \in r.dirty : x <= r.orig => x \in r.inJournal
    BY DEF Writer
  <1> SUFFICES Wrote(q, T, U, db, I, m, n)
    OBVIOUS
  <1>8. Appended(q, T, U, I, m, n)
    <2> HIDE DEF q
    <2> QED  BY <1>1, <1>4, <1>5, <1>6, <1>7, AppendedSlots
  <1> HIDE DEF q, j, U
  <1>9. Cached(q, I)
    <2>1. \A x \in Page : q.cache[x] \in {Absent} \cup Value
      BY <1>4, <1>5 DEF Sound
    <2>2. q.needSync \subseteq q.dirty
      BY <1>1, <1>2 DEF Sound
    <2>3. \A x \in q.dirty : q.cache[x] # Absent
      BY <1>1, <1>4, <1>5 DEF Sound, PagerRecord
    <2>4. q.eState \notin {"OPEN", "READER", "LOCKED"}
      BY <1>1 DEF Changing
    <2> QED  BY <2>1, <2>2, <2>3, <2>4 DEF Cached, Sound, StaleCache, Reader
  <1>10. Writer(q, U, db, I, m)
    <2>1. ASSUME q.eState = "DBMOD", NEW x \in q.inJournal \ q.needSync PROVE Recorded(U, m, x)
      <3>1. x \in r.inJournal \ r.needSync /\ x \in Page
        BY <1>1, <1>2, <2>1 DEF PagerRecord
      <3>2. Recorded(T, m, x)
        BY <1>1, <2>1, <3>1 DEF Writer
      <3> QED  BY <1>8, <3>1, <3>2 DEF Appended
    <2>2. \A x \in q.dirty : x <= q.orig => x \in q.inJournal
      BY <1>8 DEF Appended
    <2>3. \A x \in Page \ q.dirty : q.cache[x] \in {Absent, db[x]}
      BY <1>1, <1>4 DEF Writer
    <2>4. q.dbSize \in q.orig..MaxPage
      BY <1>1, <1>3
    <2>5. ASSUME NEW x \in Page, x > q.orig PROVE q.cache[x] # Absent <=> x <= q.dbSize
      <3>1. x \in Nat /\ (r.cache[x] # Absent <=> x <= r.dbSize)
        BY <1>1, <1>3, <2>5 DEF Writer, Page
      <3>2. CASE x = p
        BY <1>1, <1>3, <1>4, <1>5, <3>2
      <3>3. CASE x # p
        <4>1. q.cache[x] = r.cache[x]
          BY <1>4, <3>3
        <4>2. CASE p > r.dbSize
          <5>1. ~(r.cache[p] # Absent)
            BY <1>1, <1>3, <4>2 DEF Writer
          <5>2. p = r.dbSize + 1 /\ q.dbSize = p
            BY <1>1, <4>2, <5>1
          <5> QED  BY <1>3, <3>1, <3>3, <4>1, <5>2
        <4>3. CASE ~(p > r.dbSize)
          BY <1>1, <3>1, <4>1, <4>3
        <4> QED  BY <4>2, <4>3
      <3> QED  BY <3>2, <3>3
    <2>6. \A x \in Page : x > q.dbSize => db[x] = Absent
      <3> SUFFICES ASSUME NEW x \in Page, x > q.dbSize PROVE db[x] = Absent
        OBVIOUS
      <3>1. x > r.dbSize
        BY <1>1, <1>3 DEF Page
      <3> QED  BY <3>1 DEF Writer
    <2>7. Counter(q, I)
      <3>1. Counter(r, I) /\ 1 \in Page
        BY ImageProperty DEF Writer
      <3>2. BeforeCounter(r) /\ BeforeCounter(q)
        BY <1>1 DEF BeforeCounter
      <3>3. q.cache[1] = r.cache[1] /\ (1 \in q.dirty <=> 1 \in r.dirty)
        BY <1>1, <1>4, <3>1
      <3> QED  BY <1>1, <3>1, <3>2, <3>3 DEF Counter
    <2> QED  BY <1>1, <2>1, <2>2, <2>3, <2>4, <2>5, <2>6, <2>7 DEF Writer
  <1> QED  BY <1>8, <1>9, <1>10 DEF Wrote

(* A transaction that has appended to its journal, with U as the result *)
LEMMA AppendRecovery ==
  ASSUME Shape, NEW I, NEW J, NEW m, Recovers(I, J, m), NEW c \in Conn,
         NEW T, Ongoing(conn[c], T, I, J, m), m = 0 \/ lock[c] = 4, lock[c] >= 2,
         NEW q, NEW U, conn' = [conn EXCEPT ![c] = q], lock' = lock, txn' = txn, disk' = disk,
         os' \in FileSystem, os'.db = os.db, os'.dir = os.dir,
         os'.file = [os.file EXCEPT ![conn[c].jfd] = U],
         Wrote(q, T, U, os.db, I, m, txn), Changing(q), q.pc \in {"idle", "jsync"}, ~q.hot,
         q.jfd = conn[c].jfd
  PROVE  Stays(c)
  <1> DEFINE r == conn[c]
  <1>1. /\ Ongoing(r, T, I, J, m) /\ Facts(r, lock[c], I, m, os, disk, txn) /\ lock[c] \in 0..4
    BY Own DEF Recovers
  <1>2. /\ os.dir = r.jfd /\ os.dir # 0 /\ os.dir \in Inode /\ T = os.file[os.dir] /\ T \in Seq(Slot)
        /\ os \in FileSystem /\ disk \in Medium /\ txn \in Nat /\ Global(I, J, m, os, disk, txn)
        /\ os.file \in [Inode -> Seq(Slot)]
    BY <1>1, Stored DEF Ongoing, Files
  <1>3. /\ U \in Seq(Slot) /\ m <= Len(U) /\ \A i \in 1..m : U[i] = T[i]
        /\ Headless(U, m) /\ OwnSlots(q, U, I, m, txn) /\ Writer(q, U, os.db, I, m) /\ Cached(q, I)
    BY DEF Wrote, Appended
  <1>4. \A i \in 1..Len(U) : U[i].seed <= txn
    <2>1. \A i \in 1..Len(T) : T[i].seed <= txn
      BY <1>2 DEF Global, Numbered, Seeds
    <2> QED  BY <2>1 DEF Wrote, Appended
  <1>5. Global(I, J, m, os', disk', txn')
    <2> DEFINE o1 == os'
    <2>1. /\ o1 \in FileSystem /\ o1.dir = os.dir /\ o1.db = os.db
          /\ o1.file = [os.file EXCEPT ![os.dir] = U]
          /\ \A i \in 1..m : U[i] = os.file[os.dir][i]
      BY <1>2, <1>3
    <2> HIDE DEF o1
    <2>2. Global(I, J, m, o1, disk, txn)
      BY <1>2, <1>3, <1>4, <2>1, JournalWritten
    <2> QED  BY <2>2 DEF o1
  <1>6. os'.file[q.jfd] = U
    BY <1>2
  <1>7. Txn(q, I, m, os', disk', txn')
    BY <1>3, <1>6 DEF Txn, Changing
  <1>8. lock[c] \in {2, 3} => Clean(I, os', disk')
    <2> SUFFICES ASSUME lock[c] \in {2, 3} PROVE Clean(I, os', disk')
      OBVIOUS
    <2>1. Clean(I, os, disk) /\ m = 0
      BY <1>1 DEF Facts, MayRead
    <2>2. Headless(os'.file[os.dir], 0)
      BY <1>2, <1>3, <1>6, <2>1
    <2> QED  BY <1>2, <2>1, <2>2 DEF Clean, Plain, Bare
  <1>9. Facts(q, lock'[c], I, m, os', disk', txn')
    BY <1>3, <1>7, <1>8 DEF Facts, MayRead, Changing
  <1>10. lock[c] \in {2, 3} \/ lock[c] = 4
    BY <1>1
  <1> QED  BY <1>5, <1>8, <1>9, <1>10, StaysFrame

LEMMA ChangeCounterRecovery ==
  ASSUME Shape, AllNamed, AllOwn, Recovery, NEW c \in Conn, ChangeCounter(c)
  PROVE  Stays(c)
  <1>1. PICK I, J, m : Recovers(I, J, m)
    BY DEF Recovery
  <1> DEFINE r == conn[c]
             T == os.file[r.jfd]
             j == Journaled(r, 1)
             U == JournalPage(T, r, 1)
  <1>2. /\ r \in PagerRecord /\ r.pc = "cc" /\ lock' = lock /\ txn' = txn /\ disk' = disk
        /\ Control(r, lock[c]) /\ Facts(r, lock[c], I, m, os, disk, txn)
    BY <1>1, Own DEF ChangeCounter, At, Recovers
  <1>3. lock[c] = 4 /\ Changing(r)
    BY <1>2 DEF Control, Changing
  <1>4. Ongoing(r, T, I, J, m)
    BY <1>1, <1>2, <1>3, OngoingProperty
  <1>5. /\ r.jhdr = m + 1 /\ r.jhdr <= r.joff /\ T[r.jhdr].k = "zero" /\ T[r.jhdr].val = 0
        /\ Headless(T, m) /\ m \in Nat /\ r.joff <= Len(T)
    <2> HIDE DEF T, r
    <2> QED  BY <1>2, <1>4, OpenEnd DEF Appending
  <1>6. PICK q : q = conn'[c]
    OBVIOUS
  <1>7. /\ q \in PagerRecord /\ conn' = [conn EXCEPT ![c] = q]
        /\ q.pc = "jsync" /\ q.dirty = r.dirty \cup {1}
        /\ q.cache = [r.cache EXCEPT ![1] = r.vers + 1]
        /\ q.needSync = j.needSync /\ q.dbSize = r.dbSize
        /\ q.joff = j.joff /\ q.inJournal = j.inJournal
        /\ q.eState = r.eState /\ q.jfd = r.jfd /\ q.jhdr = r.jhdr /\ q.last = r.last
        /\ q.orig = r.orig /\ q.vers = r.vers /\ q.held = r.held /\ q.hot = r.hot
        /\ q.spill = r.spill
    BY <1>6, ChangeCounterEffect
  <1>8. /\ os' \in FileSystem /\ os'.db = os.db /\ os'.dir = os.dir
        /\ os'.file = [os.file EXCEPT ![r.jfd] = U]
    BY ChangeCounterEffect DEF Journal
  <1>9. /\ OwnSlots(r, T, I, m, txn) /\ Writer(r, T, os.db, I, m) /\ Sound(r) /\ T \in Seq(Slot)
        /\ I \in Image /\ txn \in Nat /\ r.seed = txn /\ ~r.hot /\ I[1] \in Nat /\ txn <= MaxTxn
        /\ 1 \in Page
    BY <1>4, Stored DEF Ongoing, Cached
  <1>10. /\ r.spill = 0 /\ 1 \notin r.dirty /\ r.cache[1] = I[1] /\ r.vers = I[1] /\ I[1] < txn
    <2>1. BeforeCounter(r) /\ Counter(r, I)
      BY <1>2, <1>9 DEF BeforeCounter, Writer
    <2> QED  BY <1>2, <1>9, <2>1 DEF Counter, Writer, OwnSlots
  <1>11. \A x \in Page : q.cache[x] = IF x = 1 THEN I[1] + 1 ELSE r.cache[x]
    BY <1>2, <1>7, <1>10 DEF PagerRecord, Pages
  <1>12. I[1] + 1 # Absent /\ I[1] + 1 \in Value
    BY <1>9, <1>10, PagerAssumption DEF Absent, Value
  <1>13. \A x \in r.dirty : x <= r.orig => x \in r.inJournal
    BY <1>9 DEF Writer
  <1>14. Appended(q, T, U, I, m, txn)
    <2>1. MustJournal(r, 1) => r.cache[1] # Absent
      BY <1>9 DEF OwnSlots
    <2>2. q.cache[1] # Absent /\ \A x \in Page : x # 1 => q.cache[x] = r.cache[x]
      BY <1>9, <1>11, <1>12
    <2>3. q.pc # "jsync2"
      BY <1>7
    <2> HIDE DEF T, r
    <2> QED  BY <1>2, <1>5, <1>7, <1>9, <1>13, <2>1, <2>2, <2>3, AppendedSlots
  <1>15. /\ j.needSync = IF MustJournal(r, 1) THEN r.needSync \cup {1} ELSE r.needSync
         /\ j.inJournal = IF MustJournal(r, 1) THEN r.inJournal \cup {1} ELSE r.inJournal
    BY <1>2, <1>9, JournaledShape
  <1> HIDE DEF j, U, T, r
  <1>16. Cached(q, I)
    <2>1. \A x \in Page : q.cache[x] \in {Absent} \cup Value
      BY <1>9, <1>11, <1>12 DEF Sound
    <2>2. q.needSync \subseteq q.dirty
      BY <1>7, <1>9, <1>15 DEF Sound
    <2>3. \A x \in q.dirty : q.cache[x] # Absent
      <3>1. \A x \in r.dirty : x \in Page /\ r.cache[x] # Absent
        BY <1>2, <1>9 DEF Sound, PagerRecord
      <3> QED  BY <1>7, <1>9, <1>11, <1>12, <3>1
    <2>4. q.eState \notin {"OPEN", "READER", "LOCKED"}
      BY <1>3, <1>7 DEF Changing
    <2> QED  BY <2>1, <2>2, <2>3, <2>4 DEF Cached, Sound, StaleCache, Reader
  <1>17. Writer(q, U, os.db, I, m)
    <2>1. ASSUME q.eState = "DBMOD", NEW x \in q.inJournal \ q.needSync PROVE Recorded(U, m, x)
      <3>1. x \in r.inJournal \ r.needSync /\ x \in Page
        BY <1>2, <1>7, <1>9, <1>15, <2>1 DEF PagerRecord
      <3>2. Recorded(T, m, x)
        BY <1>7, <1>9, <2>1, <3>1 DEF Writer
      <3> QED  BY <1>14, <3>1, <3>2 DEF Appended
    <2>2. \A x \in q.dirty : x <= q.orig => x \in q.inJournal
      BY <1>14 DEF Appended
    <2>3. \A x \in Page \ q.dirty : q.cache[x] \in {Absent, os.db[x]}
      BY <1>7, <1>9, <1>11 DEF Writer
    <2>5. ASSUME NEW x \in Page, x > q.orig PROVE q.cache[x] # Absent <=> x <= q.dbSize
      <3>1. r.orig >= 1 /\ r.orig \in Nat
        BY <1>9, ImageProperty DEF OwnSlots
      <3>2. x # 1
        BY <1>7, <2>5, <3>1
      <3> QED  BY <1>7, <1>9, <1>11, <2>5, <3>2 DEF Writer
    <2>7. Counter(q, I)
      <3>1. ~BeforeCounter(q)
        BY <1>7, <1>10 DEF BeforeCounter
      <3> QED  BY <1>7, <1>9, <1>10, <1>11, <3>1 DEF Counter
    <2> QED  BY <1>7, <1>9, <2>1, <2>2, <2>3, <2>5, <2>7 DEF Writer
  <1>18. Wrote(q, T, U, os.db, I, m, txn) /\ Changing(q)
    BY <1>3, <1>7, <1>14, <1>16, <1>17 DEF Wrote, Changing
  <1>19. (m = 0 \/ lock[c] = 4) /\ lock[c] >= 2 /\ q.pc \in {"idle", "jsync"} /\ ~q.hot
    BY <1>3, <1>7, <1>9
  <1> QED  BY <1>1, <1>2, <1>4, <1>7, <1>8, <1>18, <1>19, AppendRecovery DEF r

LEMMA WriteOnRecovery ==
  ASSUME Shape, AllNamed, AllOwn, Recovery, NEW c \in Conn, NEW p \in Page, Write(c, p),
         Changing(conn[c])
  PROVE  Stays(c)
  <1>1. PICK I, J, m : Recovers(I, J, m)
    BY DEF Recovery
  <1> DEFINE r == conn[c]
             T == os.file[r.jfd]
             U == JournalPage(T, r, p)
             q == Written(r, p)
  <1>2. /\ r \in PagerRecord /\ r.pc = "idle" /\ lock' = lock /\ disk' = disk
        /\ Control(r, lock[c]) /\ Facts(r, lock[c], I, m, os, disk, txn)
        /\ p # 1 /\ p \notin r.dirty /\ (p = r.dbSize + 1 \/ r.cache[p] # Absent)
    BY <1>1, Own DEF Write, Idle, Recovers
  <1>3. /\ txn' = txn /\ os'.dir = os.dir /\ conn' = [conn EXCEPT ![c] = q]
        /\ os'.file = [os.file EXCEPT ![r.jfd] = U] /\ os'.db = os.db /\ os' \in FileSystem
    <2>1. PICK q0 \in PagerRecord, S \in Seq(Slot) :
            /\ \/ r.eState = "LOCKED"
               \/ q0 = r /\ S = os.file[q0.jfd] /\ txn' = txn /\ os'.dir = os.dir
            /\ conn' = [conn EXCEPT ![c] = Written(q0, p)]
            /\ os'.file = [os.file EXCEPT ![q0.jfd] = JournalPage(S, q0, p)]
            /\ os'.db = os.db /\ os' \in FileSystem
      BY WriteEffect
    <2>2. r.eState # "LOCKED"
      BY DEF Changing
    <2> QED  BY <2>1, <2>2
  <1>4. Ongoing(r, T, I, J, m)
    BY <1>1, <1>2, OngoingProperty
  <1>5. /\ r.jhdr = m + 1 /\ r.jhdr <= r.joff /\ T[r.jhdr].k = "zero" /\ T[r.jhdr].val = 0
        /\ Headless(T, m) /\ m \in Nat /\ r.joff <= Len(T)
    <2> HIDE DEF T, r
    <2> QED  BY <1>2, <1>4, OpenEnd DEF Appending
  <1>6. /\ OwnSlots(r, T, I, m, txn) /\ Writer(r, T, os.db, I, m) /\ Sound(r) /\ T \in Seq(Slot)
        /\ I \in Image /\ txn \in Nat /\ r.seed = txn /\ ~r.hot /\ txn <= MaxTxn
    BY <1>4 DEF Ongoing, Cached
  <1>7. Wrote(q, T, U, os.db, I, m, txn)
    <2>1. Changing(r)
      OBVIOUS
    <2> HIDE DEF T, r
    <2> QED  BY <1>2, <1>5, <1>6, <2>1, WrittenTxn
  <1>8. q.jfd = r.jfd /\ ~q.hot /\ q.pc = "idle" /\ Changing(q)
    <2>1. q.jfd = r.jfd /\ q.hot = r.hot /\ q.pc = r.pc /\ q.eState = r.eState
      BY <1>2, WrittenShape
    <2> HIDE DEF q
    <2> QED  BY <1>2, <1>6, <2>1 DEF Changing
  <1>9. (m = 0 \/ lock[c] = 4) /\ lock[c] >= 2
    BY <1>2, <1>6 DEF Control, OwnSlots, Changing
  <1> HIDE DEF q, T, U
  <1> QED  BY <1>1, <1>2, <1>3, <1>4, <1>7, <1>8, <1>9, AppendRecovery

(* The first change of a transaction opens the journal, a new one or one   *)
(* without headers.                                                        *)
Begun(q, S, db, I, n) ==
  /\ OwnSlots(q, S, I, 0, n) /\ Writer(q, S, db, I, 0) /\ Sound(q)
  /\ S[q.jhdr].k = "zero" /\ S[q.jhdr].val = 0 /\ Headless(S, 0)

LEMMA OpenedTxn ==
  ASSUME NEW r \in PagerRecord, r.eState = "LOCKED", r.pc = "idle", r.dirty = {}, r.spill = 0,
         NEW I \in Image, Sound(r), Reader(r, I), NEW db, db = I, NEW n \in Nat, I[1] < n,
         NEW q \in PagerRecord, q.eState = "CACHEMOD", q.joff = 1, q.jhdr = 1, q.last = 1,
         q.pc = r.pc, q.cache = r.cache, q.dirty = r.dirty, q.needSync = r.needSync,
         q.inJournal = r.inJournal, q.dbSize = r.dbSize, q.orig = r.orig, q.vers = r.vers,
         q.held = r.held, q.spill = r.spill,
         NEW S \in Seq(Slot), Len(S) >= 1, S[1] = NewHdr(r.orig, n),
         \A i \in 2..Len(S) : S[i].seed < n /\ S[i].k # "hdr"
  PROVE  Begun(q, S, db, I, n)
  <1>1. /\ r.held /\ r.dbSize = SizeOf(I) /\ \A p \in Page : r.cache[p] \in {Absent, I[p]}
        /\ r.vers = I[1] /\ r.cache[1] # Absent /\ r.orig = r.dbSize /\ r.inJournal = {}
        /\ r.cache[1] = I[1]
    BY ImageProperty DEF Reader, Agrees, Sound
  <1>2. S[1].k = "zero" /\ S[1].val = 0 /\ S[1].pg = r.orig
    BY DEF NewHdr
  <1>3. Headless(S, 0)
    <2> SUFFICES ASSUME NEW i \in (0 + 1)..Len(S) PROVE S[i].k # "hdr"
      BY DEF Headless
    <2>1. CASE i = 1
      BY <1>2, <2>1
    <2>2. CASE i # 1
      BY <2>2
    <2> QED  BY <2>1, <2>2
  <1>4. \A p \in Page : p \in q.inJournal <=> Recorded(S, q.joff, p)
    BY <1>1, <1>2 DEF Recorded
  <1>5. InProgress(q, S)
    BY <1>2 DEF InProgress
  <1>6. OwnSlots(q, S, I, 0, n)
    BY <1>1, <1>2, <1>4, <1>5 DEF OwnSlots
  <1>7. /\ r.dbSize \in Nat /\ r.dbSize <= MaxPage /\ MaxPage \in Nat
        /\ \A p \in Page : p > r.dbSize => I[p] = Absent
    BY <1>1, ImageProperty
  <1>8. \A p \in Page : p > q.orig => (q.cache[p] # Absent <=> p <= q.dbSize)
    BY <1>1, <1>7, PagerAssumption DEF Page
  <1>9. Counter(q, I)
    BY <1>1 DEF Counter, BeforeCounter
  <1>10. q.dbSize \in q.orig..MaxPage
    BY <1>1, <1>7
  <1>11. Writer(q, S, db, I, 0)
    BY <1>1, <1>7, <1>8, <1>9, <1>10 DEF Writer
  <1> QED  BY <1>2, <1>3, <1>6, <1>11 DEF Sound, Begun

(* The files when journal x is opened on a clean database *)
OpenedOn(I, J, o, d, n) == Global(I, J, 0, o, d, n) /\ Clean(I, o, d)

LEMMA JournalOpened ==
  ASSUME NEW I, NEW J, NEW m, NEW o \in FileSystem, NEW d \in Medium, NEW n \in Nat,
         Global(I, J, m, o, d, n), Clean(I, o, d),
         NEW x \in Inode, x = IF o.dir # 0 THEN o.dir ELSE n + 1,
         NEW U \in Seq(Slot), Headless(U, 0), \A i \in 1..Len(U) : U[i].seed <= n + 1,
         NEW o1 \in FileSystem, o1.dir = x, o1.db = o.db, o1.file = [o.file EXCEPT ![x] = U]
  PROVE  OpenedOn(I, J, o1, d, n + 1)
  <1>1. /\ I \in Image /\ J \in Image /\ I[1] <= n /\ J[1] <= n /\ Committed(I, m, o, d)
        /\ Durable(J, I, o, d) /\ o.dir <= n /\ d.dir <= n /\ Seeds(o.file, n) /\ Seeds(d.file, n)
    BY DEF Global, Numbered
  <1>2. /\ o.file \in [Inode -> Seq(Slot)] /\ d.file \in [Inode -> Seq(Slot)] /\ o.db \in Pages
        /\ d.behind \in SUBSET Page /\ d.dir \in {0} \cup Inode /\ I \in Pages
        /\ \A y \in Inode : y \in Nat /\ y # 0
        /\ I[1] \in Nat /\ J[1] \in Nat
    <2>1. o.file \in [Inode -> Seq(Slot)] /\ o.db \in Pages
      BY DEF FileSystem, Files
    <2>2. d.file \in [Inode -> Seq(Slot)] /\ d.behind \in SUBSET Page /\ d.dir \in {0} \cup Inode
      BY DEF Medium, Files
    <2>3. \A y \in Inode : y \in Nat /\ y # 0
      BY PagerAssumption DEF Inode
    <2>4. I \in Pages /\ I[1] \in Nat /\ J[1] \in Nat
      BY <1>1, ImageProperty
    <2> QED  BY <2>1, <2>2, <2>3, <2>4
  <1>3. o.db = I /\ d.behind = {}
    BY DEF Clean, Plain
  <1>4. Headless(d.file[x], 0)
    <2>1. CASE o.dir # 0
      BY <2>1 DEF Clean, Bare
    <2>2. CASE o.dir = 0
      <3>1. d.file[x] = <<>>
        BY <1>1, <1>2, <2>2 DEF Seeds
      <3> QED  BY <3>1 DEF Headless
    <2> QED  BY <2>1, <2>2
  <1>5. o1.file[x] = U /\ \A y \in Inode : y # x => o1.file[y] = o.file[y]
    BY <1>2
  <1>6. Clean(I, o1, d)
    BY <1>3, <1>4, <1>5 DEF Clean, Plain, Bare
  <1>7. Leads(d.file[x], U, o.db, {}, I, 0)
    <2> DEFINE S == d.file[x]
               db == o.db
    <2>1. S \in Seq(Slot) /\ db = I /\ Headless(S, 0) /\ db \in Pages
      BY <1>2, <1>3, <1>4
    <2> HIDE DEF S, db
    <2>2. Leads(S, U, db, {}, I, 0)
      BY <1>2, <2>1, LeadsNothing
    <2> QED  BY <2>2 DEF S, db
  <1>8. \A p \in Page : p \notin d.behind => d.db[p] = o1.db[p]
    BY <1>1 DEF Committed
  <1>9. Committed(I, 0, o1, d)
    BY <1>2, <1>3, <1>5, <1>6, <1>7, <1>8 DEF Committed
  <1>10. Durable(J, I, o1, d)
    <2>1. d.dir \in {0, x} => J = I
      <3>1. CASE o.dir # 0
        BY <1>1, <3>1 DEF Durable
      <3>2. CASE o.dir = 0
        <4>1. d.dir \in Nat
          BY <1>2
        <4>2. d.dir # x
          BY <1>1, <3>2, <4>1
        <4> QED  BY <1>1, <4>2 DEF Durable
      <3> QED  BY <3>1, <3>2
    <2>2. d.dir \notin {0, x} => d.dir \notin {0, o.dir} /\ o1.file[d.dir] = o.file[d.dir]
      BY <1>2, <1>5
    <2> QED  BY <1>1, <2>1, <2>2 DEF Durable
  <1>11. Numbered(o1, d, n + 1)
    <2>1. d.dir \in Nat /\ x \in Nat /\ x <= n + 1 /\ d.dir <= n + 1
      BY <1>1, <1>2
    <2>2. Seeds(o1.file, n + 1)
      <3> DEFINE f == o.file
                 k == n + 1
      <3>1. /\ f \in [Inode -> Seq(Slot)] /\ Seeds(f, n) /\ x <= k /\ n <= k /\ k \in Nat
            /\ \A i \in 1..Len(U) : U[i].seed <= k
        BY <1>1, <1>2, <2>1
      <3> HIDE DEF f, k
      <3>2. Seeds([f EXCEPT ![x] = U], k)
        BY <3>1, SeedsPut
      <3> QED  BY <3>2 DEF f, k
    <2>3. Seeds(d.file, n + 1)
      <3>1. ASSUME NEW y \in Inode
            PROVE  /\ \A i \in 1..Len(d.file[y]) : d.file[y][i].seed <= n + 1
                   /\ y > n + 1 => d.file[y] = <<>>
        <4>1. ASSUME NEW i \in 1..Len(d.file[y]) PROVE d.file[y][i].seed <= n + 1
          <5>1. d.file[y][i].seed <= n /\ d.file[y] \in Seq(Slot)
            BY <1>1, <1>2 DEF Seeds
          <5>2. d.file[y][i].seed \in Nat
            BY <5>1 DEF Slot
          <5> QED  BY <5>1, <5>2
        <4>2. y > n + 1 => y > n
          BY <1>2
        <4> QED  BY <1>1, <4>1, <4>2 DEF Seeds
      <3> QED  BY <3>1 DEF Seeds
    <2> QED  BY <2>1, <2>2, <2>3 DEF Numbered
  <1>12. I[1] <= n + 1 /\ J[1] <= n + 1
    BY <1>1, <1>2
  <1> QED  BY <1>1, <1>6, <1>9, <1>10, <1>11, <1>12 DEF Global, OpenedOn

LEMMA WriteFirstRecovery ==
  ASSUME Shape, AllNamed, Modes = {"DELETE"}, Recovery, NEW c \in Conn, NEW p \in Page,
         Write(c, p), conn[c].eState = "LOCKED"
  PROVE  Stays(c)
  <1>1. PICK I, J, m : Recovers(I, J, m)
    BY DEF Recovery
  <1> DEFINE r == conn[c]
             n == txn + 1
  <1>2. /\ r \in PagerRecord /\ r.pc = "idle" /\ lock' = lock /\ disk' = disk
        /\ Control(r, lock[c]) /\ Changes(r) /\ HasJournal(r, os.file, txn)
        /\ Facts(r, lock[c], I, m, os, disk, txn) /\ Global(I, J, m, os, disk, txn)
        /\ p # 1 /\ p \notin r.dirty /\ (p = r.dbSize + 1 \/ r.cache[p] # Absent)
    BY <1>1, Own DEF Write, Idle, Recovers
  <1>3. /\ lock[c] = 2 /\ ~r.hot /\ r.dirty = {} /\ r.spill = 0 /\ txn < MaxTxn
    BY <1>2 DEF Control, Changes, HasJournal
  <1>4. Sound(r) /\ Reader(r, I) /\ Clean(I, os, disk) /\ I \in Image /\ I[1] <= txn
    BY <1>2, <1>3 DEF Facts, Cached, MayRead, Global
  <1>5. r.jfd = 0
    BY <1>3 DEF AllNamed, Named
  <1>6. /\ txn \in Nat /\ n \in Nat /\ n <= MaxTxn /\ os \in FileSystem /\ disk \in Medium
        /\ os.dir \in {0} \cup Inode /\ os.file \in [Inode -> Seq(Slot)] /\ I[1] \in Nat
        /\ MaxTxn \in Nat /\ I[1] < n
    BY <1>3, <1>4, Stored, PagerAssumption, ImageProperty DEF Files
  <1>7. PICK q0 \in PagerRecord, S \in Seq(Slot) :
          /\ q0 = OpenJournal(r)
          /\ S = PutSlot(os.file[q0.jfd], 1, NewHdr(r.orig, q0.seed))
          /\ txn' = n /\ os'.dir = q0.jfd
          /\ q0.jfd \in Inode /\ q0.joff <= Len(S)
          /\ conn' = [conn EXCEPT ![c] = Written(q0, p)]
          /\ os'.file = [os.file EXCEPT ![q0.jfd] = JournalPage(S, q0, p)]
          /\ os'.db = os.db /\ os' \in FileSystem
    <2>1. PICK q0 \in PagerRecord, S \in Seq(Slot) :
            /\ \/ /\ r.eState = "LOCKED" /\ q0 = OpenJournal(r)
                  /\ S = PutSlot(os.file[q0.jfd], 1, NewHdr(r.orig, q0.seed))
                  /\ txn' = txn + 1
                  /\ os'.dir = IF r.jfd = 0 THEN q0.jfd ELSE os.dir
               \/ r.eState \in {"CACHEMOD", "DBMOD"}
            /\ q0.jfd \in Inode /\ q0.joff <= Len(S)
            /\ conn' = [conn EXCEPT ![c] = Written(q0, p)]
            /\ os'.file = [os.file EXCEPT ![q0.jfd] = JournalPage(S, q0, p)]
            /\ os'.db = os.db /\ os' \in FileSystem
      BY WriteEffect
    <2>2. r.eState \notin {"CACHEMOD", "DBMOD"}
      OBVIOUS
    <2> QED  BY <1>5, <2>1, <2>2
  <1>8. /\ q0.eState = "CACHEMOD" /\ q0.seed = n
        /\ q0.joff = 1 /\ q0.jhdr = 1 /\ q0.last = 1
        /\ q0.jfd = (IF os.dir # 0 THEN os.dir ELSE n)
        /\ q0.pc = r.pc /\ q0.cache = r.cache /\ q0.dirty = r.dirty
        /\ q0.needSync = r.needSync /\ q0.inJournal = r.inJournal
        /\ q0.dbSize = r.dbSize /\ q0.orig = r.orig /\ q0.vers = r.vers
        /\ q0.held = r.held /\ q0.hot = r.hot /\ q0.spill = r.spill
    BY <1>2, <1>3, <1>5, <1>6, <1>7, OpenJournalShape
  <1> DEFINE S0 == os.file[q0.jfd]
             U == JournalPage(S, q0, p)
             q == Written(q0, p)
  <1>9. S0 \in Seq(Slot) /\ (\A i \in 1..Len(S0) : S0[i].seed <= txn) /\ Headless(S0, 0)
    <2>1. Seeds(os.file, txn)
      BY <1>2 DEF Global, Numbered
    <2>2. S0 \in Seq(Slot) /\ \A i \in 1..Len(S0) : S0[i].seed <= txn
      BY <1>6, <1>7, <2>1 DEF Seeds
    <2>3. CASE os.dir # 0
      BY <1>4, <1>8, <2>2, <2>3 DEF Clean, Bare
    <2>4. CASE os.dir = 0
      <3>1. S0 = <<>>
        BY <1>6, <1>7, <1>8, <2>1, <2>4 DEF Seeds
      <3> QED  BY <2>2, <3>1 DEF Headless
    <2> QED  BY <2>2, <2>3, <2>4
  <1>10. /\ S[1] = NewHdr(r.orig, n) /\ Len(S) >= 1
         /\ \A i \in 2..Len(S) : S[i].seed < n /\ S[i].k # "hdr"
         /\ \A i \in 1..Len(S) : S[i].seed <= n
    <2> DEFINE s == NewHdr(r.orig, n)
    <2>1. s \in Slot /\ S = PutSlot(S0, 1, s) /\ s.seed = n
      BY <1>2, <1>6, <1>7, <1>8, SlotTypes DEF PagerRecord, NewHdr
    <2>2. 1 \in 1..(Len(S0) + 1)
      BY <1>9
    <2> HIDE DEF S0, s
    <2>3. /\ S[1] = s /\ Len(S) = (IF 1 > Len(S0) THEN 1 ELSE Len(S0))
          /\ \A i \in 1..Len(S0) : i # 1 => S[i] = S0[i]
      <3> DEFINE V == PutSlot(S0, 1, s)
      <3>1. S0 \in Seq(Slot) /\ s \in Slot /\ 1 \in 1..(Len(S0) + 1)
        BY <1>9, <2>1, <2>2
      <3>2. /\ V[1] = s /\ Len(V) = (IF 1 > Len(S0) THEN 1 ELSE Len(S0))
            /\ \A i \in 1..Len(S0) : i # 1 => V[i] = S0[i]
        BY <3>1, PutSlotProperty
      <3>3. S = V
        BY <2>1
      <3> HIDE DEF V
      <3> QED  BY <3>2, <3>3
    <2>4. Len(S) >= 1
      BY <1>9, <2>3
    <2>5. ASSUME NEW i \in 2..Len(S) PROVE S[i].seed < n /\ S[i].k # "hdr" /\ S[i].seed <= n
      <3>1. i \in 1..Len(S0) /\ i # 1
        BY <1>9, <2>3
      <3>2. S[i] = S0[i] /\ S0[i].seed <= txn /\ S0[i] \in Slot
        BY <1>9, <2>3, <3>1
      <3>3. S0[i].k # "hdr"
        BY <1>9, <3>1 DEF Headless
      <3>4. S0[i].seed \in Nat
        BY <3>2 DEF Slot
      <3> QED  BY <1>6, <3>2, <3>3, <3>4
    <2>6. ASSUME NEW i \in 1..Len(S) PROVE S[i].seed <= n
      <3>1. CASE i = 1
        BY <1>6, <2>1, <2>3, <3>1
      <3>2. CASE i # 1
        BY <2>5, <3>2
      <3> QED  BY <3>1, <3>2
    <2> QED  BY <2>3, <2>4, <2>5, <2>6 DEF s
  <1>11. os.db = I
    BY <1>4 DEF Clean, Plain
  <1>12. /\ OwnSlots(q0, S, I, 0, n) /\ Writer(q0, S, os.db, I, 0) /\ Sound(q0)
         /\ S[q0.jhdr].k = "zero" /\ S[q0.jhdr].val = 0 /\ Headless(S, 0)
    <2> DEFINE db == os.db
    <2>1. r.eState = "LOCKED" /\ db = I
      BY <1>11
    <2> HIDE DEF r, n, db
    <2>2. Begun(q0, S, db, I, n)
      BY <1>2, <1>3, <1>4, <1>6, <1>8, <1>10, <2>1, OpenedTxn
    <2> QED  BY <2>2 DEF Begun, db
  <1>13. Wrote(q, S, U, os.db, I, 0, n)
    <2>1. Changing(q0) /\ q0.jhdr <= q0.joff /\ q0.pc = "idle" /\ p \notin q0.dirty
          /\ (p = q0.dbSize + 1 \/ q0.cache[p] # Absent)
      BY <1>2, <1>8 DEF Changing
    <2> HIDE DEF n, r
    <2> QED  BY <1>2, <1>4, <1>6, <1>7, <1>8, <1>12, <2>1, WrittenTxn
  <1>14. q.jfd = q0.jfd /\ ~q.hot /\ q.pc = "idle" /\ q.eState = "CACHEMOD"
    <2>1. q.jfd = q0.jfd /\ q.hot = q0.hot /\ q.pc = q0.pc /\ q.eState = q0.eState
      BY WrittenShape
    <2> HIDE DEF q
    <2> QED  BY <1>2, <1>3, <1>8, <2>1
  <1>15. conn' = [conn EXCEPT ![c] = q] /\ os'.file = [os.file EXCEPT ![q0.jfd] = U]
    BY <1>7
  <1> HIDE DEF q, U
  <1>16. /\ U \in Seq(Slot) /\ Headless(U, 0) /\ OwnSlots(q, U, I, 0, n) /\ Writer(q, U, os.db, I, 0)
         /\ Cached(q, I) /\ \A i \in 1..Len(U) : U[i].seed <= n
    BY <1>10, <1>13 DEF Wrote, Appended
  <1>17. Global(I, J, 0, os', disk, n) /\ Clean(I, os', disk)
    <2> DEFINE o1 == os'
               x == q0.jfd
    <2>1. /\ o1 \in FileSystem /\ o1.dir = x /\ o1.db = os.db /\ x \in Inode
          /\ o1.file = [os.file EXCEPT ![x] = U] /\ x = IF os.dir # 0 THEN os.dir ELSE txn + 1
          /\ \A i \in 1..Len(U) : U[i].seed <= txn + 1
      BY <1>7, <1>8, <1>15, <1>16
    <2> HIDE DEF o1, x
    <2>2. /\ os \in FileSystem /\ disk \in Medium /\ txn \in Nat
          /\ Global(I, J, m, os, disk, txn) /\ Clean(I, os, disk)
          /\ U \in Seq(Slot) /\ Headless(U, 0)
      BY <1>2, <1>4, <1>6, <1>16
    <2>3. OpenedOn(I, J, o1, disk, txn + 1)
      BY <2>1, <2>2, JournalOpened
    <2> QED  BY <2>3 DEF o1, OpenedOn
  <1>18. os'.file[q.jfd] = U
    BY <1>6, <1>7, <1>14, <1>15
  <1>19. Txn(q, I, 0, os', disk', txn')
    BY <1>2, <1>7, <1>14, <1>16, <1>18 DEF Txn, Changing
  <1>20. Facts(q, lock'[c], I, 0, os', disk', txn')
    BY <1>2, <1>16, <1>17, <1>19 DEF Facts
  <1>21. Global(I, J, 0, os', disk', txn') /\ Clean(I, os', disk')
    BY <1>2, <1>7, <1>17
  <1> QED  BY <1>1, <1>2, <1>3, <1>15, <1>20, <1>21, StaysFrame

-----------------------------------------------------------------------------
(* The steps of a playback *)

(* When the playback is behind the chain, the file is back. *)
LEMMA PlayedBack ==
  ASSUME NEW S, NEW T, NEW db \in Pages, NEW b, NEW I \in Image, NEW m \in Nat, NEW k \in Nat,
         Leads(S, T, db, b, I, m), FileBack(db, T, I, m, k), k > m
  PROVE  db = I
  <1>1. ASSUME NEW p \in Page PROVE db[p] = I[p]
    <2>1. CASE db[p] = I[p]
      BY <2>1
    <2>2. CASE Covered(T, m, I, p)
      <3>1. CASE p > SizeOf(I)
        <4>1. I[p] = Absent
          BY <3>1, ImageProperty
        <4>2. m > 0 /\ k > 1
          BY <2>2 DEF Covered
        <4> QED  BY <3>1, <4>1, <4>2 DEF FileBack
      <3>2. CASE Recorded(T, m, p)
        <4>1. PICK i \in 1..m : T[i].k = "rec" /\ T[i].pg = p
          BY <3>2 DEF Recorded
        <4>2. i < k
          OBVIOUS
        <4> QED  BY <4>1, <4>2 DEF FileBack
      <3> QED  BY <2>2, <3>1, <3>2 DEF Covered
    <2> QED  BY <2>1, <2>2 DEF Leads
  <1>2. I \in Pages
    BY ImageProperty
  <1> QED  BY <1>1, <1>2 DEF Pages

SameTransaction(r, q) ==
  /\ q.dirty = r.dirty /\ q.needSync = r.needSync /\ q.inJournal = r.inJournal
  /\ q.held = r.held /\ q.eState = r.eState /\ q.orig = r.orig /\ q.jfd = r.jfd
  /\ q.joff = r.joff /\ q.jhdr = r.jhdr /\ q.last = r.last /\ q.hot = r.hot

(* Where the slots of a header at k in 1 .. joff end; v is its count. *)
OwnEnd(r, T, k, v) ==
  /\ T[k].k # "rec" /\ HdrAt(r, T, k + 1 + v)
  /\ \A i \in (k + 1)..(k + v) : i <= r.joff => T[i].k = "rec"

LEMMA OwnHeader ==
  ASSUME NEW r \in PagerRecord, NEW T \in Seq(Slot), NEW I \in Image, NEW m \in Nat, NEW n,
         OwnSlots(r, T, I, m, n), Chain(T, m, I), OwnIn(r, T, n), r.joff \in Nat,
         r.joff <= Len(T), r.jhdr <= r.joff + 1,
         NEW k \in Nat, Within(k, r.joff, T) \/ k > Len(T), k >= 1, k <= Len(T),
         T[k].k = "hdr" \/ k = r.last,
         NEW v, T[k].val = 0 /\ k = r.last => v = Len(T) - k,
         T[k].val # 0 \/ k # r.last => v = T[k].val
  PROVE  v \in Nat /\ k <= r.joff /\ OwnEnd(r, T, k, v)
  <1>1. /\ r.jhdr = m + 1 /\ r.last \in Nat /\ r.last <= r.joff /\ Len(T) \in Nat
        /\ \A i \in (r.jhdr + 1)..r.joff : T[i].k = "rec"
    BY DEF OwnSlots, OwnIn, PagerRecord, RecordOf
  <1>2. k <= r.joff
    BY <1>1 DEF Within, StaleHdr
  <1>3. /\ r.jhdr <= r.joff => /\ r.last = r.jhdr
                               /\ T[r.jhdr].k # "rec"
                               /\ T[r.jhdr].val \in {0, r.joff - r.jhdr}
        /\ r.jhdr > r.joff => r.last = 0
    BY DEF OwnSlots, InProgress
  <1>4. T[k].val \in Int
    <2>1. T[k] \in Slot
      BY <1>1, <1>2
    <2> QED  BY <2>1 DEF Slot
  <1>5. CASE k = r.last
    <2>1. r.jhdr <= r.joff /\ k = r.jhdr
      BY <1>1, <1>3, <1>5
    <2>2. T[k].k # "rec" /\ T[k].val \in {0, r.joff - k}
      BY <1>3, <2>1
    <2>3. v \in Nat /\ v >= r.joff - k
      <3>1. CASE T[k].val = 0
        <4>1. v = Len(T) - k
          BY <1>5, <3>1
        <4> QED  BY <1>1, <4>1
      <3>2. CASE T[k].val # 0
        <4>1. v = r.joff - k
          BY <1>5, <2>2, <3>2
        <4>2. r.joff - k \in Nat
          BY <1>2
        <4> QED  BY <4>1, <4>2
      <3> QED  BY <3>1, <3>2
    <2>4. HdrAt(r, T, k + 1 + v)
      <3>1. k + 1 + v > r.joff
        BY <2>3
      <3> QED  BY <3>1 DEF HdrAt
    <2>5. \A i \in (k + 1)..(k + v) : i <= r.joff => T[i].k = "rec"
      BY <1>1, <2>1, <2>3
    <2> QED  BY <1>2, <2>2, <2>3, <2>4, <2>5 DEF OwnEnd
  <1>6. CASE k # r.last
    <2>1. T[k].k = "hdr"
      BY <1>6
    <2>2. k <= m
      <3>1. k # r.jhdr
        BY <1>2, <1>3, <1>6
      <3>2. k \notin (r.jhdr + 1)..r.joff
        BY <1>1, <2>1
      <3> QED  BY <1>1, <1>2, <3>1, <3>2
    <2>3. k \in 1..m
      BY <2>2
    <2>4. /\ v \in 0..(m - k)
          /\ \A i \in (k + 1)..(k + v) : T[i].k = "rec"
          /\ k + v < m => T[k + v + 1].k = "hdr"
      <3>1. /\ T[k].val \in 0..(m - k)
            /\ \A i \in (k + 1)..(k + T[k].val) : T[i].k = "rec"
            /\ k + T[k].val < m => T[k + T[k].val + 1].k = "hdr"
        BY <2>1, <2>3 DEF Chain
      <3> QED  BY <1>6, <3>1
    <2>6. v \in Nat /\ v <= m - k
      BY <2>3, <2>4
    <2>5. HdrAt(r, T, k + 1 + v)
      <3>1. CASE k + v < m
        <4>1. k + 1 + v = k + v + 1
          BY <2>6
        <4>2. T[k + 1 + v].k = "hdr"
          BY <2>4, <3>1, <4>1
        <4> QED  BY <4>2 DEF HdrAt
      <3>2. CASE ~(k + v < m)
        <4>1. k + 1 + v = r.jhdr
          BY <1>1, <2>6, <3>2
        <4>2. r.jhdr > r.joff \/ r.jhdr = r.last
          BY <1>1, <1>3
        <4> QED  BY <4>1, <4>2 DEF HdrAt
      <3> QED  BY <3>1, <3>2
    <2> QED  BY <1>2, <2>1, <2>4, <2>5, <2>6 DEF OwnEnd
  <1> QED  BY <1>5, <1>6

(* The file after the header at slot k has been read *)
HeaderRead(db, db1, I, m, k) ==
  /\ k = 1 /\ m > 0 => db1 = TruncateTo(db, SizeOf(I))
  /\ k # 1 \/ m = 0 => db1 = db

LEMMA HeaderBack ==
  ASSUME NEW T, NEW db \in Pages, NEW db1, NEW I \in Image, NEW m \in Nat, NEW k \in Nat,
         Chain(T, m, I), FileBack(db, T, I, m, k), k >= 1, T[k].k # "rec",
         HeaderRead(db, db1, I, m, k)
  PROVE  FileBack(db1, T, I, m, k + 1)
  <1>1. SizeOf(I) \in Nat
    BY ImageProperty
  <1>2. CASE k = 1 /\ m > 0
    <2>1. \A p \in Page : db1[p] = IF p > SizeOf(I) THEN Absent ELSE db[p]
      BY <1>2 DEF HeaderRead, TruncateTo
    <2>2. \A i \in 1..m : i < k + 1 => i = k
      BY <1>2
    <2> QED  BY <2>1, <2>2 DEF FileBack
  <1>3. CASE k # 1 \/ m = 0
    <2>1. db1 = db
      BY <1>3 DEF HeaderRead
    <2>2. \A i \in 1..m : i < k + 1 => i < k \/ i = k
      OBVIOUS
    <2> QED  BY <1>3, <2>1, <2>2 DEF FileBack
  <1> QED  BY <1>2, <1>3

LEMMA OwnHdrRead ==
  ASSUME NEW r \in PagerRecord, NEW T \in Seq(Slot), NEW I \in Image, NEW m \in Nat, NEW n,
         OwnSlots(r, T, I, m, n), Chain(T, m, I), OwnIn(r, T, n), r.joff \in Nat,
         r.joff <= Len(T), r.jhdr <= r.joff + 1, NEW db \in Pages, OwnRollback(r, T, db, I, m),
         r.pc = "hdr", r.k >= 1, r.k <= Len(T), T[r.k].k = "hdr" \/ r.k = r.last,
         NEW v, T[r.k].val = 0 /\ r.k = r.last => v = Len(T) - r.k,
         T[r.k].val # 0 \/ r.k # r.last => v = T[r.k].val,
         NEW q, SameTransaction(r, q), q.cache = r.cache, q.vers = r.vers,
         q.k = r.k + 1, q.left = v, q.pc = IF v = 0 THEN "hdr" ELSE "rec",
         q.dbSize = IF r.k = 1 THEN T[1].pg ELSE r.dbSize,
         NEW db1, HeaderRead(db, db1, I, m, r.k)
  PROVE  OwnSlots(q, T, I, m, n) /\ OwnRollback(q, T, db1, I, m)
  <1> DEFINE k == r.k
  <1>1. k \in Nat /\ (Within(k, r.joff, T) \/ k > Len(T)) /\ r.last \in Nat
    BY DEF PagerRecord, OwnIn
  <1>2. /\ CacheBack(r, T, I, k) /\ FileBack(db, T, I, m, k)
        /\ k > 1 => r.dbSize = SizeOf(I)
    BY DEF OwnRollback
  <1>3. v \in Nat /\ k <= r.joff /\ OwnEnd(r, T, k, v)
    <2>1. /\ k >= 1 /\ k <= Len(T) /\ (T[k].k = "hdr" \/ k = r.last)
          /\ (T[k].val = 0 /\ k = r.last => v = Len(T) - k)
          /\ (T[k].val # 0 \/ k # r.last => v = T[k].val)
      OBVIOUS
    <2> HIDE DEF k
    <2> QED  BY <1>1, <2>1, OwnHeader
  <1>4. T[k].k # "rec"
    BY <1>3 DEF OwnEnd
  <1>5. FileBack(db1, T, I, m, k + 1)
    <2>1. HeaderRead(db, db1, I, m, k) /\ k >= 1
      OBVIOUS
    <2> HIDE DEF k
    <2> QED  BY <1>1, <1>2, <1>4, <2>1, HeaderBack
  <1>6. CacheBack(q, T, I, k + 1)
    <2>1. \A i \in 1..r.joff : i < k + 1 => i < k \/ i = k
      BY <1>1
    <2> QED  BY <1>2, <1>4, <2>1 DEF CacheBack, SameTransaction
  <1>7. q.dbSize = SizeOf(I)
    <2>1. T[1].pg = SizeOf(I)
      BY DEF OwnSlots
    <2> QED  BY <1>1, <1>2, <2>1
  <1>8. q.pc \in {"hdr", "rec"} /\ q.k = k + 1 /\ (q.pc = "hdr" <=> v = 0)
    OBVIOUS
  <1>9. OwnSlots(q, T, I, m, n)
    BY <1>8 DEF OwnSlots, InProgress, SameTransaction
  <1>10. HdrAt(q, T, k + 1 + v) /\ \A i \in (k + 1)..(k + v) : i <= q.joff => T[i].k = "rec"
    BY <1>3 DEF OwnEnd, HdrAt, SameTransaction
  <1>11. k + 1 > 1
    BY <1>1
  <1>12. CASE v = 0
    <2>1. k + 1 + v = k + 1 /\ q.pc = "hdr"
      BY <1>1, <1>8, <1>12
    <2> HIDE DEF k
    <2> QED  BY <1>5, <1>6, <1>7, <1>8, <1>9, <1>10, <2>1 DEF OwnRollback
  <1>13. CASE v # 0
    <2>1. q.pc = "rec" /\ v >= 1 /\ q.left = v /\ q.k + q.left = k + 1 + v /\ q.k + q.left - 1 = k + v
      BY <1>1, <1>3, <1>8, <1>13
    <2> HIDE DEF k
    <2> QED  BY <1>5, <1>6, <1>7, <1>8, <1>9, <1>10, <1>11, <2>1 DEF OwnRollback
  <1> QED  BY <1>12, <1>13

LEMMA HotHdrRead ==
  ASSUME NEW r \in PagerRecord, NEW T \in Seq(Slot), NEW I \in Image, NEW m \in Nat,
         Chain(T, m, I), Headless(T, m), NEW db \in Pages, HotRollback(r, T, db, I, m),
         r.pc = "hdr", r.k >= 1, r.k <= Len(T), T[r.k].k = "hdr",
         NEW q, q.k = r.k + 1, q.left = T[r.k].val,
         q.pc = IF T[r.k].val = 0 THEN "hdr" ELSE "rec",
         q.seed = T[r.k].seed, q.dbSize = IF r.k = 1 THEN T[1].pg ELSE r.dbSize
  PROVE  /\ m > 0 /\ T[1].pg = SizeOf(I)
         /\ \A db1 : HeaderRead(db, db1, I, m, r.k) => HotRollback(q, T, db1, I, m)
  <1> DEFINE k == r.k
             v == T[k].val
  <1>1. k \in Nat
    BY DEF PagerRecord
  <1>2. /\ FileBack(db, T, I, m, k) /\ (k > 1 => r.dbSize = SizeOf(I)) /\ HotHdr(T, m, k)
    BY DEF HotRollback
  <1>3. k \in 1..m
    <2>1. k # m + 1
      BY <1>1 DEF Headless
    <2> QED  BY <1>2, <2>1 DEF HotHdr
  <1>4. /\ v \in 0..(m - k) /\ (\A i \in (k + 1)..(k + v) : T[i].k = "rec")
        /\ k + v < m => T[k + v + 1].k = "hdr"
        /\ T[k].seed = T[1].seed /\ T[1].pg = SizeOf(I) /\ m > 0
    <2>1. T[k].k = "hdr"
      OBVIOUS
    <2> HIDE DEF k
    <2>2. m > 0
      BY <1>3
    <2> QED  BY <1>3, <2>1, <2>2 DEF Chain
  <1>5. v \in Nat /\ v <= m - k
    BY <1>3, <1>4
  <1>6. q.dbSize = SizeOf(I) /\ q.pc \in {"hdr", "rec"} /\ (q.pc = "hdr" <=> v = 0)
    <2>1. q.dbSize = SizeOf(I)
      BY <1>1, <1>2, <1>4
    <2> QED  BY <2>1
  <1>7. q.k = k + 1 /\ q.left = v /\ q.seed = T[1].seed /\ k + 1 > 1
    BY <1>1, <1>4
  <1>8. HotHdr(T, m, k + 1 + v)
    <2> HIDE DEF k, v
    <2>1. k + 1 + v = k + v + 1
      BY <1>1, <1>5
    <2>2. CASE k + v < m
      <3>1. k + v + 1 \in 1..m /\ T[k + v + 1].k = "hdr"
        BY <1>1, <1>4, <1>5, <2>2
      <3> QED  BY <2>1, <3>1 DEF HotHdr
    <2>3. CASE ~(k + v < m)
      <3>1. k + 1 + v = m + 1
        BY <1>1, <1>5, <2>3
      <3> QED  BY <3>1 DEF HotHdr
    <2> QED  BY <2>2, <2>3
  <1>9. ASSUME NEW db1, HeaderRead(db, db1, I, m, k) PROVE HotRollback(q, T, db1, I, m)
    <2>1. FileBack(db1, T, I, m, k + 1)
      <3>1. T[k].k # "rec" /\ k >= 1
        OBVIOUS
      <3> HIDE DEF k, v
      <3> QED  BY <1>1, <1>2, <1>9, <3>1, HeaderBack
    <2>2. CASE v = 0
      <3>1. k + 1 + v = k + 1 /\ q.pc = "hdr"
        BY <1>1, <1>6, <2>2
      <3> HIDE DEF k, v
      <3> QED  BY <1>6, <1>7, <1>8, <2>1, <3>1 DEF HotRollback
    <2>3. CASE v # 0
      <3> HIDE DEF k, v
      <3>1. q.pc = "rec" /\ v >= 1
        BY <1>1, <1>5, <1>6, <2>3
      <3>2. q.k + q.left = k + 1 + v /\ q.k + q.left - 1 = k + v
        <4>1. k + 1 + v - 1 = k + v
          BY <1>1, <1>5
        <4> QED  BY <1>7, <4>1
      <3> QED  BY <1>4, <1>6, <1>7, <1>8, <2>1, <3>1, <3>2 DEF HotRollback
    <2> QED  BY <2>2, <2>3
  <1> QED  BY <1>4, <1>9

(* A playback: what Recovers says of the files and the connection *)
Back(r, T, S, I, J, m) ==
  /\ r \in PagerRecord /\ r.jfd \in Inode /\ os.dir = r.jfd /\ os.dir # 0 /\ T = os.file[r.jfd]
  /\ T \in Seq(Slot) /\ S \in Seq(Slot) /\ S = disk.file[r.jfd]
  /\ I \in Image /\ m \in Nat /\ txn \in Nat /\ os.db \in Pages
  /\ Leads(S, T, os.db, disk.behind, I, m) /\ Chain(T, m, I)
  /\ os \in FileSystem /\ disk \in Medium /\ Global(I, J, m, os, disk, txn)
  /\ r.k \in Nat /\ r.k >= 1 /\ Cached(r, I)
  /\ r.hot => /\ HotRollback(r, T, os.db, I, m) /\ Headless(T, m) /\ S = T
              /\ r.jhdr = Len(T) + 1 /\ r.dirty = {} /\ r.eState = "OPEN"
  /\ ~r.hot => /\ Changing(r) /\ OwnSlots(r, T, I, m, txn) /\ OwnRollback(r, T, os.db, I, m)
               /\ OwnIn(r, T, txn) /\ r.joff \in Nat /\ r.joff >= 1 /\ r.joff <= Len(T)
               /\ r.jhdr <= r.joff + 1
               /\ r.eState = "CACHEMOD" => disk.behind = {}

LEMMA BackProperty ==
  ASSUME Shape, AllNamed, AllOwn, NEW I, NEW J, NEW m, Recovers(I, J, m), NEW c \in Conn,
         conn[c].pc \in {"hdr", "rec"}
  PROVE  Back(conn[c], os.file[conn[c].jfd], disk.file[conn[c].jfd], I, J, m)
  <1> DEFINE r == conn[c]
             T == os.file[r.jfd]
             S == disk.file[r.jfd]
  <1>1. /\ r \in PagerRecord /\ Control(r, lock[c]) /\ Changes(r) /\ HasJournal(r, os.file, txn)
        /\ OwnJournal(r, os.file, txn) /\ r.pc \in {"hdr", "rec"}
    BY Own DEF AllOwn
  <1>2. /\ r.k \in Nat /\ r.k >= 1 /\ r.hot \in BOOLEAN /\ (r.hot => r.eState = "OPEN")
        /\ ~r.hot => r.eState \in {"CACHEMOD", "DBMOD"}
    BY <1>1 DEF Control, PagerRecord
  <1>3. /\ os.dir = r.jfd /\ os.dir # 0 /\ os.dir \in Inode /\ m \in Nat /\ I \in Image
        /\ S \in Seq(Slot) /\ T \in Seq(Slot)
        /\ Leads(S, T, os.db, disk.behind, I, m)
    BY <1>2, JournalLeads
  <1>4. Chain(T, m, I)
    BY <1>3 DEF Leads, Pair
  <1>5. /\ os \in FileSystem /\ disk \in Medium /\ os.db \in Pages /\ txn \in Nat
        /\ disk.behind \in SUBSET Page
    BY Stored, PagerAssumption
  <1>6. Facts(r, lock[c], I, m, os, disk, txn) /\ Global(I, J, m, os, disk, txn)
    BY DEF Recovers
  <1>7. Cached(r, I) /\ Txn(r, I, m, os, disk, txn)
    BY <1>6 DEF Facts
  <1>8. r.hot => /\ HotRollback(r, T, os.db, I, m) /\ Headless(T, m) /\ S = T
                 /\ r.jhdr = Len(T) + 1 /\ r.dirty = {} /\ r.eState = "OPEN"
    BY <1>1, <1>2, <1>7 DEF Txn, Changes
  <1>9. ASSUME ~r.hot
        PROVE  /\ Changing(r) /\ OwnSlots(r, T, I, m, txn) /\ OwnRollback(r, T, os.db, I, m)
               /\ OwnIn(r, T, txn) /\ r.joff \in Nat /\ r.joff >= 1 /\ r.joff <= Len(T)
               /\ r.jhdr <= r.joff + 1
    <2>1. Changing(r) /\ r.eState \in Writers /\ InTxn(r)
      BY <1>1, <1>2, <1>9 DEF Changing, InTxn
    <2>2. r.joff \in Nat /\ r.jhdr \in Nat
      BY <1>1 DEF PagerRecord
    <2>3. OwnIn(r, T, txn)
      BY <1>1, <2>1 DEF OwnJournal
    <2> QED  BY <1>1, <1>7, <2>1, <2>2, <2>3 DEF Txn, HasJournal
  <1>10. ASSUME ~r.hot, r.eState = "CACHEMOD" PROVE disk.behind = {}
    <2>1. m = 0 /\ I \in Pages
      BY <1>3, <1>9, <1>10, ImageProperty DEF OwnSlots
    <2>2. Leads(S, T, os.db, disk.behind, I, 0)
      BY <1>3, <2>1
    <2> DEFINE db == os.db
               b == disk.behind
    <2>3. Leads(S, T, db, b, I, 0) /\ db \in Pages /\ b \in SUBSET Page
      BY <1>5, <2>2
    <2> HIDE DEF db, b, S, T
    <2>4. b = {}
      BY <2>1, <2>3, LeadsNothing
    <2> QED  BY <2>4 DEF b
  <1> HIDE DEF r, S, T
  <1>11. T = os.file[r.jfd] /\ S = disk.file[r.jfd]
    BY DEF T, S
  <1>12. Back(r, T, S, I, J, m)
    BY <1>1, <1>2, <1>3, <1>4, <1>5, <1>6, <1>7, <1>8, <1>9, <1>10, <1>11 DEF Back
  <1> QED  BY <1>12 DEF r, S, T

(* The playback has come to its end. *)
LEMMA PlaybackEnds ==
  ASSUME Shape, NEW I, NEW J, NEW m, Recovers(I, J, m), NEW c \in Conn,
         NEW T, NEW S, Back(conn[c], T, S, I, J, m), conn[c].pc \in {"hdr", "rec"},
         conn[c].hot => conn[c].k > m, ~conn[c].hot => conn[c].k > conn[c].joff,
         conn' = [conn EXCEPT ![c] = [conn[c] EXCEPT !.pc = AfterPlayback(conn[c])]],
         lock' = lock, os' = os, disk' = disk, txn' = txn
  PROVE  Stays(c)
  <1> DEFINE r == conn[c]
             q == [r EXCEPT !.pc = AfterPlayback(r)]
  <1>1. /\ r \in PagerRecord /\ Control(r, lock[c]) /\ Back(r, T, S, I, J, m)
        /\ r.hot => r.k > m
        /\ ~r.hot => r.k > r.joff
        /\ conn' = [conn EXCEPT ![c] = q]
    BY Own
  <1>2. r.k \in Nat /\ m \in Nat /\ I \in Image /\ os.db \in Pages /\ T = os.file[r.jfd]
    BY <1>1 DEF Back
  <1>3. SameView(r, q) /\ SameJournal(r, q) /\ q.pc = AfterPlayback(r)
    BY <1>1 DEF SameView, SameJournal, PagerRecord
  <1> HIDE DEF r, q
  <1>4. q.pc \in {"rsync", "fin"}
    BY <1>3 DEF AfterPlayback
  <1>5. ASSUME r.hot PROVE q.pc = "rsync" /\ r.eState = "OPEN"
    BY <1>1, <1>3, <1>5 DEF AfterPlayback, DbTouched, Back
  <1>6. ASSUME ~r.hot PROVE r.joff \in Nat /\ m <= r.joff
    <2>1. r.jhdr = m + 1 /\ r.jhdr <= r.joff + 1 /\ r.joff \in Nat
      BY <1>1, <1>6 DEF Back, OwnSlots
    <2> QED  BY <1>2, <2>1
  <1>7. r.k > m
    BY <1>1, <1>2, <1>6
  <1>8. FileBack(os.db, T, I, m, r.k)
    <2>1. r.pc \in {"hdr", "rec"}
      BY DEF r
    <2> QED  BY <1>1, <2>1 DEF Back, OwnRollback, HotRollback
  <1>9. os.db = I
    <2> DEFINE db == os.db
               k == r.k
               b == disk.behind
    <2>1. Leads(S, T, db, b, I, m) /\ FileBack(db, T, I, m, k) /\ k > m /\ k \in Nat /\ db \in Pages
      BY <1>1, <1>2, <1>7, <1>8 DEF Back
    <2> HIDE DEF db, k, b
    <2>2. db = I
      BY <1>2, <2>1, PlayedBack
    <2> QED  BY <2>2 DEF db
  <1>10. ASSUME ~r.hot PROVE OwnSlots(q, T, I, m, txn) /\ OwnRollback(q, T, os.db, I, m)
    <2>1. OwnSlots(r, T, I, m, txn) /\ OwnRollback(r, T, os.db, I, m) /\ r.joff >= 1
      BY <1>1, <1>10 DEF Back
    <2>2. OwnSlots(q, T, I, m, txn)
      <3>1. q.pc \in Replaying /\ q.pc # "jsync2"
        BY <1>4
      <3> QED  BY <1>3, <2>1, <3>1, SameOwnSlots
    <2>3. CacheBack(r, T, I, r.k) /\ (r.k > 1 => r.dbSize = SizeOf(I))
      <3>1. r.pc \in {"hdr", "rec"}
        BY DEF r
      <3> QED  BY <2>1, <3>1 DEF OwnRollback
    <2>4. r.k > 1 /\ \A i \in 1..r.joff : i < r.k
      BY <1>1, <1>2, <1>6, <1>10, <2>1
    <2>5. CacheBack(q, T, I, q.joff + 1) /\ q.dbSize = SizeOf(I)
      BY <1>3, <2>3, <2>4 DEF CacheBack, SameView, SameJournal
    <2> QED  BY <1>4, <1>9, <2>2, <2>5 DEF OwnRollback
  <1>11. q.pc = "fin" => disk.behind = {}
    <2> SUFFICES ASSUME q.pc = "fin" PROVE disk.behind = {}
      OBVIOUS
    <2>1. ~r.hot
      BY <1>5
    <2>2. r.eState = "CACHEMOD"
      BY <1>1, <1>3, <2>1 DEF AfterPlayback, DbTouched, Back, Changing
    <2> QED  BY <1>1, <2>1, <2>2 DEF Back
  <1>12. ASSUME r.hot
         PROVE  /\ HotRollback(q, T, os.db, I, m) /\ Headless(T, m) /\ S = T
                /\ q.jhdr = Len(T) + 1
    BY <1>1, <1>3, <1>4, <1>9, <1>12 DEF Back, HotRollback, SameJournal
  <1>13. q.eState = r.eState /\ q.hot = r.hot /\ q.jfd = r.jfd /\ S = disk.file[q.jfd] /\ T = os.file[q.jfd]
    BY <1>1, <1>2, <1>3 DEF SameView, SameJournal, Back
  <1>14. /\ r.hot => ~Changing(r)
         /\ r.hot \in BOOLEAN
         /\ q.eState # "FINISHED" /\ q.eState # "READER"
    BY <1>1, <1>13 DEF Changing, PagerRecord, Back
  <1>15. Txn(q, I, m, os, disk, txn)
    BY <1>4, <1>10, <1>11, <1>12, <1>13, <1>14 DEF Txn, Changing
  <1>16. Cached(q, I)
    <2>1. Cached(r, I)
      BY <1>1 DEF Back
    <2> QED  BY <1>3, <2>1, SameCached
  <1>17. lock[c] \in {2, 3} => Clean(I, os, disk)
    <2>1. Facts(r, lock[c], I, m, os, disk, txn)
      BY DEF Recovers, r
    <2> QED  BY <2>1 DEF Facts, MayRead
  <1>18. Facts(q, lock'[c], I, m, os, disk, txn)
    BY <1>4, <1>14, <1>15, <1>16, <1>17 DEF Facts, MayRead
  <1>19. LockStep(c)
    BY DEF LockStep
  <1> QED  BY <1>1, <1>18, <1>19, LocalFrame

(* Pages the chain covers may change during a playback. *)
PagesChange(I, T, m, o, d, o1, d1) ==
  /\ o1.dir = o.dir /\ o1.file = o.file
  /\ d1.dir = d.dir /\ d1.file = d.file /\ d1.db = d.db
  /\ (o1.db = o.db /\ d1.behind = d.behind) \/ m > 0
  /\ \A p \in Page :
       \/ o1.db[p] = o.db[p] /\ (p \in d1.behind <=> p \in d.behind)
       \/ Covered(T, m, I, p) /\ p \in d1.behind

LEMMA PagesChanged ==
  ASSUME NEW r, NEW T, NEW S, NEW I, NEW J, NEW m, Back(r, T, S, I, J, m),
         NEW o1 \in FileSystem, NEW d1 \in Medium, PagesChange(I, T, m, os, disk, o1, d1)
  PROVE  Global(I, J, m, o1, d1, txn)
  <1>1. /\ os \in FileSystem /\ disk \in Medium /\ txn \in Nat /\ os.dir # 0
        /\ Global(I, J, m, os, disk, txn) /\ T = os.file[os.dir]
    BY DEF Back
  <1>2. /\ o1.dir = os.dir /\ o1.file = os.file
        /\ d1.dir = disk.dir /\ d1.file = disk.file /\ d1.db = disk.db
        /\ (o1.db = os.db /\ d1.behind = disk.behind) \/ m > 0
        /\ \A p \in Page :
              \/ o1.db[p] = os.db[p] /\ (p \in d1.behind <=> p \in disk.behind)
              \/ Covered(os.file[os.dir], m, I, p) /\ p \in d1.behind
    BY <1>1 DEF PagesChange
  <1> QED  BY <1>1, <1>2, PagesWritten

(* A step inside a playback *)
LEMMA BackStep ==
  ASSUME Shape, NEW I, NEW J, NEW m, Recovers(I, J, m), NEW c \in Conn,
         NEW T, NEW S, Back(conn[c], T, S, I, J, m), NEW q, conn' = [conn EXCEPT ![c] = q],
         lock' = lock, txn' = txn, os' \in FileSystem, disk' \in Medium,
         (os' = os /\ disk' = disk) \/ m > 0,
         PagesChange(I, T, m, os, disk, os', disk'),
         Cached(q, I), q.pc \in {"hdr", "rec"}, q.eState = conn[c].eState, q.hot = conn[c].hot,
         q.jfd = conn[c].jfd, q.jhdr = conn[c].jhdr,
         ~q.hot => OwnSlots(q, T, I, m, txn) /\ OwnRollback(q, T, os'.db, I, m),
         q.hot => HotRollback(q, T, os'.db, I, m)
  PROVE  Stays(c)
  <1> DEFINE r == conn[c]
  <1>1. r \in PagerRecord /\ Control(r, lock[c]) /\ Facts(r, lock[c], I, m, os, disk, txn)
    BY Own DEF Recovers
  <1>2. Global(I, J, m, os', disk', txn)
    <2> DEFINE o1 == os'
               d1 == disk'
    <2>1. o1 \in FileSystem /\ d1 \in Medium /\ PagesChange(I, T, m, os, disk, o1, d1)
      OBVIOUS
    <2> HIDE DEF o1, d1
    <2>2. Global(I, J, m, o1, d1, txn)
      BY <2>1, PagesChanged
    <2> QED  BY <2>2 DEF o1, d1
  <1>3. /\ r.hot => Headless(T, m) /\ S = T /\ r.jhdr = Len(T) + 1 /\ r.eState = "OPEN"
        /\ ~r.hot => Changing(r) /\ OwnSlots(r, T, I, m, txn)
        /\ T = os.file[r.jfd] /\ S = disk.file[r.jfd] /\ r.hot \in BOOLEAN /\ m \in Nat
    BY DEF Back, PagerRecord
  <1>4. T = os'.file[q.jfd] /\ S = disk'.file[q.jfd]
    BY <1>3 DEF PagesChange
  <1>5. Txn(q, I, m, os', disk', txn)
    BY <1>3, <1>4 DEF Txn, Changing
  <1>6. q.eState # "READER"
    BY <1>3 DEF Changing
  <1>7. CASE os' = os /\ disk' = disk
    <2>1. lock[c] \in {2, 3} => Clean(I, os, disk)
      BY <1>1 DEF Facts, MayRead
    <2>2. Facts(q, lock'[c], I, m, os, disk, txn)
      BY <1>5, <1>6, <1>7, <2>1 DEF Facts, MayRead
    <2>3. LockStep(c)
      BY DEF LockStep
    <2> QED  BY <1>7, <2>2, <2>3, LocalFrame
  <1>8. CASE m > 0
    <2>1. lock[c] = 4
      <3>1. CASE r.hot
        BY <1>1, <3>1 DEF Control
      <3>2. CASE ~r.hot
        <4>1. r.eState = "DBMOD"
          BY <1>3, <1>8, <3>2 DEF OwnSlots, Changing
        <4> QED  BY <1>1, <4>1 DEF Control
      <3> QED  BY <3>1, <3>2
    <2>2. Facts(q, lock'[c], I, m, os', disk', txn')
      BY <1>5, <1>6, <2>1 DEF Facts, MayRead
    <2>3. Global(I, J, m, os', disk', txn') /\ \A x \in Conn : x # c => lock'[x] = lock[x]
      BY <1>2
    <2> QED  BY <2>1, <2>2, <2>3, StaysFrame
  <1> QED  BY <1>7, <1>8

LEMMA ReadHdrRecovery ==
  ASSUME Shape, AllNamed, AllOwn, Recovery, NEW c \in Conn, ReadHdr(c)
  PROVE  Stays(c)
  <1>1. PICK I, J, m : Recovers(I, J, m)
    BY DEF Recovery
  <1> DEFINE r == conn[c]
             T == os.file[r.jfd]
             S == disk.file[r.jfd]
             ok == r.k <= Len(T) /\ (T[r.k].k = "hdr" \/ OwnLast(r))
             v == IF T[r.k].val = 0 /\ OwnLast(r) THEN Len(T) - r.k ELSE T[r.k].val
             size == IF r.k = 1 THEN T[1].pg ELSE r.dbSize
             sd == T[r.k].seed
             kk == r.k + 1
             l == IF v = 0 THEN "hdr" ELSE "rec"
             q == [r EXCEPT !.pc = l, !.left = v, !.seed = sd, !.k = kk, !.dbSize = size]
  <1>2. r.pc = "hdr" /\ lock' = lock /\ txn' = txn /\ r \in PagerRecord
    BY Own DEF ReadHdr, At
  <1>3. Back(r, T, S, I, J, m)
    BY <1>1, <1>2, BackProperty
  <1>4. \/ /\ ~ok /\ os' = os /\ disk' = disk
           /\ conn' = [conn EXCEPT ![c] = [r EXCEPT !.pc = AfterPlayback(r)]]
        \/ /\ ok /\ conn' = [conn EXCEPT ![c] = q]
           /\ \/ /\ r.k = 1 /\ DbTouched(r) /\ os' = [os EXCEPT !.db = TruncateTo(os.db, size)]
                 /\ disk' = Behind({p \in Page : os.db[p] # os'.db[p]})
              \/ ~(r.k = 1 /\ DbTouched(r)) /\ os' = os /\ disk' = disk
    BY DEF ReadHdr, Journal, Goto, Set
  <1>5. /\ T \in Seq(Slot) /\ r.k \in Nat /\ r.k >= 1 /\ m \in Nat /\ I \in Image /\ os.db \in Pages
        /\ Chain(T, m, I) /\ os \in FileSystem /\ disk \in Medium /\ Cached(r, I) /\ r.hot \in BOOLEAN
    BY <1>2, <1>3 DEF Back, PagerRecord
  <1>6. CASE ~ok /\ os' = os /\ disk' = disk /\ conn' = [conn EXCEPT ![c] = [r EXCEPT !.pc = AfterPlayback(r)]]
    <2>1. r.hot => r.k > m
      <3> SUFFICES ASSUME r.hot PROVE r.k > m
        OBVIOUS
      <3>0. HotRollback(r, T, os.db, I, m)
        BY <1>3 DEF Back
      <3>1. HotHdr(T, m, r.k) /\ m <= Len(T)
        <4>1. HotHdr(T, m, r.k)
          BY <1>2, <3>0 DEF HotRollback
        <4>2. m <= Len(T)
          BY <1>5 DEF Chain
        <4> QED  BY <4>1, <4>2
      <3> HIDE DEF T
      <3> QED  BY <1>5, <1>6, <3>1 DEF HotHdr
    <2>2. ~r.hot => r.k > r.joff
      <3> SUFFICES ASSUME ~r.hot PROVE r.k > r.joff
        OBVIOUS
      <3>1. HdrAt(r, T, r.k) /\ r.joff <= Len(T) /\ r.joff \in Nat
        BY <1>2, <1>3 DEF Back, OwnRollback
      <3> HIDE DEF T
      <3> QED  BY <1>5, <1>6, <3>1 DEF HdrAt, OwnLast
    <2> QED  BY <1>1, <1>2, <1>3, <1>6, <2>1, <2>2, PlaybackEnds
  <1>7. ASSUME ok, conn' = [conn EXCEPT ![c] = q],
               \/ /\ r.k = 1 /\ DbTouched(r) /\ os' = [os EXCEPT !.db = TruncateTo(os.db, size)]
                  /\ disk' = Behind({p \in Page : os.db[p] # os'.db[p]})
               \/ ~(r.k = 1 /\ DbTouched(r)) /\ os' = os /\ disk' = disk
        PROVE  Stays(c)
    <2>1. /\ q.pc = l /\ q.left = v /\ q.seed = sd /\ q.k = kk /\ q.dbSize = size
          /\ SameTransaction(r, q) /\ q.cache = r.cache /\ q.vers = r.vers
      <3> HIDE DEF l, v, sd, kk, size, r
      <3> QED  BY <1>2 DEF SameTransaction, PagerRecord
    <2> HIDE DEF q
    <2>2. T[1].pg = SizeOf(I) /\ (m > 0 <=> DbTouched(r))
      <3>1. CASE r.hot
        <4>1. T[r.k].k = "hdr"
          BY <1>7, <3>1 DEF OwnLast
        <4>2. HotHdr(T, m, r.k) /\ Headless(T, m)
          BY <1>2, <1>3, <3>1 DEF Back, HotRollback
        <4>3. m > 0
          <5> HIDE DEF T, r
          <5> QED  BY <1>5, <1>7, <4>1, <4>2 DEF HotHdr, Headless
        <4>4. T[1].pg = SizeOf(I)
          BY <1>5, <4>3 DEF Chain
        <4> QED  BY <3>1, <4>3, <4>4 DEF DbTouched
      <3>2. CASE ~r.hot
        <4>1. OwnSlots(r, T, I, m, txn) /\ Changing(r)
          BY <1>3, <3>2 DEF Back
        <4>2. T[1].pg = SizeOf(I) /\ (r.eState = "CACHEMOD" <=> m = 0)
          BY <4>1 DEF OwnSlots
        <4> QED  BY <1>5, <3>2, <4>1, <4>2 DEF DbTouched, Changing
      <3> QED  BY <1>5, <3>1, <3>2
    <2>3. /\ os' \in FileSystem /\ disk' \in Medium /\ HeaderRead(os.db, os'.db, I, m, r.k)
          /\ PagesChange(I, T, m, os, disk, os', disk')
          /\ (os' = os /\ disk' = disk) \/ m > 0
      <3>1. CASE ~(r.k = 1 /\ DbTouched(r)) /\ os' = os /\ disk' = disk
        <4>1. HeaderRead(os.db, os'.db, I, m, r.k)
          BY <1>5, <2>2, <3>1 DEF HeaderRead
        <4>2. PagesChange(I, T, m, os, disk, os', disk')
          BY <3>1 DEF PagesChange
        <4> QED  BY <1>5, <3>1, <4>1, <4>2
      <3>2. CASE /\ r.k = 1 /\ DbTouched(r) /\ os' = [os EXCEPT !.db = TruncateTo(os.db, size)]
                 /\ disk' = Behind({p \in Page : os.db[p] # os'.db[p]})
        <4> DEFINE P == {p \in Page : os.db[p] # os'.db[p]}
                   tr == TruncateTo(os.db, SizeOf(I))
        <4>1. size = SizeOf(I) /\ m > 0
          BY <2>2, <3>2
        <4>2. os' = [os EXCEPT !.db = tr]
          BY <3>2, <4>1
        <4>3. SizeOf(I) \in Nat
          BY <1>5, ImageProperty
        <4>4. tr \in Pages
          <5> DEFINE db == os.db
          <5>1. db \in Pages
            BY <1>5
          <5> HIDE DEF db
          <5>2. TruncateTo(db, SizeOf(I)) \in Pages
            BY <4>3, <5>1, TruncateType
          <5> QED  BY <5>2 DEF db
        <4>5. \A p \in Page : tr[p] = IF p > SizeOf(I) THEN Absent ELSE os.db[p]
          BY DEF TruncateTo
        <4>6. P \in SUBSET Page /\ disk' = [disk EXCEPT !.behind = disk.behind \cup P]
          BY <3>2 DEF Behind
        <4> HIDE DEF tr
        <4>7. os' \in FileSystem /\ os'.db = tr /\ os'.dir = os.dir /\ os'.file = os.file
          BY <1>5, <4>2, <4>4 DEF FileSystem
        <4>8. \A p \in Page : p \in P <=> os.db[p] # tr[p]
          BY <4>7
        <4> HIDE DEF P
        <4>9. /\ disk' \in Medium /\ disk'.behind = disk.behind \cup P
              /\ disk'.dir = disk.dir /\ disk'.file = disk.file /\ disk'.db = disk.db
          BY <1>5, <4>6 DEF Medium
        <4>10. HeaderRead(os.db, os'.db, I, m, r.k)
          BY <3>2, <4>1, <4>7 DEF HeaderRead, tr
        <4>11. ASSUME NEW p \in Page
               PROVE  \/ os'.db[p] = os.db[p] /\ (p \in disk'.behind <=> p \in disk.behind)
                      \/ Covered(T, m, I, p) /\ p \in disk'.behind
          <5>1. CASE p \in P
            <6>1. p > SizeOf(I)
              BY <4>5, <4>8, <5>1
            <6> QED  BY <4>1, <4>9, <5>1, <6>1 DEF Covered
          <5>2. CASE p \notin P
            BY <4>7, <4>8, <4>9, <5>2
          <5> QED  BY <5>1, <5>2
        <4>12. PagesChange(I, T, m, os, disk, os', disk')
          BY <4>1, <4>7, <4>9, <4>11 DEF PagesChange
        <4> QED  BY <4>1, <4>7, <4>9, <4>10, <4>12
      <3> QED  BY <1>7, <3>1, <3>2
    <2>4. Cached(q, I)
      BY <1>3, <1>5, <2>1 DEF Cached, Sound, StaleCache, Reader, SameTransaction, Back, Changing
    <2>5. q.pc \in {"hdr", "rec"} /\ q.pc = (IF v = 0 THEN "hdr" ELSE "rec")
      BY <2>1
    <2>6. r.hot => HotRollback(q, T, os'.db, I, m)
      <3> SUFFICES ASSUME r.hot PROVE HotRollback(q, T, os'.db, I, m)
        OBVIOUS
      <3> DEFINE db == os.db
                 db1 == os'.db
      <3>1. T[r.k].k = "hdr" /\ r.k <= Len(T) /\ v = T[r.k].val
        BY <1>7 DEF OwnLast
      <3>2. Headless(T, m) /\ HotRollback(r, T, db, I, m) /\ db \in Pages
            /\ HeaderRead(db, db1, I, m, r.k)
        BY <1>3, <1>5, <2>3 DEF Back
      <3>3. /\ q.k = r.k + 1 /\ q.left = T[r.k].val
            /\ q.pc = (IF T[r.k].val = 0 THEN "hdr" ELSE "rec")
            /\ q.seed = T[r.k].seed /\ q.dbSize = (IF r.k = 1 THEN T[1].pg ELSE r.dbSize)
        BY <2>1, <3>1
      <3> HIDE DEF T, r, db, db1, v
      <3>4. HotRollback(q, T, db1, I, m)
        BY <1>2, <1>5, <3>1, <3>2, <3>3, HotHdrRead
      <3> QED  BY <3>4 DEF db1
    <2>7. ~r.hot => OwnSlots(q, T, I, m, txn) /\ OwnRollback(q, T, os'.db, I, m)
      <3> SUFFICES ASSUME ~r.hot PROVE OwnSlots(q, T, I, m, txn) /\ OwnRollback(q, T, os'.db, I, m)
        OBVIOUS
      <3> DEFINE db == os.db
                 db1 == os'.db
      <3>1. (T[r.k].k = "hdr" \/ r.k = r.last) /\ r.k <= Len(T)
        BY <1>7 DEF OwnLast
      <3>2. /\ T[r.k].val = 0 /\ r.k = r.last => v = Len(T) - r.k
            /\ T[r.k].val # 0 \/ r.k # r.last => v = T[r.k].val
        BY DEF OwnLast
      <3>3. /\ OwnSlots(r, T, I, m, txn) /\ OwnRollback(r, T, db, I, m) /\ OwnIn(r, T, txn)
            /\ r.joff \in Nat /\ r.joff <= Len(T) /\ r.jhdr <= r.joff + 1 /\ db \in Pages
            /\ HeaderRead(db, db1, I, m, r.k)
        BY <1>3, <1>5, <2>3 DEF Back
      <3>4. /\ q.k = r.k + 1 /\ q.left = v /\ q.dbSize = (IF r.k = 1 THEN T[1].pg ELSE r.dbSize)
        BY <2>1
      <3> HIDE DEF T, r, db, db1, v
      <3>5. OwnSlots(q, T, I, m, txn) /\ OwnRollback(q, T, db1, I, m)
        BY <1>2, <1>5, <2>1, <2>5, <3>1, <3>2, <3>3, <3>4, OwnHdrRead
      <3> QED  BY <3>5 DEF db1
    <2>8. q.eState = r.eState /\ q.hot = r.hot /\ q.jfd = r.jfd /\ q.jhdr = r.jhdr
      BY <2>1 DEF SameTransaction
    <2>9. conn' = [conn EXCEPT ![c] = q]
      BY <1>7
    <2> HIDE DEF T, S, v
    <2> QED  BY <1>1, <1>2, <1>3, <2>3, <2>4, <2>5, <2>6, <2>7, <2>8, <2>9, BackStep
  <1> QED  BY <1>4, <1>6, <1>7

(* The record at slot k of the connection's own journal *)
OwnRec(r, T, I, m) ==
  /\ r.k <= r.joff =>
       /\ Plays(r, T) /\ ~Skips(r, T) /\ RecordOf(T[r.k], I) /\ T[r.k].pg \in Page
       /\ T[r.k].pg \in r.inJournal /\ r.cache[T[r.k].pg] # Absent
  /\ r.k > r.joff => ~Plays(r, T)
  /\ r.k > 1 /\ r.dbSize = SizeOf(I)

LEMMA OwnRecord ==
  ASSUME NEW r \in PagerRecord, NEW T \in Seq(Slot), NEW I \in Image, NEW m \in Nat, NEW n \in Nat,
         OwnSlots(r, T, I, m, n), Chain(T, m, I), OwnIn(r, T, n), r.joff \in Nat,
         r.joff <= Len(T), r.jhdr <= r.joff + 1, NEW db, OwnRollback(r, T, db, I, m),
         r.pc = "rec"
  PROVE  OwnRec(r, T, I, m)
  <1>1. /\ r.k > 1 /\ r.left >= 1 /\ r.k \in Nat /\ r.left \in Int /\ r.dbSize = SizeOf(I)
        /\ \A i \in r.k..(r.k + r.left - 1) : i <= r.joff => T[i].k = "rec"
    BY DEF OwnRollback, PagerRecord
  <1>2. /\ r.seed = n /\ \A i \in 1..r.joff : T[i].seed = n
    BY DEF OwnIn
  <1>3. /\ r.jhdr = m + 1 /\ (\A i \in (r.jhdr + 1)..r.joff : RecordOf(T[i], I))
        /\ \A i \in (r.joff + 1)..Len(T) : T[i].seed < n
        /\ \A p \in Page : p \in r.inJournal <=> Recorded(T, r.joff, p)
        /\ \A p \in r.inJournal : r.cache[p] # Absent
    BY DEF OwnSlots
  <1>4. ASSUME r.k <= r.joff
        PROVE  /\ Plays(r, T) /\ ~Skips(r, T) /\ RecordOf(T[r.k], I) /\ T[r.k].pg \in Page
               /\ T[r.k].pg \in r.inJournal /\ r.cache[T[r.k].pg] # Absent
    <2> DEFINE s == T[r.k]
    <2>1. r.k \in r.k..(r.k + r.left - 1) /\ r.k \in 1..r.joff /\ r.k \in 1..Len(T)
      BY <1>1, <1>4
    <2>2. s.k = "rec" /\ s \in Slot
      BY <1>1, <1>4, <2>1
    <2>3. s.pg \in Page
      BY <2>2 DEF Slot
    <2>4. RecordOf(s, I)
      <3>1. CASE r.k <= m
        <4>1. r.k \in 1..m
          BY <1>1, <3>1
        <4>2. T[r.k].k = "hdr" \/ RecordOf(T[r.k], I)
          BY <4>1 DEF Chain
        <4> QED  BY <2>2, <4>2
      <3>2. CASE r.k = r.jhdr
        <4>1. T[r.k].k # "rec"
          BY <1>4, <3>2 DEF OwnSlots, InProgress
        <4> QED  BY <2>2, <4>1
      <3>3. CASE r.k > r.jhdr
        <4>1. r.k \in (r.jhdr + 1)..r.joff
          BY <1>1, <1>3, <1>4, <3>3
        <4> QED  BY <1>3, <4>1
      <3> QED  BY <1>1, <1>3, <3>1, <3>2, <3>3
    <2>5. s.seed = n /\ s.pg <= SizeOf(I)
      BY <1>2, <2>1, <2>4 DEF RecordOf
    <2>6. Recorded(T, r.joff, s.pg)
      BY <2>1, <2>2 DEF Recorded
    <2>7. s.pg \in r.inJournal /\ r.cache[s.pg] # Absent
      <3> HIDE DEF s
      <3> QED  BY <1>3, <2>3, <2>6
    <2>8. s.pg \in Nat /\ SizeOf(I) \in Nat
      BY <2>3, ImageProperty DEF Page
    <2>9. Plays(r, T) /\ ~Skips(r, T)
      BY <1>1, <1>2, <2>1, <2>2, <2>5, <2>8 DEF Plays, Skips, IsRecord
    <2> QED  BY <2>3, <2>4, <2>7, <2>9
  <1>5. ASSUME r.k > r.joff PROVE ~Plays(r, T)
    <2> SUFFICES ASSUME Plays(r, T) PROVE FALSE
      OBVIOUS
    <2>1. r.k \in (r.joff + 1)..Len(T) /\ T[r.k].seed = n
      BY <1>1, <1>2, <1>5 DEF Plays, IsRecord
    <2>2. T[r.k].seed < n
      BY <1>3, <2>1
    <2> QED  BY <2>1, <2>2
  <1> QED  BY <1>1, <1>4, <1>5 DEF OwnRec

(* The record at slot k of a hot journal *)
LEMMA HotRecord ==
  ASSUME NEW r \in PagerRecord, NEW T \in Seq(Slot), NEW I \in Image, NEW m \in Nat,
         Chain(T, m, I), NEW db, HotRollback(r, T, db, I, m), r.pc = "rec", r.hot,
         r.jhdr = Len(T) + 1
  PROVE  /\ r.k \in 1..m /\ r.k > 1 /\ Plays(r, T) /\ ~Skips(r, T) /\ ToFile(r, T)
         /\ RecordOf(T[r.k], I) /\ T[r.k].k = "rec" /\ T[r.k].pg \in Page
  <1> DEFINE s == T[r.k]
  <1>1. /\ r.k > 1 /\ r.left >= 1 /\ r.k \in Nat /\ r.left \in Int /\ r.dbSize = SizeOf(I)
        /\ \A i \in r.k..(r.k + r.left - 1) : T[i].k = "rec"
        /\ HotHdr(T, m, r.k + r.left) /\ r.seed = T[1].seed
    BY DEF HotRollback, PagerRecord
  <1>2. r.k \in 1..m
    BY <1>1 DEF HotHdr
  <1>3. m <= Len(T) /\ Len(T) \in Nat
    BY DEF Chain
  <1>4. r.k \in 1..Len(T) /\ r.k \in r.k..(r.k + r.left - 1)
    BY <1>1, <1>2, <1>3
  <1>5. s.k = "rec" /\ s \in Slot
    BY <1>1, <1>4
  <1>6. s.pg \in Page
    BY <1>5 DEF Slot
  <1>7. RecordOf(s, I) /\ s.seed = T[1].seed
    BY <1>2, <1>5 DEF Chain
  <1>8. s.pg <= SizeOf(I) /\ s.pg \in Nat /\ SizeOf(I) \in Nat
    BY <1>6, <1>7, ImageProperty DEF RecordOf, Page
  <1>9. Plays(r, T) /\ ~Skips(r, T) /\ ToFile(r, T)
    BY <1>1, <1>3, <1>4, <1>5, <1>7, <1>8 DEF Plays, Skips, IsRecord, ToFile, DbTouched
  <1> QED  BY <1>1, <1>2, <1>5, <1>6, <1>7, <1>9

(* One page the chain covers is written. *)
PageChange(I, T, m, p, v, o1, d1) ==
  /\ o1 \in FileSystem /\ d1 \in Medium /\ o1.db = [os.db EXCEPT ![p] = v]
  /\ PagesChange(I, T, m, os, disk, o1, d1)

LEMMA CoveredChange ==
  ASSUME NEW r, NEW T, NEW S, NEW I, NEW J, NEW m, Back(r, T, S, I, J, m), m > 0,
         NEW p \in Page, NEW v \in Int, Covered(T, m, I, p),
         NEW o1, NEW d1, o1 = [os EXCEPT !.db[p] = v], d1 = Behind({p})
  PROVE  PageChange(I, T, m, p, v, o1, d1)
  <1>1. os \in FileSystem /\ disk \in Medium /\ os.db \in Pages
    BY DEF Back
  <1>2. /\ o1 \in FileSystem /\ o1.db = [os.db EXCEPT ![p] = v] /\ o1.dir = os.dir
        /\ o1.file = os.file
    BY <1>1 DEF FileSystem, Pages
  <1>3. /\ d1 \in Medium /\ d1.behind = disk.behind \cup {p} /\ d1.dir = disk.dir
        /\ d1.file = disk.file /\ d1.db = disk.db
    BY <1>1 DEF Medium, Behind
  <1>4. \A x \in Page : x # p => o1.db[x] = os.db[x]
    BY <1>1, <1>2 DEF Pages
  <1> QED  BY <1>2, <1>3, <1>4 DEF PagesChange, PageChange

(* The record is back in the file ... *)
LEMMA RecordBack ==
  ASSUME NEW T, NEW db \in Pages, NEW db1, NEW I \in Image, NEW m \in Nat, NEW k \in Nat,
         FileBack(db, T, I, m, k), k > 1,
         \/ db1 = db /\ (k <= m => T[k].k # "rec")
         \/ RecordOf(T[k], I) /\ T[k].pg \in Page /\ db1 = [db EXCEPT ![T[k].pg] = I[T[k].pg]]
  PROVE  FileBack(db1, T, I, m, k + 1)
  <1>1. ASSUME NEW i \in 1..m, i < k + 1, T[i].k = "rec" PROVE db1[T[i].pg] = I[T[i].pg]
    <2>1. CASE db1 = db /\ (k <= m => T[k].k # "rec")
      <3>1. i < k
        BY <1>1, <2>1
      <3> QED  BY <1>1, <2>1, <3>1 DEF FileBack
    <2>2. CASE RecordOf(T[k], I) /\ T[k].pg \in Page /\ db1 = [db EXCEPT ![T[k].pg] = I[T[k].pg]]
      <3>1. CASE T[i].pg = T[k].pg
        BY <2>2, <3>1 DEF Pages
      <3>2. CASE T[i].pg # T[k].pg
        <4>1. i < k
          BY <1>1, <3>2
        <4>2. db[T[i].pg] = I[T[i].pg]
          BY <1>1, <4>1 DEF FileBack
        <4>3. db1[T[i].pg] = db[T[i].pg]
          BY <2>2, <3>2 DEF Pages
        <4> QED  BY <4>2, <4>3
      <3> QED  BY <3>1, <3>2
    <2> QED  BY <2>1, <2>2
  <1>2. ASSUME m > 0, NEW p \in Page, p > SizeOf(I) PROVE db1[p] = Absent
    <2>1. db[p] = Absent
      BY <1>2 DEF FileBack
    <2>2. CASE db1 = db
      BY <2>1, <2>2
    <2>3. CASE RecordOf(T[k], I) /\ T[k].pg \in Page /\ db1 = [db EXCEPT ![T[k].pg] = I[T[k].pg]]
      <3>1. p # T[k].pg
        <4>1. T[k].pg <= SizeOf(I) /\ T[k].pg \in Nat /\ SizeOf(I) \in Nat /\ p \in Nat
          BY <2>3, ImageProperty DEF RecordOf, Page
        <4> QED  BY <1>2, <4>1
      <3> QED  BY <2>1, <2>3, <3>1 DEF Pages
    <2> QED  BY <2>2, <2>3
  <1> QED  BY <1>1, <1>2 DEF FileBack

(* ... and in the cache. *)
NextRecord(r, q) ==
  /\ q.k = r.k + 1 /\ q.left = r.left - 1
  /\ q.pc = IF r.left = 1 THEN "hdr" ELSE "rec"
  /\ q.dbSize = r.dbSize /\ q.seed = r.seed

LEMMA OwnPlayed ==
  ASSUME NEW r \in PagerRecord, NEW T, NEW I \in Image, NEW m \in Nat, NEW n,
         NEW db \in Pages, NEW db1, OwnSlots(r, T, I, m, n), OwnRollback(r, T, db, I, m),
         Sound(r), Changing(r), r.pc = "rec", OwnRec(r, T, I, m), r.joff \in Nat,
         NEW q, SameTransaction(r, q), NextRecord(r, q),
         r.k <= r.joff => /\ q.cache = [r.cache EXCEPT ![T[r.k].pg] = I[T[r.k].pg]]
                          /\ q.vers = IF T[r.k].pg = 1 THEN I[1] ELSE r.vers,
         r.k > r.joff => q.cache = r.cache /\ q.vers = r.vers,
         FileBack(db1, T, I, m, r.k + 1)
  PROVE  OwnSlots(q, T, I, m, n) /\ OwnRollback(q, T, db1, I, m) /\ Cached(q, I)
  <1> DEFINE k == r.k
             pg == T[k].pg
  <1>1. /\ k > 1 /\ r.left >= 1 /\ k \in Nat /\ r.left \in Int /\ HdrAt(r, T, k + r.left)
        /\ \A i \in k..(k + r.left - 1) : i <= r.joff => T[i].k = "rec"
        /\ CacheBack(r, T, I, k) /\ r.cache \in Pages
    BY DEF OwnRollback, PagerRecord
  <1>2. r.dbSize = SizeOf(I)
    BY DEF OwnRec
  <1>3. k <= r.joff => /\ pg \in Page /\ pg \in r.inJournal /\ I[pg] # Absent /\ I[pg] \in Value
                       /\ q.cache = [r.cache EXCEPT ![pg] = I[pg]]
                       /\ q.vers = IF pg = 1 THEN I[1] ELSE r.vers
    <2> SUFFICES ASSUME k <= r.joff
                 PROVE  pg \in Page /\ pg \in r.inJournal /\ I[pg] # Absent /\ I[pg] \in Value
      OBVIOUS
    <2>1. pg \in Page /\ pg \in r.inJournal /\ pg <= SizeOf(I)
      BY DEF OwnRec, RecordOf
    <2> HIDE DEF pg
    <2> QED  BY <2>1, ImageProperty
  <1>4. k > r.joff => q.cache = r.cache /\ q.vers = r.vers
    OBVIOUS
  <1>5. /\ q.k = k + 1 /\ q.left = r.left - 1 /\ q.dbSize = SizeOf(I)
        /\ q.pc = (IF r.left = 1 THEN "hdr" ELSE "rec")
    BY <1>2 DEF NextRecord
  <1>6. FileBack(db1, T, I, m, k + 1)
    OBVIOUS
  <1> HIDE DEF k
  <1>7. \A p \in Page : \/ q.cache[p] = r.cache[p]
                        \/ p \in r.inJournal /\ q.cache[p] = I[p] /\ I[p] # Absent /\ I[p] \in Value
    <2>1. CASE k <= r.joff
      <3> HIDE DEF pg
      <3> QED  BY <1>1, <1>3, <2>1 DEF Pages
    <2>2. CASE k > r.joff
      BY <1>4, <2>2
    <2> QED  BY <1>1, <2>1, <2>2
  <1>8. q.pc \in Replaying /\ q.pc # "jsync2" /\ q.pc \in {"hdr", "rec"}
    BY <1>5
  <1>9. OwnSlots(q, T, I, m, n)
    <2>1. \A p \in Page : p <= q.orig /\ p \notin q.inJournal => q.cache[p] \in {Absent, I[p]}
      BY <1>7 DEF OwnSlots, SameTransaction
    <2>2. \A p \in q.inJournal : q.cache[p] # Absent
      <3>1. r.inJournal \subseteq Page
        BY DEF PagerRecord
      <3> QED  BY <1>7, <3>1 DEF OwnSlots, SameTransaction
    <2>3. q.cache[1] # Absent
      <3>1. 1 \in Page
        BY ImageProperty
      <3> QED  BY <1>7, <3>1 DEF OwnSlots
    <2>4. InProgress(q, T)
      BY <1>8 DEF OwnSlots, InProgress, SameTransaction
    <2> QED  BY <2>1, <2>2, <2>3, <2>4 DEF OwnSlots, SameTransaction
  <1>10. CacheBack(q, T, I, k + 1)
    <2>1. ASSUME NEW i \in 1..r.joff, i < k + 1, T[i].k = "rec"
          PROVE  q.cache[T[i].pg] = I[T[i].pg] /\ (T[i].pg = 1 => q.vers = I[1])
      <3>1. CASE i < k
        <4>1. r.cache[T[i].pg] = I[T[i].pg] /\ (T[i].pg = 1 => r.vers = I[1])
          BY <1>1, <2>1, <3>1 DEF CacheBack
        <4>2. CASE k <= r.joff
          <5> DEFINE x == T[i].pg
          <5>1. q.cache[x] = IF x = pg THEN I[pg] ELSE r.cache[x]
            <6>1. q.cache = [r.cache EXCEPT ![pg] = I[pg]] /\ pg \in Page
              BY <1>3, <4>2
            <6> HIDE DEF x, pg
            <6> QED  BY <1>1, <6>1 DEF Pages
          <5>2. q.vers = IF pg = 1 THEN I[1] ELSE r.vers
            BY <1>3, <4>2
          <5> HIDE DEF pg
          <5> QED  BY <4>1, <5>1, <5>2
        <4>3. CASE k > r.joff
          BY <1>4, <4>1, <4>3
        <4> QED  BY <1>1, <4>2, <4>3
      <3>2. CASE i = k
        <4>1. k <= r.joff /\ T[i].pg = pg
          BY <3>2
        <4>2. /\ pg \in Page /\ q.cache = [r.cache EXCEPT ![pg] = I[pg]]
              /\ q.vers = IF pg = 1 THEN I[1] ELSE r.vers
          BY <1>3, <4>1
        <4> HIDE DEF pg
        <4> QED  BY <1>1, <4>1, <4>2 DEF Pages
      <3> QED  BY <1>1, <2>1, <3>1, <3>2
    <2>2. 1 \notin r.inJournal => q.vers = I[1]
      <3>1. 1 \notin r.inJournal => r.vers = I[1]
        BY <1>1 DEF CacheBack
      <3> HIDE DEF pg
      <3> QED  BY <1>1, <1>3, <1>4, <3>1
    <2> QED  BY <2>1, <2>2 DEF CacheBack, SameTransaction
  <1>11. k + 1 > 1
    BY <1>1
  <1>12. OwnRollback(q, T, db1, I, m)
    <2>1. CASE r.left = 1
      <3>1. q.pc = "hdr" /\ HdrAt(q, T, k + 1)
        BY <1>1, <1>5, <2>1 DEF HdrAt, SameTransaction
      <3> QED  BY <1>5, <1>6, <1>10, <3>1 DEF OwnRollback
    <2>2. CASE r.left # 1
      <3>1. q.pc = "rec" /\ q.left >= 1 /\ q.k + q.left = k + r.left
            /\ (q.k + q.left) - 1 = (k + r.left) - 1
        BY <1>1, <1>5, <2>2
      <3>2. HdrAt(q, T, q.k + q.left)
        BY <1>1, <3>1 DEF HdrAt, SameTransaction
      <3>3. \A i \in (k + 1)..(k + r.left - 1) : i <= q.joff => T[i].k = "rec"
        BY <1>1 DEF SameTransaction
      <3>4. /\ CacheBack(q, T, I, q.k) /\ FileBack(db1, T, I, m, q.k) /\ q.k > 1
            /\ q.dbSize = SizeOf(I)
        BY <1>5, <1>6, <1>10, <1>11
      <3>5. \A i \in q.k..(q.k + q.left - 1) : i <= q.joff => T[i].k = "rec"
        <4>1. q.k = k + 1 /\ q.k + q.left - 1 = k + r.left - 1
          BY <1>1, <1>5
        <4> QED  BY <3>3, <4>1
      <3>6. q.pc = "rec" /\ q.left >= 1
        BY <3>1
      <3> QED  BY <3>2, <3>4, <3>5, <3>6 DEF OwnRollback
    <2> QED  BY <2>1, <2>2
  <1>13. Cached(q, I)
    <2>1. \A p \in Page : q.cache[p] \in {Absent} \cup Value
      BY <1>7 DEF Sound
    <2>2. \A p \in q.dirty : q.cache[p] # Absent
      <3>1. r.dirty \subseteq Page
        BY DEF PagerRecord
      <3> QED  BY <1>7, <3>1 DEF Sound, SameTransaction
    <2>3. Sound(q)
      BY <2>1, <2>2 DEF Sound, SameTransaction, Changing
    <2> QED  BY <2>3 DEF Cached, StaleCache, Reader, SameTransaction, Changing
  <1> QED  BY <1>9, <1>12, <1>13

LEMMA HotPlayed ==
  ASSUME NEW r \in PagerRecord, NEW T, NEW I \in Image, NEW m \in Nat, NEW db, NEW db1,
         HotRollback(r, T, db, I, m), r.pc = "rec", NEW q, NextRecord(r, q),
         FileBack(db1, T, I, m, r.k + 1)
  PROVE  HotRollback(q, T, db1, I, m)
  <1> DEFINE k == r.k
  <1>1. /\ k > 1 /\ r.left >= 1 /\ k \in Nat /\ r.left \in Int /\ HotHdr(T, m, k + r.left)
        /\ r.dbSize = SizeOf(I) /\ r.seed = T[1].seed
        /\ \A i \in k..(k + r.left - 1) : T[i].k = "rec"
    BY DEF HotRollback, PagerRecord
  <1>2. /\ q.k = k + 1 /\ q.left = r.left - 1 /\ q.dbSize = SizeOf(I) /\ q.seed = T[1].seed
        /\ q.pc = (IF r.left = 1 THEN "hdr" ELSE "rec")
    BY <1>1 DEF NextRecord
  <1>3. FileBack(db1, T, I, m, q.k) /\ q.k > 1
    BY <1>1, <1>2
  <1> HIDE DEF k
  <1>4. CASE r.left = 1
    <2>1. q.pc = "hdr" /\ HotHdr(T, m, q.k)
      BY <1>1, <1>2, <1>4
    <2> QED  BY <1>2, <1>3, <2>1 DEF HotRollback
  <1>5. CASE r.left # 1
    <2>1. q.pc = "rec" /\ q.left >= 1 /\ q.k + q.left = k + r.left
      BY <1>1, <1>2, <1>5
    <2>2. HotHdr(T, m, q.k + q.left)
      BY <1>1, <2>1
    <2>3. \A i \in q.k..(q.k + q.left - 1) : T[i].k = "rec"
      <3>1. \A i \in (k + 1)..(k + r.left - 1) : T[i].k = "rec"
        BY <1>1
      <3>2. q.k = k + 1 /\ q.k + q.left - 1 = k + r.left - 1
        BY <1>1, <1>2
      <3> QED  BY <3>1, <3>2
    <2>4. q.pc = "rec" /\ q.left >= 1
      BY <2>1
    <2> QED  BY <1>2, <1>3, <2>2, <2>3, <2>4 DEF HotRollback
  <1> QED  BY <1>4, <1>5

(* A record that goes to the file is one of the chain. *)
LEMMA FileRecord ==
  ASSUME NEW r, NEW T, NEW S, NEW I, NEW J, NEW m, Back(r, T, S, I, J, m), r.pc = "rec",
         ToFile(r, T)
  PROVE  /\ m > 0 /\ T[r.k].pg \in Page /\ Covered(T, m, I, T[r.k].pg) /\ RecordOf(T[r.k], I)
  <1>1. /\ r \in PagerRecord /\ T \in Seq(Slot) /\ I \in Image /\ m \in Nat /\ Chain(T, m, I)
        /\ txn \in Nat /\ r.k \in Nat /\ r.k >= 1 /\ r.hot \in BOOLEAN
    BY DEF Back, PagerRecord
  <1>2. CASE r.hot
    <2>1. HotRollback(r, T, os.db, I, m) /\ r.jhdr = Len(T) + 1
      BY <1>2 DEF Back
    <2>2. r.k \in 1..m /\ RecordOf(T[r.k], I) /\ T[r.k].k = "rec" /\ T[r.k].pg \in Page
      BY <1>1, <1>2, <2>1, HotRecord
    <2>3. m > 0 /\ Recorded(T, m, T[r.k].pg)
      BY <1>1, <2>2 DEF Recorded
    <2> QED  BY <2>2, <2>3 DEF Covered
  <1>3. CASE ~r.hot
    <2>1. /\ OwnSlots(r, T, I, m, txn) /\ OwnRollback(r, T, os.db, I, m) /\ OwnIn(r, T, txn)
          /\ r.joff \in Nat /\ r.joff <= Len(T) /\ r.jhdr <= r.joff + 1
      BY <1>3 DEF Back
    <2>2. OwnRec(r, T, I, m)
      BY <1>1, <2>1, OwnRecord
    <2>3. Plays(r, T) /\ r.k < r.jhdr /\ r.jhdr = m + 1
      BY <2>1 DEF ToFile, OwnSlots
    <2>4. r.k <= r.joff /\ r.k \in 1..m
      BY <1>1, <2>1, <2>3
    <2>5. RecordOf(T[r.k], I) /\ T[r.k].pg \in Page
      BY <2>2, <2>4 DEF OwnRec
    <2>6. m > 0 /\ Recorded(T, m, T[r.k].pg)
      BY <1>1, <2>4, <2>5 DEF Recorded, RecordOf
    <2> QED  BY <2>5, <2>6 DEF Covered
  <1> QED  BY <1>1, <1>2, <1>3

LEMMA PlayRecordRecovery ==
  ASSUME Shape, AllNamed, AllOwn, Recovery, NEW c \in Conn, PlayRecord(c)
  PROVE  Stays(c)
  <1>1. PICK I, J, m : Recovers(I, J, m)
    BY DEF Recovery
  <1> DEFINE r == conn[c]
             T == os.file[r.jfd]
             S == disk.file[r.jfd]
             s == T[r.k]
             l == IF r.left = 1 THEN "hdr" ELSE "rec"
             nl == r.left - 1
             kk == r.k + 1
             ch == IF r.hot THEN NoPages ELSE r.cache
             next == [r EXCEPT !.pc = l, !.left = nl, !.k = kk, !.cache = ch]
  <1>2. r.pc = "rec" /\ lock' = lock /\ txn' = txn /\ r \in PagerRecord
    BY Own DEF PlayRecord, At
  <1>3. Back(r, T, S, I, J, m)
    BY <1>1, <1>2, BackProperty
  <1>4. /\ \/ ToFile(r, T) /\ os' = [os EXCEPT !.db[s.pg] = s.val] /\ disk' = Behind({s.pg})
           \/ ~ToFile(r, T) /\ os' = os /\ disk' = disk
        /\ \/ /\ ~Skips(r, T) /\ ~Plays(r, T)
              /\ conn' = [conn EXCEPT ![c] = [r EXCEPT !.pc = AfterPlayback(r), !.cache = ch]]
           \/ Skips(r, T) /\ conn' = [conn EXCEPT ![c] = next]
           \/ /\ Plays(r, T) /\ ~r.hot /\ r.cache[s.pg] # Absent
              /\ conn' = [conn EXCEPT ![c] = [next EXCEPT !.cache[s.pg] = s.val,
                                                !.vers = IF s.pg = 1 THEN s.val ELSE @]]
           \/ /\ Plays(r, T) /\ (r.hot \/ r.cache[s.pg] = Absent)
              /\ conn' = [conn EXCEPT ![c] = next]
    BY DEF PlayRecord, Journal, Set
  <1>5. /\ T \in Seq(Slot) /\ r.k \in Nat /\ m \in Nat /\ I \in Image /\ os.db \in Pages
        /\ Chain(T, m, I) /\ os \in FileSystem /\ disk \in Medium /\ Cached(r, I) /\ r.hot \in BOOLEAN
        /\ txn \in Nat /\ r.left \in Int /\ r.cache \in Pages
    BY <1>2, <1>3 DEF Back, PagerRecord
  <1>6. /\ next.pc = l /\ next.left = nl /\ next.k = kk /\ next.cache = ch /\ next.vers = r.vers
        /\ next.dbSize = r.dbSize /\ next.seed = r.seed /\ SameTransaction(r, next)
    <2> HIDE DEF l, nl, kk, ch, r
    <2> QED  BY <1>2 DEF SameTransaction, PagerRecord
  <1>7. NextRecord(r, next)
    <2> HIDE DEF next
    <2> QED  BY <1>6 DEF NextRecord
  (* The files *)
  <1>8. /\ os' \in FileSystem /\ disk' \in Medium /\ ((os' = os /\ disk' = disk) \/ m > 0)
        /\ PagesChange(I, T, m, os, disk, os', disk')
        /\ ToFile(r, T) => /\ RecordOf(s, I) /\ s.pg \in Page
                           /\ os'.db = [os.db EXCEPT ![s.pg] = I[s.pg]]
    <2>1. CASE ~ToFile(r, T) /\ os' = os /\ disk' = disk
      BY <1>5, <2>1 DEF PagesChange
    <2>2. CASE ToFile(r, T) /\ os' = [os EXCEPT !.db[s.pg] = s.val] /\ disk' = Behind({s.pg})
      <3> DEFINE p == s.pg
                 v == s.val
                 o1 == os'
                 d1 == disk'
      <3>1. m > 0 /\ p \in Page /\ Covered(T, m, I, p) /\ RecordOf(s, I)
        BY <1>2, <1>3, <2>2, FileRecord
      <3>2. v = I[p] /\ v \in Int
        <4>1. v = I[p] /\ p <= SizeOf(I)
          BY <3>1 DEF RecordOf
        <4>2. I \in Pages
          BY <1>5, ImageProperty
        <4> HIDE DEF p, v
        <4> QED  BY <3>1, <4>1, <4>2 DEF Pages
      <3>3. o1 = [os EXCEPT !.db[p] = v] /\ d1 = Behind({p})
        BY <2>2
      <3> HIDE DEF p, v, o1, d1, T, S, r, s
      <3>4. PageChange(I, T, m, p, v, o1, d1)
        BY <1>3, <3>1, <3>2, <3>3, CoveredChange
      <3> QED  BY <3>1, <3>2, <3>4 DEF p, v, o1, d1, PageChange
    <2> QED  BY <1>4, <2>1, <2>2
  <1>9. CASE r.hot
    <2>1. HotRollback(r, T, os.db, I, m) /\ r.jhdr = Len(T) + 1 /\ r.dirty = {} /\ r.eState = "OPEN"
      BY <1>3, <1>9 DEF Back
    <2>2. r.k \in 1..m /\ r.k > 1 /\ Plays(r, T) /\ ~Skips(r, T) /\ ToFile(r, T)
      <3> HIDE DEF T, r
      <3> QED  BY <1>2, <1>5, <1>9, <2>1, HotRecord
    <2>3. conn' = [conn EXCEPT ![c] = next]
      BY <1>4, <1>9, <2>2
    <2>4. FileBack(os'.db, T, I, m, r.k + 1)
      <3> DEFINE db == os.db
                 db1 == os'.db
                 k == r.k
      <3>1. FileBack(db, T, I, m, k)
        BY <1>2, <2>1 DEF HotRollback
      <3>2. /\ RecordOf(T[k], I) /\ T[k].pg \in Page /\ db1 = [db EXCEPT ![T[k].pg] = I[T[k].pg]]
            /\ db \in Pages /\ k \in Nat /\ k > 1
        BY <1>5, <1>8, <2>2
      <3> HIDE DEF db, db1, k, T
      <3>3. FileBack(db1, T, I, m, k + 1)
        BY <1>5, <3>1, <3>2, RecordBack
      <3> QED  BY <3>3 DEF db1, k
    <2> HIDE DEF next
    <2>5. HotRollback(next, T, os'.db, I, m)
      <3> DEFINE db1 == os'.db
      <3>1. FileBack(db1, T, I, m, r.k + 1)
        BY <2>4
      <3> HIDE DEF db1, T, r
      <3>2. HotRollback(next, T, db1, I, m)
        BY <1>2, <1>5, <1>7, <2>1, <3>1, HotPlayed
      <3> QED  BY <3>2 DEF db1
    <2>6. next.cache = NoPages /\ next.eState = "OPEN" /\ next.dirty = {} /\ next.needSync = r.needSync
          /\ next.inJournal = r.inJournal
      BY <1>6, <1>9, <2>1 DEF SameTransaction
    <2>7. Cached(next, I)
      <3>1. \A p \in Page : next.cache[p] = Absent
        BY <2>6 DEF NoPages
      <3>2. IsEmpty(next.cache)
        BY <3>1 DEF IsEmpty
      <3>3. r.needSync \subseteq {} /\ r.inJournal = {}
        BY <1>5, <2>1 DEF Cached, Sound
      <3>4. Sound(next)
        BY <2>6, <3>1, <3>3 DEF Sound
      <3> QED  BY <2>6, <3>2, <3>4 DEF Cached, StaleCache, Reader
    <2>8. next.eState = r.eState /\ next.hot /\ next.hot = r.hot /\ next.jfd = r.jfd /\ next.jhdr = r.jhdr
          /\ next.pc \in {"hdr", "rec"}
      BY <1>6, <1>9 DEF SameTransaction
    <2>9. /\ ~next.hot => OwnSlots(next, T, I, m, txn) /\ OwnRollback(next, T, os'.db, I, m)
          /\ next.hot => HotRollback(next, T, os'.db, I, m)
      BY <2>5, <2>8
    <2>10. /\ os' \in FileSystem /\ disk' \in Medium /\ ((os' = os /\ disk' = disk) \/ m > 0)
           /\ PagesChange(I, T, m, os, disk, os', disk')
      BY <1>8
    <2> HIDE DEF T, S, s
    <2> QED  BY <1>1, <1>2, <1>3, <2>3, <2>7, <2>8, <2>9, <2>10, BackStep
  <1>10. CASE ~r.hot
    <2>1. /\ OwnSlots(r, T, I, m, txn) /\ OwnRollback(r, T, os.db, I, m) /\ OwnIn(r, T, txn)
          /\ r.joff \in Nat /\ r.joff <= Len(T) /\ r.jhdr <= r.joff + 1 /\ Changing(r)
      BY <1>3, <1>10 DEF Back
    <2>2. OwnRec(r, T, I, m)
      <3> HIDE DEF T, r
      <3> QED  BY <1>2, <1>5, <2>1, OwnRecord
    <2>3. /\ r.k > 1 /\ FileBack(os.db, T, I, m, r.k) /\ r.jhdr = m + 1 /\ m <= r.joff
          /\ r.eState = "CACHEMOD" <=> m = 0
      <3>1. r.k > 1 /\ FileBack(os.db, T, I, m, r.k)
        BY <1>2, <2>1 DEF OwnRollback
      <3>2. r.jhdr = m + 1 /\ (r.eState = "CACHEMOD" <=> m = 0)
        BY <2>1 DEF OwnSlots
      <3>3. m <= r.joff
        BY <1>5, <2>1, <3>2
      <3> QED  BY <3>1, <3>2, <3>3
    <2>4. ch = r.cache /\ Sound(r)
      BY <1>5, <1>10 DEF Cached
    <2>5. CASE r.k > r.joff
      <3>1. ~Plays(r, T) /\ ~ToFile(r, T)
        BY <2>2, <2>5 DEF OwnRec, ToFile
      <3>2. os' = os /\ disk' = disk
        BY <1>4, <3>1
      <3>3. CASE ~Skips(r, T)
        <4>1. conn' = [conn EXCEPT ![c] = [r EXCEPT !.pc = AfterPlayback(r), !.cache = r.cache]]
          BY <1>4, <2>4, <3>1, <3>3
        <4>2. [r EXCEPT !.pc = AfterPlayback(r), !.cache = r.cache] = [r EXCEPT !.pc = AfterPlayback(r)]
          BY <1>2 DEF PagerRecord
        <4>3. conn' = [conn EXCEPT ![c] = [r EXCEPT !.pc = AfterPlayback(r)]]
          BY <4>1, <4>2
        <4> HIDE DEF T, S
        <4> QED  BY <1>1, <1>2, <1>3, <1>10, <2>5, <3>2, <4>3, PlaybackEnds
      <3>4. CASE Skips(r, T)
        <4>1. conn' = [conn EXCEPT ![c] = next]
          BY <1>4, <3>1, <3>4
        <4> HIDE DEF next, ch
        <4>2. FileBack(os.db, T, I, m, r.k + 1)
          <5> DEFINE db == os.db
                     k == r.k
          <5>1. /\ FileBack(db, T, I, m, k) /\ db \in Pages /\ k \in Nat /\ k > 1
                /\ k <= m => T[k].k # "rec"
            BY <1>5, <2>1, <2>3, <2>5
          <5> HIDE DEF db, k, T
          <5>2. FileBack(db, T, I, m, k + 1)
            BY <1>5, <5>1, RecordBack
          <5> QED  BY <5>2 DEF db, k
        <4>3. /\ r.k <= r.joff => /\ next.cache = [r.cache EXCEPT ![T[r.k].pg] = I[T[r.k].pg]]
                                  /\ next.vers = IF T[r.k].pg = 1 THEN I[1] ELSE r.vers
              /\ r.k > r.joff => next.cache = r.cache /\ next.vers = r.vers
          <5>1. next.cache = r.cache /\ next.vers = r.vers
            BY <1>6, <2>4
          <5>2. ~(r.k <= r.joff)
            BY <1>5, <2>1, <2>5
          <5> QED  BY <5>1, <5>2
        <4>4. OwnSlots(next, T, I, m, txn) /\ OwnRollback(next, T, os.db, I, m) /\ Cached(next, I)
          <5> DEFINE db == os.db
          <5>1. FileBack(db, T, I, m, r.k + 1) /\ OwnRollback(r, T, db, I, m) /\ db \in Pages
            BY <1>5, <2>1, <4>2
          <5>2. SameTransaction(r, next)
            BY <1>6
          <5> HIDE DEF db, T, r
          <5>3. OwnSlots(next, T, I, m, txn) /\ OwnRollback(next, T, db, I, m) /\ Cached(next, I)
            BY <1>2, <1>5, <1>7, <2>1, <2>2, <2>4, <4>3, <5>1, <5>2, OwnPlayed
          <5> QED  BY <5>3 DEF db
        <4>5. /\ next.eState = r.eState /\ next.hot = r.hot /\ next.jfd = r.jfd /\ next.jhdr = r.jhdr
              /\ next.pc \in {"hdr", "rec"}
          BY <1>6 DEF SameTransaction
        <4>6. /\ ~next.hot => OwnSlots(next, T, I, m, txn) /\ OwnRollback(next, T, os'.db, I, m)
              /\ next.hot => HotRollback(next, T, os'.db, I, m)
          BY <1>10, <3>2, <4>4, <4>5
        <4>7. /\ os' \in FileSystem /\ disk' \in Medium /\ ((os' = os /\ disk' = disk) \/ m > 0)
              /\ PagesChange(I, T, m, os, disk, os', disk')
          BY <1>8
        <4> HIDE DEF T, S, s
        <4> QED  BY <1>1, <1>2, <1>3, <4>1, <4>4, <4>5, <4>6, <4>7, BackStep
      <3> QED  BY <3>3, <3>4
    <2>6. CASE r.k <= r.joff
      <3>1. /\ Plays(r, T) /\ ~Skips(r, T) /\ RecordOf(s, I) /\ s.pg \in Page
            /\ s.pg \in r.inJournal /\ r.cache[s.pg] # Absent
        BY <2>2, <2>6 DEF OwnRec
      <3> DEFINE p == s.pg
                 v == IF s.pg = 1 THEN s.val ELSE next.vers
                 q == [next EXCEPT !.cache[p] = s.val, !.vers = v]
      <3>2. conn' = [conn EXCEPT ![c] = q]
        BY <1>4, <1>10, <3>1
      <3>3. s.val = I[p] /\ p \in Page
        BY <3>1 DEF RecordOf
      <3>4. /\ q.pc = l /\ q.left = nl /\ q.k = kk /\ q.cache = [ch EXCEPT ![p] = s.val] /\ q.vers = v
            /\ q.dbSize = r.dbSize /\ q.seed = r.seed /\ SameTransaction(r, q)
        <4> HIDE DEF l, nl, kk, ch, r, v, p, s
        <4>2. /\ q.pc = l /\ q.left = nl /\ q.k = kk /\ q.vers = v
              /\ q.dbSize = r.dbSize /\ q.seed = r.seed /\ SameTransaction(r, q)
          BY <1>2 DEF SameTransaction, PagerRecord
        <4>3. q.cache = [ch EXCEPT ![p] = s.val]
          BY <1>2 DEF PagerRecord
        <4> QED  BY <4>2, <4>3
      <3>5. v = IF p = 1 THEN I[1] ELSE r.vers
        <4>1. next.vers = r.vers
          BY <1>6
        <4> HIDE DEF next
        <4> QED  BY <3>3, <4>1
      <3> HIDE DEF q, v, next
      <3>6. NextRecord(r, q)
        BY <3>4 DEF NextRecord
      <3>7. /\ r.k <= r.joff => /\ q.cache = [r.cache EXCEPT ![T[r.k].pg] = I[T[r.k].pg]]
                                /\ q.vers = IF T[r.k].pg = 1 THEN I[1] ELSE r.vers
            /\ r.k > r.joff => q.cache = r.cache /\ q.vers = r.vers
        <4>1. ~(r.k > r.joff)
          BY <1>5, <2>1, <2>6
        <4>2. q.cache = [r.cache EXCEPT ![p] = I[p]] /\ q.vers = IF p = 1 THEN I[1] ELSE r.vers
          BY <2>4, <3>3, <3>4, <3>5
        <4> QED  BY <4>1, <4>2
      <3>8. FileBack(os'.db, T, I, m, r.k + 1)
        <4> DEFINE db == os.db
                   db1 == os'.db
                   k == r.k
        <4>1. FileBack(db, T, I, m, k) /\ db \in Pages /\ k \in Nat /\ k > 1
          BY <1>5, <2>3
        <4>2. \/ db1 = db /\ (k <= m => T[k].k # "rec")
              \/ RecordOf(T[k], I) /\ T[k].pg \in Page /\ db1 = [db EXCEPT ![T[k].pg] = I[T[k].pg]]
          <5>1. CASE ToFile(r, T)
            BY <1>8, <5>1
          <5>2. CASE ~ToFile(r, T)
            <6>1. os' = os
              BY <1>4, <5>2
            <6>2. ~(r.k <= m)
              <7> SUFFICES ASSUME r.k <= m PROVE FALSE
                OBVIOUS
              <7>1. r.k < r.jhdr /\ r.eState = "DBMOD"
                BY <1>5, <2>1, <2>3 DEF Changing
              <7> QED  BY <3>1, <5>2, <7>1 DEF ToFile, DbTouched
            <6> QED  BY <6>1, <6>2
          <5> QED  BY <5>1, <5>2
        <4> HIDE DEF db, db1, k, T
        <4>3. FileBack(db1, T, I, m, k + 1)
          BY <1>5, <4>1, <4>2, RecordBack
        <4> QED  BY <4>3 DEF db1, k
      <3>9. OwnSlots(q, T, I, m, txn) /\ OwnRollback(q, T, os'.db, I, m) /\ Cached(q, I)
        <4> DEFINE db == os.db
                   db1 == os'.db
        <4>1. FileBack(db1, T, I, m, r.k + 1) /\ OwnRollback(r, T, db, I, m) /\ db \in Pages
          BY <1>5, <2>1, <3>8
        <4>2. SameTransaction(r, q)
          BY <3>4
        <4> HIDE DEF db, db1, T, r
        <4>3. OwnSlots(q, T, I, m, txn) /\ OwnRollback(q, T, db1, I, m) /\ Cached(q, I)
          BY <1>2, <1>5, <2>1, <2>2, <2>4, <3>6, <3>7, <4>1, <4>2, OwnPlayed
        <4> QED  BY <4>3 DEF db1
      <3>10. /\ q.eState = r.eState /\ q.hot = r.hot /\ q.jfd = r.jfd /\ q.jhdr = r.jhdr
             /\ q.pc \in {"hdr", "rec"}
        BY <3>4 DEF SameTransaction
      <3>11. /\ ~q.hot => OwnSlots(q, T, I, m, txn) /\ OwnRollback(q, T, os'.db, I, m)
             /\ q.hot => HotRollback(q, T, os'.db, I, m)
        BY <1>10, <3>9, <3>10
      <3>12. /\ os' \in FileSystem /\ disk' \in Medium /\ ((os' = os /\ disk' = disk) \/ m > 0)
             /\ PagesChange(I, T, m, os, disk, os', disk')
        BY <1>8
      <3> HIDE DEF T, S, s
      <3> QED  BY <1>1, <1>2, <1>3, <3>2, <3>9, <3>10, <3>11, <3>12, BackStep
    <2> QED  BY <1>5, <2>1, <2>5, <2>6
  <1> QED  BY <1>5, <1>9, <1>10

-----------------------------------------------------------------------------
(* The end of a transaction: the journal is unlinked.  Until the directory *)
(* reaches the medium a power failure may bring it back.                   *)
Unlinked(I, J, K, o, d, n) ==
  \E L : Global(K, L, 0, o, d, n) /\ (L = J \/ (L = K /\ K # I))

LEMMA NameGone ==
  ASSUME NEW I, NEW J, NEW m, NEW o \in FileSystem, NEW d \in Medium, NEW n \in Nat,
         Global(I, J, m, o, d, n), o.dir # 0,
         NEW K \in Image, K[1] <= n, o.db = K, d.behind = {},
         NEW o1 \in FileSystem, o1.dir = 0, o1.db = o.db, o1.file = o.file
  PROVE  Unlinked(I, J, K, o1, d, n) /\ Clean(K, o1, d)
  <1>1. /\ I \in Image /\ J \in Image /\ m \in Nat /\ I[1] <= n /\ J[1] <= n
        /\ Committed(I, m, o, d) /\ Durable(J, I, o, d) /\ Numbered(o, d, n)
    BY DEF Global
  <1>2. Clean(K, o1, d)
    BY DEF Clean, Plain, Bare
  <1>3. Committed(K, 0, o1, d)
    BY <1>1, <1>2 DEF Committed, Clean
  <1>4. Numbered(o1, d, n)
    BY <1>1 DEF Numbered
  <1>5. CASE d.dir = 0
    <2>1. Durable(K, K, o1, d)
      BY <1>5 DEF Durable
    <2>2. J = I
      BY <1>1, <1>5 DEF Durable
    <2>3. Global(K, K, 0, o1, d, n)
      BY <1>1, <1>3, <1>4, <2>1 DEF Global
    <2> QED  BY <1>2, <2>2, <2>3 DEF Unlinked
  <1>6. CASE d.dir # 0 /\ d.dir = o.dir
    <2>1. Leads(d.file[d.dir], o1.file[d.dir], o1.db, d.behind, I, m)
      BY <1>1, <1>6 DEF Committed
    <2>2. Durable(I, K, o1, d) /\ J = I
      BY <1>1, <1>6, <2>1 DEF Durable
    <2>3. Global(K, J, 0, o1, d, n)
      BY <1>1, <1>3, <1>4, <2>2 DEF Global
    <2> QED  BY <1>2, <2>3 DEF Unlinked
  <1>7. CASE d.dir # 0 /\ d.dir # o.dir
    <2>1. \E k \in Nat : Leads(d.file[d.dir], o1.file[d.dir], o1.db, d.behind, J, k)
      BY <1>1, <1>7 DEF Durable
    <2>2. Durable(J, K, o1, d)
      BY <1>7, <2>1 DEF Durable
    <2>3. Global(K, J, 0, o1, d, n)
      BY <1>1, <1>3, <1>4, <2>2 DEF Global
    <2> QED  BY <1>2, <2>3 DEF Unlinked
  <1> QED  BY <1>5, <1>6, <1>7

(* After the playback of a hot journal the connection reads on. *)
LEMMA EndedHotFacts ==
  ASSUME NEW r \in PagerRecord, NEW I \in Image, NEW m, NEW o, NEW d, NEW n, Cached(r, I),
         r.hot, r.eState = "OPEN", r.dbSize \in Nat, Clean(I, o, d)
  PROVE  Facts(Ended(r), 1, I, m, o, d, n)
  <1> DEFINE q == Ended(r)
             C == TruncateTo(r.cache, r.dbSize)
  <1>1. /\ q.pc = "vers" /\ q.eState = "OPEN" /\ q.dirty = {} /\ q.needSync = {}
        /\ q.inJournal = {} /\ ~q.hot /\ q.held = r.held /\ q.vers = r.vers
        /\ q.cache = C
    <2> HIDE DEF C
    <2> QED  BY DEF Ended, PagerRecord, C
  <1>2. \A p \in Page : C[p] = IF p > r.dbSize THEN Absent ELSE r.cache[p]
    BY DEF TruncateTo
  <1> HIDE DEF q, C
  <1>3. Sound(q)
    BY <1>1, <1>2 DEF Cached, Sound
  <1>4. StaleCache(q, I)
    <2> SUFFICES ASSUME ~IsEmpty(C)
                 PROVE  /\ r.held /\ C[1] = r.vers /\ r.vers <= I[1]
                        /\ r.vers = I[1] => Agrees(C, I)
      BY <1>1 DEF StaleCache
    <2>1. PICK p \in Page : C[p] # Absent
      BY DEF IsEmpty
    <2>2. ~(p > r.dbSize) /\ r.cache[p] # Absent
      BY <1>2, <2>1
    <2>3. 1 \in Page /\ MaxPage \in Nat
      BY ImageProperty
    <2>4. ~(1 > r.dbSize)
      BY <2>2, <2>3 DEF Page
    <2>5. ~IsEmpty(r.cache)
      BY <2>2 DEF IsEmpty
    <2>6. /\ r.held /\ r.cache[1] = r.vers /\ r.vers <= I[1]
          /\ r.vers = I[1] => Agrees(r.cache, I)
      BY <2>5 DEF Cached, StaleCache
    <2> QED  BY <1>2, <2>3, <2>4, <2>6 DEF Agrees
  <1>5. Reader(q, I)
    BY <1>1 DEF Reader
  <1>6. Txn(q, I, m, o, d, n)
    BY <1>1, OutsideTxn
  <1> QED  BY <1>3, <1>4, <1>5, <1>6 DEF Facts, Cached, q

(* What the cache holds once the connection's own playback is complete *)
EndView(r, K) ==
  /\ r.held /\ r.vers = K[1] /\ r.cache[1] # Absent /\ r.dbSize = SizeOf(K)
  /\ \A p \in Page : p <= SizeOf(K) => r.cache[p] \in {Absent, K[p]}

LEMMA OwnView ==
  ASSUME NEW r \in PagerRecord, NEW T, NEW I \in Image, NEW m, NEW n, OwnSlots(r, T, I, m, n),
         CacheBack(r, T, I, r.joff + 1), r.dbSize = SizeOf(I)
  PROVE  EndView(r, I)
  <1>1. r.joff \in Nat /\ 1 \in Page
    BY ImageProperty DEF PagerRecord
  <1>2. ASSUME NEW p \in Page, p \in r.inJournal
        PROVE  r.cache[p] = I[p] /\ (p = 1 => r.vers = I[1])
    <2>1. Recorded(T, r.joff, p)
      BY <1>2 DEF OwnSlots
    <2>2. PICK i \in 1..r.joff : T[i].k = "rec" /\ T[i].pg = p
      BY <2>1 DEF Recorded
    <2>3. i < r.joff + 1
      BY <1>1, <2>2
    <2> QED  BY <2>2, <2>3 DEF CacheBack
  <1>3. r.held /\ r.cache[1] # Absent /\ r.orig = SizeOf(I)
    BY DEF OwnSlots
  <1>4. \A p \in Page : p <= r.orig /\ p \notin r.inJournal => r.cache[p] \in {Absent, I[p]}
    BY DEF OwnSlots
  <1>5. r.vers = I[1]
    BY <1>1, <1>2 DEF CacheBack
  <1> QED  BY <1>2, <1>3, <1>4, <1>5 DEF EndView

(* The last step of a transaction or a rollback: unlink.  At the end of a  *)
(* transaction the content of the file becomes the committed one.          *)
Commits(c) ==
  /\ Moves(c) /\ conn[c].eState = "FINISHED" /\ conn'[c].eState = "READER"
  /\ \E I, K, L \in Image, m \in Nat :
       Recovers(I, I, m) /\ K = os.db /\ L \in {I, K} /\ Reaches(K, L)

LEMMA FinalizeRecovery ==
  ASSUME Shape, AllNamed, Modes = {"DELETE"}, Recovery, NEW c \in Conn, Finalize(c)
  PROVE  Stays(c) \/ Commits(c)
  <1>1. PICK I, J, m : Recovers(I, J, m)
    BY DEF Recovery
  <1> DEFINE r == conn[c]
             T == os.file[r.jfd]
             s == [r EXCEPT !.jfd = 0, !.dirSync = FALSE]
             q == Ended(s)
             o1 == os'
             n == txn
  <1>2. /\ r \in PagerRecord /\ Control(r, lock[c]) /\ lock[c] \in 0..4 /\ r.pc = "fin"
        /\ mode[c] = "DELETE"
    BY Own DEF Finalize, At, Shape, Types
  <1>3. os' = [os EXCEPT !.dir = 0] /\ EndTransaction(c, s) /\ disk' = disk /\ txn' = txn
    BY <1>2 DEF Finalize
  <1>4. /\ conn' = [conn EXCEPT ![c] = q] /\ lock'[c] = 1
        /\ \A x \in Conn : x # c => lock'[x] = lock[x]
    BY <1>3 DEF EndTransaction, Set, FL!Unlock, Shape, Types
  <1>5. /\ Global(I, J, m, os, disk, txn) /\ I \in Image /\ m \in Nat
        /\ Facts(r, lock[c], I, m, os, disk, txn) /\ I[1] <= txn
    BY <1>1 DEF Recovers, Global
  <1>6. r.hot \/ r.eState \in Writers
    BY <1>2 DEF Control
  <1>7. os.dir # 0
    BY <1>1, <1>6, JournalLeads
  <1>8. /\ os \in FileSystem /\ disk \in Medium /\ txn \in Nat
        /\ o1 \in FileSystem /\ o1.dir = 0 /\ o1.db = os.db /\ o1.file = os.file
    BY <1>3, Stored, PagerAssumption DEF FileSystem, Shape, Types
  <1>9. /\ s \in PagerRecord /\ s.cache = r.cache /\ s.dirty = r.dirty /\ s.needSync = r.needSync
        /\ s.vers = r.vers /\ s.held = r.held /\ s.eState = r.eState /\ s.hot = r.hot
        /\ s.dbSize = r.dbSize /\ s.orig = r.orig /\ s.inJournal = r.inJournal
    BY <1>2 DEF PagerRecord
  <1>10. Cached(r, I) /\ disk.behind = {} /\ Sound(s)
    BY <1>2, <1>5, <1>9 DEF Facts, Txn, Cached, Sound
  <1>11. ASSUME NEW K \in Image, K[1] <= txn, os.db = K, Facts(q, 1, K, 0, os', disk', txn'),
                \/ K = I /\ lock[c] \in {2, 3, 4}
                \/ lock[c] = 4 /\ K[1] > I[1]
         PROVE  \E L : /\ Moves(c) /\ Reaches(K, L) /\ L \in Image /\ J \in Image
                       /\ L = J \/ (L = K /\ K # I)
    <2>1. Unlinked(I, J, K, o1, disk, n) /\ Clean(K, o1, disk)
      <3>1. Global(I, J, m, os, disk, n) /\ n \in Nat /\ K[1] <= n
        BY <1>5, <1>8, <1>11
      <3> HIDE DEF o1, n
      <3> QED  BY <1>5, <1>7, <1>8, <1>10, <1>11, <3>1, NameGone
    <2>2. PICK L : Global(K, L, 0, o1, disk, n) /\ (L = J \/ (L = K /\ K # I))
      BY <2>1 DEF Unlinked
    <2>3. Global(K, L, 0, os', disk', txn') /\ Clean(K, os', disk')
      BY <1>3, <2>1, <2>2
    <2>4. Facts(q, lock'[c], K, 0, os', disk', txn')
      BY <1>4, <1>11
    <2>5. L \in Image
      BY <2>2 DEF Global
    <2> HIDE DEF q, o1, n
    <2>6. Moves(c) /\ Reaches(K, L) /\ J \in Image
      BY <1>1, <1>4, <1>11, <2>3, <2>4, RecoveryFrame
    <2> QED  BY <2>2, <2>5, <2>6
  <1>12. ASSUME NEW K \in Image, os.db = K PROVE Clean(K, os', disk')
    BY <1>3, <1>8, <1>10, <1>12 DEF Clean, Plain, Bare
  <1>13. ASSUME ~r.hot, NEW K \in Image, os.db = K, EndView(r, K)
         PROVE  Facts(q, 1, K, 0, os', disk', txn')
    <2>1. Clean(K, os', disk')
      BY <1>12, <1>13
    <2> HIDE DEF r, s
    <2>2. /\ ~s.hot /\ s.held /\ s.dbSize = SizeOf(K) /\ s.vers = K[1] /\ s.cache[1] # Absent
          /\ \A p \in Page : p <= SizeOf(K) => s.cache[p] \in {Absent, K[p]}
      BY <1>9, <1>13 DEF EndView
    <2> QED  BY <1>9, <1>10, <1>13, <2>1, <2>2, EndedFacts
  <1>14. CASE r.hot
    <2>1. r.eState = "OPEN" /\ lock[c] = 4
      BY <1>2, <1>14 DEF Control
    <2>2. os.db = I
      BY <1>2, <1>5, <1>14 DEF Facts, Txn, HotRollback
    <2>3. Clean(I, os', disk')
      BY <1>5, <1>12, <2>2
    <2>4. Cached(s, I)
      <3> HIDE DEF s, r
      <3> QED  BY <1>9, <1>10, SameCached DEF SameView
    <2>5. Facts(q, 1, I, 0, os', disk', txn')
      <3>1. s.dbSize \in Nat /\ s.hot /\ s.eState = "OPEN"
        BY <1>9, <1>14, <2>1 DEF PagerRecord
      <3> HIDE DEF s, r
      <3> QED  BY <1>5, <1>9, <2>3, <2>4, <3>1, EndedHotFacts
    <2>6. Moves(c) /\ Reaches(I, J) /\ J \in Image
      <3> HIDE DEF q
      <3> QED  BY <1>5, <1>11, <2>1, <2>2, <2>5
    <2> QED  BY <1>1, <1>5, <2>6 DEF Stays
  <1>15. CASE ~r.hot /\ Changing(r)
    <2>1. lock[c] \in {2, 3, 4}
      BY <1>2, <1>15 DEF Control, Changing
    <2>2. OwnSlots(r, T, I, m, txn) /\ OwnRollback(r, T, os.db, I, m)
      BY <1>2, <1>5, <1>15 DEF Facts, Txn
    <2>3. CacheBack(r, T, I, r.joff + 1) /\ r.dbSize = SizeOf(I) /\ os.db = I
      BY <1>2, <2>2 DEF OwnRollback
    <2>4. EndView(r, I)
      <3> HIDE DEF T, r
      <3> QED  BY <1>2, <1>5, <2>2, <2>3, OwnView
    <2>5. Facts(q, 1, I, 0, os', disk', txn')
      BY <1>5, <1>13, <1>15, <2>3, <2>4
    <2>6. Moves(c) /\ Reaches(I, J) /\ J \in Image
      <3> HIDE DEF q
      <3> QED  BY <1>5, <1>11, <2>1, <2>3, <2>5
    <2> QED  BY <1>1, <1>5, <2>6 DEF Stays
  <1>16. CASE ~r.hot /\ r.eState = "FINISHED"
    <2>1. Finished(r, I, os, disk, txn) /\ lock[c] = 4
      BY <1>2, <1>5, <1>16 DEF Facts, Txn, Control
    <2>2. PICK K \in Image : K = os.db
      BY <2>1 DEF Finished
    <2>3. /\ K[1] = I[1] + 1 /\ K[1] <= txn /\ r.vers = K[1] /\ r.cache[1] = K[1] /\ r.held
          /\ Agrees(r.cache, K) /\ r.dbSize = SizeOf(K)
      BY <2>1, <2>2 DEF Finished
    <2>4. I[1] \in Nat /\ K[1] \in Nat
      BY <1>5, ImageProperty
    <2>5. K[1] # Absent /\ K[1] > I[1]
      BY <2>3, <2>4 DEF Absent
    <2>6. EndView(r, K)
      <3> HIDE DEF r
      <3> QED  BY <2>3, <2>5 DEF EndView, Agrees
    <2>7. Facts(q, 1, K, 0, os', disk', txn')
      BY <1>13, <1>16, <2>2, <2>6
    <2> HIDE DEF q
    <2>8. PICK L : /\ Moves(c) /\ Reaches(K, L) /\ L \in Image
                   /\ L = J \/ (L = K /\ K # I)
      BY <1>11, <2>1, <2>2, <2>3, <2>5, <2>7
    <2>9. J = I
      <3>1. disk.dir = os.dir
        BY <1>16 DEF AllNamed, Named
      <3> QED  BY <1>5, <3>1 DEF Global, Durable
    <2>10. Recovers(I, I, m) /\ L \in {I, K}
      BY <1>1, <2>8, <2>9
    <2>11. conn'[c].eState = "READER"
      <3>1. q.eState = "READER"
        BY <1>9, <1>16 DEF Ended, PagerRecord, q
      <3> QED  BY <1>4, <3>1 DEF Shape, Types
    <2> QED  BY <1>5, <1>16, <2>2, <2>8, <2>10, <2>11 DEF Commits
  <1> QED  BY <1>2, <1>6, <1>14, <1>15, <1>16 DEF Changing

-----------------------------------------------------------------------------
(* A write that fails may leave the page damaged: the journal covers it. *)
LEMMA DamageGlobal ==
  ASSUME Shape, AllNamed, AllOwn, NEW I, NEW J, NEW m, Recovers(I, J, m), NEW c \in Conn,
         Damage(c)
  PROVE  /\ Global(I, J, m, os', disk', txn)
         /\ (os' = os /\ disk' = disk) \/ lock[c] = 4
  <1> DEFINE r == conn[c]
             T == os.file[r.jfd]
             S == disk.file[r.jfd]
             o1 == os'
             d1 == disk'
  <1>1. r \in PagerRecord /\ Control(r, lock[c]) /\ Changes(r) /\ txn \in Nat
    BY Own, PagerAssumption DEF Shape, Types
  <1>2. CASE os' = os /\ disk' = disk
    BY <1>2 DEF Recovers
  <1>3. Torn \in Int
    BY DEF Torn
  <1>4. CASE r.pc = "wpage" /\ ~(os' = os /\ disk' = disk)
    <2> DEFINE p == Min(ToWrite(r))
    <2>1. os' = [os EXCEPT !.db[p] = Torn] /\ disk' = Behind({p})
      BY <1>4 DEF Damage, At
    <2>2. /\ p \in Page /\ p \in r.dirty /\ (r.spill # 0 => p = r.spill)
          /\ \A x \in Int : [os EXCEPT !.db[p] = x] \in FileSystem
          /\ Behind({p}) \in Medium
      BY <1>4, WritePageEffect
    <2>3. p \notin r.needSync
      BY <1>1, <1>4, <2>2 DEF Changes
    <2>4. lock[c] = 4 /\ Changing(r) /\ r.eState = "DBMOD"
      BY <1>1, <1>4 DEF Control, Changing
    <2>5. Ongoing(r, T, I, J, m)
      BY <1>4, <2>4, OngoingProperty
    <2> HIDE DEF p
    <2>6. os \in FileSystem /\ disk \in Medium /\ os.dir = r.jfd /\ os.dir # 0
          /\ Global(I, J, m, os, disk, txn)
      BY <2>5 DEF Ongoing
    <2>7. /\ o1 \in FileSystem /\ o1.db = [os.db EXCEPT ![p] = Torn]
          /\ o1.file = os.file /\ o1.dir = os.dir
          /\ d1 \in Medium /\ d1.behind = disk.behind \cup {p}
          /\ d1.db = disk.db /\ d1.dir = disk.dir /\ d1.file = disk.file
      BY <1>3, <2>1, <2>2, <2>6 DEF FileSystem, Medium, Behind
    <2>8. Covered(T, m, I, p) /\ m > 0
      <3> HIDE DEF T, r
      <3> QED  BY <2>2, <2>3, <2>4, <2>5, DirtyCovered
    <2>9. \A x \in Page :
            \/ o1.db[x] = os.db[x] /\ (x \in d1.behind <=> x \in disk.behind)
            \/ Covered(os.file[os.dir], m, I, x) /\ x \in d1.behind
      BY <2>6, <2>7, <2>8, Stored DEF Pages
    <2>10. Global(I, J, m, o1, d1, txn)
      <3> HIDE DEF o1, d1
      <3> QED  BY <1>1, <2>6, <2>7, <2>8, <2>9, PagesWritten
    <2> QED  BY <2>4, <2>10
  <1>5. CASE r.pc = "rec" /\ ~(os' = os /\ disk' = disk)
    <2> DEFINE p == T[r.k].pg
    <2>1. /\ os' = [os EXCEPT !.db[p] = Torn] /\ disk' = Behind({p}) /\ ToFile(r, T)
      BY <1>5 DEF Damage, At, Journal
    <2>2. lock[c] = 4
      BY <1>1, <2>1 DEF ToFile, DbTouched, Control
    <2>3. Back(r, T, S, I, J, m)
      BY <1>5, BackProperty
    <2>4. m > 0 /\ p \in Page /\ Covered(T, m, I, p)
      <3> HIDE DEF r, T, S
      <3> QED  BY <1>5, <2>1, <2>3, FileRecord DEF p
    <2>5. o1 = [os EXCEPT !.db[p] = Torn] /\ d1 = Behind({p})
      BY <2>1
    <2>6. PageChange(I, T, m, p, Torn, o1, d1)
      <3> HIDE DEF r, T, S, p, o1, d1
      <3> QED  BY <1>3, <2>3, <2>4, <2>5, CoveredChange
    <2>7. Global(I, J, m, o1, d1, txn)
      <3> HIDE DEF r, T, S, p, o1, d1
      <3> QED  BY <2>3, <2>6, PagesChanged DEF PageChange
    <2> QED  BY <2>2, <2>7
  <1>6. r.pc \in {"wpage", "rec"} \/ (os' = os /\ disk' = disk)
    BY DEF Damage, At
  <1> QED  BY <1>2, <1>4, <1>5, <1>6

LEMMA InErrorFacts ==
  ASSUME NEW r \in PagerRecord, NEW I, NEW m, NEW o, NEW d, NEW n, NEW l, Cached(r, I), ~r.hot,
         l \in {2, 3} => Clean(I, o, d)
  PROVE  Facts(InError(r), l, I, m, o, d, n)
  <1> DEFINE q == InError(r)
  <1>1. /\ q.pc = "idle" /\ q.eState = "ERROR" /\ q.hot = r.hot /\ q.cache = r.cache
        /\ q.dirty = r.dirty /\ q.needSync = r.needSync
    BY DEF PagerRecord, InError
  <1> HIDE DEF q
  <1>2. Cached(q, I)
    BY <1>1 DEF Cached, Sound, StaleCache, Reader
  <1>3. Txn(q, I, m, o, d, n)
    BY <1>1, OutsideTxn
  <1> QED  BY <1>1, <1>2, <1>3 DEF Facts, MayRead, q

(* A system call that reports an error *)
LEMMA FaultRecovery ==
  ASSUME Shape, AllNamed, AllOwn, Recovery, NEW c \in Conn, Fault(c)
  PROVE  Stays(c)
  <1>1. PICK I, J, m : Recovers(I, J, m)
    BY DEF Recovery
  <1> DEFINE r == conn[c]
             T == os.file[r.jfd]
  <1>2. /\ r \in PagerRecord /\ Control(r, lock[c]) /\ lock[c] \in 0..4 /\ txn' = txn
        /\ HasJournal(r, os.file, txn) /\ Damage(c)
    BY Own DEF Fault
  <1>3. /\ Facts(r, lock[c], I, m, os, disk, txn) /\ Cached(r, I) /\ I \in Image /\ m \in Nat
    BY <1>1 DEF Recovers, Global, Facts
  <1>4. /\ Global(I, J, m, os', disk', txn') /\ ((os' = os /\ disk' = disk) \/ lock[c] = 4)
    BY <1>1, <1>2, DamageGlobal
  <1>5. /\ os' \in FileSystem /\ disk' \in Medium /\ os'.file = os.file /\ os'.dir = os.dir
    BY <1>2, DamageEffect
  <1>6. ASSUME NEW q, Set(c, q), \A x \in Conn : x # c => lock'[x] = lock[x],
               Facts(q, lock'[c], I, m, os', disk', txn')
        PROVE  Stays(c)
    BY <1>1, <1>2, <1>4, <1>6, StaysFrame DEF Set
  <1>7. CASE /\ r.pc \in {"exists", "reserved", "vers"} \/ r.hot
             /\ FL!Unlock(c, FL!NO_LOCK)
             /\ Set(c, IF r.hot THEN [Closed EXCEPT !.vers = r.vers, !.held = r.held]
                       ELSE Unlocked(r))
    <2>1. lock'[c] = 0 /\ \A x \in Conn : x # c => lock'[x] = lock[x]
      BY <1>7 DEF FL!Unlock, Shape, Types
    <2>2. CASE r.hot
      <3> DEFINE q == [Closed EXCEPT !.vers = r.vers, !.held = r.held]
      <3>1. r.vers \in Int /\ r.held \in BOOLEAN
        BY <1>2 DEF PagerRecord
      <3>2. Facts(q, 0, I, m, os', disk', txn')
        BY <3>1, ClosedFacts
      <3>3. Set(c, q)
        BY <1>7, <2>2
      <3> HIDE DEF q
      <3> QED  BY <1>6, <2>1, <3>2, <3>3
    <2>3. CASE ~r.hot
      <3> DEFINE q == Unlocked(r)
      <3>1. r.eState = "OPEN"
        BY <1>2, <1>7, <2>3 DEF Control
      <3>2. Facts(q, 0, I, m, os', disk', txn')
        <4> HIDE DEF r
        <4> QED  BY <1>2, <1>3, <2>3, <3>1, UnlockedFacts
      <3>3. Set(c, q)
        BY <1>7, <2>3
      <3> HIDE DEF q
      <3> QED  BY <1>6, <2>1, <3>2, <3>3
    <2> QED  BY <2>2, <2>3
  <1>8. CASE /\ r.pc \in {"jsync", "jnrec", "jsync2", "wpage", "dbsync"}
             /\ Set(c, RollingBack(r)) /\ lock' = lock
    <2> DEFINE q == RollingBack(r)
               o1 == os'
               d1 == disk'
    <2>1. lock[c] = 4 /\ Changing(r) /\ ~r.hot /\ r.pc \notin Replaying
      BY <1>2, <1>8 DEF Control, Changing
    <2>2. OwnSlots(r, T, I, m, txn) /\ Writer(r, T, os.db, I, m) /\ r.joff >= 1
      BY <1>2, <1>3, <2>1 DEF Facts, Txn, HasJournal, Changing
    <2>3. os.dir = r.jfd /\ os.dir # 0
      BY <1>1, <2>1, JournalLeads DEF Changing
    <2>4. Leads(d1.file[r.jfd], o1.file[r.jfd], o1.db, d1.behind, I, m) /\ o1.file[r.jfd] = T
      BY <1>4, <1>5, <2>3 DEF Global, Committed
    <2>5. Txn(q, I, m, o1, d1, txn) /\ SameView(r, q)
      <3>1. OwnSlots(r, o1.file[r.jfd], I, m, txn) /\ Writer(r, o1.file[r.jfd], os.db, I, m)
        BY <2>2, <2>4
      <3> HIDE DEF r, T, o1, d1
      <3> QED  BY <1>2, <1>3, <2>1, <2>2, <2>4, <3>1, RollingBackTxn
    <2>6. q.pc = "hdr"
      BY <1>2 DEF RollingBack, PagerRecord
    <2> HIDE DEF q
    <2>7. Cached(q, I)
      BY <1>3, <2>5, SameCached
    <2>8. ~MayRead(q, lock'[c])
      BY <1>8, <2>1, <2>5, <2>6 DEF MayRead, SameView, Changing
    <2>9. Facts(q, lock'[c], I, m, os', disk', txn')
      BY <1>2, <2>5, <2>7, <2>8 DEF Facts
    <2> QED  BY <1>6, <1>8, <2>9 DEF q
  <1>9. CASE /\ r.pc \in {"jsync", "jnrec", "jsync2", "wpage", "dbsync", "rec", "rsync"}
             /\ ~r.hot /\ Set(c, InError(r)) /\ lock' = lock
    <2> DEFINE q == InError(r)
               o1 == os'
               d1 == disk'
    <2>1. lock[c] \in {2, 3} => Clean(I, o1, d1)
      BY <1>3, <1>4 DEF Facts, MayRead
    <2>2. Facts(q, lock[c], I, m, o1, d1, txn)
      <3> HIDE DEF r, o1, d1
      <3> QED  BY <1>2, <1>3, <1>9, <2>1, InErrorFacts
    <2>3. Facts(q, lock'[c], I, m, os', disk', txn')
      BY <1>2, <1>9, <2>2
    <2> HIDE DEF q
    <2> QED  BY <1>6, <1>9, <2>3 DEF q
  <1>10. CASE /\ ~r.hot /\ Set(c, InError(r)) /\ FL!Unlock(c, FL!SHARED_LOCK)
    <2> DEFINE q == InError(r)
               o1 == os'
               d1 == disk'
               l == 1
    <2>1. lock'[c] = l /\ \A x \in Conn : x # c => lock'[x] = lock[x]
      BY <1>10 DEF FL!Unlock, Shape, Types
    <2>2. l \notin {2, 3}
      OBVIOUS
    <2>3. Facts(q, l, I, m, o1, d1, txn)
      <3> HIDE DEF r, o1, d1, l
      <3> QED  BY <1>2, <1>3, <1>10, <2>2, InErrorFacts
    <2>4. Facts(q, lock'[c], I, m, os', disk', txn')
      <3> HIDE DEF q, l
      <3> QED  BY <1>2, <2>1, <2>3
    <2> HIDE DEF q
    <2> QED  BY <1>6, <1>10, <2>1, <2>4 DEF q
  <1>11. r.pc \in {"jsync", "jnrec", "jsync2", "wpage", "dbsync"} => ~r.hot
    BY <1>2 DEF Control
  <1> QED  BY <1>7, <1>8, <1>9, <1>10, <1>11 DEF Fault

-----------------------------------------------------------------------------
(* A power failure: the file that is left has one journal, or none, and it *)
(* leads to the same content in the kernel and on the medium.              *)
LEMMA GlobalLeft ==
  ASSUME NEW K \in Image, NEW e \in Nat, NEW n \in Nat, K[1] <= n,
         NEW o \in FileSystem, NEW d \in Medium, NEW S \in Seq(Slot),
         o.file = [i \in Inode |-> IF i = o.dir THEN S ELSE <<>>],
         d.db = o.db, d.dir = o.dir, d.file = o.file, d.behind = {},
         o.dir = 0 => e = 0 /\ o.db = K,
         o.dir # 0 => Leads(S, S, o.db, {}, K, e),
         o.dir <= n, \A i \in 1..Len(S) : S[i].seed <= n
  PROVE  Global(K, K, e, o, d, n)
  <1>1. o.dir \in {0} \cup Inode
    BY DEF FileSystem
  <1>2. Committed(K, e, o, d)
    <2>1. o.dir # 0 => o.file[o.dir] = S
      BY <1>1
    <2> QED  BY <2>1 DEF Committed, Plain
  <1>3. Durable(K, K, o, d)
    BY DEF Durable
  <1>4. Seeds(o.file, n)
    <2>1. ASSUME NEW x \in Inode
          PROVE  /\ \A i \in 1..Len(o.file[x]) : o.file[x][i].seed <= n
                 /\ x > n => o.file[x] = <<>>
      <3>1. x \in Nat
        BY PagerAssumption DEF Inode
      <3>2. CASE x = o.dir
        <4>1. o.file[x] = S /\ ~(x > n)
          BY <3>1, <3>2
        <4> QED  BY <4>1
      <3>3. CASE x # o.dir
        <4>1. o.file[x] = <<>> /\ Len(o.file[x]) = 0
          BY <3>3
        <4> QED  BY <4>1
      <3> QED  BY <3>2, <3>3
    <2> QED  BY <2>1 DEF Seeds
  <1>5. Numbered(o, d, n)
    BY <1>4 DEF Numbered
  <1> QED  BY <1>2, <1>3, <1>5 DEF Global

LEMMA SeedsLeft ==
  ASSUME NEW S \in Seq(Slot), NEW T \in Seq(Slot), NEW U \in SlotsLeft(S, T), NEW n \in Nat,
         \A i \in 1..Len(S) : S[i].seed <= n, \A i \in 1..Len(T) : T[i].seed <= n
  PROVE  \A i \in 1..Len(U) : U[i].seed <= n
  <1> SUFFICES ASSUME NEW i \in 1..Len(U) PROVE U[i].seed <= n
    OBVIOUS
  <1>1. /\ U \in Seq(Slot)
        /\ \/ U[i] = BadSlot
           \/ i <= Len(S) /\ U[i] = S[i]
           \/ i <= Len(T) /\ U[i] = T[i]
    BY SlotsLeftProperty
  <1>2. BadSlot.seed = 0
    BY DEF BadSlot
  <1>3. i \in Nat /\ i >= 1
    BY <1>1
  <1>4. CASE U[i] = BadSlot
    BY <1>2, <1>4
  <1>5. CASE i <= Len(S) /\ U[i] = S[i]
    BY <1>3, <1>5
  <1>6. CASE i <= Len(T) /\ U[i] = T[i]
    BY <1>3, <1>6
  <1> QED  BY <1>1, <1>4, <1>5, <1>6

Falls ==
  \E I, J, K \in Image, m \in Nat : Recovers(I, J, m) /\ K \in {I, J} /\ Reaches(K, K)

LEMMA PowerLossRecovery ==
  ASSUME Shape, Recovery, PowerLoss
  PROVE  Falls
  <1>1. PICK I, J, m : Recovers(I, J, m)
    BY DEF Recovery
  <1>2. PICK db \in PagesLeft, S \in Seq(Slot) :
           /\ os'.db = db /\ os' \in FileSystem
           /\ os'.dir \in {disk.dir, os.dir} \/ (disk.dir # os.dir /\ os'.dir = 0)
           /\ os'.file = [i \in Inode |-> IF i = os'.dir THEN S ELSE <<>>]
           /\ os'.dir # 0 => S \in SlotsLeft(disk.file[os'.dir], os.file[os'.dir])
           /\ disk' \in Medium /\ disk'.db = db /\ disk'.dir = os'.dir
           /\ disk'.file = os'.file /\ disk'.behind = {}
           /\ conn' = [c \in Conn |-> Closed] /\ lock' = [c \in Conn |-> 0]
           /\ mode' = mode /\ txn' = txn
    BY PowerLossEffect
  <1>3. /\ I \in Image /\ J \in Image /\ m \in Nat /\ I[1] <= txn /\ J[1] <= txn
        /\ Committed(I, m, os, disk) /\ Durable(J, I, os, disk) /\ Numbered(os, disk, txn)
    BY <1>1 DEF Recovers, Global
  <1>4. db \in Pages /\ \A p \in Page : p \notin disk.behind => db[p] = os.db[p]
    BY PagesLeftProperty
  <1>5. /\ os \in FileSystem /\ disk \in Medium /\ os.db \in Pages /\ txn \in Nat
        /\ os.file \in [Inode -> Seq(Slot)] /\ disk.file \in [Inode -> Seq(Slot)]
    BY Stored, PagerAssumption DEF Shape, Types, Files
  <1>6. PICK x \in {0} \cup Inode : x = os'.dir
    BY <1>2 DEF FileSystem
  <1>7. PICK U \in Seq(Slot) :
          /\ (x # 0 => U = S) /\ (x = 0 => U = <<>>)
    <2>1. <<>> \in Seq(Slot)
      OBVIOUS
    <2> QED  BY <2>1
  <1>8. \A i \in 1..Len(U) : U[i].seed <= txn
    <2>1. CASE x = 0
      <3>1. Len(U) = 0
        BY <1>7, <2>1
      <3> QED  BY <3>1
    <2>2. CASE x # 0
      <3>1. x \in Inode /\ U \in SlotsLeft(disk.file[x], os.file[x])
        BY <1>2, <1>6, <1>7, <2>2
      <3>2. /\ \A i \in 1..Len(os.file[x]) : os.file[x][i].seed <= txn
            /\ \A i \in 1..Len(disk.file[x]) : disk.file[x][i].seed <= txn
        BY <1>3, <3>1 DEF Numbered, Seeds
      <3>3. disk.file[x] \in Seq(Slot) /\ os.file[x] \in Seq(Slot)
        BY <1>5, <3>1
      <3> QED  BY <1>5, <3>1, <3>2, <3>3, SeedsLeft
    <2> QED  BY <2>1, <2>2
  <1>9. ASSUME NEW K \in Image, K = I \/ K = J, K[1] <= txn, NEW e \in Nat,
               x = 0 => e = 0 /\ db = K, x # 0 => Leads(U, U, db, {}, K, e)
        PROVE  Falls
    <2> DEFINE o1 == os'
               d1 == disk'
    <2>1. x <= txn
      BY <1>2, <1>3, <1>5, <1>6 DEF Numbered
    <2>2. o1.file = [i \in Inode |-> IF i = o1.dir THEN U ELSE <<>>]
      <3>1. \A i \in Inode : i = x => x # 0
        BY PagerAssumption DEF Inode
      <3> QED  BY <1>2, <1>6, <1>7, <3>1
    <2>3. /\ o1 \in FileSystem /\ d1 \in Medium /\ d1.db = o1.db /\ d1.dir = o1.dir
          /\ d1.file = o1.file /\ d1.behind = {} /\ o1.dir = x /\ o1.db = db
      BY <1>2, <1>6
    <2>4. Global(K, K, e, o1, d1, txn)
      <3> HIDE DEF o1, d1
      <3> QED  BY <1>5, <1>8, <1>9, <2>1, <2>2, <2>3, GlobalLeft
    <2>5. Global(K, K, e, os', disk', txn')
      BY <1>2, <2>4
    <2>6. \A c \in Conn : conn'[c] = Closed /\ lock'[c] = 0
      <3> HIDE DEF Closed
      <3> QED  BY <1>2
    <2>7. Facts(Closed, 0, K, e, os', disk', txn')
      <3> DEFINE v == 0
                 h == FALSE
      <3>1. v \in Int /\ h \in BOOLEAN
        OBVIOUS
      <3> HIDE DEF v, h
      <3> QED  BY <3>1, ClosedFacts
    <2>8. \A c \in Conn : Facts(conn'[c], lock'[c], K, e, os', disk', txn')
      <3> HIDE DEF Closed
      <3> QED  BY <2>6, <2>7
    <2>9. Recovers(K, K, e)'
      BY <2>5, <2>8 DEF Recovers
    <2>10. Reaches(K, K)
      BY <1>9, <2>9 DEF Reaches
    <2> QED  BY <1>1, <1>3, <1>9, <2>10 DEF Falls
  <1>10. CASE x = 0
    <2>1. Plain(I, os, disk)
      BY <1>2, <1>3, <1>6, <1>10 DEF Committed, Clean
    <2>2. db = I
      <3>1. os.db = I /\ \A p \in Page : db[p] = os.db[p]
        BY <1>4, <2>1 DEF Plain
      <3> QED  BY <1>4, <1>5, <3>1 DEF Pages
    <2>3. 0 \in Nat
      OBVIOUS
    <2> QED  BY <1>3, <1>9, <1>10, <2>2, <2>3
  <1>11. CASE x # 0 /\ x = os.dir
    <2>1. /\ Leads(disk.file[x], os.file[x], os.db, disk.behind, I, m) /\ x \in Inode
          /\ U \in SlotsLeft(disk.file[x], os.file[x])
      BY <1>2, <1>3, <1>6, <1>7, <1>11 DEF Committed
    <2>2. disk.file[x] \in Seq(Slot) /\ os.file[x] \in Seq(Slot)
      BY <1>5, <2>1
    <2>3. Survives(U, db, I)
      <3> DEFINE A == disk.file[x]
                 B == os.file[x]
                 b == disk.behind
                 od == os.db
      <3>1. /\ A \in Seq(Slot) /\ B \in Seq(Slot) /\ Leads(A, B, od, b, I, m)
            /\ U \in SlotsLeft(A, B) /\ m \in Nat
        BY <1>3, <2>1, <2>2
      <3>2. \A p \in Page : p \notin b => db[p] = od[p]
        BY <1>4
      <3> HIDE DEF A, B, b, od
      <3> QED  BY <3>1, <3>2, LeadsLost
    <2> QED  BY <1>3, <1>9, <1>11, <2>3 DEF Survives
  <1>12. CASE x # 0 /\ x # os.dir
    <2>1. x = disk.dir /\ x \in Inode /\ U \in SlotsLeft(disk.file[x], os.file[x])
      BY <1>2, <1>6, <1>7, <1>12
    <2>2. PICK k \in Nat : Leads(disk.file[x], os.file[x], os.db, disk.behind, J, k)
      BY <1>3, <1>12, <2>1 DEF Durable
    <2>3. disk.file[x] \in Seq(Slot) /\ os.file[x] \in Seq(Slot)
      BY <1>5, <2>1
    <2>4. Survives(U, db, J)
      <3> DEFINE A == disk.file[x]
                 B == os.file[x]
                 b == disk.behind
                 od == os.db
      <3>1. /\ A \in Seq(Slot) /\ B \in Seq(Slot) /\ Leads(A, B, od, b, J, k)
            /\ U \in SlotsLeft(A, B) /\ k \in Nat
        BY <2>1, <2>2, <2>3
      <3>2. \A p \in Page : p \notin b => db[p] = od[p]
        BY <1>4
      <3> HIDE DEF A, B, b, od
      <3> QED  BY <3>1, <3>2, LeadsLost
    <2> QED  BY <1>3, <1>9, <1>12, <2>4 DEF Survives
  <1> QED  BY <1>10, <1>11, <1>12

-----------------------------------------------------------------------------
LEMMA InitRecovery ==
  ASSUME Init
  PROVE  Recovery
  <1>1. PICK n \in InitSizes :
          os = [db |-> [p \in Page |-> IF p <= n THEN 0 ELSE Absent],
                dir |-> 0, file |-> [i \in Inode |-> <<>>]]
    BY DEF Init
  <1>2. /\ n \in 1..MaxPage /\ MaxPage \in Nat /\ MaxTxn \in Nat /\ txn = 0
    BY PagerAssumption DEF Init
  <1>3. disk = [db |-> os.db, dir |-> 0, file |-> os.file, behind |-> {}]
    BY DEF Init
  <1>4. PICK K : K = [p \in Page |-> IF p <= n THEN 0 ELSE Absent]
    OBVIOUS
  <1>5. os.db = K /\ os.dir = 0 /\ os.file = [i \in Inode |-> <<>>]
    BY <1>1, <1>4
  <1>6. disk.db = K /\ disk.dir = 0 /\ disk.file = os.file /\ disk.behind = {}
    BY <1>3, <1>5
  <1>7. K \in Image /\ K[1] = 0
    <2>1. 1 \in Page /\ K[1] = 0 /\ \A p \in Page : K[p] # Absent => K[p] = 0
      BY <1>2, <1>4 DEF Page
    <2>2. K \in Pages
      BY <1>4 DEF Pages, Absent
    <2>3. /\ SizeOf(K) \in 0..MaxPage /\ \A p \in Page : p > SizeOf(K) => K[p] = Absent
      BY SizeOfProperty
    <2>4. SizeOf(K) >= 1
      BY <1>2, <2>1, <2>3 DEF Absent
    <2>5. SizeOf(K) <= n
      <3>1. K[SizeOf(K)] # Absent
        BY <2>3, <2>4, SizeOfProperty
      <3>2. SizeOf(K) \in Page
        BY <1>2, <2>3, <2>4 DEF Page
      <3> QED  BY <1>2, <1>4, <2>3, <3>1, <3>2
    <2>6. ASSUME NEW p \in 1..SizeOf(K) PROVE K[p] \in Value
      <3>1. p \in Page /\ p <= n
        BY <1>2, <2>3, <2>5 DEF Page
      <3> QED  BY <1>2, <1>4, <3>1 DEF Value
    <2> QED  BY <2>1, <2>2, <2>4, <2>6 DEF Image
  <1>8. Global(K, K, 0, os, disk, txn)
    <2>1. Committed(K, 0, os, disk)
      BY <1>5, <1>6 DEF Committed, Plain
    <2>2. Durable(K, K, os, disk)
      BY <1>5, <1>6 DEF Durable
    <2>3. Seeds(os.file, 0)
      BY <1>5 DEF Seeds
    <2>4. Numbered(os, disk, txn)
      BY <1>2, <1>5, <1>6, <2>3 DEF Numbered
    <2> QED  BY <1>2, <1>7, <2>1, <2>2, <2>4 DEF Global
  <1>9. Facts(Closed, 0, K, 0, os, disk, txn)
    <2> DEFINE v == 0
               h == FALSE
               z == 0
    <2>1. v \in Int /\ h \in BOOLEAN
      OBVIOUS
    <2>2. Facts(Closed, 0, K, z, os, disk, txn)
      <3> HIDE DEF v, h, z
      <3> QED  BY <2>1, ClosedFacts
    <2> QED  BY <2>2
  <1>10. \A c \in Conn : conn[c] = Closed /\ lock[c] = 0
    <2> HIDE DEF Closed
    <2> QED  BY DEF Init, FL!Init
  <1>11. \A c \in Conn : Facts(conn[c], lock[c], K, 0, os, disk, txn)
    <2> HIDE DEF Closed
    <2> QED  BY <1>9, <1>10
  <1> QED  BY <1>7, <1>8, <1>11 DEF Recovers, Recovery

(* The steps of a connection, and those that may make J the same as I *)
Step(c) ==
  \/ SharedLock(c) \/ JournalExists(c) \/ CheckReservedLock(c)
  \/ FirstByte(c) \/ HotLock(c) \/ HotOpen(c) \/ HotSync(c)
  \/ CheckVersion(c) \/ ReadHdr(c) \/ PlayRecord(c) \/ PlaybackSync(c)
  \/ Finalize(c) \/ FinalizeSync(c) \/ EndRead(c) \/ Begin(c)
  \/ \E p \in Page : Get(c, p) \/ Write(c, p) \/ Spill(c, p)
  \/ Commit(c) \/ ExclusiveLock(c) \/ ChangeCounter(c)
  \/ JournalSync(c) \/ JournalCount(c) \/ JournalSync2(c)
  \/ WritePage(c) \/ DbSync(c) \/ Rollback(c)
  \/ ErrorUnlock(c) \/ Fault(c) \/ Kill(c)

SyncStep(c) == HotSync(c) \/ JournalSync(c) \/ JournalSync2(c)

(* Every step stays with the two contents, or commits, or falls back. *)
Progress ==
  Falls \/ \E c \in Conn : Stays(c) \/ (SyncStep(c) /\ Syncs(c)) \/ Commits(c)

LEMMA StepRecovery ==
  ASSUME Modes = {"DELETE"}, ~Aligned, Shape, AllNamed, AllOwn, Recovery,
         NEW c \in Conn, Step(c)
  PROVE  Stays(c) \/ (SyncStep(c) /\ Syncs(c)) \/ Commits(c)
  <1>1. ASSUME FinalizeSync(c) PROVE FALSE
    BY <1>1 DEF AllNamed, Named, FinalizeSync, At
  <1>2. ASSUME NEW p \in Page, Write(c, p) PROVE Stays(c)
    <2>1. conn[c].eState = "LOCKED" \/ Changing(conn[c])
      BY <1>2 DEF Write, Idle, Changing
    <2> QED  BY <1>2, <2>1, WriteFirstRecovery, WriteOnRecovery
  <1>3. ASSUME SyncStep(c) PROVE Syncs(c)
    BY <1>3, HotSyncRecovery, JournalSyncRecovery, JournalSync2Recovery DEF SyncStep
  <1>4. 1 \in Page
    BY Stored
  <1> QED
    BY <1>1, <1>2, <1>3, <1>4, EnteringRecovery, HotLockRecovery, HotOpenRecovery,
       CheckVersionRecovery, ReadHdrRecovery, PlayRecordRecovery,
       PlaybackSyncRecovery, FinalizeRecovery, EndReadRecovery, BeginRecovery,
       GetRecovery, CommitRecovery, ExclusiveLockRecovery, ChangeCounterRecovery,
       JournalCountRecovery, WritePageRecovery, DbSyncRecovery, RollbackRecovery,
       ErrorUnlockRecovery, FaultRecovery, KillRecovery
    DEF Step, SyncStep

LEMMA RecoveryStep ==
  ASSUME Modes = {"DELETE"}, ~Aligned, Shape, AllNamed, AllOwn, Recovery, Next
  PROVE  Progress
  <1>1. PowerLoss \/ \E c \in Conn : Step(c)
    BY DEF Next, Step
  <1> QED
    BY <1>1, StepRecovery, PowerLossRecovery DEF Progress

LEMMA ProgressRecovers ==
  ASSUME Progress
  PROVE  Recovery'
  <1>1. ASSUME NEW K \in Image, NEW L \in Image, Reaches(K, L) PROVE Recovery'
    BY <1>1 DEF Reaches, Recovery
  <1>2. CASE Falls
    BY <1>1, <1>2 DEF Falls
  <1>3. ASSUME NEW c \in Conn, Stays(c) \/ Syncs(c) PROVE Recovery'
    BY <1>1, <1>3 DEF Stays, Syncs
  <1>4. ASSUME NEW c \in Conn, Commits(c) PROVE Recovery'
    BY <1>1, <1>4 DEF Commits
  <1> QED  BY <1>2, <1>3, <1>4 DEF Progress

(* The inductive invariant of deleting connections *)
Sustained == Shape /\ AllNamed /\ AllOwn /\ Recovery

LEMMA InitSustained ==
  ASSUME Init
  PROVE  Sustained
  BY InitShape, InitNamed, InitOwn, InitRecovery DEF Sustained

LEMMA SustainedStep ==
  ASSUME Modes = {"DELETE"}, ~Aligned, Sustained, [Next]_vars
  PROVE  Sustained'
  <1>1. Shape /\ AllNamed /\ AllOwn /\ Recovery /\ OneWay
    BY DEF Sustained, OneWay
  <1>2. ASSUME UNCHANGED vars PROVE Recovery'
    BY <1>1, <1>2 DEF vars, Recovery, Recovers
  <1>3. ASSUME Next PROVE Recovery'
    <2>1. Progress
      BY <1>1, <1>3, RecoveryStep
    <2> QED  BY <2>1, ProgressRecovers
  <1>4. Recovery'
    BY <1>2, <1>3
  <1> QED  BY <1>1, <1>4, ShapeStep, NamedStep, OwnStep DEF Sustained

(* Whatever the connections do and whatever fails, the journal the kernel  *)
(* knows leads the database file to one committed content and the one on   *)
(* the medium to a committed content, whatever part of the unsynced writes *)
(* is lost (pager_playback); every reader's cache is of the former.        *)
THEOREM RecoveryInvariant ==
  (Modes = {"DELETE"} /\ ~Aligned) => (Spec => []Recovery)
  <1> SUFFICES ASSUME Modes = {"DELETE"}, ~Aligned PROVE Spec => []Recovery
    OBVIOUS
  <1>1. Init => Sustained
    BY InitSustained
  <1>2. Sustained /\ [Next]_vars => Sustained'
    BY SustainedStep
  <1>3. Sustained => Recovery
    BY DEF Sustained
  <1> QED
    BY <1>1, <1>2, <1>3, PTL DEF Spec

(* No page of a cache is ever a damaged one or one of no transaction, and  *)
(* only dirty pages, all of them in the cache, wait for a journal sync.    *)
THEOREM CachesAreSound ==
  (Modes = {"DELETE"} /\ ~Aligned) => (Spec => []TypeOK)
  <1> SUFFICES ASSUME Modes = {"DELETE"}, ~Aligned PROVE Spec => []TypeOK
    OBVIOUS
  <1>1. Shape /\ Recovery => TypeOK
    <2> SUFFICES ASSUME Shape, Recovery PROVE TypeOK
      OBVIOUS
    <2>1. PICK I, J, m : Recovers(I, J, m)
      BY DEF Recovery
    <2>2. lock \in [Conn -> FL!Level]
      BY DEF Shape, Types
    <2>3. ASSUME NEW c \in Conn
          PROVE  /\ conn[c].jfd \in {0} \cup Inode
                 /\ conn[c].cache \in [Page -> {Absent} \cup 0..MaxTxn]
                 /\ conn[c].needSync \subseteq conn[c].dirty
                 /\ conn[c].dirty \subseteq {p \in Page : conn[c].cache[p] # Absent}
      <3> DEFINE r == conn[c]
      <3>1. /\ r \in PagerRecord /\ Sound(r)
        BY <2>1, Own DEF Recovers, Facts, Cached
      <3>2. r.jfd \in {0} \cup Inode /\ r.cache \in Pages /\ r.dirty \in SUBSET Page
        BY <3>1 DEF PagerRecord
      <3> HIDE DEF r
      <3>3. r.cache \in [Page -> {Absent} \cup 0..MaxTxn]
        BY <3>1, <3>2 DEF Sound, Value, Pages
      <3>4. r.needSync \subseteq r.dirty /\ r.dirty \subseteq {p \in Page : r.cache[p] # Absent}
        BY <3>1, <3>2 DEF Sound
      <3> QED  BY <3>2, <3>3, <3>4 DEF r
    <2> QED  BY <2>2, <2>3 DEF TypeOK
  <1>2. Spec => []Shape /\ []Recovery
    BY ShapeInvariant, RecoveryInvariant
  <1> QED
    BY <1>1, <1>2, PTL
=============================================================================
