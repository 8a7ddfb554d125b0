--------------------------- MODULE UnixLockProofs ---------------------------
(***************************************************************************)
(* UnixLock implements FileLock, for every set of processes and handles,   *)
(* when the handles of a process are not used by two threads at once.      *)
(***************************************************************************)
EXTENDS UnixLock, FiniteSetTheorems, TLAPS

(* What a handle counts for inside its process: posixUnlock lowers the     *)
(* level of the inode before that of the handle.                           *)
Eff(h) == IF pc[h] = "count" THEN SHARED ELSE eFileLock[h]

(* At most one call is under way in a process. *)
OneCall ==
  \A g, h \in Handle : ProcOf[g] = ProcOf[h] /\ pc[g] # "idle" /\ pc[h] # "idle"
                         => g = h

(* What each point of a call knows about its handle. *)
PcFacts ==
  \A h \in Handle :
    /\ ~open[h] => eFileLock[h] = NO /\ pc[h] = "idle"
    /\ pc[h] \in {"range", "got", "missed", "closing"} =>
         eFileLock[h] = NO /\ iLock[ProcOf[h]] = NO
    /\ pc[h] = "excl" =>
         eFileLock[h] = PENDING /\ (\A g \in HandlesOf(ProcOf[h]) :
                                      g # h => eFileLock[g] = NO)
    /\ pc[h] \in {"downgrade", "release"} => eFileLock[h] > SHARED
    /\ pc[h] = "downgrade" => want[h] = SHARED
    /\ pc[h] = "count" => eFileLock[h] > NO /\ want[h] = NO

(* The level of an inode is the highest of its handles, and at most one    *)
(* handle is above SHARED; an EXCLUSIVE one is alone.                      *)
InodeFacts ==
  /\ \A h \in Handle : Eff(h) <= iLock[ProcOf[h]]
  /\ \A p \in Proc : iLock[p] > NO => \E h \in HandlesOf(p) : Eff(h) = iLock[p]
  /\ \A g, h \in Handle : ProcOf[g] = ProcOf[h] /\ Eff(g) > SHARED /\ Eff(h) > SHARED
                            => g = h
  /\ \A g, h \in Handle : ProcOf[g] = ProcOf[h] /\ eFileLock[h] = EXCLUSIVE /\ g # h
                            => eFileLock[g] = NO

(* How the byte locks of a process follow from the level of its inode. *)
ByteFacts ==
  /\ \A p \in Proc :
       /\ iLock[p] = NO /\ (\A h \in HandlesOf(p) : pc[h] \notin {"range", "got", "missed"})
            => pend[p] = "n" /\ shr[p] = "n"
       /\ res[p] = "w" => iLock[p] >= RESERVED
       /\ iLock[p] > NO => shr[p] # "n"
       /\ iLock[p] \in {RESERVED, PENDING} => res[p] = "w"
       /\ iLock[p] = PENDING => pend[p] = "w"
       /\ pend[p] = "w" => iLock[p] >= PENDING
       /\ shr[p] = "w" => \E h \in HandlesOf(p) : eFileLock[h] = EXCLUSIVE
  /\ \A h \in Handle :
       /\ pc[h] \in {"range", "got", "missed"} => pend[ProcOf[h]] = "r"
       /\ pc[h] \in {"range", "missed"} => shr[ProcOf[h]] = "n"
       /\ pc[h] = "got" => shr[ProcOf[h]] = "r"
       /\ pc[h] = "release" /\ want[h] = SHARED => shr[ProcOf[h]] # "w"
       /\ Level(h) = EXCLUSIVE => shr[ProcOf[h]] = "w"

(* Byte locks of different processes are compatible. *)
Compatible ==
  \A p, q \in Proc : p # q =>
    /\ shr[p] = "w" => shr[q] = "n"
    /\ res[p] = "w" => res[q] = "n"
    /\ pend[p] = "w" => pend[q] = "n"

IInv ==
  /\ TypeOK
  /\ CountsExact
  /\ OneCall
  /\ PcFacts
  /\ InodeFacts
  /\ ByteFacts
  /\ Compatible

-----------------------------------------------------------------------------
(* A call that has entered the mutex is the only one of its process. *)
LEMMA Entered ==
  ASSUME ~MultiThreaded, NEW h \in Handle, CanEnter(h)
  PROVE  /\ open[h]
         /\ \A g \in Handle : ProcOf[g] = ProcOf[h] => pc[g] = "idle"
  BY DEF CanEnter, HandlesOf

(* What the count of a process says about its handles. *)
LEMMA Counting ==
  ASSUME IInv, NEW h \in Handle
  PROVE  /\ nLock[ProcOf[h]] = nShared[ProcOf[h]]
         /\ nShared[ProcOf[h]] = 0 =>
              \A g \in Handle : ProcOf[g] = ProcOf[h] => eFileLock[g] = NO
         /\ eFileLock[h] > NO => nShared[ProcOf[h]] >= 1
         /\ nShared[ProcOf[h]] <= 1 /\ eFileLock[h] > NO =>
              \A g \in Handle : ProcOf[g] = ProcOf[h] /\ g # h => eFileLock[g] = NO
         /\ nShared[ProcOf[h]] # 1 /\ eFileLock[h] > NO =>
              \E g \in Handle : ProcOf[g] = ProcOf[h] /\ g # h /\ eFileLock[g] > NO
<1> DEFINE p == ProcOf[h]
           S == Holders(p)
<1>1. p \in Proc /\ IsFiniteSet(Handle)
  BY UnixLockAssumption
<1>2. IsFiniteSet(S)
  BY <1>1, FS_Subset DEF Holders, HandlesOf
<1>3. nShared[p] = Cardinality(S) /\ nLock[p] = nShared[p] /\ nShared[p] \in Nat
  BY <1>1 DEF IInv, TypeOK, CountsExact
<1>4. nShared[p] = 0 <=> S = {}
  BY <1>2, <1>3, FS_EmptySet
<1>5. nShared[p] = 1 <=> \E x : S = {x}
  BY <1>2, <1>3, FS_Singleton
<1>6. \A g \in Handle : g \in S <=> ProcOf[g] = p /\ eFileLock[g] > NO
  BY DEF Holders, HandlesOf
<1>7. \A g \in Handle : eFileLock[g] > NO \/ eFileLock[g] = NO
  BY DEF IInv, TypeOK, NO
<1>8. S \subseteq Handle
  BY DEF Holders, HandlesOf
<1> HIDE DEF S
<1>9. ASSUME eFileLock[h] > NO
      PROVE  nShared[p] >= 1 /\ h \in S
  BY <1>9, <1>3, <1>4, <1>6
<1>10. nShared[p] <= 1 /\ eFileLock[h] > NO => S = {h}
  BY <1>3, <1>5, <1>9
<1>11. nShared[p] # 1 /\ eFileLock[h] > NO => \E g \in S : g # h
  BY <1>5, <1>9
<1> QED
  BY <1>3, <1>4, <1>6, <1>7, <1>8, <1>9, <1>10, <1>11

(* Nobody holds a lock: the count is zero. *)
LEMMA NobodyCounted ==
  ASSUME IInv, NEW h \in Handle,
         \A g \in Handle : ProcOf[g] = ProcOf[h] => eFileLock[g] = NO
  PROVE  nShared[ProcOf[h]] = 0
<1>1. Holders(ProcOf[h]) = {}
  BY DEF Holders, HandlesOf, NO
<1> QED
  BY <1>1, UnixLockAssumption, FS_EmptySet DEF IInv, CountsExact

(* The counts stay exact when nobody gets or loses a lock, ... *)
LEMMA SameHolders ==
  ASSUME IInv, TypeOK',
         \A h \in Handle : eFileLock'[h] > NO <=> eFileLock[h] > NO,
         UNCHANGED <<nShared, nLock>>,
         \A q \in Proc : nUnused'[q] > nUnused[q] => nLock[q] > 0
  PROVE  CountsExact'
<1>1. \A q \in Proc : Holders(q)' = Holders(q)
  BY DEF Holders, HandlesOf
<1>2. SUFFICES ASSUME NEW q \in Proc
               PROVE  nUnused'[q] > 0 => nLock[q] > 0
  BY <1>1 DEF CountsExact, IInv
<1> QED
  BY DEF IInv, CountsExact, TypeOK

(* ... when one handle gets its first lock ... *)
LEMMA MoreHolders ==
  ASSUME IInv, NEW h \in Handle, eFileLock[h] = NO, eFileLock'[h] > NO,
         \A g \in Handle \ {h} : eFileLock'[g] = eFileLock[g],
         nShared' = [nShared EXCEPT ![ProcOf[h]] = @ + 1],
         nLock' = [nLock EXCEPT ![ProcOf[h]] = @ + 1],
         UNCHANGED nUnused
  PROVE  CountsExact'
<1> DEFINE p == ProcOf[h]
<1>1. p \in Proc /\ IsFiniteSet(Handle)
  BY UnixLockAssumption
<1>2. Holders(p)' = Holders(p) \cup {h} /\ h \notin Holders(p)
  BY DEF Holders, HandlesOf, NO
<1>3. \A q \in Proc : q # p => Holders(q)' = Holders(q)
  BY DEF Holders, HandlesOf
<1>4. IsFiniteSet(Holders(p))
  BY <1>1, FS_Subset DEF Holders, HandlesOf
<1>5. Cardinality(Holders(p)') = Cardinality(Holders(p)) + 1
  BY <1>2, <1>4, FS_AddElement
<1> QED
  BY <1>1, <1>3, <1>5 DEF CountsExact, IInv, TypeOK

(* ... and when one gives up its last. *)
LEMMA FewerHolders ==
  ASSUME IInv, NEW h \in Handle, eFileLock[h] > NO, eFileLock'[h] = NO,
         \A g \in Handle \ {h} : eFileLock'[g] = eFileLock[g],
         nShared' = [nShared EXCEPT ![ProcOf[h]] = @ - 1],
         nLock' = [nLock EXCEPT ![ProcOf[h]] = @ - 1],
         CloseUnused(ProcOf[h], nLock[ProcOf[h]] - 1)
  PROVE  CountsExact'
<1> DEFINE p == ProcOf[h]
<1>1. p \in Proc /\ IsFiniteSet(Handle)
  BY UnixLockAssumption
<1>2. Holders(p)' = Holders(p) \ {h} /\ h \in Holders(p)
  BY DEF Holders, HandlesOf, NO
<1>3. \A q \in Proc : q # p => Holders(q)' = Holders(q)
  BY DEF Holders, HandlesOf
<1>4. IsFiniteSet(Holders(p))
  BY <1>1, FS_Subset DEF Holders, HandlesOf
<1>5. Cardinality(Holders(p)') = Cardinality(Holders(p)) - 1
  BY <1>2, <1>4, FS_RemoveElement
<1>6. nLock[p] >= 1
  BY Counting DEF NO
<1> QED
  BY <1>1, <1>3, <1>5, <1>6 DEF CountsExact, CloseUnused, IInv, TypeOK

(* unixLock, a SHARED lock the process has already *)
LEMMA LockCountedStep ==
  ASSUME IInv, ~MultiThreaded, NEW h \in Handle, LockCounted(h)
  PROVE  IInv'
<1> USE UnixLockAssumption DEF IInv, LockCounted, NO, SHARED, RESERVED, PENDING, EXCLUSIVE, HandlesOf, Goto, SetLock, SetInode, Precluded, Counted
<1>0. /\ open[h]
      /\ \A g \in Handle : ProcOf[g] = ProcOf[h] => pc[g] = "idle"
  BY Entered
<1>p. ProcOf[h] \in Proc
  OBVIOUS
<1>e. /\ eFileLock' = [eFileLock EXCEPT ![h] = SHARED]
      /\ eFileLock[h] = NO
  OBVIOUS
<1>1. TypeOK'
  BY <1>0, <1>p, <1>e DEF TypeOK
<1>2. OneCall'
  BY <1>0, <1>p, <1>e DEF TypeOK, OneCall
<1>3. PcFacts'
  BY <1>0, <1>p, <1>e DEF TypeOK, OneCall, PcFacts
<1>4. InodeFacts'
  BY <1>0, <1>p, <1>e DEF TypeOK, OneCall, PcFacts, InodeFacts, Eff
<1>5. ByteFacts'
  BY <1>0, <1>p, <1>e DEF TypeOK, OneCall, PcFacts, InodeFacts, ByteFacts, Eff, Level
<1>6. Compatible'
  BY <1>0, <1>p, <1>e DEF TypeOK, OneCall, PcFacts, ByteFacts, Compatible
<1>7. CountsExact'
  <2>1. eFileLock'[h] > NO /\ \A g \in Handle \ {h} : eFileLock'[g] = eFileLock[g]
    BY <1>e DEF TypeOK
  <2> QED
    BY <1>e, <2>1, MoreHolders
<1> HIDE DEF LockCounted
<1> QED
  BY <1>1, <1>2, <1>3, <1>4, <1>5, <1>6, <1>7

(* unixLock, the read lock on the pending byte *)
LEMMA LockSharedStep ==
  ASSUME IInv, ~MultiThreaded, NEW h \in Handle, LockShared(h)
  PROVE  IInv'
<1> USE UnixLockAssumption DEF IInv, LockShared, NO, SHARED, RESERVED, PENDING, EXCLUSIVE, HandlesOf, Goto, SetLock, SetInode, Precluded, ReadOK
<1>0. /\ open[h]
      /\ \A g \in Handle : ProcOf[g] = ProcOf[h] => pc[g] = "idle"
  BY Entered
<1>p. ProcOf[h] \in Proc
  OBVIOUS
<1>e. iLock[ProcOf[h]] = NO
  BY <1>p DEF TypeOK
<1>1. TypeOK'
  BY <1>0, <1>p, <1>e DEF TypeOK
<1>2. OneCall'
  BY <1>0, <1>p, <1>e DEF TypeOK, OneCall
<1>3. PcFacts'
  BY <1>0, <1>p, <1>e DEF TypeOK, OneCall, PcFacts
<1>4. InodeFacts'
  BY <1>0, <1>p, <1>e DEF TypeOK, OneCall, PcFacts, InodeFacts, Eff
<1>5. ByteFacts'
  BY <1>0, <1>p, <1>e DEF TypeOK, OneCall, PcFacts, InodeFacts, ByteFacts, Eff, Level
<1>6. Compatible'
  BY <1>0, <1>p, <1>e DEF TypeOK, OneCall, PcFacts, ByteFacts, Compatible
<1>7. CountsExact'
  BY <1>0, <1>p, <1>e, <1>1, SameHolders DEF TypeOK
<1> HIDE DEF LockShared
<1> QED
  BY <1>1, <1>2, <1>3, <1>4, <1>5, <1>6, <1>7

(* unixLock, the read lock on the shared range *)
LEMMA ReadRangeStep ==
  ASSUME IInv, ~MultiThreaded, NEW h \in Handle, ReadRange(h)
  PROVE  IInv'
<1> USE UnixLockAssumption DEF IInv, ReadRange, NO, SHARED, RESERVED, PENDING, EXCLUSIVE, HandlesOf, Goto, SetLock, SetInode, ReadOK
<1>1. TypeOK'
  BY DEF TypeOK
<1>2. OneCall'
  BY DEF TypeOK, OneCall
<1>3. PcFacts'
  BY DEF TypeOK, OneCall, PcFacts
<1>4. InodeFacts'
  BY DEF TypeOK, OneCall, PcFacts, InodeFacts, Eff
<1>5. ByteFacts'
  BY DEF TypeOK, OneCall, PcFacts, InodeFacts, ByteFacts, Eff, Level
<1>6. Compatible'
  BY DEF TypeOK, OneCall, PcFacts, ByteFacts, Compatible
<1>7. CountsExact'
  BY <1>1, SameHolders DEF TypeOK
<1> HIDE DEF ReadRange
<1> QED
  BY <1>1, <1>2, <1>3, <1>4, <1>5, <1>6, <1>7

(* unixLock, the pending byte released *)
LEMMA DropPendingStep ==
  ASSUME IInv, ~MultiThreaded, NEW h \in Handle, DropPending(h)
  PROVE  IInv'
<1> USE UnixLockAssumption DEF IInv, DropPending, NO, SHARED, RESERVED, PENDING, EXCLUSIVE, HandlesOf, Goto, SetLock, SetInode
<1>p. ProcOf[h] \in Proc
  OBVIOUS
<1>e. /\ eFileLock[h] = NO /\ iLock[ProcOf[h]] = NO
      /\ \A g \in Handle : ProcOf[g] = ProcOf[h] /\ g # h => pc[g] = "idle"
  BY DEF PcFacts, OneCall
<1>f. \A g \in Handle : ProcOf[g] = ProcOf[h] => eFileLock[g] = NO
  BY <1>e, <1>p DEF InodeFacts, Eff, TypeOK
<1>g. nShared[ProcOf[h]] = 0
  BY <1>f, <1>p, NobodyCounted
<1>o. \A g \in Handle : ProcOf[g] # ProcOf[h] =>
        /\ eFileLock'[g] = eFileLock[g] /\ pc'[g] = pc[g]
        /\ want'[g] = want[g] /\ open'[g] = open[g]
        /\ iLock'[ProcOf[g]] = iLock[ProcOf[g]] /\ shr'[ProcOf[g]] = shr[ProcOf[g]]
        /\ pend'[ProcOf[g]] = pend[ProcOf[g]]
  BY <1>p DEF TypeOK
<1>1. TypeOK'
  BY <1>p, <1>e, <1>f, <1>g, <1>o DEF TypeOK
<1>2. OneCall'
  BY <1>p, <1>e, <1>f, <1>g, <1>o DEF TypeOK, OneCall
<1>3. PcFacts'
  <2>1. SUFFICES ASSUME NEW g \in Handle
                 PROVE  /\ ~open'[g] => eFileLock'[g] = NO /\ pc'[g] = "idle"
                        /\ pc'[g] \in {"range", "got", "missed", "closing"} =>
                             eFileLock'[g] = NO /\ iLock'[ProcOf[g]] = NO
                        /\ pc'[g] = "excl" => eFileLock'[g] = PENDING /\
                             \A f \in HandlesOf(ProcOf[g]) : f # g => eFileLock'[f] = NO
                        /\ pc'[g] \in {"downgrade", "release"} => eFileLock'[g] > SHARED
                        /\ pc'[g] = "downgrade" => want'[g] = SHARED
                        /\ pc'[g] = "count" => eFileLock'[g] > NO /\ want'[g] = NO
    BY DEF PcFacts
  <2>2. CASE g = h
    BY <2>2, <1>p, <1>e, <1>f, <1>g, <1>o DEF TypeOK, OneCall, PcFacts
  <2>3. CASE g # h /\ ProcOf[g] = ProcOf[h]
    BY <2>3, <1>p, <1>e, <1>f, <1>g, <1>o DEF TypeOK, OneCall, PcFacts
  <2>4. CASE ProcOf[g] # ProcOf[h]
    BY <2>4, <1>o, <2>4 DEF PcFacts
  <2> QED
    BY <2>2, <2>3, <2>4
<1>4. InodeFacts'
  <2>1. \A g \in Handle : Eff(g)' <= iLock'[ProcOf[g]]
    <3>1. SUFFICES ASSUME NEW g \in Handle PROVE Eff(g)' <= iLock'[ProcOf[g]]
      OBVIOUS
    <3>2. CASE ProcOf[g] # ProcOf[h]
      BY <1>o, <3>2 DEF InodeFacts, Eff
    <3>3. CASE ProcOf[g] = ProcOf[h]
      BY <1>e, <1>f, <1>p, <3>3 DEF TypeOK, InodeFacts, Eff
    <3> QED
      BY <3>2, <3>3
  <2>2. \A q \in Proc : iLock'[q] > NO => \E g \in HandlesOf(q) : Eff(g)' = iLock'[q]
    BY <1>p, <1>e, <1>f, <1>g, <1>o DEF TypeOK, OneCall, PcFacts, InodeFacts, Eff
  <2>3. \A f, g \in Handle : ProcOf[f] = ProcOf[g] /\ Eff(f)' > SHARED /\ Eff(g)' > SHARED
                               => f = g
    BY <1>p, <1>e, <1>f, <1>g, <1>o DEF TypeOK, OneCall, PcFacts, InodeFacts, Eff
  <2>4. \A f, g \in Handle : ProcOf[f] = ProcOf[g] /\ eFileLock'[g] = EXCLUSIVE /\ f # g
                               => eFileLock'[f] = NO
    BY <1>p, <1>e, <1>f, <1>g, <1>o DEF TypeOK, OneCall, PcFacts, InodeFacts, Eff
  <2> QED
    BY <2>1, <2>2, <2>3, <2>4 DEF InodeFacts
<1>5. ByteFacts'
  BY <1>p, <1>e, <1>f, <1>g, <1>o DEF TypeOK, OneCall, PcFacts, InodeFacts, ByteFacts, Eff, Level
<1>6. Compatible'
  BY <1>p, <1>e, <1>f, <1>g, <1>o DEF TypeOK, OneCall, PcFacts, ByteFacts, Compatible
<1>7. CountsExact'
  BY <1>p, <1>e, <1>f, <1>g, <1>o, SameHolders, MoreHolders DEF TypeOK
<1> HIDE DEF DropPending
<1> QED
  BY <1>1, <1>2, <1>3, <1>4, <1>5, <1>6, <1>7

(* unixLock, RESERVED *)
LEMMA LockReservedStep ==
  ASSUME IInv, ~MultiThreaded, NEW h \in Handle, LockReserved(h)
  PROVE  IInv'
<1> USE UnixLockAssumption DEF IInv, LockReserved, NO, SHARED, RESERVED, PENDING, EXCLUSIVE, HandlesOf, Goto, SetLock, SetInode, Precluded, WriteOK
<1>0. /\ open[h]
      /\ \A g \in Handle : ProcOf[g] = ProcOf[h] => pc[g] = "idle"
  BY Entered
<1>p. ProcOf[h] \in Proc
  OBVIOUS
<1>e. eFileLock[h] = SHARED /\ iLock[ProcOf[h]] = SHARED
  BY <1>p DEF TypeOK
<1>1. TypeOK'
  BY <1>0, <1>p, <1>e DEF TypeOK
<1>2. OneCall'
  BY <1>0, <1>p, <1>e DEF TypeOK, OneCall
<1>3. PcFacts'
  BY <1>0, <1>p, <1>e DEF TypeOK, OneCall, PcFacts
<1>4. InodeFacts'
  <2>1. \A g \in Handle : Eff(g)' <= iLock'[ProcOf[g]]
    BY <1>0, <1>p, <1>e DEF TypeOK, OneCall, PcFacts, InodeFacts, Eff
  <2>2. \A q \in Proc : iLock'[q] > NO => \E g \in HandlesOf(q) : Eff(g)' = iLock'[q]
    BY <1>0, <1>p, <1>e DEF TypeOK, OneCall, PcFacts, InodeFacts, Eff
  <2>3. \A f, g \in Handle : ProcOf[f] = ProcOf[g] /\ Eff(f)' > SHARED /\ Eff(g)' > SHARED
                               => f = g
    BY <1>0, <1>p, <1>e DEF TypeOK, OneCall, PcFacts, InodeFacts, Eff
  <2>4. \A f, g \in Handle : ProcOf[f] = ProcOf[g] /\ eFileLock'[g] = EXCLUSIVE /\ f # g
                               => eFileLock'[f] = NO
    BY <1>0, <1>p, <1>e DEF TypeOK, OneCall, PcFacts, InodeFacts, Eff
  <2> QED
    BY <2>1, <2>2, <2>3, <2>4 DEF InodeFacts
<1>5. ByteFacts'
  BY <1>0, <1>p, <1>e DEF TypeOK, OneCall, PcFacts, InodeFacts, ByteFacts, Eff, Level
<1>6. Compatible'
  BY <1>0, <1>p, <1>e DEF TypeOK, OneCall, PcFacts, ByteFacts, Compatible
<1>7. CountsExact'
  BY <1>0, <1>p, <1>e, <1>1, SameHolders DEF TypeOK
<1> HIDE DEF LockReserved
<1> QED
  BY <1>1, <1>2, <1>3, <1>4, <1>5, <1>6, <1>7

(* unixLock, PENDING *)
LEMMA LockPendingStep ==
  ASSUME IInv, ~MultiThreaded, NEW h \in Handle, LockPending(h)
  PROVE  IInv'
<1> USE UnixLockAssumption DEF IInv, LockPending, NO, SHARED, RESERVED, PENDING, EXCLUSIVE, HandlesOf, Goto, SetLock, SetInode, Precluded, WriteOK
<1>0. /\ open[h]
      /\ \A g \in Handle : ProcOf[g] = ProcOf[h] => pc[g] = "idle"
  BY Entered
<1>p. ProcOf[h] \in Proc
  OBVIOUS
<1>e. eFileLock[h] = RESERVED /\ iLock[ProcOf[h]] = RESERVED
  BY <1>p DEF TypeOK
<1>f. ~(nShared[ProcOf[h]] > 1) =>
        \A g \in Handle : ProcOf[g] = ProcOf[h] /\ g # h => eFileLock[g] = NO
  BY <1>e, <1>p, Counting DEF TypeOK
<1>1. TypeOK'
  BY <1>0, <1>p, <1>e, <1>f DEF TypeOK
<1>2. OneCall'
  BY <1>0, <1>p, <1>e, <1>f DEF TypeOK, OneCall
<1>3. PcFacts'
  BY <1>0, <1>p, <1>e, <1>f DEF TypeOK, OneCall, PcFacts
<1>4. InodeFacts'
  BY <1>0, <1>p, <1>e, <1>f DEF TypeOK, OneCall, PcFacts, InodeFacts, Eff
<1>5. ByteFacts'
  BY <1>0, <1>p, <1>e, <1>f DEF TypeOK, OneCall, PcFacts, InodeFacts, ByteFacts, Eff, Level
<1>6. Compatible'
  BY <1>0, <1>p, <1>e, <1>f DEF TypeOK, OneCall, PcFacts, ByteFacts, Compatible
<1>7. CountsExact'
  BY <1>0, <1>p, <1>e, <1>f, <1>1, SameHolders DEF TypeOK
<1> HIDE DEF LockPending
<1> QED
  BY <1>1, <1>2, <1>3, <1>4, <1>5, <1>6, <1>7

(* unixLock, EXCLUSIVE *)
LEMMA LockExclusiveStep ==
  ASSUME IInv, ~MultiThreaded, NEW h \in Handle, LockExclusive(h)
  PROVE  IInv'
<1> USE UnixLockAssumption DEF IInv, LockExclusive, NO, SHARED, RESERVED, PENDING, EXCLUSIVE, HandlesOf, Goto, SetLock, SetInode, Precluded, WriteOK
<1>p. ProcOf[h] \in Proc
  OBVIOUS
<1>e. /\ iLock[ProcOf[h]] = eFileLock[h]
      /\ eFileLock[h] \in {SHARED, PENDING}
      /\ \A g \in Handle : ProcOf[g] = ProcOf[h] /\ g # h => pc[g] = "idle"
      /\ \A g \in Handle : ProcOf[g] = ProcOf[h] /\ g # h => eFileLock[g] = NO
  <2>1. CASE pc[h] = "excl"
    <3>1. eFileLock[h] = PENDING
      BY <2>1 DEF PcFacts
    <3>2. \A g \in Handle : ProcOf[g] = ProcOf[h] /\ g # h => pc[g] = "idle" /\ eFileLock[g] = NO
      BY <2>1 DEF PcFacts, OneCall
    <3>3. iLock[ProcOf[h]] >= PENDING /\ \E g \in HandlesOf(ProcOf[h]) : Eff(g) = iLock[ProcOf[h]]
      BY <1>p, <2>1, <3>1 DEF InodeFacts, Eff, TypeOK
    <3>4. iLock[ProcOf[h]] = PENDING
      BY <2>1, <3>1, <3>2, <3>3 DEF Eff
    <3> QED
      BY <3>1, <3>2, <3>4
  <2>2. CASE /\ CanEnter(h) /\ eFileLock[h] \in {SHARED, PENDING}
             /\ ~Precluded(h, EXCLUSIVE) /\ nShared[ProcOf[h]] <= 1
    BY <1>p, <2>2, Entered, Counting DEF TypeOK
  <2> QED
    BY <2>1, <2>2
<1>o. \A g \in Handle : ProcOf[g] # ProcOf[h] =>
        /\ eFileLock'[g] = eFileLock[g] /\ pc'[g] = pc[g]
        /\ want'[g] = want[g] /\ open'[g] = open[g]
        /\ iLock'[ProcOf[g]] = iLock[ProcOf[g]] /\ shr'[ProcOf[g]] = shr[ProcOf[g]]
        /\ pend'[ProcOf[g]] = pend[ProcOf[g]]
  <2>1. \/ /\ eFileLock' = [eFileLock EXCEPT ![h] = EXCLUSIVE]
           /\ iLock' = [iLock EXCEPT ![ProcOf[h]] = EXCLUSIVE]
           /\ shr' = [shr EXCEPT ![ProcOf[h]] = "w"]
        \/ UNCHANGED <<eFileLock, iLock, shr>>
    OBVIOUS
  <2>2. pc' = [pc EXCEPT ![h] = "idle"] /\ UNCHANGED <<open, want, pend>>
    OBVIOUS
  <2> HIDE DEF LockExclusive
  <2> QED
    BY <1>p, <2>1, <2>2 DEF TypeOK
<1>1. TypeOK'
  BY <1>p, <1>e, <1>o DEF TypeOK
<1>2. OneCall'
  BY <1>p, <1>e, <1>o DEF TypeOK, OneCall
<1>3. PcFacts'
  <2>1. SUFFICES ASSUME NEW g \in Handle
                 PROVE  /\ ~open'[g] => eFileLock'[g] = NO /\ pc'[g] = "idle"
                        /\ pc'[g] \in {"range", "got", "missed", "closing"} =>
                             eFileLock'[g] = NO /\ iLock'[ProcOf[g]] = NO
                        /\ pc'[g] = "excl" => eFileLock'[g] = PENDING /\
                             \A f \in HandlesOf(ProcOf[g]) : f # g => eFileLock'[f] = NO
                        /\ pc'[g] \in {"downgrade", "release"} => eFileLock'[g] > SHARED
                        /\ pc'[g] = "downgrade" => want'[g] = SHARED
                        /\ pc'[g] = "count" => eFileLock'[g] > NO /\ want'[g] = NO
    BY DEF PcFacts
  <2>2. CASE g = h
    BY <2>2, <1>p, <1>e, <1>o DEF TypeOK, OneCall, PcFacts
  <2>3. CASE g # h /\ ProcOf[g] = ProcOf[h]
    BY <2>3, <1>p, <1>e, <1>o DEF TypeOK, OneCall, PcFacts
  <2>4. CASE ProcOf[g] # ProcOf[h]
    BY <2>4, <1>o, <2>4 DEF PcFacts
  <2> QED
    BY <2>2, <2>3, <2>4
<1>4. InodeFacts'
  <2>1. \A g \in Handle : Eff(g)' <= iLock'[ProcOf[g]]
    <3>1. SUFFICES ASSUME NEW g \in Handle PROVE Eff(g)' <= iLock'[ProcOf[g]]
      OBVIOUS
    <3>2. CASE ProcOf[g] # ProcOf[h]
      BY <1>o, <3>2 DEF InodeFacts, Eff
    <3>3. CASE ProcOf[g] = ProcOf[h]
      BY <1>e, <1>p, <3>3 DEF TypeOK, InodeFacts, Eff
    <3> QED
      BY <3>2, <3>3
  <2>2. \A q \in Proc : iLock'[q] > NO => \E g \in HandlesOf(q) : Eff(g)' = iLock'[q]
    BY <1>p, <1>e, <1>o DEF TypeOK, OneCall, PcFacts, InodeFacts, Eff
  <2>3. \A f, g \in Handle : ProcOf[f] = ProcOf[g] /\ Eff(f)' > SHARED /\ Eff(g)' > SHARED
                               => f = g
    BY <1>p, <1>e, <1>o DEF TypeOK, OneCall, PcFacts, InodeFacts, Eff
  <2>4. \A f, g \in Handle : ProcOf[f] = ProcOf[g] /\ eFileLock'[g] = EXCLUSIVE /\ f # g
                               => eFileLock'[f] = NO
    BY <1>p, <1>e, <1>o DEF TypeOK, OneCall, PcFacts, InodeFacts, Eff
  <2> QED
    BY <2>1, <2>2, <2>3, <2>4 DEF InodeFacts
<1>5. ByteFacts'
  <2>1. \A q \in Proc :
          /\ iLock'[q] = NO /\ (\A g \in HandlesOf(q) : pc'[g] \notin {"range", "got", "missed"})
               => pend'[q] = "n" /\ shr'[q] = "n"
          /\ res'[q] = "w" => iLock'[q] >= RESERVED
          /\ iLock'[q] > NO => shr'[q] # "n"
          /\ iLock'[q] \in {RESERVED, PENDING} => res'[q] = "w"
          /\ iLock'[q] = PENDING => pend'[q] = "w"
          /\ pend'[q] = "w" => iLock'[q] >= PENDING
    BY <1>p, <1>e, <1>o DEF TypeOK, OneCall, PcFacts, InodeFacts, ByteFacts, Eff, Level
  <2>2. \A q \in Proc : shr'[q] = "w" => \E g \in HandlesOf(q) : eFileLock'[g] = EXCLUSIVE
    BY <1>p, <1>e, <1>o DEF TypeOK, OneCall, PcFacts, InodeFacts, ByteFacts, Eff, Level
  <2>3. \A g \in Handle :
          /\ pc'[g] \in {"range", "got", "missed"} => pend'[ProcOf[g]] = "r"
          /\ pc'[g] \in {"range", "missed"} => shr'[ProcOf[g]] = "n"
          /\ pc'[g] = "got" => shr'[ProcOf[g]] = "r"
          /\ pc'[g] = "release" /\ want'[g] = SHARED => shr'[ProcOf[g]] # "w"
    <3>1. SUFFICES ASSUME NEW g \in Handle
                   PROVE  /\ pc'[g] \in {"range", "got", "missed"} => pend'[ProcOf[g]] = "r"
                          /\ pc'[g] \in {"range", "missed"} => shr'[ProcOf[g]] = "n"
                          /\ pc'[g] = "got" => shr'[ProcOf[g]] = "r"
                          /\ pc'[g] = "release" /\ want'[g] = SHARED => shr'[ProcOf[g]] # "w"
      OBVIOUS
    <3>2. CASE ProcOf[g] # ProcOf[h]
      BY <1>o, <3>2 DEF ByteFacts
    <3>3. CASE ProcOf[g] = ProcOf[h]
      BY <1>e, <3>3 DEF TypeOK
    <3> QED
      BY <3>2, <3>3
  <2>4. \A g \in Handle : Level(g)' = EXCLUSIVE => shr'[ProcOf[g]] = "w"
    <3>1. SUFFICES ASSUME NEW g \in Handle, Level(g)' = EXCLUSIVE
                   PROVE  shr'[ProcOf[g]] = "w"
      OBVIOUS
    <3>2. CASE ProcOf[g] # ProcOf[h]
      BY <1>o, <3>1, <3>2 DEF ByteFacts, Level
    <3>3. CASE ProcOf[g] = ProcOf[h]
      BY <1>e, <1>p, <3>1, <3>3 DEF TypeOK, Level
    <3> QED
      BY <3>2, <3>3
  <2> QED
    BY <2>1, <2>2, <2>3, <2>4 DEF ByteFacts
<1>6. Compatible'
  BY <1>p, <1>e, <1>o DEF TypeOK, OneCall, PcFacts, ByteFacts, Compatible
<1>7. CountsExact'
  BY <1>p, <1>e, <1>o, <1>1, SameHolders DEF TypeOK
<1> HIDE DEF LockExclusive
<1> QED
  BY <1>1, <1>2, <1>3, <1>4, <1>5, <1>6, <1>7

(* posixUnlock, the call *)
LEMMA UnlockStep ==
  ASSUME IInv, ~MultiThreaded, NEW h \in Handle, NEW l \in {NO, SHARED}, Unlock(h, l)
  PROVE  IInv'
<1> USE UnixLockAssumption DEF IInv, Unlock, NO, SHARED, RESERVED, PENDING, EXCLUSIVE, HandlesOf, Goto, SetLock, SetInode
<1>0. /\ open[h]
      /\ \A g \in Handle : ProcOf[g] = ProcOf[h] => pc[g] = "idle"
  BY Entered
<1>p. ProcOf[h] \in Proc
  OBVIOUS
<1>1. TypeOK'
  BY <1>0, <1>p DEF TypeOK
<1>2. OneCall'
  BY <1>0, <1>p DEF TypeOK, OneCall
<1>3. PcFacts'
  BY <1>0, <1>p DEF TypeOK, OneCall, PcFacts
<1>4. InodeFacts'
  BY <1>0, <1>p DEF TypeOK, OneCall, PcFacts, InodeFacts, Eff
<1>5. ByteFacts'
  BY <1>0, <1>p DEF TypeOK, OneCall, PcFacts, InodeFacts, ByteFacts, Eff, Level
<1>6. Compatible'
  BY <1>0, <1>p DEF TypeOK, OneCall, PcFacts, ByteFacts, Compatible
<1>7. CountsExact'
  BY <1>0, <1>p, <1>1, SameHolders DEF TypeOK
<1> HIDE DEF Unlock
<1> QED
  BY <1>1, <1>2, <1>3, <1>4, <1>5, <1>6, <1>7

(* posixUnlock, the read lock on the shared range *)
LEMMA DowngradeStep ==
  ASSUME IInv, ~MultiThreaded, NEW h \in Handle, Downgrade(h)
  PROVE  IInv'
<1> USE UnixLockAssumption DEF IInv, Downgrade, NO, SHARED, RESERVED, PENDING, EXCLUSIVE, HandlesOf, Goto, SetLock, SetInode
<1>p. ProcOf[h] \in Proc
  OBVIOUS
<1>e. eFileLock[h] > SHARED /\ iLock[ProcOf[h]] > NO /\ shr[ProcOf[h]] # "n"
  BY <1>p DEF TypeOK, PcFacts, InodeFacts, ByteFacts, Eff
<1>1. TypeOK'
  BY <1>p, <1>e DEF TypeOK
<1>2. OneCall'
  BY <1>p, <1>e DEF TypeOK, OneCall
<1>3. PcFacts'
  BY <1>p, <1>e DEF TypeOK, OneCall, PcFacts
<1>4. InodeFacts'
  BY <1>p, <1>e DEF TypeOK, OneCall, PcFacts, InodeFacts, Eff
<1>5. ByteFacts'
  BY <1>p, <1>e DEF TypeOK, OneCall, PcFacts, InodeFacts, ByteFacts, Eff, Level
<1>6. Compatible'
  BY <1>p, <1>e DEF TypeOK, OneCall, PcFacts, ByteFacts, Compatible
<1>7. CountsExact'
  BY <1>p, <1>e, <1>1, SameHolders DEF TypeOK
<1> HIDE DEF Downgrade
<1> QED
  BY <1>1, <1>2, <1>3, <1>4, <1>5, <1>6, <1>7

(* posixUnlock, the pending and the reserved byte *)
LEMMA ReleaseStep ==
  ASSUME IInv, ~MultiThreaded, NEW h \in Handle, Release(h)
  PROVE  IInv'
<1> USE UnixLockAssumption DEF IInv, Release, NO, SHARED, RESERVED, PENDING, EXCLUSIVE, HandlesOf, Goto, SetLock, SetInode
<1>p. ProcOf[h] \in Proc
  OBVIOUS
<1>e. /\ eFileLock[h] > SHARED /\ iLock[ProcOf[h]] = eFileLock[h] /\ shr[ProcOf[h]] # "n"
      /\ \A g \in Handle : ProcOf[g] = ProcOf[h] /\ g # h =>
           pc[g] = "idle" /\ eFileLock[g] <= SHARED
  <2>1. eFileLock[h] > SHARED /\ Eff(h) = eFileLock[h]
    BY DEF PcFacts, Eff
  <2>2. \A g \in Handle : ProcOf[g] = ProcOf[h] /\ g # h =>
          pc[g] = "idle" /\ eFileLock[g] <= SHARED
    BY <2>1 DEF OneCall, InodeFacts, Eff, TypeOK
  <2>3. iLock[ProcOf[h]] >= eFileLock[h] /\ \E g \in HandlesOf(ProcOf[h]) : Eff(g) = iLock[ProcOf[h]]
    BY <1>p, <2>1 DEF InodeFacts, TypeOK
  <2>4. iLock[ProcOf[h]] = eFileLock[h]
    BY <1>p, <2>1, <2>2, <2>3 DEF TypeOK, Eff
  <2> QED
    BY <1>p, <2>1, <2>2, <2>4 DEF ByteFacts, TypeOK
<1>1. TypeOK'
  BY <1>p, <1>e DEF TypeOK
<1>2. OneCall'
  BY <1>p, <1>e DEF TypeOK, OneCall
<1>3. PcFacts'
  BY <1>p, <1>e DEF TypeOK, OneCall, PcFacts
<1>4. InodeFacts'
  <2>1. \A g \in Handle : Eff(g)' <= iLock'[ProcOf[g]]
    BY <1>p, <1>e DEF TypeOK, OneCall, PcFacts, InodeFacts, Eff
  <2>2. \A q \in Proc : iLock'[q] > NO => \E g \in HandlesOf(q) : Eff(g)' = iLock'[q]
    BY <1>p, <1>e DEF TypeOK, OneCall, PcFacts, InodeFacts, Eff
  <2>3. \A f, g \in Handle : ProcOf[f] = ProcOf[g] /\ Eff(f)' > SHARED /\ Eff(g)' > SHARED
                               => f = g
    BY <1>p, <1>e DEF TypeOK, OneCall, PcFacts, InodeFacts, Eff
  <2>4. \A f, g \in Handle : ProcOf[f] = ProcOf[g] /\ eFileLock'[g] = EXCLUSIVE /\ f # g
                               => eFileLock'[f] = NO
    BY <1>p, <1>e DEF TypeOK, OneCall, PcFacts, InodeFacts, Eff
  <2> QED
    BY <2>1, <2>2, <2>3, <2>4 DEF InodeFacts
<1>5. ByteFacts'
  <2>1. \A q \in Proc :
          /\ iLock'[q] = NO /\ (\A g \in HandlesOf(q) : pc'[g] \notin {"range", "got", "missed"})
               => pend'[q] = "n" /\ shr'[q] = "n"
          /\ res'[q] = "w" => iLock'[q] >= RESERVED
          /\ iLock'[q] > NO => shr'[q] # "n"
          /\ iLock'[q] \in {RESERVED, PENDING} => res'[q] = "w"
          /\ iLock'[q] = PENDING => pend'[q] = "w"
          /\ pend'[q] = "w" => iLock'[q] >= PENDING
    BY <1>p, <1>e DEF TypeOK, OneCall, PcFacts, InodeFacts, ByteFacts, Eff, Level
  <2>2. \A q \in Proc : shr'[q] = "w" => \E g \in HandlesOf(q) : eFileLock'[g] = EXCLUSIVE
    BY <1>p, <1>e DEF TypeOK, OneCall, PcFacts, InodeFacts, ByteFacts, Eff, Level
  <2>3. \A g \in Handle :
          /\ pc'[g] \in {"range", "got", "missed"} => pend'[ProcOf[g]] = "r"
          /\ pc'[g] \in {"range", "missed"} => shr'[ProcOf[g]] = "n"
          /\ pc'[g] = "got" => shr'[ProcOf[g]] = "r"
          /\ pc'[g] = "release" /\ want'[g] = SHARED => shr'[ProcOf[g]] # "w"
    BY <1>p, <1>e DEF TypeOK, OneCall, PcFacts, InodeFacts, ByteFacts, Eff, Level
  <2>4. \A g \in Handle : Level(g)' = EXCLUSIVE => shr'[ProcOf[g]] = "w"
    BY <1>p, <1>e DEF TypeOK, OneCall, PcFacts, InodeFacts, ByteFacts, Eff, Level
  <2> QED
    BY <2>1, <2>2, <2>3, <2>4 DEF ByteFacts
<1>6. Compatible'
  BY <1>p, <1>e DEF TypeOK, OneCall, PcFacts, ByteFacts, Compatible
<1>7. CountsExact'
  BY <1>p, <1>e, <1>1, SameHolders DEF TypeOK
<1> HIDE DEF Release
<1> QED
  BY <1>1, <1>2, <1>3, <1>4, <1>5, <1>6, <1>7

(* posixUnlock, the last lock *)
LEMMA CountDownStep ==
  ASSUME IInv, ~MultiThreaded, NEW h \in Handle, CountDown(h)
  PROVE  IInv'
<1> USE UnixLockAssumption DEF IInv, CountDown, NO, SHARED, RESERVED, PENDING, EXCLUSIVE, HandlesOf, Goto, SetLock, SetInode, CloseUnused
<1>p. ProcOf[h] \in Proc
  OBVIOUS
<1>e. /\ eFileLock[h] > NO /\ nLock[ProcOf[h]] = nShared[ProcOf[h]]
      /\ nShared[ProcOf[h]] >= 1
      /\ \A g \in Handle : ProcOf[g] = ProcOf[h] /\ g # h => pc[g] = "idle"
      /\ nShared[ProcOf[h]] = 1 =>
           \A g \in Handle : ProcOf[g] = ProcOf[h] /\ g # h => eFileLock[g] = NO
      /\ nShared[ProcOf[h]] # 1 =>
           \E g \in Handle : ProcOf[g] = ProcOf[h] /\ g # h /\ eFileLock[g] > NO
  BY Counting DEF PcFacts, OneCall
<1>1. TypeOK'
  <2>1. nShared' \in [Proc -> Nat] /\ nLock' \in [Proc -> Nat]
    BY <1>p, <1>e DEF TypeOK
  <2>2. nUnused' \in [Proc -> Nat]
    BY <1>p, <1>e DEF TypeOK
  <2>3. /\ open' \in [Handle -> BOOLEAN] /\ eFileLock' \in [Handle -> 0..4]
        /\ want' \in [Handle -> {NO, SHARED}] /\ iLock' \in [Proc -> 0..4]
    BY <1>p, <1>e DEF TypeOK
  <2>4. pc' \in [Handle -> {"idle", "range", "got", "missed", "excl",
                           "downgrade", "release", "count", "closing"}]
    BY <1>p, <1>e DEF TypeOK
  <2>5. /\ pend' \in [Proc -> {"n", "r", "w"}] /\ res' \in [Proc -> {"n", "w"}]
        /\ shr' \in [Proc -> {"n", "r", "w"}]
    BY <1>p, <1>e DEF TypeOK
  <2> QED
    BY <2>1, <2>2, <2>3, <2>4, <2>5 DEF TypeOK
<1>2. OneCall'
  BY <1>p, <1>e DEF TypeOK, OneCall
<1>3. PcFacts'
  BY <1>p, <1>e DEF TypeOK, OneCall, PcFacts
<1>4. InodeFacts'
  <2>1. \A g \in Handle : Eff(g)' <= iLock'[ProcOf[g]]
    BY <1>p, <1>e DEF TypeOK, OneCall, PcFacts, InodeFacts, Eff
  <2>2. \A q \in Proc : iLock'[q] > NO => \E g \in HandlesOf(q) : Eff(g)' = iLock'[q]
    <3>1. SUFFICES ASSUME NEW q \in Proc, iLock'[q] > NO
                   PROVE  \E g \in HandlesOf(q) : Eff(g)' = iLock'[q]
      OBVIOUS
    <3>2. iLock[q] > NO /\ iLock'[q] = iLock[q]
      BY <1>p, <3>1 DEF TypeOK
    <3>3. PICK g \in HandlesOf(q) : Eff(g) = iLock[q]
      BY <3>2 DEF InodeFacts
    <3>4. CASE g # h
      BY <3>2, <3>3, <3>4 DEF TypeOK, Eff
    <3>5. CASE g = h
      <4>1. q = ProcOf[h] /\ iLock[q] = SHARED /\ nShared[q] # 1
        BY <1>p, <3>1, <3>3, <3>5 DEF Eff, TypeOK
      <4>2. PICK f \in Handle : ProcOf[f] = q /\ f # h /\ eFileLock[f] > NO
        BY <1>e, <4>1
      <4>3. pc[f] = "idle" /\ eFileLock[f] = SHARED
        BY <1>e, <4>1, <4>2 DEF InodeFacts, Eff, TypeOK
      <4> QED
        BY <3>2, <4>1, <4>2, <4>3 DEF TypeOK, Eff
    <3> QED
      BY <3>4, <3>5
  <2>3. \A f, g \in Handle : ProcOf[f] = ProcOf[g] /\ Eff(f)' > SHARED /\ Eff(g)' > SHARED
                               => f = g
    BY <1>p, <1>e DEF TypeOK, OneCall, PcFacts, InodeFacts, Eff
  <2>4. \A f, g \in Handle : ProcOf[f] = ProcOf[g] /\ eFileLock'[g] = EXCLUSIVE /\ f # g
                               => eFileLock'[f] = NO
    BY <1>p, <1>e DEF TypeOK, OneCall, PcFacts, InodeFacts, Eff
  <2> QED
    BY <2>1, <2>2, <2>3, <2>4 DEF InodeFacts
<1>5. ByteFacts'
  BY <1>p, <1>e DEF TypeOK, OneCall, PcFacts, InodeFacts, ByteFacts, Eff, Level
<1>6. Compatible'
  BY <1>p, <1>e DEF TypeOK, OneCall, PcFacts, ByteFacts, Compatible
<1>7. CountsExact'
  BY <1>p, <1>e, FewerHolders DEF TypeOK
<1> HIDE DEF CountDown
<1> QED
  BY <1>1, <1>2, <1>3, <1>4, <1>5, <1>6, <1>7

(* unixClose, the descriptor set aside or about to be closed *)
LEMMA CloseStep ==
  ASSUME IInv, ~MultiThreaded, NEW h \in Handle, Close(h)
  PROVE  IInv'
<1> USE UnixLockAssumption DEF IInv, Close, NO, SHARED, RESERVED, PENDING, EXCLUSIVE, HandlesOf, Goto, SetLock, SetInode, Outstanding, NoneClosing
<1>0. /\ open[h]
      /\ \A g \in Handle : ProcOf[g] = ProcOf[h] => pc[g] = "idle"
  BY Entered
<1>p. ProcOf[h] \in Proc
  OBVIOUS
<1>e. ~Outstanding(ProcOf[h]) => iLock[ProcOf[h]] = NO
  BY <1>0, <1>p, Counting DEF TypeOK, InodeFacts, Eff
<1>1. TypeOK'
  <2>1. nShared' \in [Proc -> Nat] /\ nLock' \in [Proc -> Nat]
    BY <1>0, <1>p, <1>e DEF TypeOK
  <2>2. nUnused' \in [Proc -> Nat]
    BY <1>0, <1>p, <1>e DEF TypeOK
  <2>3. /\ open' \in [Handle -> BOOLEAN] /\ eFileLock' \in [Handle -> 0..4]
        /\ want' \in [Handle -> {NO, SHARED}] /\ iLock' \in [Proc -> 0..4]
    BY <1>0, <1>p, <1>e DEF TypeOK
  <2>4. pc' \in [Handle -> {"idle", "range", "got", "missed", "excl",
                           "downgrade", "release", "count", "closing"}]
    BY <1>0, <1>p, <1>e DEF TypeOK
  <2>5. /\ pend' \in [Proc -> {"n", "r", "w"}] /\ res' \in [Proc -> {"n", "w"}]
        /\ shr' \in [Proc -> {"n", "r", "w"}]
    BY <1>0, <1>p, <1>e DEF TypeOK
  <2> QED
    BY <2>1, <2>2, <2>3, <2>4, <2>5 DEF TypeOK
<1>2. OneCall'
  BY <1>0, <1>p, <1>e DEF TypeOK, OneCall
<1>3. PcFacts'
  BY <1>0, <1>p, <1>e DEF TypeOK, OneCall, PcFacts
<1>4. InodeFacts'
  BY <1>0, <1>p, <1>e DEF TypeOK, OneCall, PcFacts, InodeFacts, Eff
<1>5. ByteFacts'
  BY <1>0, <1>p, <1>e DEF TypeOK, OneCall, PcFacts, InodeFacts, ByteFacts, Eff, Level
<1>6. Compatible'
  BY <1>0, <1>p, <1>e DEF TypeOK, OneCall, PcFacts, ByteFacts, Compatible
<1>7. CountsExact'
  BY <1>0, <1>p, <1>e, <1>1, SameHolders DEF TypeOK
<1> HIDE DEF Close
<1> QED
  BY <1>1, <1>2, <1>3, <1>4, <1>5, <1>6, <1>7

(* unixClose, close(2) *)
LEMMA CloseFdStep ==
  ASSUME IInv, ~MultiThreaded, NEW h \in Handle, CloseFd(h)
  PROVE  IInv'
<1> USE UnixLockAssumption DEF IInv, CloseFd, NO, SHARED, RESERVED, PENDING, EXCLUSIVE, HandlesOf, Goto, SetLock, SetInode
<1>1. TypeOK'
  BY DEF TypeOK
<1>2. OneCall'
  BY DEF TypeOK, OneCall
<1>3. PcFacts'
  BY DEF TypeOK, OneCall, PcFacts
<1>4. InodeFacts'
  BY DEF TypeOK, OneCall, PcFacts, InodeFacts, Eff
<1>5. ByteFacts'
  BY DEF TypeOK, OneCall, PcFacts, InodeFacts, ByteFacts, Eff, Level
<1>6. Compatible'
  BY DEF TypeOK, OneCall, PcFacts, ByteFacts, Compatible
<1>7. CountsExact'
  BY <1>1, SameHolders DEF TypeOK
<1> HIDE DEF CloseFd
<1> QED
  BY <1>1, <1>2, <1>3, <1>4, <1>5, <1>6, <1>7

(* unixOpen *)
LEMMA OpenStep ==
  ASSUME IInv, ~MultiThreaded, NEW h \in Handle, Open(h)
  PROVE  IInv'
<1> USE UnixLockAssumption DEF IInv, Open, NO, SHARED, RESERVED, PENDING, EXCLUSIVE, HandlesOf, Goto, SetLock, SetInode, NoneClosing
<1>p. ProcOf[h] \in Proc
  OBVIOUS
<1>1. TypeOK'
  <2>1. nShared' \in [Proc -> Nat] /\ nLock' \in [Proc -> Nat]
    BY <1>p DEF TypeOK
  <2>2. nUnused' \in [Proc -> Nat]
    BY <1>p DEF TypeOK
  <2>3. /\ open' \in [Handle -> BOOLEAN] /\ eFileLock' \in [Handle -> 0..4]
        /\ want' \in [Handle -> {NO, SHARED}] /\ iLock' \in [Proc -> 0..4]
    BY <1>p DEF TypeOK
  <2>4. pc' \in [Handle -> {"idle", "range", "got", "missed", "excl",
                           "downgrade", "release", "count", "closing"}]
    BY <1>p DEF TypeOK
  <2>5. /\ pend' \in [Proc -> {"n", "r", "w"}] /\ res' \in [Proc -> {"n", "w"}]
        /\ shr' \in [Proc -> {"n", "r", "w"}]
    BY <1>p DEF TypeOK
  <2> QED
    BY <2>1, <2>2, <2>3, <2>4, <2>5 DEF TypeOK
<1>2. OneCall'
  BY <1>p DEF TypeOK, OneCall
<1>3. PcFacts'
  BY <1>p DEF TypeOK, OneCall, PcFacts
<1>4. InodeFacts'
  BY <1>p DEF TypeOK, OneCall, PcFacts, InodeFacts, Eff
<1>5. ByteFacts'
  BY <1>p DEF TypeOK, OneCall, PcFacts, InodeFacts, ByteFacts, Eff, Level
<1>6. Compatible'
  BY <1>p DEF TypeOK, OneCall, PcFacts, ByteFacts, Compatible
<1>7. CountsExact'
  BY <1>p, <1>1, SameHolders DEF TypeOK
<1> HIDE DEF Open
<1> QED
  BY <1>1, <1>2, <1>3, <1>4, <1>5, <1>6, <1>7

(* A process ends and starts again: everything of it is as at the start. *)
LEMMA CrashStep ==
  ASSUME IInv, NEW p \in Proc, Crash(p)
  PROVE  IInv'
<1> USE UnixLockAssumption DEF IInv, HandlesOf, NO, SHARED, RESERVED, PENDING, EXCLUSIVE
<1>p. \A g \in Handle : ProcOf[g] \in Proc
  OBVIOUS
<1>a. \A g \in Handle : ProcOf[g] = p =>
        open'[g] = TRUE /\ eFileLock'[g] = NO /\ pc'[g] = "idle" /\ want'[g] = NO
  BY DEF Crash
<1>b. \A g \in Handle : ProcOf[g] # p =>
        /\ open'[g] = open[g] /\ eFileLock'[g] = eFileLock[g]
        /\ pc'[g] = pc[g] /\ want'[g] = want[g]
  BY DEF Crash
<1>c. /\ iLock'[p] = NO /\ nShared'[p] = 0 /\ nLock'[p] = 0 /\ nUnused'[p] = 0
      /\ pend'[p] = "n" /\ res'[p] = "n" /\ shr'[p] = "n"
  BY DEF Crash, TypeOK
<1>d. \A q \in Proc : q # p =>
        /\ iLock'[q] = iLock[q] /\ nShared'[q] = nShared[q] /\ nLock'[q] = nLock[q]
        /\ nUnused'[q] = nUnused[q]
        /\ pend'[q] = pend[q] /\ res'[q] = res[q] /\ shr'[q] = shr[q]
  BY DEF Crash, TypeOK
<1>1. TypeOK'
  <2>0. open' \in [Handle -> BOOLEAN]
    BY Zenon DEF Crash, TypeOK
  <2>1. eFileLock' \in [Handle -> 0..4] /\ want' \in [Handle -> {NO, SHARED}]
    BY DEF Crash, TypeOK
  <2>2. pc' \in [Handle -> {"idle", "range", "got", "missed", "excl",
                           "downgrade", "release", "count", "closing"}]
    BY DEF Crash, TypeOK
  <2>3. /\ iLock' \in [Proc -> 0..4] /\ nShared' \in [Proc -> Nat]
        /\ nLock' \in [Proc -> Nat] /\ nUnused' \in [Proc -> Nat]
        /\ pend' \in [Proc -> {"n", "r", "w"}] /\ res' \in [Proc -> {"n", "w"}]
        /\ shr' \in [Proc -> {"n", "r", "w"}]
    BY DEF Crash, TypeOK
  <2> QED
    BY <2>0, <2>1, <2>2, <2>3 DEF TypeOK
<1>2. OneCall'
  BY <1>a, <1>b DEF OneCall
<1>3. PcFacts'
  <2>1. SUFFICES ASSUME NEW g \in Handle
                 PROVE  /\ ~open'[g] => eFileLock'[g] = NO /\ pc'[g] = "idle"
                        /\ pc'[g] \in {"range", "got", "missed", "closing"} =>
                             eFileLock'[g] = NO /\ iLock'[ProcOf[g]] = NO
                        /\ pc'[g] = "excl" => eFileLock'[g] = PENDING /\
                             \A f \in HandlesOf(ProcOf[g]) : f # g => eFileLock'[f] = NO
                        /\ pc'[g] \in {"downgrade", "release"} => eFileLock'[g] > SHARED
                        /\ pc'[g] = "downgrade" => want'[g] = SHARED
                        /\ pc'[g] = "count" => eFileLock'[g] > NO /\ want'[g] = NO
    BY DEF PcFacts
  <2>2. CASE ProcOf[g] = p
    BY <1>a, <2>2
  <2>3. CASE ProcOf[g] # p
    BY <1>p, <1>b, <1>d, <2>3 DEF PcFacts
  <2> QED
    BY <2>2, <2>3
<1>4. InodeFacts'
  <2>1. \A g \in Handle : ProcOf[g] = p => Eff(g)' = NO
    BY <1>a DEF Eff
  <2>2. \A g \in Handle : ProcOf[g] # p => Eff(g)' = Eff(g)
    BY <1>b DEF Eff
  <2>3. \A g \in Handle : Eff(g)' <= iLock'[ProcOf[g]]
    BY <1>p, <1>c, <1>d, <2>1, <2>2 DEF InodeFacts
  <2>4. \A q \in Proc : iLock'[q] > NO => \E g \in HandlesOf(q) : Eff(g)' = iLock'[q]
    BY <1>c, <1>d, <2>2 DEF InodeFacts
  <2>5. \A f, g \in Handle : ProcOf[f] = ProcOf[g] /\ Eff(f)' > SHARED /\ Eff(g)' > SHARED
                               => f = g
    BY <2>1, <2>2 DEF InodeFacts
  <2>6. \A f, g \in Handle : ProcOf[f] = ProcOf[g] /\ eFileLock'[g] = EXCLUSIVE /\ f # g
                               => eFileLock'[f] = NO
    BY <1>a, <1>b DEF InodeFacts
  <2> QED
    BY <2>3, <2>4, <2>5, <2>6 DEF InodeFacts
<1>5. ByteFacts'
  <2>1. \A q \in Proc :
          /\ iLock'[q] = NO /\ (\A g \in HandlesOf(q) : pc'[g] \notin {"range", "got", "missed"})
               => pend'[q] = "n" /\ shr'[q] = "n"
          /\ res'[q] = "w" => iLock'[q] >= RESERVED
          /\ iLock'[q] > NO => shr'[q] # "n"
          /\ iLock'[q] \in {RESERVED, PENDING} => res'[q] = "w"
          /\ iLock'[q] = PENDING => pend'[q] = "w"
          /\ pend'[q] = "w" => iLock'[q] >= PENDING
          /\ shr'[q] = "w" => \E g \in HandlesOf(q) : eFileLock'[g] = EXCLUSIVE
    BY <1>b, <1>c, <1>d DEF ByteFacts
  <2>2. \A g \in Handle :
          /\ pc'[g] \in {"range", "got", "missed"} => pend'[ProcOf[g]] = "r"
          /\ pc'[g] \in {"range", "missed"} => shr'[ProcOf[g]] = "n"
          /\ pc'[g] = "got" => shr'[ProcOf[g]] = "r"
          /\ pc'[g] = "release" /\ want'[g] = SHARED => shr'[ProcOf[g]] # "w"
    BY <1>p, <1>a, <1>b, <1>d DEF ByteFacts
  <2>3. \A g \in Handle : Level(g)' = EXCLUSIVE => shr'[ProcOf[g]] = "w"
    BY <1>p, <1>a, <1>b, <1>d DEF ByteFacts, Level
  <2> QED
    BY <2>1, <2>2, <2>3 DEF ByteFacts
<1>6. Compatible'
  BY <1>c, <1>d DEF Compatible
<1>7. CountsExact'
  <2>1. Holders(p)' = {}
    BY <1>a DEF Holders
  <2>2. \A q \in Proc : q # p => Holders(q)' = Holders(q)
    BY <1>b DEF Holders
  <2>3. Cardinality(Holders(p)') = 0
    BY <2>1, FS_EmptySet
  <2> QED
    BY <1>c, <1>d, <2>2, <2>3 DEF CountsExact
<1> QED
  BY <1>1, <1>2, <1>3, <1>4, <1>5, <1>6, <1>7

(* The invariant holds at the start. *)
LEMMA InitIInv == Init => IInv
<1> SUFFICES ASSUME Init PROVE IInv
  OBVIOUS
<1> USE UnixLockAssumption DEF Init, NO, SHARED, RESERVED, PENDING, EXCLUSIVE
<1>1. TypeOK
  BY DEF TypeOK
<1>2. OneCall /\ PcFacts
  BY DEF OneCall, PcFacts, HandlesOf
<1>3. InodeFacts /\ ByteFacts /\ Compatible
  BY DEF InodeFacts, ByteFacts, Compatible, Eff, Level, HandlesOf
<1>4. CountsExact
  <2>1. \A p \in Proc : Holders(p) = {}
    BY DEF Holders, HandlesOf
  <2> QED
    BY <2>1, FS_EmptySet DEF CountsExact
<1> QED
  BY <1>1, <1>2, <1>3, <1>4 DEF IInv

(* ... and when nothing happens. *)
LEMMA StutterIInv == IInv /\ UNCHANGED vars => IInv'
  BY DEF vars, IInv, TypeOK, CountsExact, Holders, OneCall, PcFacts, InodeFacts,
         ByteFacts, Compatible, Eff, Level, HandlesOf

(* Every step preserves the invariant. *)
LEMMA NextIInv == ASSUME IInv, ~MultiThreaded, [Next]_vars PROVE IInv'
<1>1. ASSUME NEW h \in Handle,
             \/ LockCounted(h) \/ LockShared(h) \/ ReadRange(h) \/ DropPending(h)
             \/ LockReserved(h) \/ LockPending(h) \/ LockExclusive(h)
             \/ \E l \in {NO, SHARED} : Unlock(h, l)
             \/ Downgrade(h) \/ Release(h) \/ CountDown(h)
             \/ Close(h) \/ CloseFd(h) \/ Open(h)
      PROVE  IInv'
  BY <1>1, LockCountedStep, LockSharedStep, ReadRangeStep, DropPendingStep,
     LockReservedStep, LockPendingStep, LockExclusiveStep, UnlockStep,
     DowngradeStep, ReleaseStep, CountDownStep, CloseStep, CloseFdStep, OpenStep
<1>2. ASSUME NEW p \in Proc, Crash(p) PROVE IInv'
  BY <1>2, CrashStep
<1>3. CASE UNCHANGED vars
  BY <1>3, StutterIInv
<1> QED
  BY <1>1, <1>2, <1>3 DEF Next

-----------------------------------------------------------------------------
(* A level above NO is held by a handle with a read lock at least; a level *)
(* above SHARED shows on the reserved byte or on the shared range.         *)
LEMMA LevelFacts ==
  ASSUME IInv, NEW h \in Handle
  PROVE  /\ eFileLock[h] > NO => shr[ProcOf[h]] # "n"
         /\ Level(h) > NO <=> eFileLock[h] > NO
         /\ Level(h) \in 0..4 /\ Level(h) <= eFileLock[h]
         /\ Level(h) \in {RESERVED, PENDING} => res[ProcOf[h]] = "w"
         /\ Level(h) = EXCLUSIVE => shr[ProcOf[h]] = "w"
<1> USE UnixLockAssumption DEF NO, SHARED, RESERVED, PENDING, EXCLUSIVE
<1>1. eFileLock[h] \in 0..4 /\ iLock[ProcOf[h]] \in 0..4 /\ ProcOf[h] \in Proc
  BY DEF IInv, TypeOK
<1>2. eFileLock[h] > NO => iLock[ProcOf[h]] > NO
  BY <1>1 DEF IInv, InodeFacts, Eff
<1>3. eFileLock[h] > NO => shr[ProcOf[h]] # "n"
  BY <1>1, <1>2 DEF IInv, ByteFacts
<1>4. (Level(h) > NO <=> eFileLock[h] > NO) /\ Level(h) \in 0..4 /\ Level(h) <= eFileLock[h]
  BY <1>1 DEF Level, IInv, PcFacts
<1>5. ASSUME Level(h) \in {RESERVED, PENDING}
      PROVE  res[ProcOf[h]] = "w"
  <2>1. Eff(h) = Level(h)
    BY <1>1, <1>5 DEF Eff, Level
  <2>2. iLock[ProcOf[h]] >= Eff(h) /\ iLock[ProcOf[h]] > NO
    BY <1>1, <1>5, <2>1 DEF IInv, InodeFacts
  <2>3. PICK g \in HandlesOf(ProcOf[h]) : Eff(g) = iLock[ProcOf[h]]
    BY <1>1, <2>2 DEF IInv, InodeFacts
  <2>4. g = h
    BY <1>1, <1>5, <2>1, <2>2, <2>3 DEF IInv, InodeFacts, HandlesOf
  <2> QED
    BY <1>1, <1>5, <2>1, <2>3, <2>4 DEF IInv, ByteFacts
<1>6. Level(h) = EXCLUSIVE => shr[ProcOf[h]] = "w"
  BY DEF IInv, ByteFacts
<1> QED
  BY <1>3, <1>4, <1>5, <1>6

(* Two handles of different processes: a read lock of the first keeps the  *)
(* second below EXCLUSIVE.                                                 *)
LEMMA NoWriterElsewhere ==
  ASSUME IInv, NEW g \in Handle, NEW p \in Proc, ProcOf[g] # p, shr[p] # "n"
  PROVE  Level(g) # EXCLUSIVE
  BY LevelFacts, UnixLockAssumption DEF IInv, Compatible

(* A counted SHARED lock is a Shared step of FileLock. *)
LEMMA LockCountedMaps ==
  ASSUME IInv, ~MultiThreaded, NEW h \in Handle, LockCounted(h)
  PROVE  FL!Shared(h)
<1> USE UnixLockAssumption DEF NO, SHARED, RESERVED, PENDING, EXCLUSIVE
<1>1. /\ eFileLock[h] = NO /\ iLock[ProcOf[h]] \in {SHARED, RESERVED} /\ ProcOf[h] \in Proc
      /\ \A g \in Handle : ProcOf[g] = ProcOf[h] => pc[g] = "idle"
  BY Entered DEF LockCounted
<1>2. \A g \in Handle : Level(g)' = IF g = h THEN SHARED ELSE Level(g)
  BY <1>1 DEF LockCounted, SetLock, Level, IInv, TypeOK
<1>3. \A g \in Handle \ {h} : Level(g) # EXCLUSIVE
  <2>1. SUFFICES ASSUME NEW g \in Handle PROVE Level(g) # EXCLUSIVE
    OBVIOUS
  <2>2. CASE ProcOf[g] = ProcOf[h]
    BY <1>1, <2>2 DEF IInv, InodeFacts, Eff, Level
  <2>3. CASE ProcOf[g] # ProcOf[h]
    BY <1>1, <2>3, NoWriterElsewhere DEF IInv, ByteFacts
  <2> QED
    BY <2>2, <2>3
<1>4. Level(h) = NO
  BY <1>1 DEF Level
<1> QED
  BY <1>2, <1>3, <1>4 DEF FL!Shared, FL!Others, FL!NO_LOCK, FL!SHARED_LOCK, FL!EXCLUSIVE_LOCK

(* The end of a process's first SHARED lock is a Shared step, or none. *)
LEMMA DropPendingMaps ==
  ASSUME IInv, NEW h \in Handle, DropPending(h)
  PROVE  FL!Shared(h) \/ UNCHANGED [g \in Handle |-> Level(g)]
<1> USE UnixLockAssumption DEF NO, SHARED, RESERVED, PENDING, EXCLUSIVE
<1>1. /\ eFileLock[h] = NO /\ iLock[ProcOf[h]] = NO /\ ProcOf[h] \in Proc
      /\ \A g \in Handle : ProcOf[g] = ProcOf[h] /\ g # h => pc[g] = "idle"
  BY DEF DropPending, IInv, PcFacts, OneCall
<1>2. \A g \in Handle : ProcOf[g] = ProcOf[h] => eFileLock[g] = NO
  BY <1>1 DEF IInv, InodeFacts, Eff, TypeOK
<1>3. Level(h) = NO /\ \A g \in Handle : ProcOf[g] = ProcOf[h] => Level(g) = NO
  BY <1>1, <1>2, LevelFacts
<1>4. CASE pc[h] = "got"
  <2>1. \A g \in Handle : Level(g)' = IF g = h THEN SHARED ELSE Level(g)
    BY <1>1, <1>4 DEF DropPending, Goto, SetLock, Level, IInv, TypeOK
  <2>2. shr[ProcOf[h]] = "r"
    BY <1>4 DEF IInv, ByteFacts
  <2>3. \A g \in Handle \ {h} : Level(g) # EXCLUSIVE
    BY <1>1, <1>3, <2>2, NoWriterElsewhere
  <2> QED
    BY <1>3, <2>1, <2>3
    DEF FL!Shared, FL!Others, FL!NO_LOCK, FL!SHARED_LOCK, FL!EXCLUSIVE_LOCK
<1>5. CASE pc[h] = "missed"
  <2>1. \A g \in Handle : Level(g)' = Level(g)
    BY <1>1, <1>5 DEF DropPending, Goto, Level, IInv, TypeOK
  <2> QED
    BY <2>1
<1> QED
  BY <1>4, <1>5 DEF DropPending

(* RESERVED: no other handle of any process has it or more. *)
LEMMA LockReservedMaps ==
  ASSUME IInv, ~MultiThreaded, NEW h \in Handle, LockReserved(h)
  PROVE  FL!Reserved(h)
<1> USE UnixLockAssumption DEF NO, SHARED, RESERVED, PENDING, EXCLUSIVE
<1>1. /\ eFileLock[h] = SHARED /\ iLock[ProcOf[h]] = SHARED /\ ProcOf[h] \in Proc
      /\ \A g \in Handle : ProcOf[g] = ProcOf[h] => pc[g] = "idle"
  BY Entered DEF LockReserved, Precluded
<1>2. \A g \in Handle : Level(g)' = IF g = h THEN RESERVED ELSE Level(g)
  BY <1>1 DEF LockReserved, SetLock, Level, IInv, TypeOK
<1>3. shr[ProcOf[h]] # "n"
  BY <1>1 DEF IInv, ByteFacts
<1>4. \A g \in Handle \ {h} : Level(g) < RESERVED
  <2>1. SUFFICES ASSUME NEW g \in Handle PROVE Level(g) < RESERVED
    OBVIOUS
  <2>2. CASE ProcOf[g] = ProcOf[h]
    BY <1>1, <2>2 DEF IInv, InodeFacts, TypeOK, Eff, Level
  <2>3. CASE ProcOf[g] # ProcOf[h]
    <3>1. res[ProcOf[g]] = "n"
      BY <1>1, <2>3 DEF LockReserved, WriteOK
    <3>2. Level(g) # EXCLUSIVE
      BY <1>1, <1>3, <2>3, NoWriterElsewhere
    <3> QED
      BY <3>1, <3>2, LevelFacts
  <2> QED
    BY <2>2, <2>3
<1>5. Level(h) = SHARED
  BY <1>1 DEF Level
<1> QED
  BY <1>2, <1>4, <1>5 DEF FL!Reserved, FL!Others, FL!SHARED_LOCK, FL!RESERVED_LOCK

(* PENDING follows RESERVED. *)
LEMMA LockPendingMaps ==
  ASSUME IInv, ~MultiThreaded, NEW h \in Handle, LockPending(h)
  PROVE  FL!Pending(h)
<1> USE DEF NO, SHARED, RESERVED, PENDING, EXCLUSIVE
<1>1. eFileLock[h] = RESERVED /\ pc[h] = "idle"
  BY Entered DEF LockPending
<1>2. \A g \in Handle : Level(g)' = IF g = h THEN PENDING ELSE Level(g)
  BY <1>1 DEF LockPending, Goto, SetLock, Level, IInv, TypeOK
<1>3. Level(h) = RESERVED
  BY <1>1 DEF Level
<1> QED
  BY <1>2, <1>3 DEF FL!Pending, FL!RESERVED_LOCK, FL!PENDING_LOCK

(* EXCLUSIVE is only had alone, in the process and outside. *)
LEMMA LockExclusiveMaps ==
  ASSUME IInv, ~MultiThreaded, NEW h \in Handle, LockExclusive(h)
  PROVE  FL!Exclusive(h) \/ UNCHANGED [g \in Handle |-> Level(g)]
<1> USE UnixLockAssumption DEF NO, SHARED, RESERVED, PENDING, EXCLUSIVE
<1>1. /\ eFileLock[h] \in {SHARED, PENDING} /\ ProcOf[h] \in Proc
      /\ pc[h] \in {"idle", "excl"}
      /\ \A g \in Handle : ProcOf[g] = ProcOf[h] /\ g # h => eFileLock[g] = NO
  <2>1. CASE pc[h] = "excl"
    BY <2>1 DEF IInv, PcFacts, HandlesOf
  <2>2. CASE /\ CanEnter(h) /\ eFileLock[h] \in {SHARED, PENDING}
             /\ nShared[ProcOf[h]] <= 1
    BY <2>2, Entered, Counting
  <2> QED
    BY <2>1, <2>2 DEF LockExclusive
<1>2. Level(h) = eFileLock[h]
  BY <1>1 DEF Level
<1>3. CASE /\ WriteOK(shr, ProcOf[h])
           /\ SetLock(h, EXCLUSIVE) /\ Goto(h, "idle") /\ UNCHANGED want
  <2>1. \A g \in Handle : Level(g)' = IF g = h THEN EXCLUSIVE ELSE Level(g)
    BY <1>3 DEF Goto, SetLock, Level, IInv, TypeOK
  <2>2. \A g \in Handle \ {h} : Level(g) = NO
    <3>1. SUFFICES ASSUME NEW g \in Handle \ {h} PROVE eFileLock[g] = NO
      BY LevelFacts
    <3>2. CASE ProcOf[g] = ProcOf[h]
      BY <1>1, <3>2
    <3>3. CASE ProcOf[g] # ProcOf[h]
      <4>1. shr[ProcOf[g]] = "n"
        BY <1>3, <3>3 DEF WriteOK
      <4>2. eFileLock[g] \in 0..4
        BY DEF IInv, TypeOK
      <4> QED
        BY <4>1, <4>2, LevelFacts
    <3> QED
      BY <3>2, <3>3
  <2> QED
    BY <1>1, <1>2, <2>1, <2>2
    DEF FL!Exclusive, FL!Alone, FL!Others, FL!NO_LOCK, FL!SHARED_LOCK,
        FL!RESERVED_LOCK, FL!PENDING_LOCK, FL!EXCLUSIVE_LOCK
<1>4. CASE Goto(h, "idle") /\ UNCHANGED <<eFileLock, want>>
  <2>1. \A g \in Handle : Level(g)' = Level(g)
    BY <1>1, <1>4 DEF Goto, Level, IInv, TypeOK
  <2> QED
    BY <2>1
<1> QED
  BY <1>3, <1>4 DEF LockExclusive

(* Others get in when the shared range is no longer write-locked. *)
LEMMA DowngradeMaps ==
  ASSUME IInv, NEW h \in Handle, Downgrade(h)
  PROVE  FL!Unlock(h, SHARED) \/ UNCHANGED [g \in Handle |-> Level(g)]
<1> USE DEF NO, SHARED, RESERVED, PENDING, EXCLUSIVE
<1>1. want[h] = SHARED /\ eFileLock[h] > SHARED /\ pc[h] = "downgrade"
  BY DEF Downgrade, IInv, PcFacts
<1>2. Level(h) = eFileLock[h]
  BY <1>1 DEF Level
<1>3. \A g \in Handle : g # h => Level(g)' = Level(g)
  BY DEF Downgrade, Goto, Level, IInv, TypeOK
<1>4. Level(h)' = IF eFileLock[h] = EXCLUSIVE THEN SHARED ELSE Level(h)
  BY <1>1, <1>2 DEF Downgrade, Goto, Level, IInv, TypeOK
<1>5. CASE eFileLock[h] = EXCLUSIVE
  <2>1. \A g \in Handle : Level(g)' = IF g = h THEN SHARED ELSE Level(g)
    BY <1>3, <1>4, <1>5
  <2>2. Level(h) > SHARED
    BY <1>1, <1>2
  <2> QED
    BY <2>1, <2>2 DEF FL!Unlock, FL!NO_LOCK, FL!SHARED_LOCK
<1>6. CASE eFileLock[h] # EXCLUSIVE
  BY <1>3, <1>4, <1>6
<1> QED
  BY <1>5, <1>6

(* RESERVED and PENDING end with the two bytes. *)
LEMMA ReleaseMaps ==
  ASSUME IInv, NEW h \in Handle, Release(h)
  PROVE  FL!Unlock(h, SHARED) \/ UNCHANGED [g \in Handle |-> Level(g)]
<1> USE DEF NO, SHARED, RESERVED, PENDING, EXCLUSIVE
<1>1. eFileLock[h] > SHARED /\ pc[h] = "release" /\ eFileLock[h] \in 0..4
  BY DEF Release, IInv, PcFacts, TypeOK
<1>2. \A g \in Handle : g # h => Level(g)' = Level(g)
  BY DEF Release, Goto, SetLock, Level, IInv, TypeOK
<1>3. CASE eFileLock[h] = EXCLUSIVE
  <2>1. Level(h)' = Level(h)
    BY <1>1, <1>3 DEF Release, Goto, SetLock, Level, IInv, TypeOK
  <2> QED
    BY <1>2, <2>1
<1>4. CASE eFileLock[h] # EXCLUSIVE
  <2>1. Level(h)' = SHARED /\ Level(h) = eFileLock[h]
    BY <1>1, <1>4 DEF Release, Goto, SetLock, Level, IInv, TypeOK
  <2> QED
    BY <1>1, <1>2, <2>1 DEF FL!Unlock, FL!NO_LOCK, FL!SHARED_LOCK
<1> QED
  BY <1>3, <1>4

(* The last step of an unlock to NO. *)
LEMMA CountDownMaps ==
  ASSUME IInv, NEW h \in Handle, CountDown(h)
  PROVE  FL!Unlock(h, NO)
<1> USE DEF NO, SHARED, RESERVED, PENDING, EXCLUSIVE
<1>1. eFileLock[h] > NO
  BY DEF CountDown, IInv, PcFacts
<1>2. \A g \in Handle : Level(g)' = IF g = h THEN NO ELSE Level(g)
  BY DEF CountDown, Goto, SetLock, Level, IInv, TypeOK
<1> QED
  BY <1>1, <1>2, LevelFacts DEF FL!Unlock, FL!NO_LOCK, FL!SHARED_LOCK

(* The kernel drops the locks of a process that ends. *)
LEMMA CrashMaps ==
  ASSUME NEW p \in Proc, Crash(p)
  PROVE  FL!Drop(HandlesOf(p))
<1>1. \A g \in Handle : Level(g)' = IF g \in HandlesOf(p) THEN NO ELSE Level(g)
  BY DEF Crash, Level, HandlesOf, NO, SHARED, EXCLUSIVE
<1> QED
  BY <1>1 DEF FL!Drop, FL!NO_LOCK, NO

(* The other steps of a call leave the level of every handle alone. *)
LEMMA QuietSteps ==
  ASSUME IInv, ~MultiThreaded, NEW h \in Handle,
         \/ LockShared(h) \/ ReadRange(h) \/ Close(h) \/ CloseFd(h) \/ Open(h)
         \/ \E l \in {NO, SHARED} : Unlock(h, l)
  PROVE  UNCHANGED [g \in Handle |-> Level(g)]
<1> USE DEF NO, SHARED, RESERVED, PENDING, EXCLUSIVE
<1>1. SUFFICES \A g \in Handle : Level(g)' = Level(g)
  OBVIOUS
<1>2. CASE LockShared(h)
  BY <1>2, Entered DEF LockShared, Goto, Level, IInv, TypeOK
<1>3. CASE ReadRange(h)
  BY <1>3 DEF ReadRange, Goto, Level, IInv, TypeOK
<1>4. CASE Close(h)
  BY <1>4, Entered DEF Close, Goto, Level, IInv, TypeOK
<1>5. CASE CloseFd(h)
  BY <1>5 DEF CloseFd, Goto, Level, IInv, TypeOK
<1>6. CASE Open(h)
  BY <1>6 DEF Open, Level
<1>7. ASSUME NEW l \in {NO, SHARED}, Unlock(h, l)
      PROVE  \A g \in Handle : Level(g)' = Level(g)
  BY <1>7, Entered DEF Unlock, Goto, Level, IInv, TypeOK
<1> QED
  BY <1>2, <1>3, <1>4, <1>5, <1>6, <1>7

(* At the start nobody has a lock. *)
LEMMA InitMaps == Init => FL!Init
  BY DEF Init, Level, FL!Init, FL!NO_LOCK, NO, SHARED, EXCLUSIVE

(* Every step of os_unix.c is a step of FileLock or leaves the levels alone. *)
LEMMA NextMaps ==
  ASSUME IInv, ~MultiThreaded, [Next]_vars
  PROVE  [FL!Next]_([h \in Handle |-> Level(h)])
<1> USE DEF FL!Next
<1>1. ASSUME NEW h \in Handle,
             \/ LockCounted(h) \/ DropPending(h) \/ LockReserved(h)
             \/ LockPending(h) \/ LockExclusive(h)
      PROVE  [FL!Next]_([g \in Handle |-> Level(g)])
  BY <1>1, LockCountedMaps, DropPendingMaps, LockReservedMaps, LockPendingMaps,
     LockExclusiveMaps
<1>2. ASSUME NEW h \in Handle, Downgrade(h) \/ Release(h) \/ CountDown(h)
      PROVE  [FL!Next]_([g \in Handle |-> Level(g)])
  BY <1>2, DowngradeMaps, ReleaseMaps, CountDownMaps
  DEF FL!NO_LOCK, FL!SHARED_LOCK, NO, SHARED
<1>3. ASSUME NEW p \in Proc, Crash(p)
      PROVE  [FL!Next]_([g \in Handle |-> Level(g)])
  BY <1>3, CrashMaps DEF HandlesOf
<1>4. CASE UNCHANGED vars
  BY <1>4 DEF vars, Level
<1> QED
  BY <1>1, <1>2, <1>3, <1>4, QuietSteps DEF Next

-----------------------------------------------------------------------------
(* A process that came to EXCLUSIVE through RESERVED has the pending byte  *)
(* too, and while it gives the shared range up nobody else is in.          *)
Settling ==
  /\ \A p \in Proc : iLock[p] = EXCLUSIVE /\ res[p] = "w" => pend[p] = "w"
  /\ \A h \in Handle :
       pc[h] = "release" /\ want[h] = SHARED /\ eFileLock[h] = EXCLUSIVE
                         /\ pend[ProcOf[h]] = "w"
         => \A q \in Proc \ {ProcOf[h]} : iLock[q] = NO

(* Settling holds at the start. *)
LEMMA InitSettling == Init => Settling
  BY UnixLockAssumption DEF Init, Settling, NO, EXCLUSIVE

(* Every step preserves Settling. *)
LEMMA NextSettling ==
  ASSUME IInv, Settling, ~MultiThreaded, [Next]_vars
  PROVE  Settling'
<1> USE UnixLockAssumption
        DEF IInv, TypeOK, Settling, NO, SHARED, RESERVED, PENDING, EXCLUSIVE,
            Goto, SetLock, SetInode, HandlesOf
<1>1. ASSUME NEW h \in Handle, LockCounted(h) PROVE Settling'
  BY <1>1, Entered DEF LockCounted, PcFacts
<1>2. ASSUME NEW h \in Handle, LockShared(h) PROVE Settling'
  BY <1>2 DEF LockShared, Precluded
<1>3. ASSUME NEW h \in Handle, ReadRange(h) PROVE Settling'
  BY <1>3 DEF ReadRange
<1>4. ASSUME NEW h \in Handle, DropPending(h) PROVE Settling'
  BY <1>4 DEF DropPending, Compatible, ByteFacts, PcFacts
<1>5. ASSUME NEW h \in Handle, LockReserved(h) PROVE Settling'
  BY <1>5, Entered DEF LockReserved, Precluded
<1>6. ASSUME NEW h \in Handle, LockPending(h) PROVE Settling'
  BY <1>6, Entered DEF LockPending, Precluded
<1>7. ASSUME NEW h \in Handle, LockExclusive(h) PROVE Settling'
  BY <1>7, Entered DEF LockExclusive, Precluded, ByteFacts, PcFacts, InodeFacts, Eff
<1>8. ASSUME NEW h \in Handle, NEW l \in {NO, SHARED}, Unlock(h, l) PROVE Settling'
  BY <1>8, Entered DEF Unlock
<1>9. ASSUME NEW h \in Handle, Downgrade(h) PROVE Settling'
  BY <1>9 DEF Downgrade, ByteFacts, Level, Compatible
<1>10. ASSUME NEW h \in Handle, Release(h) PROVE Settling'
  <2>1. ProcOf[h] \in Proc /\ iLock[ProcOf[h]] > NO
    BY <1>10 DEF Release, PcFacts, InodeFacts, Eff
  <2> QED
    BY <1>10, <2>1 DEF Release, OneCall
<1>11. ASSUME NEW h \in Handle, CountDown(h) PROVE Settling'
  BY <1>11 DEF CountDown, OneCall
<1>12. ASSUME NEW h \in Handle, Close(h) \/ CloseFd(h) \/ Open(h) PROVE Settling'
  BY <1>12 DEF Close, CloseFd, Open, PcFacts, OneCall
<1>13. ASSUME NEW p \in Proc, Crash(p) PROVE Settling'
  BY <1>13 DEF Crash
<1>14. CASE UNCHANGED vars
  BY <1>14 DEF vars
<1> HIDE DEF Settling, IInv
<1> QED
  BY <1>1, <1>2, <1>3, <1>4, <1>5, <1>6, <1>7, <1>8, <1>9, <1>10, <1>11, <1>12,
     <1>13, <1>14 DEF Next

(* Both sides of CheckReservedExact, from the invariant. *)
LEMMA CheckReservedFromIInv ==
  ASSUME IInv, Settling, ~MultiThreaded
  PROVE  CheckReservedExact
<1> USE UnixLockAssumption DEF NO, SHARED, RESERVED, PENDING, EXCLUSIVE
<1>1. SUFFICES ASSUME NEW h \in Handle, CanEnter(h), eFileLock[h] = SHARED
               PROVE  CheckReservedLock(h) <=> \E g \in Handle \ {h} : Level(g) >= RESERVED
  BY DEF CheckReservedExact, FL!CheckReserved, FL!Others, FL!RESERVED_LOCK
<1>2. /\ ProcOf[h] \in Proc /\ Eff(h) = SHARED /\ iLock[ProcOf[h]] > NO
      /\ \A g \in Handle : ProcOf[g] = ProcOf[h] =>
           pc[g] = "idle" /\ Level(g) = eFileLock[g] /\ Eff(g) = eFileLock[g]
  <2>1. \A g \in Handle : ProcOf[g] = ProcOf[h] => pc[g] = "idle"
    BY <1>1, Entered
  <2> QED
    BY <1>1, <2>1 DEF Eff, Level, IInv, InodeFacts, TypeOK
<1>3. shr[ProcOf[h]] # "n"
  BY <1>2 DEF IInv, ByteFacts
<1>4. ASSUME NEW g \in Handle \ {h}, Level(g) >= RESERVED
      PROVE  CheckReservedLock(h)
  <2>1. CASE ProcOf[g] = ProcOf[h]
    BY <1>2, <1>4, <2>1 DEF CheckReservedLock, IInv, InodeFacts, TypeOK
  <2>2. CASE ProcOf[g] # ProcOf[h]
    <3>1. Level(g) # EXCLUSIVE /\ Level(g) \in 0..4
      BY <1>2, <1>3, <2>2, NoWriterElsewhere, LevelFacts
    <3>2. res[ProcOf[g]] = "w" /\ ProcOf[g] \in Proc
      BY <1>4, <3>1, LevelFacts
    <3> QED
      BY <2>2, <3>2 DEF CheckReservedLock
  <2> QED
    BY <2>1, <2>2
<1>5. ASSUME iLock[ProcOf[h]] > SHARED
      PROVE  \E g \in Handle \ {h} : Level(g) >= RESERVED
  <2>1. PICK g \in HandlesOf(ProcOf[h]) : Eff(g) = iLock[ProcOf[h]]
    BY <1>2 DEF IInv, InodeFacts
  <2> QED
    BY <1>2, <1>5, <2>1 DEF HandlesOf, IInv, TypeOK
<1>6. ASSUME NEW q \in Proc \ {ProcOf[h]}, res[q] = "w"
      PROVE  \E g \in Handle \ {h} : Level(g) >= RESERVED
  <2>1. iLock[q] >= RESERVED /\ iLock[q] \in 0..4
    BY <1>6 DEF IInv, ByteFacts, TypeOK
  <2>2. PICK g \in HandlesOf(q) : Eff(g) = iLock[q]
    BY <2>1 DEF IInv, InodeFacts
  <2>3. g \in Handle /\ ProcOf[g] = q /\ g # h /\ eFileLock[g] = iLock[q] /\ pc[g] # "count"
    BY <2>1, <2>2 DEF HandlesOf, Eff
  <2>4. ~(pc[g] = "release" /\ want[g] = SHARED /\ eFileLock[g] = EXCLUSIVE)
    BY <1>2, <1>6, <2>3 DEF Settling
  <2> QED
    BY <2>1, <2>3, <2>4 DEF Level
<1> QED
  BY <1>4, <1>5, <1>6 DEF CheckReservedLock

-----------------------------------------------------------------------------
(* The inductive invariant: what the bookkeeping of os_unix.c means at     *)
(* every point of every call.                                              *)
THEOREM Inductive == ~MultiThreaded /\ Spec => [](IInv /\ Settling)
<1>1. Init => IInv /\ Settling
  BY InitIInv, InitSettling
<1>2. ASSUME ~MultiThreaded
      PROVE  IInv /\ Settling /\ [Next]_vars => (IInv /\ Settling)'
  BY <1>2, NextIInv, NextSettling
<1>3. ASSUME ~MultiThreaded PROVE Spec => [](IInv /\ Settling)
  BY <1>1, <1>2, <1>3, PTL DEF Spec
<1> QED
  BY <1>3

(* Type correctness of the lock layer. *)
THEOREM TypeCorrect == ~MultiThreaded /\ Spec => []TypeOK
<1>1. IInv => TypeOK
  BY DEF IInv
<1> QED
  BY <1>1, Inductive, PTL

(* unixInodeInfo counts right, for any number of handles and processes, so *)
(* that posixUnlock releases the file with the last lock and not before,   *)
(* and no descriptor stays set aside.                                      *)
THEOREM CountsAreExact == ~MultiThreaded /\ Spec => []CountsExact
<1>1. IInv => CountsExact
  BY DEF IInv
<1> QED
  BY <1>1, Inductive, PTL

(* No close of one handle drops the lock of another: whoever holds a lock  *)
(* has the POSIX lock behind it.                                           *)
THEOREM LocksAreBacked == ~MultiThreaded /\ Spec => []LocksBacked
<1>1. IInv => LocksBacked
  BY LevelFacts DEF LocksBacked
<1> QED
  BY <1>1, Inductive, PTL

(* unixCheckReservedLock answers for every handle of every process. *)
THEOREM CheckReservedIsExact == ~MultiThreaded /\ Spec => []CheckReservedExact
<1>1. ASSUME ~MultiThreaded PROVE IInv /\ Settling => CheckReservedExact
  BY <1>1, CheckReservedFromIInv
<1>2. ASSUME ~MultiThreaded PROVE Spec => []CheckReservedExact
  BY <1>1, <1>2, Inductive, PTL
<1> QED
  BY <1>2

(* os_unix.c implements the lock levels of FileLock with POSIX locks, for  *)
(* any number of handles and processes.                                    *)
THEOREM UnixLockRefines == ~MultiThreaded /\ Spec => ImplementsFileLock
<1>1. ASSUME ~MultiThreaded
      PROVE  IInv /\ [Next]_vars => [FL!Next]_([h \in Handle |-> Level(h)])
  BY <1>1, NextMaps
<1>2. ASSUME ~MultiThreaded PROVE Spec => FL!Spec
  BY <1>1, <1>2, InitMaps, Inductive, PTL DEF Spec, FL!Spec
<1> QED
  BY <1>2 DEF ImplementsFileLock
=============================================================================
