--------------------------- MODULE ChurchAppProofs ---------------------------
(***************************************************************************)
(* Proofs that the state properties of ChurchApp hold for any set of       *)
(* members, requests and sessions: IInv is inductive and implies them.     *)
(***************************************************************************)
EXTENDS ChurchApp, TLAPS

-----------------------------------------------------------------------------
(* The gate.                                                               *)

\* A request for a protected path that trackUserActivity and the chains of
\* app.js let by carries an agent, and everything they look at holds of it.
LEMMA AdmittedPassed ==
  ASSUME NEW req \in Request, NEW userId,
         req.path \in ProtectedPaths, req.bare => req.agent = None,
         trackPasses(req), admitted(req, userId, allowedID)
  PROVE  Passed(req)
<1>1. req.agent # None /\ ~req.bare
  BY DEF trackPasses, redirector, isUrl, ProtectedPaths, MemberPaths
<1>2. ChainOf(req.path) \in 1..3
  BY DEF ChainOf
<1>3. \A m : ~middleCorrect(m, req, userId)
  BY <1>1 DEF middleCorrect, redirector, isUrl
<1>4. isAuthenticated(req, userId) /\ isAuthorized(GateChain[ChainOf(req.path)], req, userId)
  BY <1>2 DEF admitted, passesChains
<1>5. req.agent.isAuthenticated /\ req.agent.role \in GateChain[ChainOf(req.path)]
  BY <1>1, <1>3, <1>4 DEF isAuthenticated, isAuthorized
<1>6. req.agent.userId \in allowedID
  BY <1>1, <1>3 DEF admitted, validated
<1> QED BY <1>1, <1>5, <1>6 DEF Passed

-----------------------------------------------------------------------------
(* Slots and sessions.                                                     *)

\* Assigning to the session keeps a slot a slot and changes nothing else of it.
LEMMA WithSessionSlot ==
  ASSUME NEW slot \in Slot, NEW sess \in Session
  PROVE  LET x == WithSession(slot, sess) IN
         /\ x \in Slot
         /\ x.sess = sess /\ x.pc = slot.pc /\ x.req = slot.req /\ x.sid = slot.sid
         /\ x.row = slot.row
BY DEF WithSession, Slot

\* What trackUserActivity leaves of a request that has just arrived.
LEMMA TrackedSlot ==
  ASSUME IInv, NEW r \in Slots, slots[r].pc = "arrived"
  PROVE  LET x == Tracked(r) IN
         /\ x \in Slot
         /\ FlagEarned(x.sid, x.sess)
         /\ x.pc = "arrived" /\ x.req = slots[r].req /\ x.sid = slots[r].sid
         /\ x.sess.isWorker = slots[r].sess.isWorker
<1> DEFINE slot == slots[r]
<1> DEFINE u == trackedUserId(slot.sess.userId, slot.req)
<1>1. slot \in Slot /\ SlotInv(slot)
  BY DEF IInv, TypeOK
<1>2. slot.sess \in Session /\ slot.req \in Request /\ slot.req.agent \in Agent \cup {None}
  BY <1>1 DEF Slot, Request
<1>3. slot.sess.userId \in UserId \cup {None}
  BY <1>2 DEF Session
<1>4. slot.req.agent # None => slot.req.agent.userId \in UserId \cup {None}
  BY <1>2 DEF Agent
<1>5. u \in UserId \cup {None}
  BY <1>3, <1>4 DEF trackedUserId, UserId
<1> HIDE DEF u
<1> DEFINE sess == [slot.sess EXCEPT !.userId = u]
<1>6. sess \in Session /\ sess.isWorker = slot.sess.isWorker
  BY <1>2, <1>5 DEF Session
<1>7. FlagEarned(slot.sid, sess)
  BY <1>1, <1>6 DEF SlotInv, FlagEarned
<1>8. Tracked(r) = WithSession(slot, sess)
  BY DEF Tracked, u
<1> HIDE DEF sess
<1> QED BY <1>1, <1>6, <1>7, <1>8, WithSessionSlot

-----------------------------------------------------------------------------
(* One step of one request.                                                *)

\* What the steps of a request only add to.
Grows ==
  /\ proven \subseteq proven' /\ staffSids \subseteq staffSids'
  /\ allowedID \subseteq allowedID' /\ allowedID' \subseteq proven'

\* Rows are added behind the last one; a row of before is as it was or deleted.
RowsKept ==
  /\ rowCount' \in Nat /\ rowCount <= rowCount'
  /\ \A i \in 1..rowCount : Activity'[i] \in {Activity[i], None}

\* What a request in flight satisfies, no step of another request takes away.
LEMMA OthersInv ==
  ASSUME IInv, Grows, RowsKept, NEW q \in Slots, slots'[q] = slots[q]
  PROVE  SlotInv(slots[q])'
<1>1. SlotInv(slots[q]) /\ slots[q] \in Slot
  BY DEF IInv, TypeOK
<1>2. slots[q].pc = "logoutDestroy" =>
        /\ slots[q].row \in 1..rowCount'
        /\ Activity'[slots[q].row] # None =>
             Activity'[slots[q].row].USERID = slots[q].sess.userId
  <2> SUFFICES ASSUME slots[q].pc = "logoutDestroy"
               PROVE  /\ slots[q].row \in 1..rowCount'
                      /\ Activity'[slots[q].row] # None =>
                           Activity'[slots[q].row].USERID = slots[q].sess.userId
    OBVIOUS
  <2>1. /\ slots[q].row \in 1..rowCount
        /\ Activity[slots[q].row] # None => Activity[slots[q].row].USERID = slots[q].sess.userId
    BY <1>1 DEF SlotInv
  <2>2. rowCount \in Nat /\ rowCount' \in Nat /\ rowCount <= rowCount'
    BY DEF RowsKept, IInv, TypeOK
  <2>3. Activity'[slots[q].row] \in {Activity[slots[q].row], None}
    BY <2>1 DEF RowsKept
  <2> QED BY <2>1, <2>2, <2>3
<1>3. slots[q].pc \in Serving => Passed(slots[q].req)'
  BY <1>1 DEF SlotInv, Passed, Grows
<1>4. FlagEarned(slots[q].sid, slots[q].sess)'
  BY <1>1 DEF SlotInv, FlagEarned, Grows
<1> QED BY <1>1, <1>2, <1>3, <1>4 DEF SlotInv, Grows

\* A step of request r keeps the invariant if it keeps it for r itself, for the
\* session it saves and the rows it writes.
LEMMA StepInv ==
  ASSUME IInv, TypeOK', Grows, RowsKept, NEW r \in Slots,
         \A q \in Slots \ {r} : slots'[q] = slots[q],
         SlotInv(slots[r])',
         \A s \in Sids : store'[s] # store[s] => (store[s] # None => FlagEarned(s, store[s]))',
         (\A i \in RowId : i > rowCount => Activity[i] = None)',
         RecordsAccountable'
  PROVE  IInv'
<1>1. ASSUME NEW s \in Sids, store'[s] # None PROVE FlagEarned(s, store[s])'
  BY <1>1 DEF IInv, FlagEarned, Grows
<1>2. ASSUME NEW q \in Slots PROVE SlotInv(slots[q])'
  BY OthersInv
<1> QED BY <1>1, <1>2 DEF IInv, Grows

\* What a step that touches neither login state nor tables leaves alone.
Quiet == UNCHANGED <<usedSids, allowedID, tables, history>>

\* A quiet step keeps the invariant if the slot and the session it leaves do.
LEMMA QuietStep ==
  ASSUME IInv, Quiet, NEW r \in Slots, slots[r].pc # "idle",
         NEW x \in Slot, slots' = [slots EXCEPT ![r] = x], SlotInv(slots[r])',
         NEW sess \in Session, FlagEarned(slots[r].sid, sess),
         store' \in {store, [store EXCEPT ![slots[r].sid] = sess]}
  PROVE  IInv'
<1>1. slots[r] \in Slot /\ slots[r].sid \in Sids
  BY DEF IInv, TypeOK, SlotInv
<1>2. slots' \in [Slots -> Slot] /\ slots'[r] = x /\ \A q \in Slots \ {r} : slots'[q] = slots[q]
  BY DEF IInv, TypeOK
<1>3. /\ store' \in [Sids -> Session \cup {None}]
      /\ \A s \in Sids : store'[s] # store[s] => s = slots[r].sid /\ store'[s] = sess
  BY <1>1 DEF IInv, TypeOK
<1>4. TypeOK'
  BY <1>2, <1>3 DEF IInv, TypeOK, Quiet, tables, history
<1>5. Grows /\ RowsKept
  BY DEF Quiet, Grows, RowsKept, tables, history, IInv, TypeOK
<1>6. (\A i \in RowId : i > rowCount => Activity[i] = None)' /\ RecordsAccountable'
  BY DEF Quiet, tables, history, IInv, RecordsAccountable
<1>7. \A s \in Sids : store'[s] # store[s] => (store[s] # None => FlagEarned(s, store[s]))'
  BY <1>3 DEF FlagEarned, Quiet, history
<1> QED BY <1>2, <1>4, <1>5, <1>6, <1>7, StepInv

\* The idle slot satisfies what is asked of slots.
LEMMA IdleOK == Idle \in Slot /\ (Idle.pc = "idle")
BY DEF Idle, Slot, Pc, NoRequest, Request, Paths, PublicPaths, NewSession, Session

LEMMA IdleInv ==
  ASSUME NEW r \in Slots, slots'[r] = Idle
  PROVE  SlotInv(slots[r])'
BY DEF SlotInv, FlagEarned, Idle, NoRequest, Serving, NewSession

\* Answering: the session of the slot is the one saved.
LEMMA AnswerInv ==
  ASSUME IInv, Quiet, NEW r \in Slots, slots[r].pc # "idle",
         NEW y \in Slot, y.sid = slots[r].sid, FlagEarned(y.sid, y.sess), Answer(r, y)
  PROVE  IInv'
<1>1. slots' = [slots EXCEPT ![r] = Idle] /\ slots'[r] = Idle
  BY DEF Answer, IInv, TypeOK
<1>2. store' \in {store, [store EXCEPT ![slots[r].sid] = y.sess]}
  BY DEF Answer
<1>3. y.sess \in Session /\ FlagEarned(slots[r].sid, y.sess)
  BY DEF Slot
<1>4. SlotInv(slots[r])'
  BY <1>1, IdleInv
<1> QED BY <1>1, <1>2, <1>3, <1>4, IdleOK, QuietStep

\* Waiting: the slot gets another pc.
LEMMA ContinueInv ==
  ASSUME IInv, Quiet, NEW r \in Slots, slots[r].pc # "idle",
         NEW y \in Slot, y.sid = slots[r].sid, FlagEarned(y.sid, y.sess),
         NEW pc \in Pc, Continue(r, y, pc), SlotInv(slots[r])'
  PROVE  IInv'
<1> DEFINE x == [y EXCEPT !.pc = pc]
<1>1. x \in Slot /\ y.sess \in Session
  BY DEF Slot
<1>2. slots' = [slots EXCEPT ![r] = x] /\ store' = store
  BY DEF Continue
<1> HIDE DEF x
<1> QED BY <1>1, <1>2, QuietStep

LEMMA RenderInv ==
  ASSUME IInv, Quiet, NEW r \in Slots, slots[r].pc # "idle",
         NEW y \in Slot, y.sid = slots[r].sid, FlagEarned(y.sid, y.sess), Render(r, y)
  PROVE  IInv'
<1> DEFINE z == [Idle EXCEPT !.sid = y.sid, !.sess = y.sess, !.dirty = y.dirty]
<1>1. /\ z \in Slot /\ z.sid = y.sid /\ z.sess = y.sess
      /\ z.req = NoRequest /\ "responding" \in Pc
  BY IdleOK DEF Slot, Idle, Pc
<1>2. Continue(r, z, "responding")
  BY DEF Render
<1> HIDE DEF z
<1> DEFINE x == [z EXCEPT !.pc = "responding"]
<1>3. slots'[r] = x
  BY <1>2 DEF Continue, IInv, TypeOK
<1>4. x.pc = "responding" /\ x.sid = slots[r].sid /\ x.sess = y.sess /\ x.req = NoRequest
  BY <1>1 DEF Slot
<1>5. slots[r].sid \in Sids
  BY DEF IInv, SlotInv
<1>6. SlotInv(slots[r])'
  BY <1>3, <1>4, <1>5 DEF SlotInv, FlagEarned, NoRequest, Serving, Quiet, history
<1> QED BY <1>1, <1>2, <1>6, ContinueInv

-----------------------------------------------------------------------------
(* The steps of a request that has just arrived.                           *)

\* Entering a handler that awaits something keeps the invariant if the handler,
\* when it is behind the gate, was reached through it.
LEMMA EnterInv ==
  ASSUME IInv, Quiet, NEW r \in Slots, slots[r].pc = "arrived",
         NEW pc \in {"serving", "loginUser", "logoutFind", "memberUser", "activityUser"},
         Continue(r, Tracked(r), pc),
         pc \in Serving => Passed(slots[r].req),
         pc = "activityUser" => mayRecord(Tracked(r)) /\ slots[r].req.path = "/create-activity"
  PROVE  IInv'
<1> DEFINE y == Tracked(r)
<1> DEFINE x == [y EXCEPT !.pc = pc]
<1>1. /\ y \in Slot /\ FlagEarned(y.sid, y.sess)
      /\ y.req = slots[r].req /\ y.sid = slots[r].sid
  BY TrackedSlot
<1>3. slots'[r] = x
  BY DEF Continue, IInv, TypeOK
<1>4. x.pc = pc /\ x.req = y.req /\ x.sid = y.sid /\ x.sess = y.sess
  BY <1>1 DEF Slot
<1>5. SlotInv(slots[r])
  BY DEF IInv
<1>6. pc = "activityUser" => mayRecord(x)
  BY <1>4 DEF mayRecord
<1> HIDE DEF x, y
<1>7. SlotInv(slots[r])'
  <2>2. slots'[r].pc \in Serving => Passed(slots[r].req)'
    BY <1>1, <1>3, <1>4 DEF Passed, Quiet
  <2>3. slots'[r].pc = "activityUser" =>
          mayRecord(slots'[r]) /\ slots'[r].req.path = "/create-activity"
    BY <1>1, <1>3, <1>4, <1>6
  <2>4. FlagEarned(slots[r].sid, slots[r].sess)'
    BY <1>1, <1>3, <1>4 DEF FlagEarned, Quiet, history
  <2> QED BY <1>1, <1>3, <1>4, <1>5, <2>2, <2>3, <2>4 DEF SlotInv, Quiet, history
<1>8. pc \in Pc /\ slots[r].pc # "idle"
  BY DEF Pc, Awaiting, Serving
<1>9. Continue(r, y, pc)
  BY DEF y
<1> QED BY <1>1, <1>7, <1>8, <1>9, ContinueInv

\* Being admitted to the handler of a protected path is having passed the gate.
LEMMA EntersPassed ==
  ASSUME IInv, NEW r \in Slots, NEW paths \in SUBSET ProtectedPaths, EntersAdmitted(r, paths)
  PROVE  slots[r].pc = "arrived" /\ Passed(slots[r].req)
<1>1. slots[r].pc = "arrived" /\ slots[r].req.path \in ProtectedPaths
  BY DEF EntersAdmitted
<1>2. slots[r].req \in Request /\ (slots[r].req.bare => slots[r].req.agent = None)
  BY DEF IInv, TypeOK, Slot, SlotInv
<1> QED BY <1>1, <1>2, AdmittedPassed DEF EntersAdmitted

LEMMA TrackedAnswer ==
  ASSUME IInv, Quiet, NEW r \in Slots, slots[r].pc = "arrived",
         Answer(r, Tracked(r)) \/ Render(r, Tracked(r))
  PROVE  IInv'
<1>1. /\ Tracked(r) \in Slot /\ FlagEarned(Tracked(r).sid, Tracked(r).sess)
      /\ Tracked(r).sid = slots[r].sid /\ slots[r].pc # "idle"
  BY TrackedSlot
<1> QED BY <1>1, AnswerInv, RenderInv

LEMMA ArrivedSteps ==
  ASSUME IInv, NEW r \in Slots,
         \/ TrackRedirect(r) \/ GateRedirect(r) \/ GateLookup(r) \/ OpenPage(r)
         \/ WorkerPage(r) \/ AdminPage(r) \/ UpdateUser(r) \/ LoginStart(r) \/ LogoutStart(r)
         \/ MemberStart(r) \/ ActivityStart(r)
  PROVE  IInv'
<1> USE DEF Quiet
<1>1. CASE TrackRedirect(r)
  BY <1>1, TrackedAnswer DEF TrackRedirect
<1>2. CASE GateRedirect(r)
  BY <1>2, TrackedAnswer DEF GateRedirect
<1>3. CASE GateLookup(r)
  BY <1>3, TrackedAnswer DEF GateLookup
<1>4. CASE OpenPage(r)
  BY <1>4, TrackedAnswer DEF OpenPage, Enters
<1>5. CASE WorkerPage(r) \/ AdminPage(r) \/ UpdateUser(r)
  <2>1. PICK path \in ProtectedPaths :
          EntersAdmitted(r, {path}) /\ Continue(r, Tracked(r), "serving") /\ Quiet
    BY <1>5 DEF WorkerPage, AdminPage, UpdateUser, ProtectedPaths, MemberPaths
  <2>2. slots[r].pc = "arrived" /\ Passed(slots[r].req)
    BY <2>1, EntersPassed
  <2> QED BY <2>1, <2>2, EnterInv
<1>6. CASE LoginStart(r)
  <2>1. slots[r].pc = "arrived" /\ "loginUser" \notin Serving
    BY <1>6 DEF LoginStart, Enters, Serving
  <2> QED BY <1>6, <2>1, TrackedAnswer, EnterInv DEF LoginStart
<1>7. CASE LogoutStart(r)
  <2>1. slots[r].pc = "arrived" /\ "logoutFind" \notin Serving
    BY <1>7 DEF LogoutStart, Enters, Serving
  <2> QED BY <1>7, <2>1, TrackedAnswer, EnterInv DEF LogoutStart
<1>8. CASE MemberStart(r)
  <2>1. {"/memberIndex"} \subseteq ProtectedPaths
    BY DEF ProtectedPaths, MemberPaths
  <2> QED BY <1>8, <2>1, EntersPassed, EnterInv DEF MemberStart
<1>9. CASE ActivityStart(r)
  <2>1. {"/create-activity"} \subseteq ProtectedPaths
    BY DEF ProtectedPaths, MemberPaths
  <2>2. slots[r].req.path = "/create-activity"
    BY <1>9 DEF ActivityStart, EntersAdmitted
  <2>3. slots[r].pc = "arrived" /\ Passed(slots[r].req)
    BY <1>9, <2>1, EntersPassed DEF ActivityStart
  <2>4. CASE Answer(r, Tracked(r))
    BY <1>9, <2>3, <2>4, TrackedAnswer DEF ActivityStart
  <2>5. CASE mayRecord(Tracked(r)) /\ Continue(r, Tracked(r), "activityUser")
    BY <1>9, <2>2, <2>3, <2>5, EnterInv DEF ActivityStart
  <2> QED BY <1>9, <2>4, <2>5 DEF ActivityStart
<1> QED BY <1>1, <1>2, <1>3, <1>4, <1>5, <1>6, <1>7, <1>8, <1>9

-----------------------------------------------------------------------------
(* The steps of a request that awaited something.                          *)

\* What a request that is past its arrival satisfies.
LEMMA Waiting ==
  ASSUME IInv, NEW r \in Slots, slots[r].pc \notin {"idle", "arrived"}
  PROVE  /\ slots[r] \in Slot /\ SlotInv(slots[r])
         /\ slots[r].sess \in Session /\ slots[r].sid \in Sids
         /\ FlagEarned(slots[r].sid, slots[r].sess)
BY DEF IInv, TypeOK, SlotInv, Slot

LEMMA WaitingAnswer ==
  ASSUME IInv, Quiet, NEW r \in Slots, slots[r].pc \notin {"idle", "arrived"},
         Answer(r, slots[r]) \/ Render(r, slots[r])
  PROVE  IInv'
BY Waiting, AnswerInv, RenderInv

LEMMA MemberFindUserInv ==
  ASSUME IInv, NEW r \in Slots, MemberFindUser(r)
  PROVE  IInv'
<1> DEFINE sess == [slots[r].sess EXCEPT !.isWorker = FALSE]
<1> DEFINE y == WithSession(slots[r], sess)
<1>1. Quiet /\ slots[r].pc = "memberUser"
  BY DEF MemberFindUser, Quiet
<1>3. CASE Answer(r, slots[r])
  BY <1>1, <1>3, WaitingAnswer
<1>4. CASE Continue(r, y, "serving")
  <2>1. sess \in Session /\ sess.userId = slots[r].sess.userId /\ ~sess.isWorker
    BY <1>1, Waiting DEF Session
  <2> HIDE DEF sess
  <2>2. y \in Slot /\ y.sess = sess /\ y.req = slots[r].req /\ y.sid = slots[r].sid
    BY <1>1, <2>1, Waiting, WithSessionSlot
  <2>3. FlagEarned(y.sid, y.sess)
    BY <1>1, <2>1, <2>2, Waiting DEF FlagEarned
  <2> HIDE DEF y
  <2> DEFINE x == [y EXCEPT !.pc = "serving"]
  <2>4. slots'[r] = x
    BY <1>4 DEF Continue, IInv, TypeOK
  <2>5. x.pc = "serving" /\ x.req = slots[r].req /\ x.sid = slots[r].sid /\ x.sess = y.sess
    BY <2>2 DEF Slot
  <2>6. Passed(slots[r].req)
    BY <1>1, Waiting DEF SlotInv, Serving
  <2> HIDE DEF x
  <2>7. SlotInv(slots[r])'
    BY <1>1, <2>2, <2>3, <2>4, <2>5, <2>6, Waiting
    DEF SlotInv, FlagEarned, Passed, Quiet, history
  <2>8. "serving" \in Pc
    BY DEF Pc, Awaiting, Serving
  <2> QED BY <1>1, <1>4, <2>2, <2>3, <2>7, <2>8, ContinueInv
<1> QED BY <1>3, <1>4 DEF MemberFindUser

LEMMA ActivityUserInv ==
  ASSUME IInv, NEW r \in Slots, ActivityUser(r)
  PROVE  IInv'
<1>1. Quiet /\ slots[r].pc = "activityUser"
  BY DEF ActivityUser, Quiet
<1>3. CASE Answer(r, slots[r])
  BY <1>1, <1>3, WaitingAnswer
<1>4. CASE slots[r].sess.userId \in Members /\ Continue(r, slots[r], "activityCreate")
  <2> DEFINE x == [slots[r] EXCEPT !.pc = "activityCreate"]
  <2>1. slots'[r] = x
    BY <1>4 DEF Continue, IInv, TypeOK
  <2>2. /\ x.pc = "activityCreate" /\ x.req = slots[r].req /\ x.sid = slots[r].sid
        /\ x.sess = slots[r].sess
    BY <1>1, Waiting DEF Slot
  <2>3. /\ Passed(slots[r].req) /\ slots[r].req.path = "/create-activity"
        /\ slots[r].sess.userId = slots[r].req.target \/ slots[r].sess.isWorker
    BY <1>1, Waiting DEF SlotInv, Serving, mayRecord
  <2> HIDE DEF x
  <2>4. SlotInv(slots[r])'
    BY <1>1, <1>4, <2>1, <2>2, <2>3, Waiting
    DEF SlotInv, FlagEarned, Passed, mayRecord, Quiet, history
  <2>5. "activityCreate" \in Pc
    BY DEF Pc, Awaiting, Serving
  <2> QED BY <1>1, <1>4, <2>4, <2>5, Waiting, ContinueInv
<1> QED BY <1>3, <1>4 DEF ActivityUser

LEMMA LogoutFindInv ==
  ASSUME IInv, NEW r \in Slots, LogoutFind(r)
  PROVE  IInv'
<1>1. Quiet /\ slots[r].pc = "logoutFind"
  BY DEF LogoutFind, Quiet
<1>3. PICK i \in rowsOf(slots[r].sess.userId) :
        Continue(r, [slots[r] EXCEPT !.row = i], "logoutDestroy")
  BY DEF LogoutFind
<1> DEFINE y == [slots[r] EXCEPT !.row = i]
<1>4. /\ i \in RowId /\ Activity[i] # None
      /\ Activity[i].USERID = slots[r].sess.userId
  BY DEF rowsOf
<1>5. i \in 1..rowCount
  BY <1>4 DEF IInv, TypeOK, RowId
<1>6. /\ y \in Slot /\ y.req = slots[r].req /\ y.sid = slots[r].sid
      /\ y.sess = slots[r].sess /\ y.row = i
  BY <1>1, <1>4, Waiting DEF Slot
<1> HIDE DEF y
<1> DEFINE x == [y EXCEPT !.pc = "logoutDestroy"]
<1>7. slots'[r] = x
  BY <1>3 DEF Continue, IInv, TypeOK, y
<1>8. /\ x.pc = "logoutDestroy" /\ x.req = slots[r].req /\ x.sid = slots[r].sid
      /\ x.sess = slots[r].sess /\ x.row = i
  BY <1>6 DEF Slot
<1> HIDE DEF x
<1>9. SlotInv(slots[r])'
  BY <1>1, <1>4, <1>5, <1>7, <1>8, Waiting
  DEF SlotInv, FlagEarned, Serving, Quiet, history, tables
<1>10. "logoutDestroy" \in Pc /\ Continue(r, y, "logoutDestroy")
  BY <1>3 DEF Pc, Awaiting, y
<1> QED BY <1>1, <1>6, <1>9, <1>10, Waiting, ContinueInv

-----------------------------------------------------------------------------
(* The steps of a login, and those that insert a row.                      *)

\* What a step adds to the sets that only grow is of their type.
GrownOK ==
  /\ proven' \subseteq Members /\ staffSids' \subseteq Sids
  /\ allowedID' \subseteq Members /\ UNCHANGED usedSids

\* The tables are in order after the step.
RowsOK ==
  /\ RowsKept
  /\ Activity' \in [RowId -> Row \cup {None}]
  /\ rowCount' \in 0..MaxRows
  /\ recordedIn' \in [RowId -> Sids \cup {None}]
  /\ (\A i \in RowId : i > rowCount => Activity[i] = None)'
  /\ RecordsAccountable'

LEMMA SaveStep ==
  ASSUME IInv, Grows, GrownOK, RowsOK, NEW r \in Slots, slots[r].pc # "idle",
         NEW x \in Slot, slots' = [slots EXCEPT ![r] = x], SlotInv(slots[r])',
         NEW sess \in Session, sess.isWorker => slots[r].sid \in staffSids',
         store' \in {store, [store EXCEPT ![slots[r].sid] = sess]}
  PROVE  IInv'
<1>1. slots[r] \in Slot /\ slots[r].sid \in Sids
  BY DEF IInv, TypeOK, SlotInv
<1>2. slots' \in [Slots -> Slot] /\ slots'[r] = x /\ \A q \in Slots \ {r} : slots'[q] = slots[q]
  BY DEF IInv, TypeOK
<1>3. /\ store' \in [Sids -> Session \cup {None}]
      /\ \A s \in Sids : store'[s] # store[s] => s = slots[r].sid /\ store'[s] = sess
  BY <1>1 DEF IInv, TypeOK
<1>4. TypeOK'
  BY <1>2, <1>3 DEF IInv, TypeOK, Grows, GrownOK, RowsOK
<1>5. \A s \in Sids : store'[s] # store[s] => (store[s] # None => FlagEarned(s, store[s]))'
  BY <1>3 DEF FlagEarned
<1> QED BY <1>2, <1>4, <1>5, StepInv DEF RowsOK

LEMMA TablesSame ==
  ASSUME IInv, UNCHANGED tables, staffSids \subseteq staffSids'
  PROVE  RowsOK
<1>1. RowsKept
  BY DEF RowsKept, tables, IInv, TypeOK
<1>2. RecordsAccountable'
  BY DEF IInv, RecordsAccountable, tables
<1> QED BY <1>1, <1>2 DEF RowsOK, IInv, TypeOK, tables

LEMMA InsertOK ==
  ASSUME IInv, NEW row \in Row, NEW sid \in Sids, insert(row, sid),
         staffSids' = staffSids,
         row.PERFORMER \notin {None, row.USERID} => sid \in staffSids
  PROVE  RowsOK
<1>1. rowCount + 1 \in RowId /\ rowCount' = rowCount + 1 /\ rowCount' \in 0..MaxRows
  BY BoundsAssumption DEF insert, IInv, TypeOK, RowId
<1>2. /\ Activity' \in [RowId -> Row \cup {None}]
      /\ recordedIn' \in [RowId -> Sids \cup {None}]
      /\ Activity'[rowCount + 1] = row /\ recordedIn'[rowCount + 1] = sid
      /\ \A i \in RowId : i # rowCount + 1 =>
            Activity'[i] = Activity[i] /\ recordedIn'[i] = recordedIn[i]
  BY <1>1 DEF insert, IInv, TypeOK
<1>3. rowCount \in Nat /\ \A i \in 1..rowCount : i \in RowId /\ i # rowCount + 1
  BY BoundsAssumption DEF IInv, TypeOK, RowId
<1>4. RowsKept
  BY <1>1, <1>2, <1>3 DEF RowsKept
<1>5. \A i \in RowId : i > rowCount' => Activity'[i] = None
  BY <1>1, <1>2, <1>3 DEF IInv, RowId
<1>6. RecordsAccountable'
  BY <1>2 DEF IInv, RecordsAccountable
<1> QED BY <1>1, <1>2, <1>4, <1>5, <1>6 DEF RowsOK

LEMMA LoginUserInv ==
  ASSUME IInv, NEW r \in Slots, LoginUser(r)
  PROVE  IInv'
<1>1. slots[r].pc = "loginUser" /\ Quiet
  BY DEF LoginUser, Quiet
<1>2. PICK u \in Members :
        Continue(r, WithSession(slots[r], [slots[r].sess EXCEPT !.userId = u]), "loginAgent")
  BY DEF LoginUser
<1> DEFINE sess == [slots[r].sess EXCEPT !.userId = u]
<1> DEFINE y == WithSession(slots[r], sess)
<1>3. sess \in Session /\ sess.userId = u /\ sess.isWorker = slots[r].sess.isWorker
  BY <1>1, Waiting DEF Session, UserId
<1> HIDE DEF sess
<1>4. y \in Slot /\ y.sess = sess /\ y.req = slots[r].req /\ y.sid = slots[r].sid
  BY <1>1, <1>3, Waiting, WithSessionSlot
<1>5. FlagEarned(y.sid, y.sess)
  BY <1>1, <1>3, <1>4, Waiting DEF FlagEarned
<1>6. Continue(r, y, "loginAgent") /\ "loginAgent" \in Pc
  BY <1>2 DEF sess, Pc, Awaiting
<1> HIDE DEF y
<1> DEFINE x == [y EXCEPT !.pc = "loginAgent"]
<1>7. slots'[r] = x
  BY <1>6 DEF Continue, IInv, TypeOK
<1>8. x.pc = "loginAgent" /\ x.req = slots[r].req /\ x.sid = slots[r].sid /\ x.sess = sess
  BY <1>4 DEF Slot
<1> HIDE DEF x
<1>9. SlotInv(slots[r])'
  BY <1>1, <1>3, <1>4, <1>5, <1>7, <1>8, Waiting
  DEF SlotInv, FlagEarned, Serving, Quiet, history
<1> QED BY <1>1, <1>4, <1>5, <1>6, <1>9, ContinueInv

\* The slot of a login after the branch of a role.
LEMMA LoggedInSlot ==
  ASSUME IInv, NEW r \in Slots, slots[r].pc = "loginAgent", NEW role \in Role
  PROVE  LET x == LoggedInAs(r, role) IN
         /\ x \in Slot /\ x.req = slots[r].req /\ x.sid = slots[r].sid
         /\ x.sess \in Session /\ x.sess.userId = slots[r].sess.userId
         /\ x.sess.isWorker <=> role \in {"worker", "admin"}
<1> DEFINE flag == role \in {"worker", "admin"}
<1>0. flag \in BOOLEAN
  OBVIOUS
<1> HIDE DEF flag
<1> DEFINE sess == [slots[r].sess EXCEPT !.isWorker = flag]
<1>1. sess \in Session /\ sess.userId = slots[r].sess.userId /\ sess.isWorker = flag
  BY <1>0, Waiting DEF Session
<1>2. LoggedInAs(r, role) = WithSession(slots[r], sess)
  BY DEF LoggedInAs, flag
<1> HIDE DEF sess
<1>3. LET x == LoggedInAs(r, role) IN
      /\ x \in Slot /\ x.req = slots[r].req /\ x.sid = slots[r].sid /\ x.sess = sess
  BY <1>1, <1>2, Waiting, WithSessionSlot
<1>4. LoggedInAs(r, role).sess.isWorker <=> role \in {"worker", "admin"}
  BY <1>1, <1>3, Zenon DEF flag
<1> QED BY <1>1, <1>3, <1>4

\* A token that matches: the member has proven who he is, and the session is a
\* staff one if the flag will be set.
LEMMA TokenGrows ==
  ASSUME IInv, NEW r \in Slots, NEW role \in Role, TokenMatches(r, role)
  PROVE  /\ slots[r].pc = "loginAgent"
         /\ slots[r].sess.userId \in Members /\ slots[r].sess.userId \in proven'
         /\ role \in {"worker", "admin"} => slots[r].sid \in staffSids'
         /\ proven \subseteq proven' /\ proven' \subseteq Members
         /\ staffSids \subseteq staffSids' /\ staffSids' \subseteq Sids
<1>1. slots[r].pc = "loginAgent"
  BY DEF TokenMatches
<1>2. slots[r].sess.userId \in Members
  BY <1>1, Waiting DEF SlotInv
<1> QED BY <1>1, <1>2, Waiting DEF TokenMatches, IInv, TypeOK, Role

\* The end of a login: the id that is listed from now on is a proven one.
LEMMA AgentMadeInv ==
  ASSUME IInv, RowsOK, NEW r \in Slots, slots[r].pc # "idle",
         NEW y \in Slot, y.sid = slots[r].sid, AgentMade(r, y),
         y.sess.userId \in Members, y.sess.userId \in proven',
         y.sess.isWorker => y.sid \in staffSids',
         usedSids' = usedSids,
         proven \subseteq proven', proven' \subseteq Members,
         staffSids \subseteq staffSids', staffSids' \subseteq Sids
  PROVE  IInv'
<1>1. allowedID' = allowedID \cup {y.sess.userId} /\ Answer(r, y)
  BY DEF AgentMade
<1>2. GrownOK
  BY <1>1 DEF GrownOK, IInv, TypeOK
<1>3. Grows
  BY <1>1 DEF Grows, IInv
<1>4. y.sess \in Session
  BY DEF Slot
<1>5. slots' = [slots EXCEPT ![r] = Idle] /\ slots'[r] = Idle
  BY <1>1 DEF Answer, IInv, TypeOK
<1>6. SlotInv(slots[r])'
  BY <1>5, IdleInv
<1>7. store' \in {store, [store EXCEPT ![slots[r].sid] = y.sess]}
  BY <1>1 DEF Answer
<1> QED BY <1>2, <1>3, <1>4, <1>5, <1>6, <1>7, IdleOK, SaveStep

LEMMA LoginKnownAgentInv ==
  ASSUME IInv, NEW r \in Slots, LoginKnownAgent(r)
  PROVE  IInv'
<1>1. PICK role \in Tokens :
        /\ TokenMatches(r, role)
        /\ AgentMade(r, LoggedInAs(r, role))
        /\ UNCHANGED <<usedSids, tables>>
  BY DEF LoginKnownAgent
<1>2. role \in Role
  BY BoundsAssumption
<1> DEFINE y == LoggedInAs(r, role)
<1>3. /\ slots[r].pc = "loginAgent" /\ usedSids' = usedSids
      /\ slots[r].sess.userId \in Members /\ slots[r].sess.userId \in proven'
      /\ role \in {"worker", "admin"} => slots[r].sid \in staffSids'
      /\ proven \subseteq proven' /\ proven' \subseteq Members
      /\ staffSids \subseteq staffSids' /\ staffSids' \subseteq Sids
  BY <1>1, <1>2, TokenGrows
<1>4. /\ y \in Slot /\ y.sid = slots[r].sid
      /\ y.sess.userId = slots[r].sess.userId
      /\ y.sess.isWorker <=> role \in {"worker", "admin"}
  BY <1>2, <1>3, LoggedInSlot
<1>5. RowsOK
  BY <1>1, <1>3, TablesSame
<1>6. AgentMade(r, y) /\ slots[r].pc # "idle"
  BY <1>1, <1>3
<1> HIDE DEF y
<1> QED BY <1>2, <1>3, <1>4, <1>5, <1>6, AgentMadeInv

LEMMA LoginNewAgentInv ==
  ASSUME IInv, NEW r \in Slots, LoginNewAgent(r)
  PROVE  IInv'
<1>1. PICK role \in Tokens :
        /\ TokenMatches(r, role)
        /\ Continue(r, LoggedInAs(r, role), "loginCreate")
        /\ UNCHANGED <<usedSids, allowedID, tables>>
  BY DEF LoginNewAgent
<1>2. role \in Role
  BY BoundsAssumption
<1> DEFINE y == LoggedInAs(r, role)
<1> DEFINE x == [y EXCEPT !.pc = "loginCreate"]
<1>3. /\ slots[r].pc = "loginAgent"
      /\ slots[r].sess.userId \in Members /\ slots[r].sess.userId \in proven'
      /\ role \in {"worker", "admin"} => slots[r].sid \in staffSids'
      /\ proven \subseteq proven' /\ proven' \subseteq Members
      /\ staffSids \subseteq staffSids' /\ staffSids' \subseteq Sids
  BY <1>1, <1>2, TokenGrows
<1>4. /\ y \in Slot /\ y.req = slots[r].req /\ y.sid = slots[r].sid
      /\ y.sess \in Session /\ y.sess.userId = slots[r].sess.userId
      /\ y.sess.isWorker <=> role \in {"worker", "admin"}
  BY <1>2, <1>3, LoggedInSlot
<1>5. slots' = [slots EXCEPT ![r] = x] /\ store' = store
  BY <1>1 DEF Continue
<1> HIDE DEF y
<1>6. /\ x \in Slot /\ x.pc = "loginCreate" /\ x.req = slots[r].req /\ x.sid = slots[r].sid
      /\ x.sess = y.sess
  BY <1>4 DEF Slot, Pc, Awaiting
<1> HIDE DEF x
<1>7. slots'[r] = x
  BY <1>5 DEF IInv, TypeOK
<1>8. Grows /\ GrownOK
  BY <1>1, <1>3 DEF Grows, GrownOK, IInv, TypeOK
<1>9. RowsOK
  BY <1>1, <1>3, TablesSame
<1>10. y.sess.isWorker => slots[r].sid \in staffSids'
  BY <1>3, <1>4
<1>11. SlotInv(slots[r])'
  BY <1>3, <1>4, <1>6, <1>7, <1>10, Waiting DEF SlotInv, FlagEarned, Serving
<1> QED BY <1>3, <1>4, <1>5, <1>6, <1>8, <1>9, <1>10, <1>11, SaveStep

LEMMA LoginCreateInv ==
  ASSUME IInv, NEW r \in Slots, LoginCreate(r)
  PROVE  IInv'
<1> DEFINE slot == slots[r]
<1> DEFINE row == [USERID |-> slot.sess.userId, PERFORMER |-> None]
<1>1. /\ slot.pc = "loginCreate" /\ insert(row, slot.sid) /\ AgentMade(r, slot)
      /\ UNCHANGED <<usedSids, proven, staffSids>>
  BY DEF LoginCreate, history
<1>2. /\ slot \in Slot /\ slot.sid \in Sids /\ SlotInv(slot) /\ FlagEarned(slot.sid, slot.sess)
  BY <1>1, Waiting
<1>3. /\ slot.sess.userId \in Members /\ slot.sess.userId \in proven
      /\ slot.sess.isWorker => slot.sid \in staffSids
  BY <1>1, <1>2 DEF SlotInv, FlagEarned
<1>4. row \in Row /\ row.PERFORMER = None
  BY <1>3 DEF Row
<1> HIDE DEF row
<1>5. RowsOK
  BY <1>1, <1>2, <1>4, InsertOK
<1>6. proven' \subseteq Members /\ staffSids' \subseteq Sids
  BY <1>1 DEF IInv, TypeOK
<1> QED BY <1>1, <1>2, <1>3, <1>5, <1>6, AgentMadeInv

LEMMA ActivityCreateInv ==
  ASSUME IInv, NEW r \in Slots, ActivityCreate(r)
  PROVE  IInv'
<1> DEFINE slot == slots[r]
<1> DEFINE row == [USERID |-> slot.req.target, PERFORMER |-> slot.sess.userId]
<1>1. /\ slot.pc = "activityCreate" /\ insert(row, slot.sid) /\ Answer(r, slot)
      /\ UNCHANGED <<usedSids, allowedID, proven, staffSids>>
  BY DEF ActivityCreate, history
<1>2. /\ slot \in Slot /\ slot.sid \in Sids /\ SlotInv(slot) /\ FlagEarned(slot.sid, slot.sess)
      /\ slot.sess \in Session
  BY <1>1, Waiting
<1>3. /\ slot.req.target \in Members /\ slot.sess.userId \in Members
      /\ slot.sess.userId # slot.req.target => slot.sid \in staffSids
  BY <1>1, <1>2 DEF SlotInv, FlagEarned, mayRecord
<1>4. row \in Row /\ row.PERFORMER = slot.sess.userId /\ row.USERID = slot.req.target
  BY <1>3 DEF Row
<1> HIDE DEF row
<1>5. RowsOK
  BY <1>1, <1>2, <1>3, <1>4, InsertOK
<1>6. Grows /\ GrownOK
  BY <1>1 DEF Grows, GrownOK, IInv, TypeOK
<1>7. slots' = [slots EXCEPT ![r] = Idle] /\ slots'[r] = Idle
  BY <1>1 DEF Answer, IInv, TypeOK
<1>8. SlotInv(slots[r])'
  BY <1>7, IdleInv
<1>9. store' \in {store, [store EXCEPT ![slots[r].sid] = slot.sess]}
  BY <1>1 DEF Answer
<1>10. (slot.sess.isWorker => slots[r].sid \in staffSids') /\ slots[r].pc # "idle"
  BY <1>1, <1>2 DEF FlagEarned
<1> QED BY <1>2, <1>5, <1>6, <1>7, <1>8, <1>9, <1>10, IdleOK, SaveStep

-----------------------------------------------------------------------------
(* The end of a logout, arrivals, expiry and restarts.                     *)

\* A row is deleted and a session ends.
LEMMA LogoutDestroyInv ==
  ASSUME IInv, NEW r \in Slots, LogoutDestroy(r)
  PROVE  IInv'
<1> DEFINE sid == slots[r].sid
<1> DEFINE row == slots[r].row
<1>1. /\ slots[r].pc = "logoutDestroy"
      /\ Activity' = [Activity EXCEPT ![row] = None]
      /\ store' = [store EXCEPT ![sid] = None]
      /\ slots' = [slots EXCEPT ![r] = Idle]
      /\ UNCHANGED <<usedSids, allowedID, rowCount, recordedIn, proven, staffSids>>
  BY DEF LogoutDestroy, destroyed, history
<1>2. sid \in Sids
  BY <1>1, Waiting
<1>3. /\ store' \in [Sids -> Session \cup {None}]
      /\ \A s \in Sids : store'[s] # store[s] => store'[s] = None
  BY <1>1, <1>2 DEF IInv, TypeOK
<1>4. /\ Activity' \in [RowId -> Row \cup {None}]
      /\ \A i \in RowId : Activity'[i] \in {Activity[i], None}
  BY <1>1 DEF IInv, TypeOK
<1>5. /\ slots' \in [Slots -> Slot] /\ slots'[r] = Idle
      /\ \A q \in Slots \ {r} : slots'[q] = slots[q]
  BY <1>1, IdleOK DEF IInv, TypeOK
<1>6. TypeOK'
  BY <1>1, <1>2, <1>3, <1>4, <1>5 DEF IInv, TypeOK
<1>7. Grows
  BY <1>1 DEF Grows, IInv
<1>8. RowsKept
  <2>1. rowCount \in 0..MaxRows
    BY DEF IInv, TypeOK
  <2>2. rowCount \in Nat /\ \A i \in 1..rowCount : i \in RowId
    BY <2>1, BoundsAssumption DEF RowId
  <2> QED BY <1>1, <1>4, <2>2 DEF RowsKept
<1>9. SlotInv(slots[r])'
  BY <1>5, IdleInv
<1>10. \A i \in RowId : i > rowCount' => Activity'[i] = None
  BY <1>1, <1>4 DEF IInv
<1>11. RecordsAccountable'
  BY <1>1, <1>4 DEF IInv, RecordsAccountable
<1> QED BY <1>3, <1>5, <1>6, <1>7, <1>8, <1>9, <1>10, <1>11, StepInv

\* A request gets a copy of a stored session, or a new session under an id that
\* was never used, and any agent.
LEMMA ArriveInv ==
  ASSUME IInv, NEW r \in Slots, Arrive(r)
  PROVE  IInv'
<1>1. PICK e \in Endpoints, bare \in BOOLEAN, a \in Agents \cup {None},
           t \in Members \cup {None}, s \in Sids :
        /\ bare => a = None
        /\ t # None <=> e.method = "POST" /\ e.path \in {"/create-activity", "/update-user"}
        /\ s \in usedSids => store[s] # None
        /\ usedSids' = usedSids \cup {s}
        /\ slots' = [slots EXCEPT ![r] =
             [Idle EXCEPT
                !.pc = "arrived",
                !.req = [method |-> e.method, path |-> e.path, bare |-> bare,
                         agent |-> a, target |-> t],
                !.sid = s,
                !.sess = IF s \in usedSids THEN store[s] ELSE NewSession,
                !.dirty = s \notin usedSids]]
  BY DEF Arrive
<1>2. UNCHANGED <<store, allowedID, Activity, rowCount, recordedIn, proven, staffSids>>
  BY DEF Arrive, tables, history
<1> DEFINE req == [method |-> e.method, path |-> e.path, bare |-> bare, agent |-> a, target |-> t]
<1> DEFINE sess == IF s \in usedSids THEN store[s] ELSE NewSession
<1> DEFINE dirty == s \notin usedSids
<1>3. e \in Endpoint /\ a \in Agent \cup {None}
  BY BoundsAssumption
<1>4. e.method \in {"GET", "POST"} /\ e.path \in Paths
  BY <1>3 DEF Endpoint, Paths, PublicPaths, MemberPaths
<1>5. req \in Request
  BY <1>3, <1>4 DEF Request
<1>6. sess \in Session /\ FlagEarned(s, sess)
  BY <1>1 DEF IInv, TypeOK, NewSession, Session, FlagEarned
<1>7. e.path = "/create-activity" => t \in Members
  BY <1>1, <1>3 DEF Endpoint
<1>8. req.agent = a /\ req.bare = bare /\ req.path = e.path /\ req.target = t
  OBVIOUS
<1>9. dirty \in BOOLEAN
  OBVIOUS
<1> HIDE DEF req, sess, dirty
<1> DEFINE x == [Idle EXCEPT !.pc = "arrived", !.req = req, !.sid = s, !.sess = sess,
                             !.dirty = dirty]
<1>10. x \in Slot /\ x.pc = "arrived" /\ x.req = req /\ x.sid = s /\ x.sess = sess
  BY <1>5, <1>6, <1>9, IdleOK DEF Slot, Pc, Idle
<1>11. slots' = [slots EXCEPT ![r] = x]
  BY <1>1 DEF req, sess, dirty
<1> HIDE DEF x
<1>12. /\ slots' \in [Slots -> Slot] /\ slots'[r] = x
       /\ \A q \in Slots \ {r} : slots'[q] = slots[q]
  BY <1>10, <1>11 DEF IInv, TypeOK
<1>13. TypeOK'
  BY <1>1, <1>2, <1>12 DEF IInv, TypeOK
<1>14. Grows /\ RowsKept
  BY <1>2 DEF Grows, RowsKept, IInv, TypeOK
<1>15. FlagEarned(slots[r].sid, slots[r].sess)'
  BY <1>2, <1>6, <1>10, <1>12 DEF FlagEarned
<1>16. SlotInv(slots[r])'
  BY <1>1, <1>7, <1>8, <1>10, <1>12, <1>15 DEF SlotInv, Serving
<1>17. RecordsAccountable' /\ (\A i \in RowId : i > rowCount => Activity[i] = None)'
  BY <1>2 DEF IInv, RecordsAccountable
<1> QED BY <1>2, <1>12, <1>13, <1>14, <1>16, <1>17, StepInv

LEMMA ExpireInv ==
  ASSUME IInv, NEW s \in Sids, Expire(s)
  PROVE  IInv'
<1>1. /\ store' = [store EXCEPT ![s] = None]
      /\ UNCHANGED <<usedSids, allowedID, Activity, rowCount, recordedIn, slots,
                     proven, staffSids>>
  BY DEF Expire, destroyed, tables, history
<1>2. /\ store' \in [Sids -> Session \cup {None}]
      /\ \A i \in Sids : store'[i] \in {store[i], None}
  BY <1>1 DEF IInv, TypeOK
<1>3. TypeOK'
  BY <1>1, <1>2 DEF IInv, TypeOK
<1>4. \A i \in Sids : store'[i] # None => FlagEarned(i, store[i])'
  BY <1>1, <1>2 DEF IInv, FlagEarned
<1>5. \A r \in Slots : SlotInv(slots[r])'
  BY <1>1 DEF IInv, SlotInv, FlagEarned, Passed
<1>6. RecordsAccountable' /\ (\A i \in RowId : i > rowCount => Activity[i] = None)'
  BY <1>1 DEF IInv, RecordsAccountable
<1> QED BY <1>1, <1>3, <1>4, <1>5, <1>6 DEF IInv

LEMMA RestartInv ==
  ASSUME IInv, Restart
  PROVE  IInv'
<1>1. /\ store' = [s \in Sids |-> None] /\ allowedID' = {} /\ proven' = {}
      /\ slots' = [r \in Slots |-> Idle]
      /\ UNCHANGED <<usedSids, Activity, rowCount, recordedIn, staffSids>>
  BY DEF Restart, tables
<1>2. TypeOK'
  BY <1>1, IdleOK DEF IInv, TypeOK
<1>3. \A r \in Slots : SlotInv(slots[r])'
  BY <1>1, IdleInv
<1>4. RecordsAccountable' /\ (\A i \in RowId : i > rowCount => Activity[i] = None)'
  BY <1>1 DEF IInv, RecordsAccountable
<1>5. \A s \in Sids : store'[s] = None
  BY <1>1
<1> QED BY <1>1, <1>2, <1>3, <1>4, <1>5 DEF IInv

-----------------------------------------------------------------------------
(* The theorems.                                                           *)

LEMMA InitInv == Init => IInv
<1> SUFFICES ASSUME Init PROVE IInv
  OBVIOUS
<1>1. TypeOK
  BY IdleOK, BoundsAssumption DEF Init, TypeOK
<1>2. \A r \in Slots : SlotInv(slots[r])
  BY DEF Init, SlotInv, FlagEarned, Idle, NoRequest, Serving, NewSession
<1>3. RecordsAccountable
  BY DEF Init, RecordsAccountable
<1> QED BY <1>1, <1>2, <1>3 DEF Init, IInv

\* The steps that only answer.
LEMMA AnsweringSteps ==
  ASSUME IInv, NEW r \in Slots,
         Finish(r) \/ DbError(r) \/ LoginUnknown(r) \/ LoginRefused(r) \/ LogoutNoRow(r)
  PROVE  IInv'
<1> USE DEF Quiet
<1>1. CASE Finish(r)
  BY <1>1, WaitingAnswer DEF Finish
<1>2. CASE DbError(r)
  <2>1. slots[r].pc \notin {"idle", "arrived"}
    BY <1>2 DEF DbError, Awaiting, Serving
  <2> QED BY <1>2, <2>1, WaitingAnswer DEF DbError
<1>3. CASE LoginUnknown(r)
  BY <1>3, WaitingAnswer DEF LoginUnknown
<1>4. CASE LoginRefused(r)
  BY <1>4, WaitingAnswer DEF LoginRefused
<1>5. CASE LogoutNoRow(r)
  BY <1>5, WaitingAnswer DEF LogoutNoRow
<1> QED BY <1>1, <1>2, <1>3, <1>4, <1>5

LEMMA RequestSteps ==
  ASSUME IInv, NEW r \in Slots, Step(r)
  PROVE  IInv'
BY ArrivedSteps, AnsweringSteps, MemberFindUserInv, ActivityUserInv, LogoutFindInv,
   LoginUserInv, LoginKnownAgentInv, LoginNewAgentInv, LoginCreateInv, ActivityCreateInv,
   LogoutDestroyInv DEF Step

LEMMA NextInv == IInv /\ [Next]_vars => IInv'
<1> SUFFICES ASSUME IInv, [Next]_vars PROVE IInv'
  OBVIOUS
<1>1. ASSUME NEW r \in Slots, Arrive(r) PROVE IInv'
  BY <1>1, ArriveInv
<1>2. ASSUME NEW r \in Slots, Step(r) PROVE IInv'
  BY <1>2, RequestSteps
<1>3. ASSUME NEW s \in Sids, Expire(s) PROVE IInv'
  BY <1>3, ExpireInv
<1>4. CASE Restart
  BY <1>4, RestartInv
<1>5. CASE UNCHANGED vars
  BY <1>5 DEF vars, IInv, TypeOK, FlagEarned, SlotInv, Passed, RecordsAccountable
<1> QED BY <1>1, <1>2, <1>3, <1>4, <1>5 DEF Next

\* The inductive invariant holds in every state, however many requests, sessions
\* and members there are.
THEOREM Invariance == Spec => []IInv
BY InitInv, NextInv, PTL DEF Spec

\* Every variable keeps its type; in particular only ids of members get into
\* allowedID (login.js:125), whatever ids agents bring into the sessions.
THEOREM TypeCorrect == Spec => []TypeOK
<1>1. IInv => TypeOK
  BY DEF IInv
<1> QED BY <1>1, Invariance, PTL

\* The gate of app.js:98-100: whatever agents clients send, a protected handler
\* runs only with one that claims a role of the handler's chain for a member who
\* has given name, number and token since the process was started.
THEOREM GateIsSound == Spec => []GateSound
<1>1. IInv => GateSound
  <2> SUFFICES ASSUME IInv, NEW r \in Slots, slots[r].pc \in Serving
               PROVE  LET a == slots[r].req.agent IN
                      /\ a # None
                      /\ a.isAuthenticated
                      /\ a.role \in GateChain[ChainOf(slots[r].req.path)]
                      /\ a.userId \in proven
    BY DEF GateSound
  <2>1. Passed(slots[r].req) /\ allowedID \subseteq proven
    BY DEF IInv, SlotInv
  <2> QED BY <2>1 DEF Passed
<1> QED BY <1>1, Invariance, PTL

\* The worker flag is set only where a staff token was given, in whatever order
\* overlapping requests write their copies of a session back.
THEOREM StaffFlagIsEarned == Spec => []StaffFlag
<1>1. IInv => StaffFlag
  <2> SUFFICES ASSUME IInv PROVE StaffFlag
    OBVIOUS
  <2>1. \A s \in Sids : store[s] # None /\ store[s].isWorker => s \in staffSids
    BY DEF IInv, FlagEarned
  <2>2. ASSUME NEW r \in Slots, slots[r].sess.isWorker PROVE slots[r].sid \in staffSids
    BY <2>2 DEF IInv, SlotInv, FlagEarned
  <2> QED BY <2>1, <2>2 DEF StaffFlag
<1> QED BY <1>1, Invariance, PTL

\* What the Activity table says one member recorded for another was recorded in a
\* session that had been given a staff token.
THEOREM RecordsAreAccountable == Spec => []RecordsAccountable
<1>1. IInv => RecordsAccountable
  BY DEF IInv
<1> QED BY <1>1, Invariance, PTL

\* Nothing but the end of a logout deletes a row.
LEMMA DeletingStep ==
  ASSUME IInv, Next, NEW i \in RowId, Activity[i] # None, Activity'[i] = None
  PROVE  \E r \in Slots : slots[r].pc = "logoutDestroy" /\ slots[r].row = i
<1>1. ~ UNCHANGED tables
  BY DEF tables
<1>2. ASSUME NEW row \in Row, NEW sid, insert(row, sid) PROVE FALSE
  <2>1. Activity'[i] = row \/ Activity'[i] = Activity[i]
    BY <1>2 DEF insert, IInv, TypeOK
  <2> QED BY <2>1, NoneIsNoRecord
<1>3. PICK r \in Slots : Step(r)
  BY <1>1 DEF Next, Arrive, Expire, Restart
<1>4. ~ActivityCreate(r)
  <2> SUFFICES ASSUME ActivityCreate(r) PROVE FALSE
    OBVIOUS
  <2>1. slots[r].pc = "activityCreate"
    BY DEF ActivityCreate
  <2>2. slots[r].req.target \in Members /\ slots[r].sess.userId \in Members
    BY <2>1, Waiting DEF SlotInv
  <2>3. [USERID |-> slots[r].req.target, PERFORMER |-> slots[r].sess.userId] \in Row
    BY <2>2 DEF Row
  <2> QED BY <1>2, <2>3 DEF ActivityCreate
<1>5. ~LoginCreate(r)
  <2> SUFFICES ASSUME LoginCreate(r) PROVE FALSE
    OBVIOUS
  <2>1. slots[r].pc = "loginCreate"
    BY DEF LoginCreate
  <2>2. slots[r].sess.userId \in Members
    BY <2>1, Waiting DEF SlotInv
  <2>3. [USERID |-> slots[r].sess.userId, PERFORMER |-> None] \in Row
    BY <2>2 DEF Row
  <2> QED BY <1>2, <2>3 DEF LoginCreate
<1>6. LogoutDestroy(r)
  <2>1. ~(TrackRedirect(r) \/ GateRedirect(r) \/ GateLookup(r) \/ OpenPage(r) \/ WorkerPage(r)
          \/ AdminPage(r) \/ UpdateUser(r) \/ Finish(r) \/ DbError(r) \/ MemberStart(r) \/ MemberFindUser(r) \/ ActivityStart(r)
          \/ ActivityUser(r))
    BY <1>1 DEF TrackRedirect, GateRedirect, GateLookup, OpenPage, WorkerPage, AdminPage,
                UpdateUser, Finish, DbError, MemberStart, MemberFindUser, ActivityStart, ActivityUser
  <2>2. ~(LoginStart(r) \/ LoginUnknown(r) \/ LoginUser(r) \/ LoginRefused(r)
          \/ LoginKnownAgent(r) \/ LoginNewAgent(r)
          \/ LogoutStart(r) \/ LogoutFind(r) \/ LogoutNoRow(r))
    BY <1>1 DEF LoginStart, LoginUnknown, LoginUser, LoginRefused, LoginKnownAgent,
                LoginNewAgent, LogoutStart, LogoutFind, LogoutNoRow
  <2> QED BY <1>3, <1>4, <1>5, <2>1, <2>2 DEF Step
<1>7. slots[r].pc = "logoutDestroy" /\ Activity' = [Activity EXCEPT ![slots[r].row] = None]
  BY <1>6 DEF LogoutDestroy
<1>8. slots[r].row = i
  BY <1>7 DEF IInv, TypeOK
<1> QED BY <1>7, <1>8

\* A row of the Activity table is deleted only by the logout of the user whose
\* row it is, although the row is found in one step and deleted in a later one.
THEOREM OnlyOwnRowsDeleted == Spec => DeletesOnlyOwnRow
<1> DEFINE Own == \A i \in RowId : Activity[i] # None /\ Activity'[i] = None =>
                    \E r \in Slots : /\ slots[r].pc = "logoutDestroy"
                                     /\ slots[r].sess.userId = Activity[i].USERID
<1>1. IInv /\ [Next]_vars => [Own]_vars
  <2> SUFFICES ASSUME IInv, Next, NEW i \in RowId, Activity[i] # None, Activity'[i] = None
               PROVE  \E r \in Slots : /\ slots[r].pc = "logoutDestroy"
                                       /\ slots[r].sess.userId = Activity[i].USERID
    OBVIOUS
  <2>1. PICK r \in Slots : slots[r].pc = "logoutDestroy" /\ slots[r].row = i
    BY DeletingStep
  <2>2. slots[r].sess.userId = Activity[i].USERID
    BY <2>1, Waiting DEF SlotInv
  <2> QED BY <2>1, <2>2
<1> QED BY <1>1, Invariance, PTL DEF Spec, DeletesOnlyOwnRow
=============================================================================
