------------------------------ MODULE ChurchApp ------------------------------
(***************************************************************************)
(* The request life cycle of the application: the session that             *)
(* express-session loads and saves around every request, the agent gate,   *)
(* login, logout, the member page and the recording of activities          *)
(* (app.js, security/agent-service.js, routes/login.js,                    *)
(* routes/memberIndex.js, model/Activity.js).                              *)
(*                                                                         *)
(* Node runs one handler at a time, up to its next await.  A slot is a     *)
(* request in flight, its pc names the operation it awaits, and one action *)
(* is the awaited operation together with the code that runs on its        *)
(* result.  Each request works on a copy of its session, taken when it     *)
(* arrives and written back when it is answered.                           *)
(***************************************************************************)
EXTENDS AgentGate

CONSTANTS
  Slots,     \* requests that can be in flight together
  Sids,      \* session ids that can be generated: bounds the sessions of a run
  MaxRows,   \* bounds the rows a run can insert into the Activity table
  Endpoints, \* the [method, path] pairs clients use in a run
  Agents,    \* the agents clients send in a run: any, since nothing signs one
  Tokens,    \* the roles clients have the token of in a run
  DbFails    \* whether a database operation may be rejected

Endpoint ==
  [method : {"GET"}, path : Paths \ {"/create-activity"}]
    \cup [method : {"POST"}, path : {"/login", "/register", "/create-activity", "/update-user"}]

ASSUME BoundsAssumption ==
  /\ MaxRows \in Nat
  /\ Endpoints \subseteq Endpoint
  /\ Agents \subseteq Agent
  /\ Tokens \subseteq Role
  /\ DbFails \in BOOLEAN
  /\ None \notin Sids

\* The fields of req.session that some mounted code reads.
Session == [userId : UserId \cup {None}, isWorker : BOOLEAN]
NewSession == [userId |-> None, isWorker |-> FALSE]

\* A row of the Activity table; login.js inserts rows that have only a USERID.
Row == [USERID : Members, PERFORMER : Members \cup {None}]
RowId == 1..MaxRows

ASSUME NoneIsNoRecord == None \notin Session /\ None \notin Row /\ None \notin RowId

Serving == {"memberUser", "activityUser", "activityCreate", "serving"}
Awaiting == {"loginUser", "loginAgent", "loginCreate", "logoutFind", "logoutDestroy"}
              \cup Serving
Pc == {"idle", "arrived", "responding"} \cup Awaiting

VARIABLES
  store,       \* the session store: the saved session of each id, None if it has none
  usedSids,    \* session ids generated so far
  allowedID,   \* secure.allowedID, in memory
  Activity,    \* the Activity table, on disk
  rowCount,    \* rows inserted so far: the next row id
  slots,       \* the requests in flight
  (* history *)
  proven,      \* members whose name, number and token a login of this process matched
  staffSids,   \* sessions in which a worker or an admin token was presented
  recordedIn   \* the session in which each row of the Activity table was inserted

vars == <<store, usedSids, allowedID, Activity, rowCount, slots,
          proven, staffSids, recordedIn>>
history == <<proven, staffSids>>
tables == <<Activity, rowCount, recordedIn>>

NoRequest == [method |-> "GET", path |-> "/", bare |-> TRUE, agent |-> None, target |-> None]
Idle == [pc |-> "idle", req |-> NoRequest, sid |-> None, sess |-> NewSession,
         dirty |-> FALSE, row |-> None]
Slot == [pc : Pc, req : Request, sid : Sids \cup {None}, sess : Session,
         dirty : BOOLEAN, row : RowId \cup {None}]

TypeOK ==
  /\ store \in [Sids -> Session \cup {None}]
  /\ usedSids \subseteq Sids
  /\ allowedID \subseteq Members
  /\ Activity \in [RowId -> Row \cup {None}]
  /\ rowCount \in 0..MaxRows
  /\ slots \in [Slots -> Slot]
  /\ proven \subseteq Members
  /\ staffSids \subseteq Sids
  /\ recordedIn \in [RowId -> Sids \cup {None}]

Init ==
  /\ store = [s \in Sids |-> None]
  /\ usedSids = {}
  /\ allowedID = {}
  /\ Activity = [i \in RowId |-> None]
  /\ rowCount = 0
  /\ recordedIn = [i \in RowId |-> None]
  /\ slots = [r \in Slots |-> Idle]
  /\ proven = {} /\ staffSids = {}

-----------------------------------------------------------------------------
(* Sessions (express-session with its memory store, external).             *)

\* Assigning to req.session: the hash that decides about saving it changes.
WithSession(slot, sess) ==
  [slot EXCEPT !.sess = sess, !.dirty = @ \/ sess # slot.sess]

\* res.end: a changed session overwrites the stored one, whatever happened to
\* that one meanwhile.  One whose user id and flag are as they were loaded is
\* written only if its flash messages changed, which the model leaves open.
Answer(r, slot) ==
  /\ slots' = [slots EXCEPT ![r] = Idle]
  /\ \/ store' = [store EXCEPT ![slot.sid] = slot.sess]
     \/ ~slot.dirty /\ UNCHANGED store

Continue(r, slot, pc) ==
  /\ slots' = [slots EXCEPT ![r] = [slot EXCEPT !.pc = pc]]
  /\ UNCHANGED store

\* res.render and the like: only the session is still looked at, when the page
\* is ready.
Render(r, slot) ==
  Continue(r, [Idle EXCEPT !.sid = slot.sid, !.sess = slot.sess, !.dirty = slot.dirty],
           "responding")

\* req.session.destroy()
destroyed(sid) == [store EXCEPT ![sid] = None]

\* A request comes in, with any agent in its URL.  Its cookie names a stored
\* session, of which it gets a copy, or it gets a new session under a new id.
Arrive(r) ==
  /\ slots[r].pc = "idle"
  /\ \E e \in Endpoints, bare \in BOOLEAN, a \in Agents \cup {None},
        t \in Members \cup {None}, s \in Sids :
       /\ bare => a = None
       /\ t # None <=> e.method = "POST" /\ e.path \in {"/create-activity", "/update-user"}
       /\ s \in usedSids => store[s] # None
       /\ usedSids' = usedSids \cup {s}
       /\ slots' = [slots EXCEPT ![r] =
            [Idle EXCEPT
               !.pc = "arrived",
               !.req = [method |-> e.method, path |-> e.path, bare |-> bare,
                        agent |-> a, target |-> t],
               !.sid = s,
               !.sess = IF s \in usedSids THEN store[s] ELSE NewSession,
               !.dirty = s \notin usedSids]]
  /\ UNCHANGED <<store, allowedID, tables, history>>

\* The cookie's maxAge passes and the store drops the session.
Expire(s) ==
  /\ store[s] # None
  /\ store' = destroyed(s)
  /\ UNCHANGED <<usedSids, allowedID, tables, slots, history>>

\* Faulty variant: the ids of before are still listed.
Restart_remembers ==
  /\ store' = [s \in Sids |-> None]
  /\ slots' = [r \in Slots |-> Idle]
  /\ proven' = {}
  /\ UNCHANGED <<usedSids, allowedID, tables, staffSids>>

\* The process ends and is started again: memory is lost, the tables and the
\* pages in the browsers are not.
Restart ==
  /\ store' = [s \in Sids |-> None]
  /\ allowedID' = {}
  /\ slots' = [r \in Slots |-> Idle]
  /\ proven' = {}
  /\ UNCHANGED <<usedSids, tables, staffSids>>

-----------------------------------------------------------------------------
(* The gate.                                                               *)

\* The slot after trackUserActivity.
Tracked(r) ==
  LET slot == slots[r]
  IN  WithSession(slot, [slot.sess EXCEPT !.userId = trackedUserId(@, slot.req)])

\* The request is past trackUserActivity and the router of its path is next.
Enters(r, method, paths) ==
  /\ slots[r].pc = "arrived"
  /\ slots[r].req.method = method
  /\ slots[r].req.path \in paths
  /\ trackPasses(slots[r].req)

ProtectedPaths == MemberPaths \cup {"/dashboard", "/admin/dashboard"}

\* ... past the three chains of app.js as well.
EntersAdmitted(r, paths) ==
  /\ slots[r].pc = "arrived"
  /\ slots[r].req.path \in paths
  /\ trackPasses(slots[r].req)
  /\ admitted(slots[r].req, Tracked(r).sess.userId, allowedID)

\* trackUserActivity sends the browser back where it came from.
TrackRedirect(r) ==
  /\ slots[r].pc = "arrived"
  /\ ~trackPasses(slots[r].req)
  /\ Answer(r, Tracked(r))
  /\ UNCHANGED <<usedSids, allowedID, tables, history>>

\* isAuthenticated or isAuthorized redirects, validateAgent having passed if
\* the request got as far.
GateRedirect(r) ==
  LET slot == Tracked(r) IN
  /\ slots[r].pc = "arrived"
  /\ slots[r].req.path \in ProtectedPaths
  /\ trackPasses(slots[r].req)
  /\ ~admitted(slot.req, slot.sess.userId, allowedID)
  /\ ~lookedUp(slot.req, slot.sess.userId, allowedID)
  /\ Answer(r, slot)
  /\ UNCHANGED <<usedSids, allowedID, tables, history>>

\* validateAgent awaits its lookup in the UserAgent table, then redirects.
GateLookup(r) ==
  LET slot == Tracked(r) IN
  /\ slots[r].pc = "arrived"
  /\ slots[r].req.path \in ProtectedPaths
  /\ trackPasses(slots[r].req)
  /\ lookedUp(slot.req, slot.sess.userId, allowedID)
  /\ Render(r, slot)
  /\ UNCHANGED <<usedSids, allowedID, tables, history>>

\* A handler that renders, or reads tables and then answers: nothing it does
\* from here on changes the state but its answer.
Finish(r) ==
  /\ slots[r].pc \in {"responding", "serving"}
  /\ Answer(r, slots[r])
  /\ UNCHANGED <<usedSids, allowedID, tables, history>>

\* A public page: res.render, which ends asynchronously.  POST /register also
\* reads and writes the User table, which is the subject of module MemberTable.
OpenPage(r) ==
  /\ Enters(r, "GET", PublicPaths) \/ Enters(r, "POST", {"/register"})
  /\ Render(r, Tracked(r))
  /\ UNCHANGED <<usedSids, allowedID, tables, history>>

\* A route of the worker router: it reads tables, or fails, and answers.  None of
\* them touches the session, and the one that would write, /upload-excel, throws
\* before it does.
WorkerPage(r) ==
  /\ EntersAdmitted(r, {"/dashboard"})
  /\ Continue(r, Tracked(r), "serving")
  /\ UNCHANGED <<usedSids, allowedID, tables, history>>

\* A route of the admin router: it reads tables and renders them.
AdminPage(r) ==
  /\ EntersAdmitted(r, {"/admin/dashboard"})
  /\ Continue(r, Tracked(r), "serving")
  /\ UNCHANGED <<usedSids, allowedID, tables, history>>

\* /update-user: the form, or its effect on the User table, which is the subject
\* of module MemberTable.
UpdateUser(r) ==
  /\ EntersAdmitted(r, {"/update-user"})
  /\ Continue(r, Tracked(r), "serving")
  /\ UNCHANGED <<usedSids, allowedID, tables, history>>

\* Faulty variant: nobody handles the rejected promise, the request hangs.
DbError_unhandled(r) ==
  /\ slots[r].pc \in Awaiting
  /\ UNCHANGED vars

\* An awaited operation is rejected: the handler's catch, or the error handler
\* of app.js, answers.  An insert is also rejected when the table is full.
DbError(r) ==
  LET slot == slots[r] IN
  /\ slot.pc \in Awaiting
  /\ \/ DbFails
     \/ slot.pc \in {"loginCreate", "activityCreate"} /\ rowCount = MaxRows
  /\ IF slot.pc \in {"loginUser", "loginAgent", "loginCreate"}
       THEN Render(r, slot)
       ELSE Answer(r, slot)
  /\ UNCHANGED <<usedSids, allowedID, tables, history>>

-----------------------------------------------------------------------------
(* POST /login.                                                            *)

\* The Activity rows a query by USERID can return; login.js imports the
\* Activity model under the name UserAgent.
rowsOf(userId) == {i \in RowId : Activity[i] # None /\ Activity[i].USERID = userId}

\* A row gets an id of its own, which no later row has (UUIDV4).
insert(row, sid) ==
  /\ rowCount < MaxRows
  /\ rowCount' = rowCount + 1
  /\ Activity' = [Activity EXCEPT ![rowCount + 1] = row]
  /\ recordedIn' = [recordedIn EXCEPT ![rowCount + 1] = sid]

\* Joi refuses the form, or User.findOne is awaited.
LoginStart(r) ==
  /\ Enters(r, "POST", {"/login"})
  /\ Render(r, Tracked(r)) \/ Continue(r, Tracked(r), "loginUser")
  /\ UNCHANGED <<usedSids, allowedID, tables, history>>

\* No row has the phone number, or its name has no such word.
LoginUnknown(r) ==
  /\ slots[r].pc = "loginUser"
  /\ Render(r, slots[r])
  /\ UNCHANGED <<usedSids, allowedID, tables, history>>

\* Faulty variant: the session gets the user id only after the agent is made.
LoginUser_late(r) ==
  /\ slots[r].pc = "loginUser"
  /\ Continue(r, slots[r], "loginAgent")
  /\ UNCHANGED <<usedSids, allowedID, tables, history>>

\* The session gets the user id, before the authorization token is looked at.
LoginUser(r) ==
  /\ slots[r].pc = "loginUser"
  /\ \E u \in Members :
       Continue(r, WithSession(slots[r], [slots[r].sess EXCEPT !.userId = u]), "loginAgent")
  /\ UNCHANGED <<usedSids, allowedID, tables, history>>

\* The token is neither empty nor one of the two: an error page is rendered.
LoginRefused(r) ==
  /\ slots[r].pc = "loginAgent"
  /\ Render(r, slots[r])
  /\ UNCHANGED <<usedSids, allowedID, tables, history>>

\* Faulty variant: every branch sets the flag.
LoggedInAs_worker(r, role) ==
  WithSession(slots[r], [slots[r].sess EXCEPT !.isWorker = TRUE])

\* The slot after the branch of a role has set the session's flag.
LoggedInAs(r, role) ==
  WithSession(slots[r], [slots[r].sess EXCEPT !.isWorker = role \in {"worker", "admin"}])

\* The form's token selects the role: none for a member.
TokenMatches(r, role) ==
  /\ slots[r].pc = "loginAgent"
  /\ proven' = proven \cup {slots[r].sess.userId}
  /\ staffSids' = IF role = "member" THEN staffSids ELSE staffSids \cup {slots[r].sid}

\* The end of createAgent, and the redirect that carries the agent.
AgentMade(r, slot) ==
  /\ allowedID' = allowedID \cup {slot.sess.userId}
  /\ Answer(r, slot)

\* createAgent finds a row and updates it: the columns it sets are not columns
\* of Activity, so no statement is sent.
LoginKnownAgent(r) ==
  \E role \in Tokens :
    /\ TokenMatches(r, role)
    /\ rowsOf(slots[r].sess.userId) # {}
    /\ AgentMade(r, LoggedInAs(r, role))
    /\ UNCHANGED <<usedSids, tables>>

LoginNewAgent(r) ==
  \E role \in Tokens :
    /\ TokenMatches(r, role)
    /\ rowsOf(slots[r].sess.userId) = {}
    /\ Continue(r, LoggedInAs(r, role), "loginCreate")
    /\ UNCHANGED <<usedSids, allowedID, tables>>

\* createAgent inserts a row, of which Activity has only the USERID column.
LoginCreate(r) ==
  /\ slots[r].pc = "loginCreate"
  /\ insert([USERID |-> slots[r].sess.userId, PERFORMER |-> None], slots[r].sid)
  /\ AgentMade(r, slots[r])
  /\ UNCHANGED <<usedSids, history>>

-----------------------------------------------------------------------------
(* GET /logout.                                                            *)

\* The session's user id, and if it has none the agent's, which trackUserActivity
\* has given it already: where there is none either, nothing is looked up.
LogoutStart(r) ==
  /\ Enters(r, "GET", {"/logout"})
  /\ IF Tracked(r).sess.userId # None
       THEN Continue(r, Tracked(r), "logoutFind")
       ELSE Answer(r, Tracked(r))
  /\ UNCHANGED <<usedSids, allowedID, tables, history>>

\* findOne asks for no order; SQLite scans the table from its oldest row.
LogoutFind(r) ==
  LET rows == rowsOf(slots[r].sess.userId) IN
  /\ slots[r].pc = "logoutFind"
  /\ \E i \in rows :
       /\ \A j \in rows : i <= j
       /\ Continue(r, [slots[r] EXCEPT !.row = i], "logoutDestroy")
  /\ UNCHANGED <<usedSids, allowedID, tables, history>>

\* No row: destroy() of null throws and the error handler of app.js answers.
LogoutNoRow(r) ==
  /\ slots[r].pc = "logoutFind"
  /\ rowsOf(slots[r].sess.userId) = {}
  /\ Answer(r, slots[r])
  /\ UNCHANGED <<usedSids, allowedID, tables, history>>

\* The row is deleted and the session destroyed.
LogoutDestroy(r) ==
  /\ slots[r].pc = "logoutDestroy"
  /\ Activity' = [Activity EXCEPT ![slots[r].row] = None]
  /\ store' = destroyed(slots[r].sid)
  /\ slots' = [slots EXCEPT ![r] = Idle]
  /\ UNCHANGED <<usedSids, allowedID, rowCount, recordedIn, history>>

-----------------------------------------------------------------------------
(* GET /memberIndex and POST /create-activity.                             *)

MemberStart(r) ==
  /\ EntersAdmitted(r, {"/memberIndex"})
  /\ Continue(r, Tracked(r), "memberUser")
  /\ UNCHANGED <<usedSids, allowedID, tables, history>>

\* User.findByPk(session.userId): the page of a user that exists takes the
\* worker flag from the session; an id that is no user's is answered with 404.
MemberFindUser(r) ==
  LET slot == slots[r] IN
  /\ slot.pc = "memberUser"
  /\ IF slot.sess.userId \in Members
       THEN Continue(r, WithSession(slot, [slot.sess EXCEPT !.isWorker = FALSE]), "serving")
       ELSE Answer(r, slot)
  /\ UNCHANGED <<usedSids, allowedID, tables, history>>

\* Faulty variant: whoever brings an authenticated agent may record for anybody.
mayRecord_anybody(slot) == slot.req.agent.isAuthenticated

\* Members record for themselves, staff for anybody.
mayRecord(slot) == slot.sess.userId = slot.req.target \/ slot.sess.isWorker

\* A request without a location throws; one that has it is never measured,
\* since the query parser yields a string, which has no latitude.
ActivityStart(r) ==
  /\ EntersAdmitted(r, {"/create-activity"})
  /\ \/ Answer(r, Tracked(r))
     \/ mayRecord(Tracked(r)) /\ Continue(r, Tracked(r), "activityUser")
  /\ UNCHANGED <<usedSids, allowedID, tables, history>>

\* User.findByPk(session.userId): the one who records, not the one recorded.
ActivityUser(r) ==
  LET slot == slots[r] IN
  /\ slot.pc = "activityUser"
  /\ IF slot.sess.userId \in Members THEN Continue(r, slot, "activityCreate") ELSE Answer(r, slot)
  /\ UNCHANGED <<usedSids, allowedID, tables, history>>

ActivityCreate(r) ==
  LET slot == slots[r] IN
  /\ slot.pc = "activityCreate"
  /\ insert([USERID |-> slot.req.target, PERFORMER |-> slot.sess.userId], slot.sid)
  /\ Answer(r, slot)
  /\ UNCHANGED <<usedSids, allowedID, history>>

-----------------------------------------------------------------------------
\* The steps of a request after its arrival, each run by Node when what the
\* request awaits is there.
Step(r) ==
  \/ TrackRedirect(r) \/ GateRedirect(r) \/ GateLookup(r)
  \/ OpenPage(r) \/ WorkerPage(r) \/ AdminPage(r) \/ UpdateUser(r)
  \/ Finish(r) \/ DbError(r)
  \/ LoginStart(r) \/ LoginUnknown(r) \/ LoginUser(r) \/ LoginRefused(r)
  \/ LoginKnownAgent(r) \/ LoginNewAgent(r) \/ LoginCreate(r)
  \/ LogoutStart(r) \/ LogoutFind(r) \/ LogoutNoRow(r) \/ LogoutDestroy(r)
  \/ MemberStart(r) \/ MemberFindUser(r)
  \/ ActivityStart(r) \/ ActivityUser(r) \/ ActivityCreate(r)

Next ==
  \/ \E r \in Slots : Arrive(r) \/ Step(r)
  \/ \E s \in Sids : Expire(s)
  \/ Restart

Spec == Init /\ [][Next]_vars

\* The event loop runs every callback that is due; what clients send, expiry
\* and restarts are not promised.
FairSpec == Spec /\ \A r \in Slots : WF_vars(Step(r))

-----------------------------------------------------------------------------
(* What holds.                                                             *)

\* A request is served behind the gate (app.js:98-100) only with an agent that
\* claims to be authenticated, for a role the chain of its path names, and whose
\* member has given name, number and token to a login of this process: agents of
\* before a restart, and agents for somebody else's id, pass no sooner than that
\* somebody has logged in.  The exemptions of middleCorrect, which let URLs by
\* without looking at an agent, never get a request there.  What an agent says
\* of the role is not compared with that login, and the property does not say so.
GateSound ==
  \A r \in Slots : slots[r].pc \in Serving =>
    LET a == slots[r].req.agent IN
    /\ a # None
    /\ a.isAuthenticated
    /\ a.role \in GateChain[ChainOf(slots[r].req.path)]
    /\ a.userId \in proven

\* The worker flag that memberIndex.js:133 and :232 trust is set only in a
\* session in which a staff token was given (login.js:133, :150), whatever
\* agents its requests bring and whatever copies of the session are written back
\* in whatever order.
StaffFlag ==
  /\ \A s \in Sids : store[s] # None /\ store[s].isWorker => s \in staffSids
  /\ \A r \in Slots : slots[r].sess.isWorker => slots[r].sid \in staffSids

\* What the Activity table says one member recorded for another
\* (memberIndex.js:153-160) was recorded in a session in which a staff token had
\* been given: neither a copy of the flag that is out of date by the time of the
\* insert nor an id taken over from an agent gets around that.
RecordsAccountable ==
  \A i \in RowId : Activity[i] # None /\ Activity[i].PERFORMER \notin {None, Activity[i].USERID} =>
    recordedIn[i] \in staffSids

\* A step deletes a row of the Activity table (login.js:207) only in a logout
\* whose session is the row's user's, although the row was found one await
\* earlier, and other requests have logged in on the session, inserted rows and
\* deleted rows meanwhile.
DeletesOnlyOwnRow ==
  [][\A i \in RowId : Activity[i] # None /\ Activity'[i] = None =>
       \E r \in Slots : /\ slots[r].pc = "logoutDestroy"
                        /\ slots[r].sess.userId = Activity[i].USERID]_vars

\* Every request is answered: also when a database operation is rejected, when
\* a handler throws (app.js:107-114) and when a row has gone meanwhile.
EveryRequestAnswered == \A r \in Slots : slots[r].pc # "idle" ~> slots[r].pc = "idle"

-----------------------------------------------------------------------------
(* The inductive invariant behind the state properties above: what every   *)
(* saved session and every request in flight satisfies, stated of each     *)
(* alone.                                                                  *)

\* The flag of a session, saved or being worked on.
FlagEarned(s, sess) == sess.isWorker => s \in staffSids

\* The gate has let the request by.
Passed(req) ==
  /\ req.agent # None
  /\ req.agent.isAuthenticated
  /\ req.agent.role \in GateChain[ChainOf(req.path)]
  /\ req.agent.userId \in allowedID

SlotInv(slot) ==
  /\ slot.req.bare => slot.req.agent = None
  /\ slot.req.path = "/create-activity" => slot.req.target \in Members
  /\ slot.pc # "idle" => slot.sid \in Sids
  /\ FlagEarned(slot.sid, slot.sess)
  /\ slot.pc \in {"loginAgent", "loginCreate", "activityCreate"} => slot.sess.userId \in Members
  /\ slot.pc = "loginCreate" => slot.sess.userId \in proven
  /\ slot.pc = "logoutDestroy" =>
       /\ slot.row \in 1..rowCount
       /\ Activity[slot.row] # None => Activity[slot.row].USERID = slot.sess.userId
  /\ slot.pc \in {"activityUser", "activityCreate"} =>
       mayRecord(slot) /\ slot.req.path = "/create-activity"
  /\ slot.pc \in Serving => Passed(slot.req)

IInv ==
  /\ TypeOK
  /\ allowedID \subseteq proven
  /\ \A s \in Sids : store[s] # None => FlagEarned(s, store[s])
  /\ \A r \in Slots : SlotInv(slots[r])
  /\ \A i \in RowId : i > rowCount => Activity[i] = None
  /\ RecordsAccountable

-----------------------------------------------------------------------------
(* What the code's comments say and the code does not do.                  *)

\* login.js:195, "Logout route to destroy the session": the session is all that
\* a logout destroys, what was recorded stays.
LogoutKeepsRecords ==
  [][\A i \in RowId : Activity[i] # None /\ Activity[i].PERFORMER # None =>
       Activity'[i] = Activity[i]]_vars
=============================================================================
