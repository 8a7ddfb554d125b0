------------------------------ MODULE AgentGate ------------------------------
(***************************************************************************)
(* The agent token and the middleware that decides from it, as pure        *)
(* operators on one request: security/agent.js, the functions of           *)
(* security/agent-service.js and the chain app.js mounts them in.          *)
(*                                                                         *)
(* An agent is the record that login puts, encoded, into the URLs of the   *)
(* pages it sends ("?agent=..."): the server keeps no copy of it and reads *)
(* it back from the query of every later request.  It is not signed, so a  *)
(* request may carry any agent at all.  What JSON, URI encoding and        *)
(* logging do to it is left out: a request carries an agent that can be    *)
(* read back, or None (no agent parameter, an empty one, or one that does  *)
(* not parse).                                                             *)
(***************************************************************************)
EXTENDS Naturals

CONSTANTS
  Members,   \* ids of the rows of the User table
  Visitor,   \* stands for every id that is no member's, such as the uuid given to
             \* a browser nobody logged in on
  None       \* null and undefined

Role == {"member", "worker", "admin"}

ASSUME IdentifiersDiffer ==
  /\ Visitor \notin Members
  /\ None \notin Members
  /\ None # Visitor
  /\ None \notin Role

UserId == Members \cup {Visitor}

\* class Agent as fromJSON makes it of whatever the query has: the four private
\* fields, lastActivity left out because nothing that the application mounts
\* decides on it.  An id that names nobody is None, a role that no chain lists too.
Agent == [userId : UserId \cup {None}, isAuthenticated : BOOLEAN, role : Role \cup {None}]

\* No agent is None: None is a value of its own.
ASSUME NoneIsNoAgent == None \notin Agent

\* The method and the path of each endpoint.  "/dashboard" stands for every
\* route of routes/dashboard.js, "/admin/dashboard" for every one of
\* routes/admin.js, "/access-denied" for the public routes that only answer.
PublicPaths == {"/", "/login", "/register", "/access-denied"}
MemberPaths == {"/memberIndex", "/create-activity", "/update-user"}
Paths == PublicPaths \cup {"/logout"} \cup MemberPaths
           \cup {"/dashboard", "/admin/dashboard"}

\* A request as the middleware sees it.  bare: the URL has no query string at
\* all, which is what a comparison of req.url with a path asks for.  target:
\* the :userId of the path, where it has one.
Request == [method : {"GET", "POST"}, path : Paths, bare : BOOLEAN,
            agent : Agent \cup {None}, target : Members \cup {None}]

-----------------------------------------------------------------------------
\* The three pages that need no agent, compared with the whole URL.
isUrl(req) == req.bare /\ req.path \in {"/", "/login", "/register"}

redirector(req) == isUrl(req) /\ req.method = "GET"

\* middleCorrect is a switch without breaks: each case falls into the later
\* ones, so a middleware skips on its own condition or on any later one.
middleCorrect(middleware, req, userId) ==
  LET skipAuthorize ==
        \/ isUrl(req)
        \/ req.bare /\ req.path = "/memberIndex"
        \/ req.bare /\ req.path = "/update-user" /\ req.target = userId
  IN  \/ middleware = "authenticate" /\ redirector(req)
      \/ middleware \in {"authenticate", "validate"} /\ isUrl(req)
      \/ middleware \in {"authenticate", "validate", "authorize"} /\ skipAuthorize
      \/ req.bare /\ req.path = "/login" /\ req.method = "GET"

-----------------------------------------------------------------------------
\* trackUserActivity, mounted on every request: a request with an agent goes
\* on; one without goes on only to the three open pages.
trackPasses(req) == req.agent # None \/ redirector(req)

\* ... it gives a session without a user id the agent's, or a new one.
trackedUserId(userId, req) ==
  IF userId # None THEN userId
  ELSE IF req.agent # None THEN req.agent.userId ELSE Visitor

-----------------------------------------------------------------------------
isAuthenticated(req, userId) ==
  \/ middleCorrect("authenticate", req, userId)
  \/ req.agent # None /\ req.agent.isAuthenticated

\* Without an agent getData() throws, and the handler lets the open pages by.
isAuthorized(roles, req, userId) ==
  \/ middleCorrect("authorize", req, userId)
  \/ req.agent = None /\ redirector(req)
  \/ req.agent # None /\ req.agent.role \in roles

\* validateAgent lets by whom allowedID lists.  Anybody else is looked up in
\* the UserAgent table and redirected, found or not: a row that is found is
\* compared by object identity (data !== agentData), which never matches.
validated(req, userId, allowedID) ==
  \/ middleCorrect("validate", req, userId)
  \/ req.agent = None
  \/ req.agent.userId \in allowedID

\* The chains of app.js, in mounting order: the router behind chain k is
\* reached through the chains before it, whose routers do not match.
GateChain == <<{"member", "worker", "admin"}, {"worker", "admin"}, {"admin"}>>

ChainOf(path) ==
  CASE path \in MemberPaths -> 1
    [] path = "/dashboard" -> 2
    [] OTHER -> 3

passesChains(k, req, userId) ==
  \A i \in 1..k : isAuthenticated(req, userId) /\ isAuthorized(GateChain[i], req, userId)

\* The request reaches its handler; or it waits for the lookup of validateAgent,
\* which sits in the first chain; or it is redirected at once.
admitted(req, userId, allowedID) ==
  /\ passesChains(ChainOf(req.path), req, userId)
  /\ validated(req, userId, allowedID)

lookedUp(req, userId, allowedID) ==
  passesChains(1, req, userId) /\ ~validated(req, userId, allowedID)
=============================================================================
