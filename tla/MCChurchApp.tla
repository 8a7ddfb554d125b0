----------------------------- MODULE MCChurchApp -----------------------------
(***************************************************************************)
(* Instances of ChurchApp for TLC: the endpoints that the clients of a run *)
(* use, the agents they send, and the symmetry of its model values.        *)
(***************************************************************************)
EXTENDS ChurchApp, TLC

Get(paths) == [method : {"GET"}, path : paths]
Post(paths) == [method : {"POST"}, path : paths]

AllEndpoints == Endpoint

\* What creates, changes and ends sessions, and records activities.
RecordEndpoints ==
  Get({"/login", "/logout", "/memberIndex"}) \cup Post({"/login", "/create-activity"})

\* One agent of every kind that some check tells apart, for every id.
AllAgents == Agent

\* What the pages sent to a visitor, and those sent to members, have in their URLs.
VisitorAgents == [userId : {Visitor}, isAuthenticated : {FALSE}, role : {None}]
MemberAgents == [userId : Members, isAuthenticated : {TRUE}, role : {"member"}]
PageAgents == VisitorAgents \cup MemberAgents

\* Slots, session ids and members are interchangeable: no action and no
\* invariant names one of them.
Symmetry == Permutations(Slots) \cup Permutations(Sids) \cup Permutations(Members)
=============================================================================
