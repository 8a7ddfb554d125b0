\* Two requests in flight under fair scheduling, database operations failing.
SPECIFICATION FairSpec
CONSTANTS
  None = None
  Visitor = Visitor
  Members = {m1}
  Slots = {r1, r2}
  Sids = {s1}
  MaxRows = 1
  Endpoints <- RecordEndpoints
  Agents <- PageAgents
  Tokens = {"member", "worker"}
  DbFails = TRUE
INVARIANTS
  StaffFlag
PROPERTIES
  EveryRequestAnswered
