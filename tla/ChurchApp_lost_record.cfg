\* A member logs out after an activity was recorded.
SPECIFICATION Spec
CONSTANTS
  None = None
  Visitor = Visitor
  Members = {m1}
  Slots = {r1}
  Sids = {s1, s2}
  MaxRows = 2
  Endpoints <- RecordEndpoints
  Agents <- PageAgents
  Tokens = {"member"}
  DbFails = FALSE
PROPERTIES
  LogoutKeepsRecords
