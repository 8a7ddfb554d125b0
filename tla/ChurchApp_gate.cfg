\* Every endpoint and every agent, with restarts between the sessions.
SPECIFICATION Spec
CONSTANTS
  None = None
  Visitor = Visitor
  Members = {m1, m2}
  Slots = {r1}
  Sids = {s1, s2}
  MaxRows = 2
  Endpoints <- AllEndpoints
  Agents <- AllAgents
  Tokens = {"member", "worker", "admin"}
  DbFails = TRUE
SYMMETRY Symmetry
INVARIANTS
  TypeOK
  GateSound
  RecordsAccountable
