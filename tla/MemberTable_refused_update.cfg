\* An update from a session that may not make it.
SPECIFICATION Spec
CONSTANTS
  w1 = w1
  w2 = w2
  p1 = p1
  e1 = e1
  empty = empty
  None = None
  Absent = Absent
  Names <- AllNames
  Contacts = {p1, e1, empty}
  Numbers = {p1, e1}
  Emails = {e1}
  Slots = {r1}
  MaxUsers = 2
  Forms <- ValidForms
  DbFails = FALSE
PROPERTIES
  RefusedUpdateChangesNothing
