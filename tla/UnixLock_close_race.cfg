SPECIFICATION Spec
CONSTANTS
  h1 = h1
  h2 = h2
  h3 = h3
  h4 = h4
  p1 = p1
  p2 = p2
  Handle = {h1, h2, h3, h4}
  Proc = {p1, p2}
  ProcOf <- MCProcOf
  MultiThreaded = TRUE
INVARIANT LocksBacked
