SPECIFICATION Spec
CONSTANTS
  s1 = s1
  s2 = s2
  a = a
  b = b
  None = None
  Servers = {s1, s2}
  Names = {a, b}
  Defs = {"d"}
  Invalid = {}
  Offers <- OwnNames
  RejectServer = FALSE
  Kinds = {"enabled"}
  MaxChanges = 0
  MaxFailures = 3
INVARIANTS
  TableSettled
