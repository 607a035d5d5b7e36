SPECIFICATION Spec
CONSTANTS
  s1 = s1
  s2 = s2
  a = a
  b = b
  None = None
  Servers = {s1, s2}
  Names = {a}
  Defs = {"d"}
  Invalid = {}
  Offers <- SharedName
  RejectServer = FALSE
  Kinds = {"enabled"}
  MaxChanges = 1
  MaxFailures = 3
PROPERTIES
  OwnersKept
