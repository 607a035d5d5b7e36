SPECIFICATION FairSpec
CONSTANTS
  s1 = s1
  s2 = s2
  a = a
  b = b
  None = None
  Servers = {s1}
  Names = {a}
  Defs = {"d", "e"}
  Invalid = {}
  Offers <- OneTool
  RejectServer = FALSE
  Kinds = {"enabled"}
  MaxChanges = 1
  MaxFailures = 2
PROPERTIES
  DefinitionsBecomeFresh
