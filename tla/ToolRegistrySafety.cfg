SPECIFICATION Spec
CONSTANTS
  s1 = s1
  s2 = s2
  a = a
  b = b
  None = None
  Servers = {s1, s2}
  Names = {a, b}
  Defs = {"d", "bad"}
  Invalid = {"bad"}
  Offers <- OwnNames
  RejectServer = TRUE
  Kinds = {"enabled", "disabled", "userSpecific"}
  MaxChanges = 1
  MaxFailures = 3
INVARIANTS NoOrphanTools RoutesRegistered
PROPERTY DropsJustified
