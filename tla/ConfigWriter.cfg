SPECIFICATION Spec
CONSTANTS
  ns1 = ns1  ns2 = ns2  x = x  y = y  n1 = n1  None = None
  Namespaces = {ns1, ns2}
  Sections = {"servers", "a2aAgents"}
  Names = {n1}
  Values = {x, y}
  Writers = {"registrations", "extensions"}
  MaxTries = 4
  MaxCalls = 3
  MaxFailures = 1
  Calls <- MCCalls
CHECK_DEADLOCK FALSE
PROPERTY WholeOperations
