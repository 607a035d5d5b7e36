SPECIFICATION FairManagerSpec
CONSTANTS
  s1 = s1
  a = a
  b = b
  n1 = n1
  n2 = n2
  None = None
  Servers = {s1}
  Names = {a, b}
  Defs = {"d", "e", "bad"}
  Invalid = {"bad"}
  Offers <- TwoTools
  RejectServer = FALSE
  Kinds = {"enabled", "disabled", "userSpecific"}
  MaxChanges = 1
  MaxFailures = 2
  Sessions = {n1, n2}
  Listings <- TwoLists
  MaxIncidents = 2
INVARIANTS ClientConsistent NoticeHeeded
PROPERTIES ListsBecomeFresh StopReturns PromptsBecomeFresh
