SPECIFICATION FairSpec
CONSTANTS
  e1 = e1  e2 = e2  e3 = e3  ns1 = ns1  ns2 = ns2  l1 = l1  l2 = l2  l3 = l3  None = None
  Exts = {e1, e2, e3}
  Namespaces = {ns1, ns2}
  NsOf <- MCNsOf
  Listeners = {l1, l2, l3}
  ListenerOf <- MCListenerOf
  PortOf <- MCPortOf
  Cross = {e1}
  Scenarios <- MCScenarios
  MaxEvents = 2
  MaxFailures = 1
CHECK_DEADLOCK FALSE
INVARIANTS OneOwner KeysMatch ReadyMeansProgrammed
PROPERTIES NothingOverwritten EventuallyProgrammed
