CONSTANTS
  r1 = r1  r2 = r2  s1 = s1  s2 = s2  q1 = q1  sd = sd  None = None
  Reloads = {r1, r2}
  Servers = {s1, s2}
  Requests = {q1}
  Shutdowns = {sd}
  TagConfigs = {FALSE, TRUE}
  Authorized = {TRUE}
SPECIFICATION Spec
CHECK_DEADLOCK FALSE
SYMMETRY MCSymmetry
INVARIANT StartsAfterStop
