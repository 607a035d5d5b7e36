SPECIFICATION Spec
CONSTANTS
    a = a
    b = b
    r1 = r1
    r2 = r2
    r3 = r3
    None = None
    Sids = {a, b}
    Requests = {r1, r2, r3}
    Worlds <- MCWorlds
    MaxScopes = 1
    MaxFailures = 1
INVARIANTS OneSession RefusedOnlyByClose UserSessionsAccounted HeadersCurrent ToldWhenQuiet ReleasedAtEnd
PROPERTY NobodyStuck
CHECK_DEADLOCK FALSE
