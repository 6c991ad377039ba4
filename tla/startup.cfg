\* Four processes over two sessions, with three attempts each.
SPECIFICATION StartupFairSpec
CONSTANTS
    p1 = p1  p2 = p2  p3 = p3  p4 = p4  s1 = s1  s2 = s2
    Rival = Rival  None = None  Blank = Blank  UnsetId = UnsetId
    Procs = {p1, p2, p3, p4}
    Sessions = {s1, s2}
    Override <- MCOverride
    Env <- MCEnv
    Audit <- MCAudit
    REGISTER_RETRIES = 3
INVARIANTS StartupTypeOK RegisteredIsReachable
PROPERTIES StartDecides RetryWins
