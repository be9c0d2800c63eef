\* One launch of a pack that links its solution into task/.
CONSTANTS
    p1 = p1
    p2 = p2
    k1 = k1
    s1 = s1
    s2 = s2
    bad = bad
    Procs <- OneProc
    Budget <- OneBudget
    Good <- MCGood
    Bad = bad
    Env <- OneEnv
    Flags <- MCFlags
    Slugs <- MCSlugs
    Trees <- LinkedSolution
    Attempts = 2
    None = None
SPECIFICATION Spec
INVARIANTS
    SolutionStays
CHECK_DEADLOCK FALSE
