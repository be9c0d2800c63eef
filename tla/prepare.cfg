\* Two processes over the embedded pack, or one over a pack on disk.
CONSTANTS
    p1 = p1
    p2 = p2
    k1 = k1
    s1 = s1
    s2 = s2
    bad = bad
    Procs <- MCProcs
    Budget <- MCBudget
    Good <- MCGood
    Bad = bad
    Env <- MCEnv
    Flags <- MCFlags
    Slugs <- MCSlugs
    Trees <- MCTrees
    Attempts = 2
    None = None
SPECIFICATION MCSpec
SYMMETRY Symmetry
INVARIANTS
    TypeOK
    StoredStays
    Revocable
    AcceptedStages
PROPERTIES
    NamesAreFresh
    ContentIsChecked
CHECK_DEADLOCK FALSE
