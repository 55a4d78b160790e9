SPECIFICATION GoalsSpec
CONSTANTS
    g1 = g1
    g2 = g2
    c1 = c1
    Goals = {g1, g2}
    Definitions <- OneDefinition
    Roadmaps <- TwoItems
    MaxDefs = 2
    MaxRoads = 2
    MaxInbox = 3
    MaxRuns = 3
    Budgets <- Disturbances
INVARIANT NewestRunOwnsItem
PROPERTY NoAutomaticRetry
PROPERTY ClosedOnLastVerdict
SYMMETRY Alike
CHECK_DEADLOCK FALSE
