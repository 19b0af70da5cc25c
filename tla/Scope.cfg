SPECIFICATION Spec
CONSTANTS
    Workers = {w1, w2}
    Policies = {"stop-group", "restart-task", "ignore"}
    MaxRuns = 2
    MaxRestarts = 1
    Leaves = {x, y}
    Root = Root
    Child = Child
    Group = Group
    Crew = Crew
    Nothing = Nothing
    Scenes = {{x, y, Child, Group}, {x, Child, Crew}}
INVARIANTS
    JoinTellsTheOutcome
    ReleasesNewestFirst
PROPERTIES
    EndsWhenAsked
CHECK_DEADLOCK FALSE
