SPECIFICATION Spec
CONSTANTS
    SceneIds = {"s", "t"}
    ControlIds = {"a", "b"}
    Data = {1, 2}
    Documents <- SmallProjects
    Budget <- OneEach
INVARIANTS
    TypeOK
    PointersResolve
    ListedControlsFound
PROPERTY UpdatesKeepShape
CHECK_DEADLOCK FALSE
