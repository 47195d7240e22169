CONSTANTS
    Tasks = {"own", "orphan"}
    Orphans = {"orphan"}
    Eras = 2
    MaxTasks = 2
    MaxFaults = 1
SPECIFICATION Spec
INVARIANT GrindsItsModel
INVARIANT BarredByTheGpuOnly
PROPERTY CardIsShared
