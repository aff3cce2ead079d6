SPECIFICATION LibrarySpec
CONSTANTS
    Apps = {a1}
    Devices = {d1}
    Jobs = {j1, j2}
    Contents = {c1}
    Sources = {}
    Configs = {}
    None = None
    MaxDay = 1
    MaxRelease = 0
    RefreshDays = {1}
    Requests = {r1, r2}
    Routes = {"rsd", "direct"}
    MaxLosses = 1
    MaxCrashes = 1
    MaxDrops = 1
SYMMETRY Symmetry
INVARIANTS
    JobIpaIntact
    LiveAppHasFile
    OutcomeExplained
PROPERTIES
    SuccessIsManaged
