SPECIFICATION LibrarySpec
CONSTANTS
    Apps = {a1, a2}
    Devices = {d1}
    Jobs = {j1, j2, j3}
    Contents = {c1}
    Sources = {}
    Configs = {}
    None = None
    MaxDay = 1
    MaxRelease = 0
    RefreshDays = {1}
    Requests = {r1, r2}
    Routes = {"rsd"}
    MaxLosses = 0
    MaxCrashes = 0
    MaxDrops = 0
SYMMETRY Symmetry
INVARIANTS
    NoOrphanFile
PROPERTIES
    RefreshStartsRight
