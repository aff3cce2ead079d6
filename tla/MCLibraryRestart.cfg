SPECIFICATION LibrarySpec
CONSTANTS
    Apps = {a1}
    Devices = {d1}
    Jobs = {j1}
    Contents = {c1}
    Sources = {}
    Configs = {}
    None = None
    MaxDay = 1
    MaxRelease = 0
    RefreshDays = {1}
    Requests = {r1, r2}
    Routes = {"direct"}
    MaxLosses = 0
    MaxCrashes = 1
    MaxDrops = 0
SYMMETRY Symmetry
INVARIANTS
    ActiveJobRuns
