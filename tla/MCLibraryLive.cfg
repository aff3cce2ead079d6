SPECIFICATION FairLibrarySpec
CONSTANTS
    Apps = {a1}
    Devices = {d1}
    Jobs = {j1, j2}
    Contents = {c1}
    Sources = {}
    Configs = {}
    None = None
    MaxDay = 0
    MaxRelease = 0
    RefreshDays = {1}
    Requests = {r1, r2}
    Routes = {"rsd"}
    MaxLosses = 0
    MaxCrashes = 0
    MaxDrops = 0
PROPERTIES
    RequestAnswered
    JobEnds
