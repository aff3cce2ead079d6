SPECIFICATION SourcesSpec
CONSTANTS
    Apps = {a1}
    Devices = {d1}
    Jobs = {j1}
    c1 = c1
    c2 = c2
    c3 = c3
    k1 = k1
    Contents = {c1, c2}
    Sources = {s1}
    Configs = {k1}
    None = None
    MaxDay = 0
    MaxRelease = 1
    RefreshDays = {1}
    ReleaseContent <- MCReleaseContent
    BundleOf <- MCBundleOf
    Requests = {r1, r2}
    Routes = {"direct"}
    MaxCalls = 2
    MaxLosses = 0
    MaxCrashes = 1
    MaxDrops = 1
SYMMETRY Symmetry
PROPERTIES
    ShelfKept
