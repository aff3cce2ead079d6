SPECIFICATION SourcesSpec
CONSTANTS
    Apps = {a1}
    Devices = {d1}
    Jobs = {}
    c1 = c1
    c2 = c2
    c3 = c3
    k1 = k1
    Contents = {c1, c2, c3}
    Sources = {s1}
    Configs = {k1, k2}
    None = None
    MaxDay = 0
    MaxRelease = 1
    RefreshDays = {1}
    ReleaseContent <- MCReleaseContent
    BundleOf <- MCBundleOf
    Requests = {r1, r2}
    Routes = {}
    MaxCalls = 4
    MaxLosses = 0
    MaxCrashes = 0
    MaxDrops = 0
SYMMETRY Symmetry
INVARIANTS
    NoOrphanFile
PROPERTIES
    BundleStable
    DownloadMatchesSource
