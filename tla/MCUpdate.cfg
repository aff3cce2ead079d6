\* Two requests, three releases of which the updater refuses to read the first, a
\* handler that is dropped, two runs of the updater that are cut short and a reboot.
SPECIFICATION UpdateFairSpec
CONSTANTS
  Requests = {h1, h2}
  None = None
  Refused = {1}
  MaxVersion = 3
  MaxDrops = 1
  MaxReboots = 1
  MaxAborts = 2
INVARIANTS
    UpdateInv
    ServedIsRequested
    OutcomeIsTrue
PROPERTIES
    RequestSettles
CHECK_DEADLOCK FALSE
