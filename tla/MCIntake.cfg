SPECIFICATION IntakeSpec
CONSTANTS
  None = None
  NoBundle = NoBundle
  b1 = b1
  b2 = b2
  Letters = {"a", "b", ".ipa", "/"}
  Bundles = {b1, b2}
  Ending = ".ipa"
  Slash = "/"
  MaxCompressed = 3
  MaxExpanded = 4
  MaxEntries = 3
  MaxRatio = 2
  RatioMin = 3
  MaxInfo = 1
  Largest = 7
  ReleaseLists <- MCReleaseLists
  Patterns <- MCPatterns
  AssetLists <- MCAssetLists
  ChunkSizes = {1, 2}
  Archives <- MCArchives
  Devices = {"ios", "tvos"}
INVARIANTS
    IntakeInv
    ChoiceIsExact
    InspectionIsExact
CHECK_DEADLOCK FALSE
