CONSTANTS
  Repositories = {"r1", "r2"}
  Architectures = {"x86_64", "i586"}
  Offset = 2
SPECIFICATION MCSpec
CHECK_DEADLOCK FALSE
INVARIANTS
  FlagsSurvive  PackageOverridesProject MetasSurvive RequestsSurvive
  CreatedForWhatWasAsked BuildIsFetchedAsAsked PathsAreExpanded
