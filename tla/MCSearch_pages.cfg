SPECIFICATION ExportSpec
CONSTANTS
  Rowids = {1, 2, 3, 4}
  Contents <- ThreeContents
  Absent = Absent
  Limit = 2
  ScanFactor = 1
  ScanFloor = 3
  RelevanceCandidates = 3
  MaxWrites = 2
  ExportLimit = 4
  VariableLimit = 3
  NameOf <- TwoAlike
INVARIANTS NoHitTwice NothingIsSkipped MoreIsTrue BestOfTheNewest ExportIsWhatWasFound
CHECK_DEADLOCK FALSE
