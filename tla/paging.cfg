SPECIFICATION FairSpec
CONSTANTS
  Rows = {1, 2, 3, 4, 5, 6}
  Ties = 1
  Key <- SmallKey
  BatchSize = 2
  ExportMaxRows = 4
  SingleFileMaxRows = 3
  FileFormat = "XLSX"
  MaxQueryBatchRetries = 1
  MaxChanges = 2
  MaxFaults = 1
  MaxStops = 1
INVARIANTS TypeOK SteadyRowsExported CountsAgree QuietSource PartsHoldFile
  ColumnsKeepTheirHeaders RegisteredMaskingIsExecutable MasksHide PagingOrderIsTotal ValuesMeetTheirNames
PROPERTIES CheckpointOnlyAdvances AttemptEnds
CHECK_DEADLOCK FALSE
