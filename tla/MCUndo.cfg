CONSTANTS
  Value = {"a", "b"}
  Null = Null
  None = None
  Session = {s1}
  TableName <- MCTableName
  ConstraintName <- MCConstraintName
  Seed <- MCSeed
  FirstRowId = 2
  FkOrder <- MCFkOrder
  Statement = {"insert", "update", "block"}
  Rows <- MCUndoRows
  TableDef = {}
  IndexDef = {}
  Alter = {}
  MaxRows = 1
  MaxRowId = 2
  MaxLog = 4
  MaxVersion = 2
SPECIFICATION Spec
PROPERTY FailedBlockRestoresRows
