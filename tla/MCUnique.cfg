CONSTANTS
  Value = {"a", "b"}
  Null = Null
  None = None
  Session = {s1, s2}
  TableName <- MCTableName
  ConstraintName <- MCConstraintName
  Seed <- MCSeed
  FirstRowId = 2
  FkOrder <- MCFkOrder
  Statement = {"insert", "update", "commit", "rollback"}
  Rows <- MCRows
  TableDef = {}
  IndexDef = {}
  Alter = {}
  MaxRows = 2
  MaxRowId = 3
  MaxLog = 2
  MaxVersion = 2
SYMMETRY Symmetry
SPECIFICATION Spec
INVARIANTS UniqueKeysHold IndexesExact InsertsAreFresh
PROPERTIES FailureUndoesChanges CommitPublishesItsLog
