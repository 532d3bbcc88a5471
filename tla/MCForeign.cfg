CONSTANTS
  Value = {"a", "b"}
  Null = Null
  None = None
  Session = {s1}
  TableName <- MCTableName
  ConstraintName <- MCConstraintName
  Seed <- MCSeed
  FirstRowId = 5
  FkOrder <- MCFkOrder
  Statement = {"insert", "update", "delete", "rollback"}
  Rows <- MCRows
  TableDef = {}
  IndexDef = {}
  Alter = {}
  MaxRows = 2
  MaxRowId = 6
  MaxLog = 3
  MaxVersion = 0
SPECIFICATION FairSpec
INVARIANTS UniqueKeysHold IndexesExact
PROPERTIES FailureUndoesChanges StatementKeepsForeignKeys StatementsEnd
