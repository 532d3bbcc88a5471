CONSTANTS
  Value = {"a", "b"}
  Null = Null
  None = None
  Session = {s1, s2}
  TableName <- MCTableName
  ConstraintName <- MCConstraintName
  Seed <- MCSeed
  FirstRowId = 1
  FkOrder <- MCFkOrder
  Statement = {"insert", "delete", "commit", "block", "snapshot"}
  Rows <- MCRows
  TableDef = {}
  IndexDef = {}
  Alter = {}
  MaxRows = 1
  MaxRowId = 2
  MaxLog = 2
  MaxVersion = 3
SYMMETRY Symmetry
SPECIFICATION Spec
INVARIANTS IndexesExact InsertsAreFresh
PROPERTIES FailureUndoesChanges CommitPublishesItsLog
