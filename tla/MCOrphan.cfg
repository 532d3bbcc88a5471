CONSTANTS
  Value = {"a"}
  Null = Null
  None = None
  Session = {s1, s2}
  TableName <- MCTableName
  ConstraintName <- MCConstraintName
  Seed <- MCSeed
  FirstRowId = 2
  FkOrder <- MCFkOrder
  Statement = {"insert", "delete", "commit"}
  Rows <- MCRows
  TableDef = {}
  IndexDef = {}
  Alter = {}
  MaxRows = 1
  MaxRowId = 2
  MaxLog = 1
  MaxVersion = 2
SYMMETRY Symmetry
SPECIFICATION Spec
INVARIANT CommittedForeignKeysHold
