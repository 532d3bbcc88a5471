CONSTANTS
  Value = {"a"}
  Null = Null
  None = None
  Session = {s1, s2}
  TableName <- MCTableName
  ConstraintName <- MCConstraintName
  Seed <- MCSeed
  FirstRowId = 2
  FkOrder <- MCFkOrder
  Statement = {"insert", "delete", "commit", "rollback", "ddl"}
  Rows <- MCRows
  TableDef <- MCTableDef
  IndexDef <- MCIndexDef
  Alter <- MCAlter
  MaxRows = 1
  MaxRowId = 2
  MaxLog = 1
  MaxVersion = 4
SYMMETRY Symmetry
SPECIFICATION Spec
INVARIANTS TypeOK UniqueKeysHold IndexesExact ForeignKeysHaveKeys
PROPERTIES CommitPublishesItsLog AlterKeepsRows
