CONSTANTS
  Session = {s1, s2}
  Admin = {a1}
  None = None
  Options <- MCOptions
  Exprs <- MCExprs
  MaxDefault = 5
  MinDefault <- MCMinDefault
  Saturated = 6
  MaxRows = 1
  MaxOps = 4
SYMMETRY Symmetry
SPECIFICATION Spec
INVARIANTS NumbersNotReissued RowSeesOneValue
CHECK_DEADLOCK FALSE
