SPECIFICATION Spec
CONSTANTS
  SimpleConditions <- MCSimpleConditions
  JoinedConditions <- MCJoinedConditions
  QueryFamilies <- MCQueryFamilies
  KeyRows <- MCKeyRows
  MAX_SHORT_LENGTH = 3
  CHUNK_SIZE = 4
  MAX_DIGITS = 4
  WireIntegers <- MCWireIntegers
  KeyValues <- MCKeyValues
  WireValues <- MCWireValues
  ShortValues <- MCShortValues
  Payloads <- MCPayloads
  ScriptStarts <- MCScriptStarts
  ThisYear = 2023
  FormatDates <- MCFormatDates
  FormatStarts <- MCFormatStarts
  FormatElems <- MCFormatElems
  SomeDates <- MCSomeDates
  OtherDates <- MCOtherDates
  MonthCounts <- MCMonthCounts
  Units <- MCUnits
  StoreColumns <- MCStoreColumns
  StoreValues <- MCStoreValues
INVARIANTS
  ConditionsAreKleene
  QueriesAnswer
  KeysTellRowsApart
  WireRoundTrips
  ScriptsSplitAtTokens
  DatesHold
  StoredValuesFit
CHECK_DEADLOCK FALSE
