SPECIFICATION FakeUnitSpec
CONSTANTS
  model = model
  node = node
  run = run
  content = content
  old = old
  new = new
  None = None
  Keys <- MCKeys
  Columns <- MCColumns
  Values <- MCValues
  Rows <- MCRows
INVARIANTS
  RollbackDiscards
