SPECIFICATION Spec
CONSTANTS
  u1 = u1
  u2 = u2
  model = model
  run = run
  left = left
  right = right
  old = old
  new = new
  bad = bad
  None = None
  Units <- TwoUnits
  Keys <- ModelAndRun
  Columns <- TwoColumns
  Values <- MCValues
  Rows <- MCRows
  Parents <- RunHasModel
  Rejected <- MCRejected
  MaxAdds = 3
SYMMETRY Symmetry
INVARIANTS
  UnitTypeOK
  RowsAsAdded
  ReferencesHold
  CommittedMeansStored
PROPERTIES
  TransactionalStoreSpec
