SPECIFICATION FairSpec
CONSTANTS
  u1 = u1
  u2 = u2
  model = model
  run = run
  left = left
  right = right
  old = old
  new = new
  bad = bad
  None = None
  Units <- TwoUnits
  Keys <- ModelAndRun
  Columns <- OneColumn
  Values <- MCValues
  Rows <- OneRow
  Parents <- NoParents
  Rejected <- MCRejected
  MaxAdds = 4
PROPERTIES
  CallsReturn
