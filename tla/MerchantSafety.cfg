SPECIFICATION Spec
CONSTANTS
  Document = {d1}
  Url = {u1}
  NoUrl = NoUrl
  Request = {q1, q2, q3}
  NoRow = NoRow
  NoWork = NoWork
  Same = Same
  MaxVersion = 5
INVARIANTS
  VersionIdentifiesRow
PROPERTIES
  OverwritesOneChangeAtMost
  OneMoveUndoneAtMost
SYMMETRY Symmetry
CHECK_DEADLOCK FALSE
