SPECIFICATION Spec
CONSTANTS
  Document = {d1}
  Url = {u1}
  NoUrl = NoUrl
  Request = {q1, q2}
  NoRow = NoRow
  NoWork = NoWork
  Same = Same
  MaxVersion = 5
PROPERTY StatusMachine
CHECK_DEADLOCK FALSE
