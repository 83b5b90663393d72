SPECIFICATION Spec
CONSTANTS
  q1 = q1
  q2 = q2
  q3 = q3
  q4 = q4
  k1 = k1
  k2 = k2
  b1 = b1
  b2 = b2
  NoRow = NoRow
  NoAnswer = NoAnswer
  Request = {q1, q2, q3, q4}
  Key = {k1, k2}
  KeyOf <- MCKeyOf
  Body = {b1, b2}
  BodyOf <- MCBodyOf
  MaxFailures = 1
INVARIANT PendingIsRunning
CHECK_DEADLOCK FALSE
