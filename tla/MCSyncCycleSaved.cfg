SPECIFICATION Spec
CONSTANTS
  Jobs <- SavedDuring
  Name = {n1, n2}
  Content = {a, b, e, l}
  Links = {l}
  Empty = {e}
  a = a
  b = b
  e = e
  l = l
  n1 = n1
  n2 = n2
  Absent = Absent
  Unreadable = Unreadable
  None = None
  MaxConflicts = 1
  Generations = 2
PROPERTY NoSilentOverwrite
CHECK_DEADLOCK FALSE
