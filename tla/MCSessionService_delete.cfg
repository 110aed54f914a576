\* A switch and a delete of the same session at once.
SPECIFICATION Spec
CONSTANTS
  Default = Default
  a = a
  Threads = {Default, a, Stray}
  Stray = Stray
  Nothing = Nothing
  c1 = c1
  c2 = c2
  Clients = {c1, c2}
  s1 = s1
  Chats = {s1}
SYMMETRY SessionSymmetry
PROPERTIES
  CurrentIsNotDeleted
