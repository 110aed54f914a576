\* Two sessions that can be switched to and deleted, two clients, two chats.
SPECIFICATION Spec
CONSTANTS
  Default = Default
  a = a
  Threads = {Default, a, Stray}
  Stray = Stray
  Nothing = Nothing
  c1 = c1
  c2 = c2
  Clients = {c1, c2}
  s1 = s1
  s2 = s2
  Chats = {s1, s2}
SYMMETRY SessionSymmetry
INVARIANTS
  TypeOK
  OnlyKnownSessions
  DeletedIsGone
PROPERTIES
  RestartKeepsSession
