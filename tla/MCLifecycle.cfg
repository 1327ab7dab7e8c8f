CONSTANTS
  Server = {a, b}
  User = {u, v}
  Segment = {s1, s2}
  NULL = NULL
  UINT_MAX = 3
SPECIFICATION Spec
SYMMETRY Alike
INVARIANTS
  TypeOK
  
  UsersHaveServer
  WorkersAreKnown
  NameLeadsToServer
