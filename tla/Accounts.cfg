SPECIFICATION Spec
CONSTANTS
  Names = {ann, bob, kim}
  PlexIds = {x}
  Tokens = {s1}
  Tasks = {t1, t2}
  NoName = NoName
  NoPlex = NoPlex
  MaxId = 3
  MaxBorn = 3
INVARIANTS
  TypeOK
  FirstAdminFirst
  SessionEarned
  OneAccountPerPlex
  AdminRemains
SYMMETRY MCSymmetry
