SPECIFICATION Spec
CONSTANTS
  old = old
  candidate = candidate
  final = final
  dev = dev
  Releases = {old, candidate, final, dev}
  Text <- MCText
  Installed = dev
  Word = Word
  Nil = Nil
  Requests = {q1, q2}
  MaxBuilds = 2
  MaxUploads = 5
INVARIANTS
  TypeOK
  IntactBinary
PROPERTIES
  NeverDowngraded
  UpdateTakesEffect
