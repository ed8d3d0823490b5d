SPECIFICATION LibrarySpec
CONSTANTS
  Urls = {u1, u2}
  NoUrl = NoUrl
  Reliable = {u2}
  Edits = {e1}
  Syncs = {timer, manual}
  Scheduler = timer
  MaxId = 2
  MaxBorn = 2
  MaxStock = 1
INVARIANTS
  LibraryTypeOK
  OwnLibrary
PROPERTY LibraryCatchesUp
