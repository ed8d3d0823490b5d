SPECIFICATION Spec
CONSTANTS
  red1 = red1
  red2 = red2
  red = red
  redbone = redbone
  gone = gone
  until = until
  jazz = jazz
  other = other
  Visits = {v1, v2}
  Listeners = {v1}
  Acts = {red1, red2}
  Genres = {jazz}
  Names = {red, redbone}
  Name <- MCName
  NoAct = NoAct
  Titles = {gone, until, other, foreign}
  Foreign = foreign
  Groups <- MCGroups
  Profiles <- MCProfiles
  Releases <- MCReleases
  PageLimit = 1
  MaxPages = 2
  Limit = 1
  MaxPreviews = 0
  Wanted = {gone}
INVARIANTS
  TypeOK
  StaleBeatsError
  OwnTracks
