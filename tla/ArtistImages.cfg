SPECIFICATION Spec
CONSTANTS
  red = red
  bone = bone
  red1 = red1
  red2 = red2
  bone1 = bone1
  Acts = {red1, red2, bone1}
  Names = {red, bone}
  Name <- MCName
  Hits <- MCHits
  Photographed = {red1, red2}
  Thumbs = {red2, bone1}
  Shared <- MCShared
  NoAct = NoAct
  Capacity = 1
  BackfillLimit = 1
  MaxSeen = 1
  MaxOffers = 2
  MaxRestarts = 1
INVARIANTS
  TypeOK
  PhotoOfNamesake
PROPERTIES
  VerifiedAmongNamesakes
  LookedUpInTheEnd
