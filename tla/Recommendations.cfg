SPECIFICATION Spec
CONSTANTS
  ann = ann
  bob = bob
  Users = {ann}
  Admin = ann
  Profiles = {p}
  NoProfile = NoProfile
  Seeds = {a}
  Backends = {"lastfm", "listenbrainz"}
  Workers = {w1, w2}
  MaxEvents = 1
INVARIANTS
  TypeOK
  OwnRecommendations
  CacheOfBackend
PROPERTY
  ProfileCatchesUp
