SPECIFICATION Spec
CONSTANTS
  ann = ann
  bob = bob
  whole = whole
  lower = lower
  upper = upper
  artist = artist
  album = album
  Users = {ann}
  AutoApproved <- MCAuto
  Targets = {whole, lower}
  Artists = {artist}
  Albums = {album}
  Artist <- MCArtist
  Album <- MCAlbum
  NoAlbum = NoAlbum
  NoUser = NoUser
  NoTarget = NoTarget
  Pushes = {p1, p2}
  MaxId = 2
  MaxInserts = 2
  MaxPolls = 2
PROPERTY ApprovalSettled
