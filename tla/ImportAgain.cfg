SPECIFICATION Spec
CONSTANTS
  amy = amy
  bob = bob
  cat = cat
  lidarr = lidarr
  plex = plex
  radiohead = radiohead
  Logins = {amy, bob, cat}
  NoMail = NoMail
  OldUsers <- MCOldUsers
  OldServers <- MCOldServers
  OldRequests <- MCOldRequests
  Artists = {radiohead}
  Urls = {lidarr, plex}
  Locals <- MCLocals
  MaxUser = 2
  MaxRequest = 2
  MaxWrites = 3
INVARIANT CopiedOnce
