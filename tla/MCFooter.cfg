SPECIFICATION Spec
CONSTANTS
  r1 = r1
  r2 = r2
  tab = tab
  film = film
  song = song
  media = media
  assets = assets
  one = one
  two = two
  None = None
  Open = Open
  Malformed = Malformed
  Error = Error
  Requests = {r1, r2}
  Tabs = {tab}
  Keys = {film}
  Folders = {media, assets}
  Files <- MCFiles
  RequestTypes <- MCRequestTypes
  FooterLen = 1
  MaxPathnames = 2
  MaxRestarts = 1
INVARIANTS
  FooterIsHidden
CHECK_DEADLOCK FALSE
