SPECIFICATION Spec
CONSTANTS
  film = film
  pinned = pinned
  media = media
  assets = assets
  None = None
  Tasks = {t1, t2}
  Keys <- MCKeys
  Folders <- MCFolders
  Requests <- MCRequests
  FooterLen = 1
  Quota = 8
  CacheShare = 3
  Megabyte = 1
  MaxRestarts = 1
INVARIANTS
  IndexAgrees
PROPERTIES
  FilesAreKept
  EveryTaskEnds
CHECK_DEADLOCK FALSE
