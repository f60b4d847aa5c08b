SPECIFICATION Spec
CONSTANTS
  film = film
  pinned = pinned
  media = media
  assets = assets
  None = None
  Tasks = {t1, t2, t3}
  Keys <- MCKeys
  Folders <- MCFolders
  Requests <- MCRequests
  FooterLen = 1
  Quota = 8
  CacheShare = 3
  Megabyte = 1
  MaxRestarts = 0
INVARIANTS
  CacheInv
  IndexAgrees
  AnswersAreTrue
  UseIsSaved
PROPERTIES
  FilesAreKept
  RoomIsMade
SYMMETRY Symmetric
CHECK_DEADLOCK FALSE
