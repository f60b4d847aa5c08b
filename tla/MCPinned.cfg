SPECIFICATION Spec
CONSTANTS
  film = film
  clip = clip
  pinned = pinned
  media = media
  None = None
  Tasks = {t1, t2}
  Keys <- MCKeys
  Folders <- MCFolders
  Requests <- WithPinned
  FooterLen = 1
  Quota = 20
  CacheShare = 4
  Megabyte = 1
  MaxRestarts = 0
PROPERTY PinnedStays
CHECK_DEADLOCK FALSE
