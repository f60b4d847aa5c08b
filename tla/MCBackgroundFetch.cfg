SPECIFICATION Spec
CONSTANTS
  film = film
  clip = clip
  None = None
  Assets = {film, clip}
  Folders <- MCFolders
  Registered <- MCFolders
  Handled <- MCHandled
  FirstFilter <- video
  Plain <- MCPlain
  Include <- MCInclude
  Calls = {c1, c2}
  Asks <- MCAsks
  Stores <- MCStores
  MaxRestarts = 1
INVARIANTS
  DownloadInv
  ToldIsStored
  NoDoubleDownload
  PendingCanBeReset
PROPERTIES
  ResultIsComplete
  CallsEnd
CHECK_DEADLOCK FALSE
