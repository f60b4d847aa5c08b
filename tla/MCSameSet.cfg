SPECIFICATION Spec
CONSTANTS
  film = film
  clip = clip
  None = None
  Assets = {clip}
  Folders <- MCFolders
  Registered <- MCFolders
  Handled <- MCHandled
  FirstFilter <- video
  Plain <- MCPlain
  Include <- MCInclude
  Calls = {c1, c2}
  Asks <- MCAsksForClip
  Stores <- MCStores
  MaxRestarts = 0
PROPERTY SameSetAttaches
CHECK_DEADLOCK FALSE
