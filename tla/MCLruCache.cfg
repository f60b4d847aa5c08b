SPECIFICATION Spec
CONSTANTS
  k1 = k1
  k2 = k2
  k3 = k3
  k4 = k4
  media = media
  assets = assets
  None = None
  Keys <- MCKeys
  Values <- MCValues
  max = 3
  maxSize = 4
INVARIANTS
  ListInv
  SizeInv
PROPERTIES
  OldestGoes
  IsRecencyCache
  LoopsEnd
CHECK_DEADLOCK FALSE
