SPECIFICATION FairSpec
CONSTANTS
  SeqMod = 2
  FreshFor = 2
  pose = pose
  status = status
  reader = reader
  Slot = {pose, status}
  Value = {driving, floored}
  Driving = driving
  NoValue = NoValue
  Reader = {reader}
  Watches <- MCWatches
  WireCap = 1
INVARIANTS
  GivenIsRecent
PROPERTIES
  FlooredShows
  SilenceShows
