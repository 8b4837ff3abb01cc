SPECIFICATION FairSpec
CONSTANTS
  k1 = k1
  k2 = k2
  k3 = k3
  NoCall = NoCall
  Calls = {k1, k2, k3}
CHECK_DEADLOCK FALSE
INVARIANTS WaitersAreHeld OverMeansReleased
PROPERTIES RunVerbsAnswered CancelReleasesRunner
