SPECIFICATION FairSpec
CONSTANTS
  Full = 4
  Released <- Halves
  PeakFloor = 1
  MaxGain = 3
  Encoded <- Table
  Sizes = {2, 3}
  PacketPixels = 2
  Brightness = {3, 7}
  Levels = {1, 4}
  Solos <- Chosen
  Steps = {1}
  MaxTime = 2
INVARIANTS TypeOK ControllerShowsWholeFrames
PROPERTIES HighlightsSurvive BlackoutReachesTheRig
