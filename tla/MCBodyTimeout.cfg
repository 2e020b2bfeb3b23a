CONSTANTS
  Sizes = {1, 2}
  MaxFrames = 3
  Caps = {0, 2, 3, 9}
  Unlimited = 9
  NoCap = NoCap
SPECIFICATION FairSpec
PROPERTIES
  BodyReadEnds
