CONSTANTS
  Sizes = {1, 2}
  MaxFrames = 3
  Caps = {0, 2, 3, 9}
  Unlimited = 9
  NoCap = NoCap
SPECIFICATION FairSpec
INVARIANTS
  TypeOK
  CompleteIsWhole
  OwnerOutlivesStream
  CapIsExact
PROPERTIES
  CollectedIsReleased
