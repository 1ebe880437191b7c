CONSTANTS
  p1 = p1
  p2 = p2
  Procs <- TwoProcs
  Main = p1
  MaxCrashes = 1
  ChanCap = 1
  Airs <- SomeAirs
  Plans <- AllPlans
SPECIFICATION MCSpec
INVARIANTS
  KeyIsKept
  OffersWhatItKnows
  PairingAgrees
PROPERTY OnboardingEnds
