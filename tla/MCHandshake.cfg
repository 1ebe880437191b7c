CONSTANTS
  AdbMaxPayload <- OneMiB
  Sizes <- AdvertisedSizes
  MaxLayers = 2
SPECIFICATION ClientSpec
INVARIANTS
  TypeOK
  OnlineTogether
  AuthInOrder
  ModesDoNotMix
PROPERTIES
  DialEnds
