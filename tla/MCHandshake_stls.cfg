CONSTANTS
  AdbMaxPayload <- OneMiB
  Sizes <- AdvertisedSizes
  MaxLayers = 2
SPECIFICATION Spec
INVARIANT DefaultRequiresSTLS
