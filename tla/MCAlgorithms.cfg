SPECIFICATION Spec
CONSTANTS
  Payloads <- SomePayloads
  Alphabets = {62, 86}
  Sizes <- SomeSizes
  NamesGiven <- SomeNames
  Messages <- SomeMessages
  Packets <- SomePackets
  Elements <- SomeElements
  Encodings <- Patterns
  Numbers <- SomeNumbers
  Thirds <- SomeThirds
  PointEncodings <- AllEncodings
  Addends <- SomeAddends
  Hashes = {0, 1, 2, 3, 12, 13, 100}
  Randoms = {1, 5, 12, 30}
  B = 40
  W = 16
  M0 = 13
  M1 = 5
  M3 = 1
  MInverse = 11
  ShortSize = 256
  Prime = 101
  CurveD = 29
  SignBit = 128
  GeneratorBytes = 33
  spakeMEncoded = 26
  spakeNEncoded = 45
  curveOrder = 13
  ScalarBits = 8
INVARIANTS
  QrDecodes
  NamesDecode
  RecordsAreRead
  ArithmeticIsExact
  SpakeAgrees
CHECK_DEADLOCK FALSE
