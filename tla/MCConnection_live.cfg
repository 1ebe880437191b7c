CONSTANTS
  s1 = s1
  s2 = s2
  c1 = c1
  c2 = c2
  Streams <- OneStream
  Closers <- OneCloser
  RecvCap = 1
  MaxDevWrites = 3
  MaxWrites = 1
SPECIFICATION HostSpec
PROPERTIES
  ShutdownReleasesEveryone
  PeerLossIsNoticed
  CallsReturn
  SentIsRead
  DeliversLikeAPipe
