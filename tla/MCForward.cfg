CONSTANTS
  k1 = k1
  k2 = k2
  Sockets <- ThreeSockets
  k3 = k3
  Together <- OneOrTwo
  HostChunks <- Requests
  Endings <- HowTheyEnd
  DevChunks <- Responses
SPECIFICATION Spec
INVARIANTS
  ClosedIsQuiet
  RequestIsComplete
  ResponseIsComplete
PROPERTY EndsTogether
