CONSTANTS
  s1 = s1
  s2 = s2
  c1 = c1
  c2 = c2
  Streams <- OneStream
  Closers <- OneCloser
  RecvCap = 1
  MaxDevWrites = 1
  MaxWrites = 0
SPECIFICATION Spec
INVARIANT OpenEndMeansDrained
