CONSTANTS
  g1 = g1
  g2 = g2
  g3 = g3
  Senders <- ThreeSenders
  MaxSends = 2
SPECIFICATION Spec
SYMMETRY SenderSymmetry
INVARIANTS
  NeverMisframed
PROPERTY AtomicPackets
