CONSTANTS
  o1 = o1
  o2 = o2
  o3 = o3
  Openers <- ThreeOpeners
  Width = 4
  MaxAdds = 12
SPECIFICATION IdsSpec
SYMMETRY OpenerSymmetry
INVARIANTS
  FoundById
