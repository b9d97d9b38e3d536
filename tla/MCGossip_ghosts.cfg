SPECIFICATION Spec
CONSTANTS
  Nodes = {a, b, c}
  Commanded = {}
  Commands = {}
  UICAP = 2
  MaxMoves = 1
  MaxChanges = 0
  Nothing = nothing
SYMMETRY Symmetry
INVARIANTS NoGhosts
