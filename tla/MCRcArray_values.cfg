SPECIFICATION Spec
CONSTANTS
  x = x
  Raw = Raw
  Zero = Zero
  Null = Null
  h1 = h1
  h2 = h2
  Handles = {h1, h2}
  Blocks = {1, 2, 3}
  Values = {x}
  Literal <- Constant
  Data <- Pieces
  MinCapacity = 3
  MaxSize = 3
  MaxCells = 4
INVARIANTS BlocksConsistent NoLifetimeFault
PROPERTIES ArraySpec FaultsHaveCause
CHECK_DEADLOCK FALSE
VIEW WithoutNames
SYMMETRY Alike
CONSTRAINT FewCells
